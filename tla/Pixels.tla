------------------------------- MODULE Pixels -------------------------------
(***************************************************************************)
(* The strip of coloured LEDs: Adafruit_NeoPixel and the effects of        *)
(* stripfn.h.  The brightness of the strip is multiplied into the bytes    *)
(* when a colour is set, and into those that are there when it changes, so *)
(* that every change loses precision.                                      *)
(*                                                                         *)
(* A colour is a record of w, r, g and b; a type of strip one of the       *)
(* positions of their bytes in a pixel, w being that of r without white.   *)
(***************************************************************************)
EXTENDS Integers, SequencesExt

CONSTANTS
    Colours,    \* colours that are set, besides those of the rainbow
    Levels,     \* brightnesses that are set
    Steps,      \* positions of the rainbow
    StripTypes, \* types of strip
    Lengths     \* numbers of pixels

Byte == 0 .. 255
Colour == [w : Byte, r : Byte, g : Byte, b : Byte]
Offset == 0 .. 3

PixelsAssumption ==
    /\ Colours \subseteq Colour /\ Levels \subseteq Byte /\ Steps \subseteq Byte
    /\ StripTypes \subseteq [w : Offset, r : Offset, g : Offset, b : Offset]
    /\ Lengths \subseteq 0 .. 16383   \* numBytes has 16 bits

ASSUME StripAssumption == PixelsAssumption

VARIABLES
    stripType,         \* wOffset, rOffset, gOffset and bOffset
    numLEDs,
    pixels,       \* the bytes; numBytes is their number
    brightness    \* one more than was set: 0 is full brightness

stripVars == <<stripType, numLEDs, pixels, brightness>>

Width(t) == IF t.w = t.r THEN 3 ELSE 4
Dark(n)  == [i \in 1 .. n |-> 0]

\* The constructor, with memory for the pixels or without.
StripInit ==
    /\ stripType \in StripTypes /\ brightness = 0
    /\ numLEDs \in Lengths \cup {0} /\ pixels = Dark(numLEDs * Width(stripType))

-----------------------------------------------------------------------------
(* Colours                                                                   *)

Color(r, g, b) == [w |-> 0, r |-> r, g |-> g, b |-> b]

\* Three thirds of 85 steps.
Wheel(pos) ==
    LET p == 255 - pos IN
    CASE p < 85 -> Color(255 - p * 3, 0, p * 3)
      [] p \in 85 .. 169 -> Color(0, (p - 85) * 3, 255 - (p - 85) * 3)
      [] p >= 170 -> Color((p - 170) * 3, 255 - (p - 170) * 3, 0)

\* The six sides of the hexagon, of 255 hues each, and what rounding adds.
PureHue(hue) ==
    CASE hue < 255 -> <<255, hue, 0>>
      [] hue \in 255 .. 509 -> <<510 - hue, 255, 0>>
      [] hue \in 510 .. 764 -> <<0, 255, hue - 510>>
      [] hue \in 765 .. 1019 -> <<0, 1020 - hue, 255>>
      [] hue \in 1020 .. 1274 -> <<hue - 1020, 0, 255>>
      [] hue \in 1275 .. 1529 -> <<255, 0, 1530 - hue>>
      [] OTHER -> <<255, 0, 0>>

\* 16 bits of hue; the first and the last half of a step are both red.
HueOf1530(hue) == (hue * 1530 + 32768) \div 65536

ColorHSV(hue, sat, val) ==
    LET pure == PureHue(HueOf1530(hue))
        c(i) == ((((pure[i] * (1 + sat)) \div 256) + (255 - sat)) * (1 + val)) \div 256
    IN  Color(c(1), c(2), c(3))

-----------------------------------------------------------------------------
(* The strip                                                                 *)

\* What is stored of a component.
Scaled(v) == IF brightness = 0 THEN v ELSE (v * brightness) \div 256

\* The byte of a colour at a position of a pixel.
ByteOf(c, o) ==
    CASE o = stripType.r -> c.r
      [] o = stripType.g -> c.g
      [] o = stripType.b -> c.b
      [] OTHER -> c.w

\* The pixels in the domain of colour get the colour it says.
Painted(colour) ==
    [i \in DOMAIN pixels |->
        LET n == (i - 1) \div Width(stripType)
        IN  IF n \in DOMAIN colour THEN Scaled(ByteOf(colour[n], (i - 1) % Width(stripType)))
            ELSE pixels[i]]

Paint(colour) == pixels' = Painted(colour) /\ UNCHANGED <<stripType, numLEDs, brightness>>

LEDs == 0 .. numLEDs - 1

\* setPixelColor(): a pixel the strip does not have is ignored.
SetPixelColor(n, c) == Paint([i \in {n} \cap LEDs |-> c])

\* The end is a number of 16 bits; no count means up to the end.
Fill(c, from, count) ==
    LET end == IF count = 0 THEN numLEDs ELSE (from + count) % 65536
    IN  from < numLEDs /\ Paint([i \in {n \in LEDs : from <= n /\ n < end} |-> c])

ColorWipe(c) == Paint([i \in LEDs |-> c])

\* One position of rainbow().
Rainbow(j) == Paint([i \in LEDs |-> Wheel((i + j) % 256)])

Clear ==
    /\ pixels' = Dark(Len(pixels)) /\ UNCHANGED <<stripType, numLEDs, brightness>>

getBrightness == (brightness + 255) % 256

ScaleRoundedUp(b) ==    \* mutant
    CASE getBrightness = 0 -> 0
      [] getBrightness # 0 /\ b = 255 -> 65535 \div getBrightness
      [] OTHER -> (256 * (b + 1) - 1) \div getBrightness + 1

\* The factor for the bytes that are there, in 1/256.
Scale(b) ==
    CASE getBrightness = 0 -> 0
      [] getBrightness # 0 /\ b = 255 -> 65535 \div getBrightness
      [] OTHER -> (256 * (b + 1) - 1) \div getBrightness

SetBrightness(b) ==
    /\ (b + 1) % 256 # brightness
    /\ pixels' = [i \in DOMAIN pixels |-> ((pixels[i] * Scale(b)) \div 256) % 256]
    /\ brightness' = (b + 1) % 256
    /\ UNCHANGED <<stripType, numLEDs>>

\* The pixels are dark; without memory for them there are none.
Allocate(n, t) ==
    /\ numLEDs' \in {n, 0} /\ pixels' = Dark(numLEDs' * Width(t))

UpdateLength(n) == Allocate(n, stripType) /\ UNCHANGED <<stripType, brightness>>

\* A pixel of the same number of bytes keeps them, whatever they mean now.
UpdateType(t) ==
    /\ stripType' = t
    /\ IF Width(t) = Width(stripType) THEN UNCHANGED <<numLEDs, pixels>> ELSE Allocate(numLEDs, t)
    /\ UNCHANGED brightness

\* getPixelColor(): a component as it was before it was scaled, nearly.
ReadComponent(v) == IF brightness = 0 THEN v ELSE (v * 256) \div brightness

StripNext ==
    \/ \E n \in Lengths, c \in Colours : SetPixelColor(n, c)
    \/ \E c \in Colours, from \in 0 .. 1, count \in {0, 1} : Fill(c, from, count)
    \/ \E c \in Colours : ColorWipe(c)
    \/ \E j \in Steps : Rainbow(j)
    \/ Clear
    \/ \E b \in Levels : SetBrightness(b)
    \/ \E n \in Lengths : UpdateLength(n)
    \/ \E t \in StripTypes : UpdateType(t)

StripSpec == StripInit /\ [][StripNext]_stripVars

-----------------------------------------------------------------------------
(* Properties                                                                *)

TypeOK ==
    /\ stripType \in StripTypes /\ numLEDs \in Nat /\ brightness \in Byte
    /\ pixels \in Seq(Byte) /\ Len(pixels) = numLEDs * Width(stripType)

\* No LED is brighter than the strip is set to, whatever was set before and
\* however often the brightness went up and down; and no component that is
\* read back spills into the one beside it in the packed colour.
WithinBrightness ==
    \A i \in DOMAIN pixels :
        pixels[i] <= getBrightness /\ ReadComponent(pixels[i]) \in Byte

\* Two colours that differ by so much at most.
Near(c, d, most) ==
    \A k \in {"r", "g", "b"} : c[k] - d[k] \in -most .. most

\* The wheel has no jump anywhere, nor where it begins again, and is equally
\* bright all around.
WheelIsSmooth(pos) ==
    LET c == Wheel(pos)
    IN  c \in Colour /\ c.r + c.g + c.b = 255 /\ Near(c, Wheel((pos + 1) % 256), 3)

\* Nor has the circle of hues: from one to the next, a component changes by
\* one, so that all 1530 differ from those beside them.
HuesAreSmooth(hue) ==
    LET c == ColorHSV(hue, 255, 255)
        d == ColorHSV((hue + 1) % 65536, 255, 255)
    IN  /\ Near(c, d, 1)
        /\ c = d <=> HueOf1530(hue) % 1530 = HueOf1530((hue + 1) % 65536) % 1530
=============================================================================
