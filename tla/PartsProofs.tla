---------------------------- MODULE PartsProofs -----------------------------
(***************************************************************************)
(* Proofs about parts that share no state with any other: the strip of     *)
(* LEDs, the configuration file, the status LED, the clock, the editor of  *)
(* files and the administration pages, each for every value of its         *)
(* constants.                                                              *)
(*                                                                         *)
(* The strip.  The bytes are bounded by the brightness they were scaled to *)
(* last: TypeOK and Bounded are one inductive invariant, and what a reader *)
(* of a pixel gets follows from it.  The arithmetic is in lemmas about     *)
(* numbers, before the steps.                                              *)
(***************************************************************************)
EXTENDS Pixels, ConfigFile, StatusLed, Clock, FileEditor, AdminPages, SequenceTheorems,
        FiniteSetTheorems, TLAPS

Bounded == \A i \in DOMAIN pixels : pixels[i] <= getBrightness

IInv == TypeOK /\ Bounded

-----------------------------------------------------------------------------
(* Numbers                                                                  *)

\* What integer division leaves.
LEMMA Division ==
    ASSUME NEW a \in Nat, NEW d \in Nat \ {0}
    PROVE  /\ a \div d \in Nat
           /\ d * (a \div d) <= a
           /\ a < d * (a \div d) + d
  OBVIOUS

\* A quotient is at most q when the dividend is below q + 1 times the divisor.
LEMMA QuotientBound ==
    ASSUME NEW a \in Nat, NEW d \in Nat \ {0}, NEW q \in Nat, a < d * (q + 1)
    PROVE  a \div d <= q
  <1>1. a \div d \in Nat /\ d * (a \div d) <= a
    BY Division
  <1>2. SUFFICES ASSUME a \div d >= q + 1  PROVE FALSE
    BY <1>1
  <1>3. d * (a \div d) >= d * (q + 1)
    BY <1>1, <1>2
  <1> QED  BY <1>1, <1>3

\* Products grow with their factors.
LEMMA ProductGrows ==
    ASSUME NEW a \in Nat, NEW b \in Nat, NEW c \in Nat, a <= b
    PROVE  a * c \in Nat /\ a * c <= b * c
  OBVIOUS

\* A component that is stored is at most the brightness of the strip.
LEMMA StoredWithin ==
    ASSUME NEW v \in Byte, NEW k \in 1 .. 255
    PROVE  (v * k) \div 256 \in 0 .. k - 1
  <1>1. v * k \in Nat /\ v * k <= 255 * k
    BY ProductGrows DEF Byte
  <1>2. v * k < 256 * ((k - 1) + 1)
    BY <1>1
  <1>3. (v * k) \div 256 <= k - 1
    BY <1>1, <1>2, QuotientBound
  <1> QED  BY <1>1, <1>3, Division

\* The factor of setBrightness() does not take a byte that is within the old
\* brightness beyond the new one: the remainder of the division is lost.
LEMMA RescaledWithin ==
    ASSUME NEW old \in 1 .. 255, NEW v \in 0 .. old, NEW b \in Byte,
           NEW n \in Nat, n <= 256 * (b + 1) - 1
    PROVE  (v * (n \div old)) \div 256 \in 0 .. b
  <1> DEFINE s == n \div old
  <1>1. s \in Nat /\ old * s <= n
    BY Division
  <1> HIDE DEF s
  <1>2. v * s \in Nat /\ v * s <= old * s
    BY <1>1, ProductGrows
  <1>3. v * s < 256 * (b + 1)
    BY <1>1, <1>2 DEF Byte
  <1>4. (v * s) \div 256 <= b
    BY <1>2, <1>3, QuotientBound DEF Byte
  <1> QED  BY <1>2, <1>4, Division DEF s

\* A byte that is within the brightness is read back as a byte.
LEMMA ReadWithin ==
    ASSUME NEW v \in Nat, NEW k \in 1 .. 255, v <= k - 1
    PROVE  (v * 256) \div k \in Byte
  <1>1. v * 256 \in Nat /\ v * 256 < k * (255 + 1)
    OBVIOUS
  <1>2. (v * 256) \div k <= 255
    BY <1>1, QuotientBound
  <1> QED  BY <1>1, <1>2, Division DEF Byte

-----------------------------------------------------------------------------
(* Colours                                                                  *)

\* Every position of the wheel is a colour.
LEMMA WheelIsColour == \A pos \in Byte : Wheel(pos) \in Colour
  BY DEF Wheel, Color, Colour, Byte

\* Lengths and positions of the rainbow are numbers.
LEMMA Numbers == Lengths \subseteq Nat /\ Steps \subseteq Nat /\ 255 \in Byte
  <1>1. ASSUME NEW n \in Lengths  PROVE n \in Nat
    <2>1. n \in 0 .. 16383
      BY StripAssumption DEF PixelsAssumption
    <2> QED  BY <2>1
  <1>2. ASSUME NEW j \in Steps  PROVE j \in Nat
    <2>1. j \in 0 .. 255
      BY StripAssumption DEF PixelsAssumption, Byte
    <2> QED  BY <2>1
  <1>3. Lengths \subseteq Nat /\ Steps \subseteq Nat
    BY <1>1, <1>2
  <1>4. 255 \in Byte
    BY DEF Byte
  <1> QED  BY <1>3, <1>4

LEMMA LEDsAreNumbers == ASSUME numLEDs \in Nat  PROVE LEDs \subseteq Nat
  BY DEF LEDs

\* What getBrightness() makes of the stored brightness.
LEMMA BrightnessRead ==
    ASSUME brightness \in Byte
    PROVE  /\ getBrightness \in Byte
           /\ brightness = 0 => getBrightness = 255
           /\ brightness # 0 => brightness \in 1 .. 255 /\ getBrightness = brightness - 1
  BY DEF getBrightness, Byte

\* The position of a rainbow is on the wheel.
LEMMA OnTheWheel == \A i, j \in Nat : (i + j) % 256 \in Byte
  BY DEF Byte

\* What is stored of a byte is a byte within the brightness.
LEMMA ScaledWithin ==
    ASSUME TypeOK, NEW v \in Byte
    PROVE  Scaled(v) \in Byte /\ Scaled(v) <= getBrightness
  <1>1. CASE brightness = 0
    BY <1>1 DEF Scaled, getBrightness, Byte
  <1>2. CASE brightness # 0
    <2>1. brightness \in 1 .. 255 /\ getBrightness = brightness - 1
      BY <1>2, BrightnessRead DEF TypeOK
    <2>2. (v * brightness) \div 256 \in 0 .. brightness - 1
      BY <2>1, StoredWithin
    <2> QED  BY <1>2, <2>1, <2>2 DEF Scaled, Byte
  <1> QED  BY <1>1, <1>2

\* Bytes are written where there are bytes, and stay within the brightness.
LEMMA PaintedWithin ==
    ASSUME IInv, NEW colour, \A n \in DOMAIN colour : colour[n] \in Colour, Paint(colour)
    PROVE  IInv'
  <1>1. \A i \in DOMAIN pixels :
           LET v == Painted(colour)[i] IN v \in Byte /\ v <= getBrightness
    <2> SUFFICES ASSUME NEW i \in DOMAIN pixels
                 PROVE  LET v == Painted(colour)[i] IN v \in Byte /\ v <= getBrightness
      OBVIOUS
    <2> DEFINE n == (i - 1) \div Width(stripType)
               o == (i - 1) % Width(stripType)
    <2>1. i \in Nat \ {0} /\ Width(stripType) \in {3, 4}
      BY DEF IInv, TypeOK, Width
    <2> HIDE DEF n, o
    <2>4. CASE n \in DOMAIN colour
      <3>1. Painted(colour)[i] = Scaled(ByteOf(colour[n], o))
        BY <2>4 DEF Painted, n, o
      <3>2. ByteOf(colour[n], o) \in Byte
        BY <2>4 DEF ByteOf, Colour
      <3> QED  BY <3>1, <3>2, ScaledWithin DEF IInv
    <2>5. CASE n \notin DOMAIN colour
      <3>1. Painted(colour)[i] = pixels[i]
        BY <2>5 DEF Painted, n
      <3> QED  BY <3>1 DEF IInv, TypeOK, Bounded
    <2> QED  BY <2>4, <2>5
  <1>2. DOMAIN Painted(colour) = DOMAIN pixels /\ DOMAIN pixels = 1 .. Len(pixels)
    BY DEF Painted, IInv, TypeOK
  <1>3. Painted(colour) = [i \in 1 .. Len(pixels) |-> Painted(colour)[i]]
    BY <1>2 DEF Painted
  <1>4. pixels' \in Seq(Byte) /\ Len(pixels') = Len(pixels)
    BY <1>1, <1>2, <1>3 DEF IInv, TypeOK, Paint
  <1>5. Bounded'
    BY <1>1, <1>2 DEF Bounded, getBrightness, Paint
  <1> QED  BY <1>4, <1>5 DEF IInv, TypeOK, Width, Paint

\* What is dark is within every brightness.
LEMMA DarkWithin ==
    ASSUME NEW n \in Nat, NEW k \in Nat
    PROVE  /\ Dark(n * k) \in Seq(Byte) /\ Len(Dark(n * k)) = n * k
           /\ \A i \in DOMAIN Dark(n * k) : Dark(n * k)[i] = 0
  <1>1. n * k \in Nat
    OBVIOUS
  <1> QED  BY <1>1 DEF Dark, Byte

-----------------------------------------------------------------------------
(* Steps                                                                    *)

\* A strip is constructed dark.
LEMMA InitIInv == StripInit => IInv
  <1> SUFFICES ASSUME StripInit  PROVE IInv
    OBVIOUS
  <1>1. stripType \in StripTypes /\ numLEDs \in Nat /\ brightness = 0 /\ Width(stripType) \in {3, 4}
    BY StripAssumption DEF StripInit, PixelsAssumption, Width
  <1>2. pixels = Dark(numLEDs * Width(stripType)) /\ getBrightness = 255
    BY <1>1 DEF StripInit, getBrightness
  <1>3. /\ pixels \in Seq(Byte) /\ Len(pixels) = numLEDs * Width(stripType)
        /\ \A i \in DOMAIN pixels : pixels[i] = 0
    <2>1. Width(stripType) \in Nat
      BY <1>1
    <2> QED  BY <1>1, <1>2, <2>1, DarkWithin
  <1>4. brightness \in Byte
    BY <1>1 DEF Byte
  <1> QED  BY <1>1, <1>2, <1>3, <1>4 DEF IInv, TypeOK, Bounded

\* A change of the brightness scales the bytes that are there.
LEMMA SetBrightnessKeeps ==
    ASSUME IInv, NEW b \in Levels, SetBrightness(b)
    PROVE  IInv'
  <1> DEFINE Rescaled(v) == ((v * Scale(b)) \div 256) % 256
  <1>1. b \in Byte /\ getBrightness \in Byte
    BY StripAssumption, BrightnessRead DEF PixelsAssumption, IInv, TypeOK
  <1>0. getBrightness' = b
    BY <1>1 DEF getBrightness, SetBrightness, Byte
  <1>2. \A v \in 0 .. getBrightness : Rescaled(v) \in 0 .. b
    <2> SUFFICES ASSUME NEW v \in 0 .. getBrightness  PROVE Rescaled(v) \in 0 .. b
      OBVIOUS
    <2>1. CASE getBrightness = 0
      BY <1>1, <2>1 DEF Scale, Byte
    <2>2. CASE getBrightness # 0
      <3>1. getBrightness \in 1 .. 255
        BY <1>1, <2>2 DEF Byte
      <3>2. CASE b = 255
        <4>1. PICK n \in Nat : n = 65535
          OBVIOUS
        <4>2. n <= 256 * (b + 1) - 1 /\ v \in 0 .. getBrightness
          BY <3>2, <4>1
        <4>3. Scale(b) = n \div getBrightness
          BY <2>2, <3>2, <4>1 DEF Scale
        <4>4. (v * (n \div getBrightness)) \div 256 \in 0 .. b
          BY <1>1, <3>1, <4>2, RescaledWithin
        <4> QED  BY <3>2, <4>3, <4>4
      <3>3. CASE b # 255
        <4>1. Scale(b) = (256 * (b + 1) - 1) \div getBrightness
          BY <2>2, <3>3 DEF Scale
        <4>2. 256 * (b + 1) - 1 \in Nat
          BY <1>1 DEF Byte
        <4>3. (v * Scale(b)) \div 256 \in 0 .. b
          <5>1. 256 * (b + 1) - 1 <= 256 * (b + 1) - 1
            BY <4>2
          <5>2. v \in 0 .. getBrightness
            OBVIOUS
          <5> QED  BY <1>1, <3>1, <4>1, <4>2, <5>1, <5>2, RescaledWithin
        <4> QED  BY <1>1, <4>3 DEF Byte
      <3> QED  BY <3>2, <3>3
    <2> QED  BY <2>1, <2>2
  <1>3. pixels' = [i \in 1 .. Len(pixels) |-> Rescaled(pixels[i])]
    BY DEF SetBrightness, IInv, TypeOK
  <1> HIDE DEF Rescaled
  <1>4. \A i \in 1 .. Len(pixels) : Rescaled(pixels[i]) \in Byte /\ Rescaled(pixels[i]) <= b
    <2> SUFFICES ASSUME NEW i \in 1 .. Len(pixels)
                 PROVE  Rescaled(pixels[i]) \in Byte /\ Rescaled(pixels[i]) <= b
      OBVIOUS
    <2>1. pixels[i] \in Byte /\ pixels[i] <= getBrightness
      BY DEF IInv, TypeOK, Bounded
    <2>2. \A v \in Byte : v <= getBrightness => v \in 0 .. getBrightness
      BY <1>1 DEF Byte
    <2>3. Rescaled(pixels[i]) \in 0 .. b
      BY <1>2, <2>1, <2>2
    <2>4. \A v \in 0 .. b : v \in Byte /\ v <= b
      BY <1>1 DEF Byte
    <2> QED  BY <2>3, <2>4
  <1>5. pixels' \in Seq(Byte) /\ Len(pixels') = Len(pixels)
    BY <1>3, <1>4 DEF IInv, TypeOK
  <1>6. Bounded'
    BY <1>0, <1>3, <1>4 DEF Bounded
  <1>7. stripType' = stripType /\ numLEDs' = numLEDs /\ brightness' \in Byte
    BY <1>1 DEF SetBrightness, Byte
  <1> QED  BY <1>5, <1>6, <1>7 DEF IInv, TypeOK, Width

\* New memory for the pixels is dark.
LEMMA AllocatedIsDark ==
    ASSUME IInv, NEW m \in Nat, NEW u \in StripTypes, Allocate(m, u), stripType' = u,
           UNCHANGED brightness
    PROVE  IInv'
  <1>1. numLEDs' \in Nat /\ Width(u) \in Nat /\ pixels' = Dark(numLEDs' * Width(u))
    BY DEF Allocate, Width
  <1>2. /\ pixels' \in Seq(Byte) /\ Len(pixels') = numLEDs' * Width(u)
        /\ \A i \in DOMAIN pixels' : pixels'[i] = 0
    BY <1>1, DarkWithin
  <1>3. getBrightness' \in Byte
    BY BrightnessRead DEF IInv, TypeOK, getBrightness
  <1>4. Bounded'
    BY <1>2, <1>3 DEF Bounded, Byte
  <1> QED  BY <1>1, <1>2, <1>4 DEF IInv, TypeOK, Width

LEMMA UpdateLengthKeeps ==
    ASSUME IInv, NEW n \in Lengths, UpdateLength(n)
    PROVE  IInv'
  BY Numbers, AllocatedIsDark DEF UpdateLength, IInv, TypeOK

\* With another stripType, the bytes are those that are there, or dark.
LEMMA UpdateTypeKeeps ==
    ASSUME IInv, NEW t \in StripTypes, UpdateType(t)
    PROVE  IInv'
  <1>1. CASE Width(t) = Width(stripType)
    BY <1>1 DEF UpdateType, IInv, TypeOK, Bounded, getBrightness, Width
  <1>2. CASE Width(t) # Width(stripType)
    BY <1>2, AllocatedIsDark DEF UpdateType, IInv, TypeOK
  <1> QED  BY <1>1, <1>2

\* The invariant is inductive.
LEMMA StepIInv == IInv /\ [StripNext]_stripVars => IInv'
  <1> SUFFICES ASSUME IInv, [StripNext]_stripVars  PROVE IInv'
    OBVIOUS
  <1>1. CASE \E n \in Lengths, c \in Colours : SetPixelColor(n, c)
    <2>1. PICK n \in Lengths, c \in Colours : SetPixelColor(n, c)
      BY <1>1
    <2> QED  BY <2>1, StripAssumption, PaintedWithin DEF SetPixelColor, PixelsAssumption
  <1>2. CASE \E c \in Colours, from \in 0 .. 1, count \in {0, 1} : Fill(c, from, count)
    <2>1. PICK c \in Colours, from \in 0 .. 1, count \in {0, 1} : Fill(c, from, count)
      BY <1>2
    <2> QED  BY <2>1, StripAssumption, PaintedWithin DEF Fill, PixelsAssumption
  <1>3. CASE \E c \in Colours : ColorWipe(c)
    <2>1. PICK c \in Colours : ColorWipe(c)
      BY <1>3
    <2> QED  BY <2>1, StripAssumption, PaintedWithin DEF ColorWipe, PixelsAssumption
  <1>4. CASE \E j \in Steps : Rainbow(j)
    <2>1. PICK j \in Steps : Rainbow(j)
      BY <1>4
    <2>2. \A i \in LEDs : Wheel((i + j) % 256) \in Colour
      <3>1. j \in Nat /\ LEDs \subseteq Nat
        BY Numbers, LEDsAreNumbers DEF IInv, TypeOK
      <3> QED  BY <3>1, WheelIsColour, OnTheWheel
    <2> QED  BY <2>1, <2>2, PaintedWithin DEF Rainbow
  <1>5. CASE Clear
    <2>1. /\ pixels' \in Seq(Byte) /\ Len(pixels') = Len(pixels)
          /\ \A i \in DOMAIN pixels' : pixels'[i] = 0
      BY <1>5 DEF Clear, Dark, IInv, TypeOK, Byte
    <2>2. getBrightness' \in Byte
      BY <1>5, BrightnessRead DEF Clear, IInv, TypeOK, getBrightness
    <2> QED  BY <1>5, <2>1, <2>2 DEF Clear, IInv, TypeOK, Bounded, Width, Byte
  <1>6. CASE \E b \in Levels : SetBrightness(b)
    BY <1>6, SetBrightnessKeeps
  <1>7. CASE \E n \in Lengths : UpdateLength(n)
    BY <1>7, UpdateLengthKeeps
  <1>8. CASE \E t \in StripTypes : UpdateType(t)
    <2>1. PICK t \in StripTypes : UpdateType(t)
      BY <1>8
    <2> QED  BY <2>1, UpdateTypeKeeps
  <1>9. CASE UNCHANGED stripVars
    BY <1>9 DEF stripVars, IInv, TypeOK, Bounded, getBrightness, Width
  <1> QED  BY <1>1, <1>2, <1>3, <1>4, <1>5, <1>6, <1>7, <1>8, <1>9 DEF StripNext

\* A byte within the brightness is read back as a byte.
LEMMA IInvImpliesWithin == IInv => WithinBrightness
  <1> SUFFICES ASSUME IInv, NEW i \in DOMAIN pixels
               PROVE  pixels[i] <= getBrightness /\ ReadComponent(pixels[i]) \in Byte
    BY DEF WithinBrightness
  <1>1. pixels[i] \in Byte /\ pixels[i] <= getBrightness
    BY DEF IInv, TypeOK, Bounded
  <1>2. CASE brightness = 0
    BY <1>1, <1>2 DEF ReadComponent
  <1>3. CASE brightness # 0
    <2>1. brightness \in 1 .. 255 /\ getBrightness = brightness - 1
      BY <1>3, BrightnessRead DEF IInv, TypeOK
    <2>2. pixels[i] \in Nat
      BY <1>1 DEF Byte
    <2>3. (pixels[i] * 256) \div brightness \in Byte
      BY <1>1, <2>1, <2>2, ReadWithin
    <2> QED  BY <1>1, <1>3, <2>3 DEF ReadComponent
  <1> QED  BY <1>2, <1>3

-----------------------------------------------------------------------------
\* The bytes of the strip are as many as its type and length say, and bytes.
THEOREM StripTypeCorrect == StripSpec => []TypeOK
  <1>1. IInv => TypeOK
    BY DEF IInv
  <1> QED  BY <1>1, InitIInv, StepIInv, PTL DEF StripSpec

\* No LED is brighter than the strip is set to, however often the brightness
\* of what is there was changed, and every component is read back as a byte.
THEOREM StripWithinBrightness == StripSpec => []WithinBrightness
  BY InitIInv, StepIInv, IInvImpliesWithin, PTL DEF StripSpec

-----------------------------------------------------------------------------
(* The configuration file                                                   *)

ConfigSpec == ConfigInit /\ [][ConfigNext]_configVars

\* The fields f have what the requests have sent.
Holds(f, w) == \A k \in DOMAIN w : k \in DOMAIN f /\ f[k] = w[k]

IsDocument == file = File(file.fields)

\* While the file is open, what is going to be written is in memory.
ConfigIInv ==
    /\ commit \in {"down", "idle", "writing"}
    /\ file = Missing \/ file = Broken \/ IsDocument
    /\ commit = "writing" => file = Broken /\ ~spoiled /\ Holds(document, wanted)
    /\ IsDocument => Holds(file.fields, wanted)
    /\ spoiled => file = Broken
    /\ file = Missing => commit = "down" /\ DOMAIN wanted = {}
    /\ file = Broken => commit = "writing" \/ spoiled

\* A file is of one kind.
LEMMA FileKinds ==
    /\ Missing # Broken /\ Missing.is # "file" /\ Broken.is # "file"
    /\ \A f : File(f) # Missing /\ File(f) # Broken /\ File(f).is = "file" /\ File(f).fields = f
  BY DEF Missing, Broken, File

\* What a request has sent goes to the file and to the fields that are wanted alike.
LEMMA OverHolds ==
    ASSUME NEW f, NEW w, NEW i, Holds(f, w)
    PROVE  Holds(Over(f, i), Over(w, i))
  BY DEF Holds, Over

LEMMA ConfigStarts == ConfigInit => ConfigIInv
  <1> SUFFICES ASSUME ConfigInit  PROVE ConfigIInv
    OBVIOUS
  <1>1. DOMAIN wanted = {}
    BY DEF ConfigInit, None
  <1>2. \A f : Holds(f, wanted)
    BY <1>1 DEF Holds
  <1>3. spoiled <=> file = Broken
    BY DEF ConfigInit
  <1>4. file = Missing \/ file = Broken \/ IsDocument
    BY FileKinds DEF ConfigInit, IsDocument
  <1> QED  BY <1>1, <1>2, <1>3, <1>4, FileKinds DEF ConfigInit, ConfigIInv

LEMMA ConfigInitKeeps == ASSUME ConfigIInv, init  PROVE ConfigIInv'
  <1>1. CASE file = Missing
    <2>1. commit' = "writing" /\ file' = Broken /\ wanted' = wanted /\ spoiled' = spoiled
      BY <1>1 DEF init
    <2>2. DOMAIN wanted = {} /\ ~spoiled
      BY <1>1, FileKinds DEF ConfigIInv
    <2>3. Holds(document', wanted')
      BY <2>1, <2>2 DEF Holds
    <2>4. ~IsDocument'
      BY <2>1, FileKinds DEF IsDocument
    <2> QED  BY <2>1, <2>2, <2>3, <2>4, FileKinds DEF ConfigIInv
  <1>2. CASE file # Missing
    <2>1. commit' = "idle" /\ file' = file /\ wanted' = wanted /\ spoiled' = spoiled /\ commit = "down"
      BY <1>2 DEF init
    <2>2. IsDocument' <=> IsDocument
      BY <2>1 DEF IsDocument
    <2> QED  BY <1>2, <2>1, <2>2 DEF ConfigIInv
  <1> QED  BY <1>1, <1>2

LEMMA SaveKeeps == ASSUME ConfigIInv, NEW params, saveConfig(params)  PROVE ConfigIInv'
  <1>1. CASE file.is = "file"
    <2>1. IsDocument
      BY <1>1, FileKinds DEF ConfigIInv
    <2>2. commit' = "writing" /\ document' = file.fields /\ file' = Broken /\ wanted' = wanted /\ spoiled' = spoiled
      BY <1>1 DEF saveConfig
    <2>3. Holds(document', wanted')
      BY <2>1, <2>2 DEF ConfigIInv
    <2>4. ~spoiled
      BY <1>1, FileKinds DEF ConfigIInv
    <2>5. ~IsDocument'
      BY <2>2, FileKinds DEF IsDocument
    <2> QED  BY <2>2, <2>3, <2>4, <2>5, FileKinds DEF ConfigIInv
  <1>2. CASE file.is # "file"
    <2>1. UNCHANGED <<commit, document, file, wanted, spoiled>>
      BY <1>2 DEF saveConfig
    <2> QED  BY <2>1 DEF ConfigIInv, IsDocument
  <1> QED  BY <1>1, <1>2

LEMMA CommitKeeps == ASSUME ConfigIInv, CommitEnds  PROVE ConfigIInv'
  <1>1. /\ commit = "writing" /\ commit' = "idle" /\ spoiled' = spoiled
        /\ file' = File(Over(document, items)) /\ wanted' = Over(wanted, items)
    BY DEF CommitEnds, Printed
  <1>2. ~spoiled /\ Holds(document, wanted)
    BY <1>1 DEF ConfigIInv
  <1>3. IsDocument' /\ Holds(file'.fields, wanted')
    BY <1>1, <1>2, OverHolds, FileKinds DEF IsDocument
  <1>4. file' # Missing /\ file' # Broken
    BY <1>1, FileKinds
  <1> QED  BY <1>1, <1>2, <1>3, <1>4 DEF ConfigIInv

LEMMA RestartKeeps == ASSUME ConfigIInv, Restart  PROVE ConfigIInv'
  <1>1. /\ commit # "down" /\ commit' = "down" /\ spoiled' = (spoiled \/ commit = "writing")
        /\ file' = file /\ wanted' = wanted
    BY DEF Restart
  <1>2. IsDocument' <=> IsDocument
    BY <1>1 DEF IsDocument
  <1>3. spoiled' => file = Broken
    BY <1>1 DEF ConfigIInv
  <1>4. file = Broken => spoiled'
    BY <1>1 DEF ConfigIInv
  <1> QED  BY <1>1, <1>2, <1>3, <1>4 DEF ConfigIInv

LEMMA StepConfig == ConfigIInv /\ [ConfigNext]_configVars => ConfigIInv'
  <1> SUFFICES ASSUME ConfigIInv, [ConfigNext]_configVars  PROVE ConfigIInv'
    OBVIOUS
  <1>1. CASE UNCHANGED configVars
    BY <1>1 DEF configVars, ConfigIInv, IsDocument
  <1>2. CASE init \/ CommitEnds \/ Restart
    BY <1>2, ConfigInitKeeps, CommitKeeps, RestartKeeps
  <1>3. ASSUME NEW names \in SUBSET Fields, NEW value \in FieldValues, NEW post \in BOOLEAN,
               saveConfig([i \in 1 .. Cardinality(names) |->
                              [name |-> SetToSeq(names)[i], value |-> value, post |-> post]])
        PROVE  ConfigIInv'
    BY <1>3, SaveKeeps
  <1> QED  BY <1>1, <1>2, <1>3 DEF ConfigNext

\* The file has what was sent to it, for any fields, values, requests and restarts.
THEOREM ConfigSurvives == ConfigSpec => []ConfigIsKept
  <1>1. ConfigIInv => ConfigIsKept
    <2> SUFFICES ASSUME ConfigIInv  PROVE ConfigIsKept
      OBVIOUS
    <2>1. file.is = "file" <=> IsDocument
      BY FileKinds DEF ConfigIInv, IsDocument
    <2>2. ~spoiled /\ commit = "idle" => IsDocument
      BY DEF ConfigIInv
    <2> QED  BY <2>1, <2>2 DEF ConfigIInv, ConfigIsKept, Holds
  <1> QED  BY <1>1, ConfigStarts, StepConfig, PTL DEF ConfigSpec

-----------------------------------------------------------------------------
(* The status LED.  What a tick does is told apart by what the pin and the  *)
(* tickers have done since the last call: nothing yet; or the pin is what   *)
(* the tickers keep as its state, and lit by the last change for as long    *)
(* as they count, or lit by this change but also before it.                 *)

LedSpec == LedInit /\ [][LedNext]_ledVars

LedTypes ==
    /\ pin \in BOOLEAN
    /\ led \in [state : BOOLEAN, ready : BOOLEAN, prev_active : Nat]
    /\ ticker \in [period : Nat, left : Nat]
    /\ watch \in Nat /\ lit \in Nat /\ blinking \in Nat

Blinks == ticker.period # 0

\* The tickers have not written the pin since the last call: that was too short a time ago.
Unwritten == blinking <= led.prev_active /\ blinking + watch <= MaxLit + WatchPeriod

\* How long a lit LED has been seen by the watch, and when it is changed again.
Counted ==
    /\ led.prev_active + watch <= MaxLit + WatchPeriod
    /\ led.prev_active + ticker.left = ticker.period

\* The LED has been dark, and the tickers count how long it is lit.
Clean ==
    /\ pin = led.state
    /\ led.state => Counted /\ lit <= led.prev_active

\* The tickers have changed the LED that was lit, and it still is.
StillLit ==
    /\ pin /\ led.state /\ Counted
    /\ blinking <= MaxLit + WatchPeriod + led.prev_active

LedIInv ==
    /\ LedTypes
    /\ ~pin => lit = 0
    /\ Blinks => /\ watch \in 1 .. WatchPeriod /\ ticker.left \in 1 .. ticker.period
                 /\ ticker.period \in Periods
                 /\ Unwritten \/ Clean \/ StillLit
    /\ ~Blinks => blinking = 0

\* Nothing is blinking yet.
LEMMA LedStarts == LedInit => LedIInv
  BY DEF LedInit, LedIInv, LedTypes, Blinks, Age

\* A call begins the count anew.
LEMMA CallCounts ==
    ASSUME LedIInv, LedTypes', blinking' = 0, led'.prev_active = led.prev_active, ~pin' => lit' = 0,
           Blinks' => /\ watch' \in 1 .. WatchPeriod /\ ticker'.left \in 1 .. ticker'.period
                      /\ ticker'.period \in Periods
    PROVE  LedIInv'
  <1>1. led'.prev_active \in Nat
    BY DEF LedTypes
  <1>2. Blinks' => watch' \in Nat /\ watch' <= 3
    BY DEF WatchPeriod
  <1>3. Blinks' => Unwritten'
    BY <1>1, <1>2 DEF Unwritten, MaxLit, WatchPeriod
  <1> QED  BY <1>3 DEF LedIInv

LEMMA LevelKeeps ==
    ASSUME LedIInv, NEW high \in BOOLEAN, Level(high)
    PROVE  pin' \in BOOLEAN /\ lit' \in Nat /\ (~pin' => lit' = 0)
  BY DEF Level, LedIInv, LedTypes

LEMMA SetPinKeeps == ASSUME LedIInv, setPin  PROVE LedIInv'
  <1>1. LedTypes' /\ led'.prev_active = led.prev_active
    BY LevelKeeps DEF setPin, LedCall, LedIInv, LedTypes
  <1> QED  BY <1>1, LevelKeeps, CallCounts DEF setPin, LedCall, LedIInv, Blinks

LEMMA SetKeeps == ASSUME LedIInv, NEW high \in BOOLEAN, set(high)  PROVE LedIInv'
  <1>1. LedTypes' /\ led'.prev_active = led.prev_active
    BY LevelKeeps DEF set, LedCall, LedIInv, LedTypes
  <1> QED  BY <1>1, LevelKeeps, CallCounts DEF set, LedCall, LedIInv, Blinks

LEMMA ToggleKeeps == ASSUME LedIInv, toggle  PROVE LedIInv'
  <1>1. Level(~led.state) /\ (~led.state) \in BOOLEAN
    BY DEF toggle
  <1>2. LedTypes' /\ led'.prev_active = led.prev_active
    BY <1>1, LevelKeeps DEF toggle, LedCall, LedIInv, LedTypes
  <1> QED  BY <1>1, <1>2, LevelKeeps, CallCounts DEF toggle, LedCall, LedIInv, Blinks

LEMMA DetachKeeps == ASSUME LedIInv, detach  PROVE LedIInv'
  <1>1. LedTypes' /\ ~Blinks'
    BY DEF detach, LedCall, LedIInv, LedTypes, Blinks
  <1> QED  BY <1>1, CallCounts DEF detach, LedCall, LedIInv

LEMMA BlinkKeeps ==
    ASSUME LedAssumption, LedIInv, NEW period \in Periods, blink(period)
    PROVE  LedIInv'
  <1>1. period \in Nat \ {0}
    BY DEF LedAssumption
  <1>2. LedTypes'
    BY <1>1 DEF blink, LedCall, LedIInv, LedTypes, WatchPeriod
  <1>3. CASE led.ready
    <2>1. /\ watch' \in 1 .. WatchPeriod /\ ticker'.left \in 1 .. ticker'.period
          /\ ticker'.period \in Periods
      BY <1>1, <1>3 DEF blink, WatchPeriod
    <2> QED  BY <1>2, <2>1, CallCounts DEF blink, LedCall, LedIInv
  <1>4. CASE ~led.ready
    BY <1>2, <1>4, CallCounts DEF blink, LedCall, LedIInv, Blinks
  <1> QED  BY <1>3, <1>4

-----------------------------------------------------------------------------
(* A tick of the status LED                                                 *)

LedRecord == [state : BOOLEAN, ready : BOOLEAN, prev_active : Nat]

LEMMA OlderIs ==
    ASSUME NEW n \in Nat
    PROVE  /\ Older(n) \in Nat /\ Older(n) <= n + 1
           /\ n <= 19 => Older(n) = n + 1
           /\ \A m \in Nat : m <= n => Older(m) <= Older(n)
  BY DEF Older, Age

LEMMA ToggledIs ==
    ASSUME NEW l \in LedRecord
    PROVE  /\ Toggled(l) \in LedRecord
           /\ Toggled(l).state = ~l.state
           /\ l.state => Toggled(l).prev_active = l.prev_active
           /\ ~l.state => Toggled(l).prev_active = 0
  BY DEF Toggled, LedRecord

LEMMA WatchedIs ==
    ASSUME NEW l \in LedRecord
    PROVE  /\ Watched(l) \in LedRecord
           /\ l.prev_active > MaxLit => ~Watched(l).state /\ Watched(l).prev_active = 0
           /\ l.prev_active <= MaxLit => Watched(l) = l
  <1>1. CASE l.prev_active > MaxLit
    <2>1. Watched(l) = [l EXCEPT !.prev_active = 0, !.state = FALSE]
      BY <1>1 DEF Watched
    <2>2. l = [state |-> l.state, ready |-> l.ready, prev_active |-> l.prev_active]
      BY DEF LedRecord
    <2>3. Watched(l) = [state |-> FALSE, ready |-> l.ready, prev_active |-> 0]
      BY <2>1, <2>2
    <2>4. Watched(l) \in LedRecord /\ Watched(l).state = FALSE /\ Watched(l).prev_active = 0
      BY <2>3 DEF LedRecord
    <2>5. ~(l.prev_active <= MaxLit)
      BY <1>1 DEF LedRecord, MaxLit
    <2> QED  BY <2>4, <2>5
  <1>2. CASE ~(l.prev_active > MaxLit)
    BY <1>2 DEF Watched, LedRecord, MaxLit
  <1> QED  BY <1>1, <1>2 DEF LedRecord, MaxLit

\* The LED a tick begins with.
Aged == [led EXCEPT !.prev_active = Older(@)]

LEMMA AgedIs ==
    ASSUME LedTypes
    PROVE  /\ Aged \in LedRecord
           /\ Aged.state = led.state /\ Aged.prev_active = Older(led.prev_active)
  BY OlderIs DEF Aged, LedTypes, LedRecord

\* What is the same in every tick while the LED blinks.
LEMMA TickCounts ==
    ASSUME LedIInv, TimePasses, Blinks
    PROVE  /\ Blinks' /\ ticker'.period = ticker.period /\ ticker' \in [period : Nat, left : Nat]
           /\ ticker'.left = IF ticker.left = 1 THEN ticker.period ELSE ticker.left - 1
           /\ watch' = IF watch = 1 THEN WatchPeriod ELSE watch - 1
           /\ watch' \in 1 .. WatchPeriod /\ ticker'.left \in 1 .. ticker'.period
           /\ blinking' = Older(blinking) /\ blinking' \in Nat
           /\ lit' = (IF pin' /\ pin THEN Older(lit) ELSE 0) /\ lit' \in Nat
  <1>1. /\ ticker'.period = ticker.period /\ ticker' \in [period : Nat, left : Nat]
        /\ ticker'.left = IF ticker.left = 1 THEN ticker.period ELSE ticker.left - 1
        /\ ticker'.left \in 1 .. ticker'.period
    BY DEF TimePasses, LedIInv, LedTypes, Blinks
  <1>2. /\ watch' = IF watch = 1 THEN WatchPeriod ELSE watch - 1
        /\ watch' \in 1 .. WatchPeriod
    BY DEF TimePasses, LedIInv, LedTypes, WatchPeriod
  <1>3. /\ blinking' = Older(blinking) /\ blinking' \in Nat
        /\ lit' = (IF pin' /\ pin THEN Older(lit) ELSE 0) /\ lit' \in Nat
    BY OlderIs DEF TimePasses, LedIInv, LedTypes, Blinks
  <1> QED  BY <1>1, <1>2, <1>3 DEF Blinks

\* The LED after the callbacks of a tick, and whether they write the pin.
Quiet == ticker.left # 1 /\ ~(watch = 1 /\ Older(led.prev_active) > MaxLit)

LEMMA QuietTick ==
    ASSUME LedIInv, TimePasses, Blinks, Quiet
    PROVE  led' = Aged /\ pin' = pin
  <1>1. Aged.prev_active = Older(led.prev_active) /\ Aged.prev_active \in Nat /\ Aged \in LedRecord
    BY AgedIs DEF LedIInv, LedRecord
  <1>2. Watched(Aged) = Aged \/ watch # 1
    BY <1>1, WatchedIs DEF Quiet, MaxLit
  <1>3. led' = Aged
    BY <1>2 DEF TimePasses, Quiet, Aged
  <1> QED  BY <1>1, <1>3 DEF TimePasses, Quiet, Aged

\* A tick that writes the pin puts out the LED, or lights it and counts from then.
LEMMA WritingTick ==
    ASSUME LedIInv, TimePasses, Blinks, ~Quiet
    PROVE  /\ led' \in LedRecord /\ pin' = led'.state
           /\ led'.state => led'.prev_active = 0 /\ ticker.left = 1
  <1>1. Aged.prev_active = Older(led.prev_active) /\ Aged.prev_active \in Nat /\ Aged \in LedRecord
    BY AgedIs DEF LedIInv, LedRecord
  <1>2. pin' = led'.state
    BY <1>1 DEF TimePasses, Quiet, Aged, Blinks
  <1>3. CASE ticker.left = 1 /\ watch = 1
    <2>1. led' = Watched(Toggled(Aged)) \/ led' = Toggled(Watched(Aged))
      BY <1>3 DEF TimePasses, Aged, Blinks
    <2>2. Watched(Toggled(Aged)).state => Watched(Toggled(Aged)).prev_active = 0
      <3>1. PICK t \in LedRecord : t = Toggled(Aged) /\ (t.state => t.prev_active = 0)
        BY <1>1, ToggledIs DEF LedRecord
      <3>2. Watched(t).state => Watched(t).prev_active = 0
        BY <3>1, WatchedIs DEF LedRecord, MaxLit
      <3> QED  BY <3>1, <3>2
    <2>3. Toggled(Watched(Aged)).state => Toggled(Watched(Aged)).prev_active = 0
      BY <1>1, ToggledIs, WatchedIs DEF LedRecord, MaxLit
    <2>4. Watched(Toggled(Aged)) \in LedRecord /\ Toggled(Watched(Aged)) \in LedRecord
      BY <1>1, ToggledIs, WatchedIs
    <2> QED  BY <1>2, <1>3, <2>1, <2>2, <2>3, <2>4
  <1>4. CASE ticker.left = 1 /\ watch # 1
    <2>1. led' = Toggled(Aged)
      BY <1>4 DEF TimePasses, Aged, Blinks
    <2> QED  BY <1>1, <1>2, <1>4, <2>1, ToggledIs
  <1>5. CASE ticker.left # 1
    <2>1. led' = Watched(Aged) /\ Aged.prev_active > MaxLit
      BY <1>1, <1>5 DEF TimePasses, Aged, Blinks, Quiet
    <2> QED  BY <1>1, <1>2, <2>1, WatchedIs
  <1> QED  BY <1>3, <1>4, <1>5

\* A change puts out the LED that has been seen lit: with the periods there are,
\* the watch has nothing to do in the same tick.
LEMMA ChangePutsOut ==
    ASSUME LedAssumption, LedIInv, TimePasses, Blinks, ~Quiet, led.state, Counted
    PROVE  ~led'.state
  <1>1. /\ Aged.prev_active = Older(led.prev_active) /\ Aged.prev_active \in Nat
        /\ Aged \in LedRecord /\ Aged.state
    BY AgedIs DEF LedIInv, LedRecord
  <1>2. CASE ticker.left = 1 /\ watch = 1
    <2>1. led.prev_active \in Nat /\ led.prev_active + 1 <= 9 /\ led.prev_active + 1 = ticker.period
      BY <1>2 DEF Counted, MaxLit, WatchPeriod, LedIInv, LedTypes
    <2>2. Older(led.prev_active) = ticker.period
      BY <2>1 DEF Older, Age
    <2>3. ticker.period \notin 7 .. 9 /\ ticker.period \in Nat
      BY DEF LedIInv, LedTypes, LedAssumption, MaxLit, WatchPeriod
    <2>4. Aged.prev_active <= MaxLit
      BY <1>1, <2>1, <2>2, <2>3 DEF MaxLit
    <2>5. Watched(Aged) = Aged
      BY <1>1, <2>4, WatchedIs
    <2>6. ~Toggled(Aged).state /\ Toggled(Aged).prev_active <= MaxLit /\ Toggled(Aged) \in LedRecord
      BY <1>1, <2>4, ToggledIs
    <2>7. Watched(Toggled(Aged)) = Toggled(Aged)
      BY <2>6, WatchedIs
    <2>8. led' = Watched(Toggled(Aged)) \/ led' = Toggled(Watched(Aged))
      BY <1>2 DEF TimePasses, Aged, Blinks
    <2> QED  BY <2>5, <2>6, <2>7, <2>8
  <1>3. CASE ticker.left = 1 /\ watch # 1
    <2>1. led' = Toggled(Aged)
      BY <1>3 DEF TimePasses, Aged, Blinks
    <2> QED  BY <1>1, <2>1, ToggledIs
  <1>4. CASE ticker.left # 1
    BY <1>4, WritingTick
  <1> QED  BY <1>2, <1>3, <1>4

LEMMA TickKeeps ==
    ASSUME LedAssumption, LedIInv, TimePasses, Blinks
    PROVE  LedIInv'
  <1>0. /\ watch' = IF watch = 1 THEN 3 ELSE watch - 1
        /\ watch' \in 1 .. 3 /\ ticker'.left \in 1 .. ticker'.period
    BY TickCounts DEF WatchPeriod
  <1>1. led' \in LedRecord
    BY QuietTick, WritingTick, AgedIs DEF LedIInv
  <1>2. LedTypes' /\ (~pin' => lit' = 0) /\ ticker'.period \in Periods
    BY <1>1, TickCounts, QuietTick, WritingTick DEF LedIInv, LedTypes, LedRecord
  <1>3. CASE Quiet
    <2>1. /\ led'.state = led.state /\ led'.prev_active = Older(led.prev_active) /\ pin' = pin
          /\ ticker'.period = ticker.period /\ ticker'.left = ticker.left - 1
      BY <1>3, QuietTick, AgedIs, TickCounts DEF Quiet, LedIInv
    <2>2. /\ led.prev_active \in Nat /\ blinking \in Nat /\ watch \in 1 .. 3 /\ lit \in Nat
          /\ ticker.left \in Nat /\ ticker.period \in Nat
      BY DEF LedIInv, LedTypes, WatchPeriod
    <2>0. Older(led.prev_active) \in Nat /\ Older(led.prev_active) <= led.prev_active + 1
      BY <2>2, OlderIs
    <2>3. watch' + led'.prev_active <= 9 \/ led.prev_active + watch > 9
      <3>1. CASE watch = 1
        BY <1>0, <1>3, <2>0, <2>1, <3>1 DEF Quiet, MaxLit, WatchPeriod
      <3>2. CASE watch # 1
        <4>1. watch' = watch - 1 /\ led'.prev_active <= led.prev_active + 1
          BY <1>0, <2>0, <2>1, <3>2
        <4> QED  BY <2>0, <2>1, <2>2, <4>1
      <3> QED  BY <3>1, <3>2
    <2>4. Counted => Counted'
      <3>1. SUFFICES ASSUME led.prev_active + watch <= 9, led.prev_active + ticker.left = ticker.period
                     PROVE  Counted'
        BY DEF Counted, MaxLit, WatchPeriod
      <3>2. led'.prev_active = led.prev_active + 1
        BY <2>1, <2>2, <3>1, OlderIs
      <3>3. watch' \in Nat
        BY TickCounts, <1>2 DEF LedTypes
      <3> QED  BY <2>1, <2>2, <2>3, <3>1, <3>2, <3>3 DEF Counted, MaxLit, WatchPeriod
    <2>5. Unwritten => Unwritten'
      <3>1. SUFFICES ASSUME blinking <= led.prev_active, blinking + watch <= 9
                     PROVE  Unwritten'
        BY DEF Unwritten, MaxLit, WatchPeriod
      <3>2. blinking' = blinking + 1 /\ blinking' <= led'.prev_active
        BY <2>1, <2>2, <3>1, OlderIs, TickCounts
      <3>3. blinking' + watch' <= 9
        <4>1. CASE watch = 1
          BY <1>0, <1>3, <2>0, <2>1, <2>2, <3>2, <4>1 DEF Quiet, MaxLit, WatchPeriod
        <4>2. CASE watch # 1
          BY <2>2, <3>1, <3>2, <4>2, TickCounts
        <4> QED  BY <4>1, <4>2
      <3> QED  BY <3>2, <3>3 DEF Unwritten, MaxLit, WatchPeriod
    <2>6. Clean => Clean'
      BY <2>1, <2>2, <2>4, TickCounts, OlderIs DEF Clean
    <2>7. StillLit => StillLit'
      <3>1. SUFFICES ASSUME pin, led.state, Counted, blinking <= 9 + led.prev_active
                     PROVE  StillLit'
        BY DEF StillLit, MaxLit, WatchPeriod
      <3>2. led'.prev_active = led.prev_active + 1
        BY <2>1, <2>2, <3>1, OlderIs DEF Counted, MaxLit, WatchPeriod
      <3>3. blinking' <= blinking + 1 /\ blinking' \in Nat
        BY <2>2, TickCounts, OlderIs
      <3> QED  BY <2>1, <2>2, <2>4, <3>1, <3>2, <3>3 DEF StillLit, MaxLit, WatchPeriod
    <2> QED  BY <1>2, <2>5, <2>6, <2>7, TickCounts DEF LedIInv
  <1>4. CASE ~Quiet
    <2>1. CASE ~led'.state
      BY <1>2, <1>4, <2>1, WritingTick, TickCounts DEF LedIInv, Clean
    <2>2. CASE led'.state
      <3>0. pin' /\ pin' = led'.state
        BY <1>4, <2>2, WritingTick
      <3>1. led'.prev_active = 0 /\ ticker.left = 1
        BY <1>4, <2>2, WritingTick
      <3>2. Counted'
        <4>1. led'.prev_active + watch' <= 9
          BY <1>0, <3>1
        <4>2. ticker'.left = ticker'.period /\ ticker'.period \in Nat
          BY <3>1, TickCounts
        <4>3. led'.prev_active + ticker'.left = ticker'.period
          BY <3>1, <4>2
        <4> QED  BY <4>1, <4>3 DEF Counted, MaxLit, WatchPeriod
      <3>3. CASE Unwritten
        <4>1. blinking' <= 9 /\ blinking' \in Nat
          BY <3>3, TickCounts, OlderIs DEF Unwritten, LedIInv, LedTypes, MaxLit, WatchPeriod
        <4>2. StillLit'
          BY <2>2, <3>0, <3>1, <3>2, <4>1 DEF StillLit, MaxLit, WatchPeriod
        <4> QED  BY <1>2, <4>2, TickCounts DEF LedIInv
      <3>4. CASE Clean
        <4>1. ~led.state
          BY <1>4, <2>2, <3>4, ChangePutsOut DEF Clean
        <4>2. lit' = 0
          BY <3>4, <4>1, TickCounts DEF Clean
        <4>3. Clean'
          BY <2>2, <3>0, <3>1, <3>2, <4>2 DEF Clean
        <4> QED  BY <1>2, <4>3, TickCounts DEF LedIInv
      <3>5. CASE StillLit
        BY <1>4, <2>2, <3>5, ChangePutsOut DEF StillLit
      <3> QED  BY <3>3, <3>4, <3>5 DEF LedIInv
    <2> QED  BY <2>1, <2>2
  <1> QED  BY <1>3, <1>4

\* Time goes by while nothing blinks.
LEMMA IdleTickKeeps ==
    ASSUME LedIInv, TimePasses, ~Blinks
    PROVE  LedIInv'
  <1>1. ~Blinks' /\ blinking' = 0 /\ ticker' = ticker
    BY DEF TimePasses, Blinks
  <1>2. led' \in LedRecord
    <2>1. Aged \in LedRecord
      BY AgedIs DEF LedIInv
    <2>2. led' = Aged \/ led' = Watched(Aged)
      BY DEF TimePasses, Blinks, Aged
    <2> QED  BY <2>1, <2>2, WatchedIs
  <1>3. pin' \in BOOLEAN
    BY <1>2 DEF TimePasses, LedIInv, LedTypes, LedRecord
  <1>4. lit' \in Nat /\ (~pin' => lit' = 0)
    BY OlderIs DEF TimePasses, LedIInv, LedTypes
  <1>5. watch' \in Nat
    BY DEF TimePasses, LedIInv, LedTypes, WatchPeriod
  <1> QED  BY <1>1, <1>2, <1>3, <1>4, <1>5 DEF LedIInv, LedTypes, LedRecord

LEMMA StepLed == LedAssumption /\ LedIInv /\ [LedNext]_ledVars => LedIInv'
  <1> SUFFICES ASSUME LedAssumption, LedIInv, [LedNext]_ledVars  PROVE LedIInv'
    OBVIOUS
  <1>1. CASE UNCHANGED ledVars
    BY <1>1 DEF ledVars, LedIInv, LedTypes, Blinks, Unwritten, Clean, StillLit, Counted
  <1>2. CASE LedNext
    BY <1>2, SetPinKeeps, ToggleKeeps, DetachKeeps, TickKeeps, IdleTickKeeps, SetKeeps, BlinkKeeps
       DEF LedNext
  <1> QED  BY <1>1, <1>2

\* Nobody sees a blinking LED on, whatever the program calls in between.
THEOREM LedKeepsBlinking ==
    ASSUME LedAssumption
    PROVE  LedSpec => []LedBlinks
  <1>1. LedIInv => LedBlinks
    <2> SUFFICES ASSUME LedIInv, blinking > 18  PROVE lit <= 9
      BY DEF LedBlinks, MaxLit, WatchPeriod
    <2>1. Blinks /\ watch \in 1 .. 3 /\ ticker.left \in Nat /\ led.prev_active \in Nat /\ blinking \in Nat
      BY DEF LedIInv, LedTypes, WatchPeriod
    <2>2. Clean \/ StillLit
      BY <2>1 DEF LedIInv, Unwritten, MaxLit, WatchPeriod
    <2>3. ~StillLit
      BY <2>1 DEF StillLit, Counted, MaxLit, WatchPeriod
    <2>4. Clean /\ lit \in Nat /\ (~pin => lit = 0)
      BY <2>2, <2>3 DEF LedIInv, LedTypes
    <2> QED  BY <2>1, <2>4 DEF Clean, Counted, MaxLit, WatchPeriod
  <1>2. LedIInv /\ [LedNext]_ledVars => LedIInv'
    BY StepLed
  <1> QED  BY <1>1, <1>2, LedStarts, PTL DEF LedSpec

-----------------------------------------------------------------------------
(* The clock.  Remainders first: what is left of a turn of millis().        *)

LEMMA RemainderIs ==
    ASSUME NEW w \in Nat \ {0}, NEW a \in Int
    PROVE  a % w \in 0 .. w - 1 /\ \E k \in Int : a = k * w + (a % w)
  <1>1. a % w \in 0 .. w - 1 /\ a = (a \div w) * w + (a % w)
    OBVIOUS
  <1>2. a \div w \in Int
    OBVIOUS
  <1> QED  BY <1>1, <1>2

\* There is one remainder.
LEMMA OneRemainder ==
    ASSUME NEW w \in Nat \ {0}, NEW a \in Int, NEW k \in Int, NEW r \in 0 .. w - 1, a = k * w + r
    PROVE  a % w = r
  <1>1. PICK j \in Int : a = j * w + (a % w)
    BY RemainderIs
  <1>2. PICK s \in 0 .. w - 1 : s = a % w
    BY RemainderIs
  <1>3. j * w + s = k * w + r
    BY <1>1, <1>2
  <1>4. (j - k) * w = r - s
    BY <1>3
  <1>5. r - s < w /\ s - r < w /\ r - s \in Int
    BY <1>2
  <1>6. PICK d \in Int : d = j - k
    OBVIOUS
  <1>7. d * w = r - s
    BY <1>4, <1>6
  <1>8. d < 1 /\ d > -1
    <2>1. CASE d >= 1
      <3>1. d * w >= w
        BY <2>1
      <3> QED  BY <1>5, <1>7, <3>1
    <2>2. CASE d <= -1
      <3>1. d * w <= -w
        BY <2>2
      <3> QED  BY <1>5, <1>7, <3>1
    <2> QED  BY <2>1, <2>2
  <1>9. d = 0
    BY <1>8
  <1> QED  BY <1>2, <1>7, <1>9

LEMMA SumOfProducts ==
    ASSUME NEW w \in Int, NEW j \in Int, NEW k \in Int
    PROVE  (j + k) * w = j * w + k * w /\ (j - k) * w = j * w - k * w
  OBVIOUS

\* How far p is behind m, and n ahead of p.
Gap(m, p, w) == (m - p) % w
Ahead(p, n, w) == (p + n) % w

\* Ticks that are counted are no longer behind.
LEMMA CountedTicks ==
    ASSUME NEW w \in Nat \ {0}, NEW m \in Int, NEW p \in Int, NEW n \in Nat, n <= Gap(m, p, w)
    PROVE  Gap(m, Ahead(p, n, w), w) = Gap(m, p, w) - n
  <1>1. PICK a \in Int : a = m - p
    OBVIOUS
  <1>2. PICK k \in Int : a = k * w + (a % w)
    BY RemainderIs
  <1>3. PICK b \in 0 .. w - 1 : b = a % w
    BY RemainderIs
  <1>4. PICK e \in Int : e = p + n
    OBVIOUS
  <1>5. PICK j \in Int : e = j * w + (e % w)
    BY RemainderIs
  <1>6. PICK r \in 0 .. w - 1 : r = e % w
    BY RemainderIs
  <1>7. (j + k) * w = j * w + k * w
    BY SumOfProducts
  <1>8. m - r = (j + k) * w + (b - n)
    <2>1. PICK x \in Int, y \in Int : x = j * w /\ y = k * w
      OBVIOUS
    <2>2. a = y + b /\ e = x + r
      BY <1>2, <1>3, <1>5, <1>6, <2>1
    <2>3. m - r = (x + y) + (b - n)
      BY <1>1, <1>4, <2>2
    <2> QED  BY <1>7, <2>1, <2>3
  <1>9. b - n \in 0 .. w - 1
    BY <1>1, <1>3 DEF Gap
  <1>10. PICK g \in Int : g = m - r
    OBVIOUS
  <1>11. PICK i \in Int : i = j + k
    OBVIOUS
  <1>12. PICK c \in 0 .. w - 1 : c = b - n
    BY <1>9
  <1>13. g = i * w + c
    BY <1>8, <1>10, <1>11, <1>12
  <1>14. g % w = c
    BY <1>13, OneRemainder
  <1> QED  BY <1>1, <1>3, <1>4, <1>6, <1>10, <1>12, <1>14 DEF Gap, Ahead

\* Ticks that go by are behind, if there are not too many.
LEMMA PassedTicks ==
    ASSUME NEW w \in Nat \ {0}, NEW m \in Int, NEW p \in Int, NEW d \in Nat, Gap(m, p, w) + d < w
    PROVE  Gap(Ahead(m, d, w), p, w) = Gap(m, p, w) + d
  <1>1. PICK a \in Int : a = m - p
    OBVIOUS
  <1>2. PICK k \in Int : a = k * w + (a % w)
    BY RemainderIs
  <1>3. PICK b \in 0 .. w - 1 : b = a % w
    BY RemainderIs
  <1>4. PICK e \in Int : e = m + d
    OBVIOUS
  <1>5. PICK j \in Int : e = j * w + (e % w)
    BY RemainderIs
  <1>6. PICK r \in 0 .. w - 1 : r = e % w
    BY RemainderIs
  <1>7. (k - j) * w = k * w - j * w
    BY SumOfProducts
  <1>8. r - p = (k - j) * w + (b + d)
    <2>1. PICK x \in Int, y \in Int : x = j * w /\ y = k * w
      OBVIOUS
    <2>2. a = y + b /\ e = x + r
      BY <1>2, <1>3, <1>5, <1>6, <2>1
    <2>3. r - p = (y - x) + (b + d)
      BY <1>1, <1>4, <2>2
    <2> QED  BY <1>7, <2>1, <2>3
  <1>9. b + d \in 0 .. w - 1
    BY <1>1, <1>3 DEF Gap
  <1>10. PICK g \in Int : g = r - p
    OBVIOUS
  <1>11. PICK i \in Int : i = k - j
    OBVIOUS
  <1>12. PICK c \in 0 .. w - 1 : c = b + d
    BY <1>9
  <1>13. g = i * w + c
    BY <1>8, <1>10, <1>11, <1>12
  <1>14. g % w = c
    BY <1>13, OneRemainder
  <1> QED  BY <1>1, <1>3, <1>4, <1>6, <1>10, <1>12, <1>14 DEF Gap, Ahead

-----------------------------------------------------------------------------
(* The clock.  What it shows, with the ticks it is behind, is the time.     *)

ClockSpec == ClockInit /\ [][ClockNext]_clockVars

ClockRecord == [sysTime : Int, prevMillis : Int, nextSyncTime : Int,
                Status : {"timeNotSet", "timeSet", "timeNeedsSync"}]

TruthRecord == [base : Int, ticks : Int, set : BOOLEAN, lapsed : BOOLEAN,
                asked : Int, got : Int, overwritten : BOOLEAN]

ClockTypes ==
    /\ millis \in Int
    /\ clock \in ClockRecord /\ truth \in TruthRecord
    /\ sync \in [provider : BOOLEAN, interval : Int]
    /\ cache \in [cacheTime : Int, tm : Int]

Shows(c) == c.sysTime * Second + Behind(c)

Right(c, t) ==
    /\ ~t.lapsed => Shows(c) = t.base * Second + t.ticks
    /\ c.Status = "timeNotSet" <=> ~t.set

\* Fields are those of their time, or have been overwritten, or there are none yet.
FieldsOf(fields, time, t) ==
    fields = time \/ t.overwritten \/ (fields = NoFields /\ time = 0)

ClockIInv ==
    /\ ClockTypes /\ Right(clock, truth)
    /\ FieldsOf(truth.got, truth.asked, truth) /\ FieldsOf(cache.tm, cache.cacheTime, truth)

LEMMA BehindIs ==
    ASSUME ClockAssumption, ClockTypes, NEW c \in ClockRecord
    PROVE  Behind(c) \in 0 .. Wrap - 1 /\ Wrap \in Nat \ {0}
  <1>1. Wrap \in Nat \ {0}
    BY DEF ClockAssumption
  <1>2. PICK a \in Int : a = millis - c.prevMillis
    BY DEF ClockTypes, ClockRecord
  <1>3. a % Wrap \in 0 .. Wrap - 1
    BY <1>1, RemainderIs
  <1> QED  BY <1>1, <1>2, <1>3 DEF Behind

\* The loop of now() counts whole seconds, and nothing is lost.
LEMMA CaughtUp ==
    ASSUME ClockAssumption, ClockTypes, NEW c \in ClockRecord
    PROVE  /\ CatchUp(c) \in ClockRecord /\ Shows(CatchUp(c)) = Shows(c)
           /\ CatchUp(c).Status = c.Status
  <1>1. PICK b \in Nat : b = Behind(c)
    BY BehindIs DEF ClockAssumption
  <1>2. PICK s \in Nat \ {0} : s = Second
    BY DEF ClockAssumption
  <1>3. PICK q \in Nat : q = b \div s
    OBVIOUS
  <1>4. s * q <= b
    BY <1>3
  <1>5. PICK n \in Nat : n = q * s
    OBVIOUS
  <1>6. n <= b
    BY <1>4, <1>5
  <1>7. CatchUp(c) = [c EXCEPT !.sysTime = c.sysTime + q, !.prevMillis = (c.prevMillis + n) % Wrap]
    BY <1>1, <1>2, <1>3, <1>5 DEF CatchUp
  <1>8. PICK p \in Int : p = c.prevMillis
    BY DEF ClockRecord
  <1>9. PICK y \in Int : y = c.sysTime
    BY DEF ClockRecord
  <1>10. PICK w \in Nat \ {0} : w = Wrap
    BY DEF ClockAssumption
  <1>11. PICK e \in Int : e = p + n
    OBVIOUS
  <1>12. PICK r \in Int : r = e % w
    BY RemainderIs
  <1>13. c = [sysTime |-> y, prevMillis |-> p, nextSyncTime |-> c.nextSyncTime, Status |-> c.Status]
    BY <1>8, <1>9 DEF ClockRecord
  <1>14. CatchUp(c) = [sysTime |-> y + q, prevMillis |-> r, nextSyncTime |-> c.nextSyncTime,
                       Status |-> c.Status]
    BY <1>7, <1>8, <1>9, <1>10, <1>11, <1>12, <1>13
  <1>15. CatchUp(c) \in ClockRecord /\ CatchUp(c).Status = c.Status
    BY <1>14 DEF ClockRecord
  <1>16. CatchUp(c).sysTime = y + q /\ CatchUp(c).prevMillis = r
    BY <1>14
  <1>17. PICK m \in Int : m = millis
    BY DEF ClockTypes
  <1>18. b = (m - p) % w
    BY <1>1, <1>8, <1>10, <1>17 DEF Behind
  <1>19. (m - ((p + n) % w)) % w = ((m - p) % w) - n
    <2>1. n <= Gap(m, p, w)
      BY <1>6, <1>18 DEF Gap
    <2>2. Gap(m, Ahead(p, n, w), w) = Gap(m, p, w) - n
      BY <2>1, CountedTicks
    <2> QED  BY <2>2 DEF Gap, Ahead
  <1>20. Behind(CatchUp(c)) = b - n
    BY <1>10, <1>11, <1>12, <1>16, <1>17, <1>18, <1>19 DEF Behind
  <1>21. (y + q) * s = y * s + n
    BY <1>5, SumOfProducts
  <1>22. Shows(CatchUp(c)) = (y + q) * s + (b - n)
    BY <1>2, <1>16, <1>20 DEF Shows
  <1>23. Shows(c) = y * s + b
    BY <1>1, <1>2, <1>9 DEF Shows
  <1> QED  BY <1>15, <1>21, <1>22, <1>23

\* What is noted of the time that is told, adjusted, asked for, and goes by.
LEMMA TruthUpdates ==
    ASSUME NEW tr \in TruthRecord, NEW t \in Int
    PROVE  LET told == [tr EXCEPT !.base = t, !.ticks = 0, !.set = TRUE, !.lapsed = FALSE]
           IN  /\ told \in TruthRecord /\ told.base = t /\ told.ticks = 0 /\ told.set = TRUE
               /\ told.asked = tr.asked /\ told.got = tr.got /\ told.overwritten = tr.overwritten
  <1> DEFINE told == [tr EXCEPT !.base = t, !.ticks = 0, !.set = TRUE, !.lapsed = FALSE]
  <1>1. PICK k \in Int : k = 0
    OBVIOUS
  <1>8. PICK s \in BOOLEAN : s = TRUE
    BY Zenon
  <1>9. PICK l \in BOOLEAN : l = FALSE
    BY Zenon
  <1>2. PICK u \in TruthRecord : u = [tr EXCEPT !.base = t]
    BY DEF TruthRecord
  <1>3. PICK v \in TruthRecord : v = [u EXCEPT !.ticks = k]
    BY DEF TruthRecord
  <1>4. PICK x \in TruthRecord : x = [v EXCEPT !.set = s]
    BY DEF TruthRecord
  <1>7. told \in TruthRecord
    <2>1. [x EXCEPT !.lapsed = l] \in TruthRecord
      BY DEF TruthRecord
    <2>2. told = [x EXCEPT !.lapsed = l]
      BY <1>1, <1>2, <1>3, <1>4, <1>8, <1>9, Zenon
    <2> QED  BY <2>1, <2>2
  <1>5. told.base = t /\ told.ticks = 0
    BY DEF TruthRecord
  <1>6. told.set = TRUE
    BY DEF TruthRecord
  <1>10. told.asked = tr.asked /\ told.got = tr.got
    BY DEF TruthRecord
  <1>11. told.overwritten = tr.overwritten
    BY DEF TruthRecord
  <1> QED  BY <1>5, <1>6, <1>7, <1>10, <1>11

AskedFor(tr, a, g, o) == [tr EXCEPT !.asked = a, !.got = g, !.overwritten = o]

LEMMA ReadUpdates ==
    ASSUME NEW tr \in TruthRecord, NEW a \in Int, NEW g \in Int, NEW o \in BOOLEAN
    PROVE  LET r == AskedFor(tr, a, g, o)
           IN  /\ r \in TruthRecord /\ r.asked = a /\ r.got = g /\ r.overwritten = o
               /\ r.base = tr.base /\ r.ticks = tr.ticks /\ r.set = tr.set /\ r.lapsed = tr.lapsed
  <1> DEFINE r == [tr EXCEPT !.asked = a, !.got = g, !.overwritten = o]
  <1>1. PICK u \in TruthRecord : u = [tr EXCEPT !.asked = a]
    BY DEF TruthRecord
  <1>2. PICK v \in TruthRecord : v = [u EXCEPT !.got = g]
    BY DEF TruthRecord
  <1>3. r \in TruthRecord
    <2>1. [v EXCEPT !.overwritten = o] \in TruthRecord
      BY DEF TruthRecord
    <2>2. r = [v EXCEPT !.overwritten = o]
      BY <1>1, <1>2
    <2> QED  BY <2>1, <2>2
  <1>4. r.asked = a /\ r.got = g
    BY DEF TruthRecord
  <1>5. r.overwritten = o
    BY DEF TruthRecord
  <1>6. r.base = tr.base /\ r.ticks = tr.ticks
    BY DEF TruthRecord
  <1>7. r.set = tr.set
    BY DEF TruthRecord
  <1>8. r.lapsed = tr.lapsed
    BY DEF TruthRecord
  <1> QED  BY <1>3, <1>4, <1>5, <1>6, <1>7, <1>8 DEF AskedFor

LEMMA OverwrittenUpdates ==
    ASSUME NEW tr \in TruthRecord, NEW o \in BOOLEAN
    PROVE  LET r == [tr EXCEPT !.overwritten = o]
           IN  /\ r \in TruthRecord /\ r.overwritten = o /\ r.base = tr.base /\ r.ticks = tr.ticks
               /\ r.set = tr.set /\ r.lapsed = tr.lapsed
  <1> DEFINE r == [tr EXCEPT !.overwritten = o]
  <1>1. r \in TruthRecord
    BY DEF TruthRecord
  <1>2. r.overwritten = o
    BY DEF TruthRecord
  <1>3. r.base = tr.base /\ r.ticks = tr.ticks
    BY DEF TruthRecord
  <1>4. r.set = tr.set
    BY DEF TruthRecord
  <1>5. r.lapsed = tr.lapsed
    BY DEF TruthRecord
  <1> QED  BY <1>1, <1>2, <1>3, <1>4, <1>5

LEMMA AdjustUpdates ==
    ASSUME NEW tr \in TruthRecord, NEW b \in Int
    PROVE  LET r == [tr EXCEPT !.base = b]
           IN  /\ r \in TruthRecord /\ r.base = b /\ r.ticks = tr.ticks
               /\ r.set = tr.set /\ r.lapsed = tr.lapsed
               /\ r.asked = tr.asked /\ r.got = tr.got /\ r.overwritten = tr.overwritten
  <1> DEFINE r == [tr EXCEPT !.base = b]
  <1>1. r \in TruthRecord
    BY DEF TruthRecord
  <1>2. r.base = b /\ r.ticks = tr.ticks /\ r.asked = tr.asked /\ r.got = tr.got
    BY DEF TruthRecord
  <1>3. r.set = tr.set
    BY DEF TruthRecord
  <1>4. r.lapsed = tr.lapsed
    BY DEF TruthRecord
  <1>5. r.overwritten = tr.overwritten
    BY DEF TruthRecord
  <1> QED  BY <1>1, <1>2, <1>3, <1>4, <1>5

GoneBy(tr, k, l) == [tr EXCEPT !.ticks = k, !.lapsed = l]

LEMMA PauseUpdates ==
    ASSUME NEW tr \in TruthRecord, NEW k \in Int, NEW l \in BOOLEAN
    PROVE  LET r == GoneBy(tr, k, l)
           IN  /\ r \in TruthRecord /\ r.base = tr.base /\ r.ticks = k
               /\ r.set = tr.set /\ r.lapsed = l
               /\ r.asked = tr.asked /\ r.got = tr.got /\ r.overwritten = tr.overwritten
  <1> DEFINE r == [tr EXCEPT !.ticks = k, !.lapsed = l]
  <1>1. PICK u \in TruthRecord : u = [tr EXCEPT !.ticks = k]
    BY DEF TruthRecord
  <1>2. r \in TruthRecord
    <2>1. [u EXCEPT !.lapsed = l] \in TruthRecord
      BY DEF TruthRecord
    <2>2. r = [u EXCEPT !.lapsed = l]
      BY <1>1
    <2> QED  BY <2>1, <2>2
  <1>3. r.base = tr.base /\ r.ticks = k /\ r.asked = tr.asked /\ r.got = tr.got
    BY DEF TruthRecord
  <1>4. r.set = tr.set
    BY DEF TruthRecord
  <1>5. r.lapsed = l
    BY DEF TruthRecord
  <1>6. r.overwritten = tr.overwritten
    BY DEF TruthRecord
  <1> QED  BY <1>2, <1>3, <1>4, <1>5, <1>6 DEF GoneBy

\* A clock that is set shows what it is set to.
LEMMA SetIsRight ==
    ASSUME ClockAssumption, ClockTypes, NEW c, NEW t \in Int, NEW tr \in TruthRecord
    PROVE  LET told == [tr EXCEPT !.base = t, !.ticks = 0, !.set = TRUE, !.lapsed = FALSE]
           IN  /\ setTime(c, t) \in ClockRecord /\ told \in TruthRecord /\ Right(setTime(c, t), told)
               /\ told.asked = tr.asked /\ told.got = tr.got /\ told.overwritten = tr.overwritten
  <1> DEFINE told == [tr EXCEPT !.base = t, !.ticks = 0, !.set = TRUE, !.lapsed = FALSE]
  <1>1. /\ setTime(c, t) \in ClockRecord /\ setTime(c, t).sysTime = t
        /\ setTime(c, t).prevMillis = millis /\ setTime(c, t).Status = "timeSet"
    BY DEF setTime, ClockRecord, ClockTypes
  <1>4. told \in TruthRecord /\ told.base = t /\ told.ticks = 0 /\ told.set = TRUE
    BY TruthUpdates
  <1>9. told.asked = tr.asked /\ told.got = tr.got /\ told.overwritten = tr.overwritten
    BY TruthUpdates
  <1> HIDE DEF told
  <1>5. millis - millis = 0 /\ 0 % Wrap = 0
    <2>1. PICK w \in Nat \ {0} : w = Wrap
      BY DEF ClockAssumption
    <2>2. 0 % w = 0
      OBVIOUS
    <2> QED  BY <2>1, <2>2 DEF ClockTypes
  <1>6. Behind(setTime(c, t)) = 0
    BY <1>1, <1>5 DEF Behind
  <1>7. Shows(setTime(c, t)) = told.base * Second + told.ticks
    BY <1>1, <1>4, <1>6 DEF Shows
  <1>8. Right(setTime(c, t), told)
    BY <1>1, <1>4, <1>7 DEF Right
  <1> QED  BY <1>1, <1>4, <1>8, <1>9 DEF told

\* What the provider does not know is asked again after a while.
LEMMA PostponedIsRight ==
    ASSUME ClockTypes, NEW c \in ClockRecord, NEW tr, Right(c, tr), NEW n \in Int
    PROVE  LET later == [c EXCEPT !.nextSyncTime = n,
                                  !.Status = IF @ = "timeNotSet" THEN @ ELSE "timeNeedsSync"]
           IN  later \in ClockRecord /\ Right(later, tr)
  <1> DEFINE later == [c EXCEPT !.nextSyncTime = n,
                                !.Status = IF @ = "timeNotSet" THEN @ ELSE "timeNeedsSync"]
  <1>1. /\ later \in ClockRecord /\ later.sysTime = c.sysTime /\ later.prevMillis = c.prevMillis
        /\ later.Status = "timeNotSet" <=> c.Status = "timeNotSet"
    BY DEF ClockRecord
  <1> HIDE DEF later
  <1>2. Right(later, tr)
    BY <1>1 DEF Right, Shows, Behind
  <1> QED  BY <1>1, <1>2 DEF later

LEMMA CaughtUpIsRight ==
    ASSUME ClockAssumption, ClockTypes, NEW c \in ClockRecord, NEW tr, Right(c, tr)
    PROVE  CatchUp(c) \in ClockRecord /\ Right(CatchUp(c), tr)
  BY CaughtUp DEF Right

\* A step that takes no time
LEMMA SteadyStep ==
    ASSUME ClockTypes, millis' = millis,
           NEW c \in ClockRecord, NEW t \in TruthRecord, clock' = c, truth' = t, Right(c, t),
           FieldsOf(t.got, t.asked, t), FieldsOf(cache'.tm, cache'.cacheTime, t),
           sync' \in [provider : BOOLEAN, interval : Int], cache' \in [cacheTime : Int, tm : Int]
    PROVE  ClockIInv'
  <1>1. ClockTypes'
    BY DEF ClockTypes
  <1>2. Right(clock, truth)'
    BY DEF Right, Shows, Behind
  <1>3. FieldsOf(truth.got, truth.asked, truth)' /\ FieldsOf(cache.tm, cache.cacheTime, truth)'
    BY DEF FieldsOf
  <1> QED  BY <1>1, <1>2, <1>3 DEF ClockIInv

LEMMA ClockNumbers ==
    ASSUME ClockAssumption
    PROVE  /\ SetTimes \subseteq Int /\ SetTimes \cup {0} \subseteq Int
           /\ SyncIntervals \subseteq Int /\ Adjustments \subseteq Int
           /\ Pauses \subseteq Nat /\ Second \in Int
  BY DEF ClockAssumption

LEMMA SameFields ==
    ASSUME ClockIInv, NEW t, t.asked = truth.asked, t.got = truth.got, t.overwritten = truth.overwritten
    PROVE  FieldsOf(t.got, t.asked, t) /\ FieldsOf(cache.tm, cache.cacheTime, t)
  BY DEF ClockIInv, FieldsOf

LEMMA NowKeeps == ASSUME ClockAssumption, ClockIInv, now  PROVE ClockIInv'
  <1>1. PICK answer \in SetTimes \cup {0} :
          /\ clock' = Looked(CatchUp(clock), answer)
          /\ truth' = TruthAfter(CatchUp(clock), answer)
    BY DEF now
  <1>2. millis' = millis /\ sync' = sync /\ cache' = cache
    BY DEF now
  <1>3. answer \in Int
    BY ClockNumbers
  <1>4. ClockTypes /\ clock \in ClockRecord /\ truth \in TruthRecord
    BY DEF ClockIInv, ClockTypes
  <1>5. PICK c \in ClockRecord : c = CatchUp(clock) /\ Right(c, truth)
    BY <1>4, CaughtUpIsRight DEF ClockIInv
  <1>6. sync' \in [provider : BOOLEAN, interval : Int] /\ cache' \in [cacheTime : Int, tm : Int]
    BY <1>2, <1>4 DEF ClockTypes
  <1>7. CASE Due(c) /\ answer # 0
    <2> DEFINE told == [truth EXCEPT !.base = answer, !.ticks = 0, !.set = TRUE, !.lapsed = FALSE]
    <2>1. clock' = setTime(c, answer) /\ truth' = told
      BY <1>1, <1>5, <1>7 DEF Looked, TruthAfter
    <2>2. /\ setTime(c, answer) \in ClockRecord /\ told \in TruthRecord /\ Right(setTime(c, answer), told)
          /\ told.asked = truth.asked /\ told.got = truth.got /\ told.overwritten = truth.overwritten
      BY <1>3, <1>4, SetIsRight
    <2> HIDE DEF told
    <2> QED  BY <1>2, <1>4, <1>6, <2>1, <2>2, SteadyStep, SameFields
  <1>8. CASE Due(c) /\ answer = 0
    <2>1. PICK n \in Int : n = c.sysTime + sync.interval
      BY <1>4 DEF ClockTypes, ClockRecord
    <2>2. PICK d \in ClockRecord :
            /\ d = [c EXCEPT !.nextSyncTime = n,
                             !.Status = IF @ = "timeNotSet" THEN @ ELSE "timeNeedsSync"]
            /\ Right(d, truth)
      BY <1>4, <1>5, PostponedIsRight
    <2>3. clock' = d /\ truth' = truth
      BY <1>1, <1>5, <1>8, <2>1, <2>2 DEF Looked, TruthAfter
    <2> QED  BY <1>2, <1>4, <1>6, <2>2, <2>3, SteadyStep, SameFields
  <1>9. CASE ~Due(c)
    <2>1. clock' = c /\ truth' = truth
      BY <1>1, <1>5, <1>9 DEF Looked, TruthAfter
    <2> QED  BY <1>2, <1>4, <1>5, <1>6, <2>1, SteadyStep, SameFields
  <1> QED  BY <1>7, <1>8, <1>9

LEMMA ReadKeeps == ASSUME ClockAssumption, ClockIInv, ReadFields  PROVE ClockIInv'
  <1>1. PICK t \in SetTimes \cup {0} :
          /\ cache' = refreshCache(cache, t)
          /\ truth' = [truth EXCEPT !.asked = t, !.got = refreshCache(cache, t).tm,
                                    !.overwritten = @ /\ t = cache.cacheTime]
    BY DEF ReadFields
  <1>2. millis' = millis /\ sync' = sync /\ clock' = clock
    BY DEF ReadFields
  <1>3. t \in Int
    BY ClockNumbers
  <1>4. ClockTypes /\ clock \in ClockRecord /\ truth \in TruthRecord /\ Right(clock, truth)
    BY DEF ClockIInv, ClockTypes
  <1>5. PICK g \in Int : g = refreshCache(cache, t).tm
    BY <1>3, <1>4 DEF refreshCache, ClockTypes
  <1>6. PICK o \in BOOLEAN : o = (truth.overwritten /\ t = cache.cacheTime)
    BY <1>4 DEF TruthRecord
  <1>7. truth' = [truth EXCEPT !.asked = t, !.got = g, !.overwritten = o]
    BY <1>1, <1>5, <1>6
  <1>8. /\ truth' \in TruthRecord /\ truth'.asked = t /\ truth'.got = g /\ truth'.overwritten = o
        /\ truth'.base = truth.base /\ truth'.ticks = truth.ticks /\ truth'.set = truth.set
        /\ truth'.lapsed = truth.lapsed
    <2>1. truth' = AskedFor(truth, t, g, o)
      BY <1>7 DEF AskedFor
    <2> QED  BY <1>3, <1>4, <2>1, ReadUpdates
  <1>9. Right(clock, truth')
    BY <1>4, <1>8 DEF Right
  <1>10. cache' \in [cacheTime : Int, tm : Int] /\ sync' \in [provider : BOOLEAN, interval : Int]
    BY <1>1, <1>2, <1>3, <1>4 DEF refreshCache, ClockTypes
  <1>11. FieldsOf(truth'.got, truth'.asked, truth') /\ FieldsOf(cache'.tm, cache'.cacheTime, truth')
    <2>1. CASE t # cache.cacheTime
      <3>1. g = t /\ cache'.tm = t /\ cache'.cacheTime = t
        BY <1>1, <1>5, <2>1 DEF refreshCache
      <3> QED  BY <1>8, <3>1 DEF FieldsOf
    <2>2. CASE t = cache.cacheTime
      <3>1. g = cache.tm /\ cache' = cache /\ (o <=> truth.overwritten)
        BY <1>1, <1>5, <1>6, <2>2 DEF refreshCache
      <3>2. FieldsOf(cache.tm, cache.cacheTime, truth)
        BY DEF ClockIInv
      <3> QED  BY <1>8, <2>2, <3>1, <3>2 DEF FieldsOf
    <2> QED  BY <2>1, <2>2
  <1> QED  BY <1>2, <1>4, <1>8, <1>9, <1>10, <1>11, SteadyStep

LEMMA SetTimeKeeps == ASSUME ClockAssumption, ClockIInv, setTimeOf  PROVE ClockIInv'
  <1>1. PICK t \in SetTimes :
          /\ clock' = setTime(clock, t)
          /\ truth' = [truth EXCEPT !.base = t, !.ticks = 0, !.set = TRUE, !.lapsed = FALSE]
    BY DEF setTimeOf
  <1>2. millis' = millis /\ sync' = sync /\ cache' = cache
    BY DEF setTimeOf
  <1>3. t \in Int
    BY ClockNumbers
  <1>4. ClockTypes /\ truth \in TruthRecord
    BY DEF ClockIInv, ClockTypes
  <1>5. /\ clock' \in ClockRecord /\ truth' \in TruthRecord /\ Right(clock', truth')
        /\ truth'.asked = truth.asked /\ truth'.got = truth.got /\ truth'.overwritten = truth.overwritten
    BY <1>1, <1>3, <1>4, SetIsRight
  <1>6. sync' \in [provider : BOOLEAN, interval : Int] /\ cache' \in [cacheTime : Int, tm : Int]
    BY <1>2, <1>4 DEF ClockTypes
  <1> QED  BY <1>2, <1>4, <1>5, <1>6, SteadyStep, SameFields

LEMMA SetFieldsKeeps == ASSUME ClockAssumption, ClockIInv, setTimeOfFields  PROVE ClockIInv'
  <1>1. PICK t \in SetTimes :
          /\ clock' = setTime(clock, t)
          /\ cache' = [cache EXCEPT !.tm = t]
          /\ truth' = [truth EXCEPT !.base = t, !.ticks = 0, !.set = TRUE, !.lapsed = FALSE,
                                    !.overwritten = TRUE]
    BY DEF setTimeOfFields
  <1>2. millis' = millis /\ sync' = sync
    BY DEF setTimeOfFields
  <1>3. t \in Int
    BY ClockNumbers
  <1>4. ClockTypes /\ truth \in TruthRecord
    BY DEF ClockIInv, ClockTypes
  <1>5. PICK told \in TruthRecord :
          /\ told = [truth EXCEPT !.base = t, !.ticks = 0, !.set = TRUE, !.lapsed = FALSE]
          /\ clock' \in ClockRecord /\ Right(clock', told)
    BY <1>1, <1>3, <1>4, SetIsRight
  <1>6. PICK o \in BOOLEAN : o = TRUE
    BY Zenon
  <1>7. truth' = [told EXCEPT !.overwritten = o]
    BY <1>1, <1>5, <1>6
  <1>8. /\ truth' \in TruthRecord /\ truth'.overwritten = TRUE
        /\ truth'.base = told.base /\ truth'.ticks = told.ticks /\ truth'.set = told.set
        /\ truth'.lapsed = told.lapsed
    BY <1>6, <1>7, OverwrittenUpdates
  <1>9. Right(clock', truth')
    BY <1>5, <1>8 DEF Right
  <1>10. cache' \in [cacheTime : Int, tm : Int] /\ sync' \in [provider : BOOLEAN, interval : Int]
    BY <1>1, <1>2, <1>3, <1>4 DEF ClockTypes
  <1>11. FieldsOf(truth'.got, truth'.asked, truth') /\ FieldsOf(cache'.tm, cache'.cacheTime, truth')
    BY <1>8 DEF FieldsOf
  <1> QED  BY <1>2, <1>4, <1>5, <1>8, <1>9, <1>10, <1>11, SteadyStep

LEMMA AdjustKeeps == ASSUME ClockAssumption, ClockIInv, adjustTime  PROVE ClockIInv'
  <1>1. PICK a \in Adjustments :
          /\ clock' = [clock EXCEPT !.sysTime = @ + a]
          /\ truth' = [truth EXCEPT !.base = @ + a]
    BY DEF adjustTime
  <1>2. millis' = millis /\ sync' = sync /\ cache' = cache
    BY DEF adjustTime
  <1>3. a \in Int /\ Second \in Int
    BY ClockNumbers
  <1>4. ClockTypes /\ clock \in ClockRecord /\ truth \in TruthRecord /\ Right(clock, truth)
    BY DEF ClockIInv, ClockTypes
  <1>5. PICK b \in Int, y \in Int : b = truth.base /\ y = clock.sysTime
    BY <1>4 DEF TruthRecord, ClockRecord
  <1>6. PICK x \in Int : x = b + a
    BY <1>3
  <1>7. truth' = [truth EXCEPT !.base = x]
    BY <1>1, <1>5, <1>6
  <1>8. /\ truth' \in TruthRecord /\ truth'.base = x /\ truth'.ticks = truth.ticks
        /\ truth'.set = truth.set /\ truth'.lapsed = truth.lapsed
        /\ truth'.asked = truth.asked /\ truth'.got = truth.got /\ truth'.overwritten = truth.overwritten
    BY <1>4, <1>7, AdjustUpdates
  <1>9. /\ clock' \in ClockRecord /\ clock'.sysTime = y + a /\ clock'.prevMillis = clock.prevMillis
        /\ clock'.Status = clock.Status
    BY <1>1, <1>3, <1>4, <1>5 DEF ClockRecord
  <1>10. Right(clock', truth')
    <2>1. PICK k \in Int, e \in Int : k = truth.ticks /\ e = Behind(clock)
      BY <1>4, BehindIs DEF TruthRecord, ClockAssumption
    <2>2. Behind(clock') = e
      BY <1>9, <2>1 DEF Behind
    <2>3. PICK s \in Int : s = Second
      BY <1>3
    <2>4. (y + a) * s = y * s + a * s /\ (b + a) * s = b * s + a * s
      BY <1>3, SumOfProducts
    <2>5. PICK u \in Int, v \in Int, z \in Int : u = y * s /\ v = b * s /\ z = a * s
      BY <1>3
    <2>6. ~truth.lapsed => u + e = v + k
      BY <1>4, <1>5, <2>1, <2>3, <2>5 DEF Right, Shows
    <2>7. ~truth.lapsed => (u + z) + e = (v + z) + k
      BY <2>6
    <2>8. ~truth'.lapsed => clock'.sysTime * Second + Behind(clock') = truth'.base * Second + truth'.ticks
      BY <1>6, <1>8, <1>9, <2>1, <2>2, <2>3, <2>4, <2>5, <2>7
    <2> QED  BY <1>4, <1>8, <1>9, <2>8 DEF Right, Shows
  <1>11. sync' \in [provider : BOOLEAN, interval : Int] /\ cache' \in [cacheTime : Int, tm : Int]
    BY <1>2, <1>4 DEF ClockTypes
  <1> QED  BY <1>2, <1>4, <1>8, <1>9, <1>10, <1>11, SteadyStep, SameFields

LEMMA ProviderKeeps == ASSUME ClockAssumption, ClockIInv, setSyncProvider  PROVE ClockIInv'
  <1> DEFINE due == CatchUp([clock EXCEPT !.nextSyncTime = clock.sysTime])
  <1>1. PICK answer \in SetTimes \cup {0} :
          IF answer # 0
          THEN /\ clock' = setTime(due, answer)
               /\ truth' = [truth EXCEPT !.base = answer, !.ticks = 0, !.set = TRUE, !.lapsed = FALSE]
          ELSE /\ clock' = [due EXCEPT !.nextSyncTime = due.sysTime + sync.interval,
                                       !.Status = IF @ = "timeNotSet" THEN @ ELSE "timeNeedsSync"]
               /\ UNCHANGED truth
    BY DEF setSyncProvider
  <1>2. millis' = millis /\ cache' = cache /\ sync' = [sync EXCEPT !.provider = TRUE]
    BY DEF setSyncProvider
  <1>3. answer \in Int
    BY ClockNumbers
  <1>4. ClockTypes /\ clock \in ClockRecord /\ truth \in TruthRecord /\ Right(clock, truth)
    BY DEF ClockIInv, ClockTypes
  <1>5. PICK d \in ClockRecord : d = [clock EXCEPT !.nextSyncTime = clock.sysTime] /\ Right(d, truth)
    <2>1. PICK y \in Int : y = clock.sysTime
      BY <1>4 DEF ClockRecord
    <2>2. PICK d \in ClockRecord :
            /\ d = [clock EXCEPT !.nextSyncTime = y]
            /\ d.sysTime = clock.sysTime /\ d.prevMillis = clock.prevMillis /\ d.Status = clock.Status
      <3> DEFINE e == [clock EXCEPT !.nextSyncTime = y]
      <3>1. e \in ClockRecord
        BY <1>4 DEF ClockRecord
      <3>2. e.sysTime = clock.sysTime /\ e.prevMillis = clock.prevMillis
        BY <1>4 DEF ClockRecord
      <3>3. e.Status = clock.Status
        BY <1>4 DEF ClockRecord
      <3> QED  BY <3>1, <3>2, <3>3
    <2>3. Right(d, truth)
      BY <1>4, <2>2 DEF Right, Shows, Behind
    <2> QED  BY <2>1, <2>2, <2>3
  <1>6. PICK c \in ClockRecord : c = due /\ Right(c, truth)
    BY <1>4, <1>5, CaughtUpIsRight
  <1>7. sync' \in [provider : BOOLEAN, interval : Int] /\ cache' \in [cacheTime : Int, tm : Int]
    BY <1>2, <1>4 DEF ClockTypes
  <1> HIDE DEF due
  <1>8. CASE answer # 0
    <2> DEFINE told == [truth EXCEPT !.base = answer, !.ticks = 0, !.set = TRUE, !.lapsed = FALSE]
    <2>1. clock' = setTime(c, answer) /\ truth' = told
      BY <1>1, <1>6, <1>8
    <2>2. /\ setTime(c, answer) \in ClockRecord /\ told \in TruthRecord /\ Right(setTime(c, answer), told)
          /\ told.asked = truth.asked /\ told.got = truth.got /\ told.overwritten = truth.overwritten
      BY <1>3, <1>4, SetIsRight
    <2> HIDE DEF told
    <2> QED  BY <1>2, <1>4, <1>7, <2>1, <2>2, SteadyStep, SameFields
  <1>9. CASE answer = 0
    <2>1. PICK n \in Int : n = c.sysTime + sync.interval
      BY <1>4 DEF ClockTypes, ClockRecord
    <2>2. PICK e \in ClockRecord :
            /\ e = [c EXCEPT !.nextSyncTime = n,
                             !.Status = IF @ = "timeNotSet" THEN @ ELSE "timeNeedsSync"]
            /\ Right(e, truth)
      BY <1>4, <1>6, PostponedIsRight
    <2>3. clock' = e /\ truth' = truth
      BY <1>1, <1>6, <1>9, <2>1, <2>2
    <2> QED  BY <1>2, <1>4, <1>7, <2>2, <2>3, SteadyStep, SameFields
  <1> QED  BY <1>8, <1>9

LEMMA IntervalKeeps == ASSUME ClockAssumption, ClockIInv, setSyncInterval  PROVE ClockIInv'
  <1>1. PICK n \in SyncIntervals :
          /\ sync' = [sync EXCEPT !.interval = n]
          /\ clock' = [clock EXCEPT !.nextSyncTime = clock.sysTime + n]
    BY DEF setSyncInterval
  <1>2. millis' = millis /\ cache' = cache /\ truth' = truth
    BY DEF setSyncInterval
  <1>3. n \in Int
    BY ClockNumbers
  <1>4. ClockTypes /\ clock \in ClockRecord /\ truth \in TruthRecord /\ Right(clock, truth)
    BY DEF ClockIInv, ClockTypes
  <1>5. PICK x \in Int : x = clock.sysTime + n
    BY <1>3, <1>4 DEF ClockRecord
  <1>6. /\ clock' \in ClockRecord /\ clock'.sysTime = clock.sysTime
        /\ clock'.prevMillis = clock.prevMillis /\ clock'.Status = clock.Status
    BY <1>1, <1>4, <1>5 DEF ClockRecord
  <1>7. Right(clock', truth)
    BY <1>4, <1>6 DEF Right, Shows, Behind
  <1>8. sync' \in [provider : BOOLEAN, interval : Int] /\ cache' \in [cacheTime : Int, tm : Int]
    BY <1>1, <1>2, <1>3, <1>4 DEF ClockTypes
  <1> QED  BY <1>2, <1>4, <1>6, <1>7, <1>8, SteadyStep, SameFields

\* While time goes by, the clock falls behind, and that is noticed within a turn.
LEMMA PauseKeeps == ASSUME ClockAssumption, ClockIInv, Pause  PROVE ClockIInv'
  <1>1. PICK d \in Pauses :
          /\ millis' = (millis + d) % Wrap
          /\ truth' = [truth EXCEPT !.ticks = @ + d, !.lapsed = @ \/ Behind(clock) + d >= Wrap]
    BY DEF Pause
  <1>2. clock' = clock /\ sync' = sync /\ cache' = cache
    BY DEF Pause
  <1>3. d \in Nat
    BY ClockNumbers
  <1>4. ClockTypes /\ clock \in ClockRecord /\ truth \in TruthRecord /\ Right(clock, truth)
    BY DEF ClockIInv, ClockTypes
  <1>5. PICK x \in Int : x = truth.ticks + d
    BY <1>3, <1>4 DEF TruthRecord
  <1>6. PICK l \in BOOLEAN : l = (truth.lapsed \/ Behind(clock) + d >= Wrap)
    BY <1>4 DEF TruthRecord
  <1>7. truth' = [truth EXCEPT !.ticks = x, !.lapsed = l]
    BY <1>1, <1>5, <1>6
  <1>8. /\ truth' \in TruthRecord /\ truth'.base = truth.base /\ truth'.ticks = x
        /\ truth'.set = truth.set /\ truth'.lapsed = l
        /\ truth'.asked = truth.asked /\ truth'.got = truth.got /\ truth'.overwritten = truth.overwritten
    <2>1. truth' = GoneBy(truth, x, l)
      BY <1>7 DEF GoneBy
    <2> QED  BY <1>4, <2>1, PauseUpdates
  <1>9. PICK w \in Nat \ {0} : w = Wrap
    BY DEF ClockAssumption
  <1>10. PICK m \in Int, p \in Int : m = millis /\ p = clock.prevMillis
    BY <1>4 DEF ClockTypes, ClockRecord
  <1>11. millis' = Ahead(m, d, w) /\ millis' \in Int
    <2>1. PICK e \in Int : e = m + d
      BY <1>3
    <2>2. e % w \in Int
      BY RemainderIs
    <2> QED  BY <1>1, <1>9, <1>10, <2>1, <2>2 DEF Ahead
  <1>12. Behind(clock) = Gap(m, p, w) /\ Behind(clock)' = Gap(Ahead(m, d, w), p, w)
    BY <1>2, <1>9, <1>10, <1>11 DEF Behind, Gap
  <1>13. Behind(clock) \in Int
    BY <1>4, BehindIs DEF ClockAssumption
  <1>14. ~l => Behind(clock)' = Behind(clock) + d
    <2>1. SUFFICES ASSUME ~l  PROVE Behind(clock)' = Behind(clock) + d
      OBVIOUS
    <2>2. Gap(m, p, w) + d < w
      <3>1. ~(Behind(clock) + d >= Wrap)
        BY <1>6, <2>1, Zenon
      <3> QED  BY <1>3, <1>9, <1>12, <1>13, <3>1
    <2>3. Gap(Ahead(m, d, w), p, w) = Gap(m, p, w) + d
      BY <1>3, <2>2, PassedTicks
    <2> QED  BY <1>12, <2>3
  <1>15. Right(clock, truth)'
    <2>1. PICK u \in Int, v \in Int : u = clock.sysTime * Second /\ v = truth.base * Second
      BY <1>4, ClockNumbers DEF ClockRecord, TruthRecord
    <2>2. PICK k \in Int, b \in Int : k = truth.ticks /\ b = Behind(clock)
      BY <1>4, <1>13 DEF TruthRecord
    <2>3. ~l => u + b = v + k
      BY <1>4, <1>6, <2>1, <2>2 DEF Right, Shows
    <2>4. ~l => u + (b + d) = v + x
      BY <1>3, <1>5, <2>2, <2>3
    <2>5. ~truth'.lapsed => clock'.sysTime * Second + Behind(clock)' = truth'.base * Second + truth'.ticks
      BY <1>2, <1>8, <1>14, <2>1, <2>2, <2>4
    <2> QED  BY <1>2, <1>4, <1>8, <2>5 DEF Right, Shows
  <1>16. FieldsOf(truth.got, truth.asked, truth)' /\ FieldsOf(cache.tm, cache.cacheTime, truth)'
    BY <1>2, <1>8 DEF ClockIInv, FieldsOf
  <1>17. ClockTypes'
    BY <1>2, <1>4, <1>8, <1>11 DEF ClockTypes
  <1> QED  BY <1>15, <1>16, <1>17 DEF ClockIInv

LEMMA ClockStarts == ASSUME ClockAssumption  PROVE ClockInit => ClockIInv
  <1> SUFFICES ASSUME ClockInit  PROVE ClockIInv
    OBVIOUS
  <1>1. ClockTypes
    BY DEF ClockInit, ClockTypes, ClockRecord, TruthRecord, NoFields
  <1>2. Behind(clock) = 0
    <2>1. PICK w \in Nat \ {0} : w = Wrap
      BY DEF ClockAssumption
    <2>2. (0 - 0) % w = 0
      OBVIOUS
    <2> QED  BY <2>1, <2>2 DEF ClockInit, Behind
  <1>3. Right(clock, truth)
    BY <1>2, ClockNumbers DEF ClockInit, Right, Shows
  <1>4. FieldsOf(truth.got, truth.asked, truth) /\ FieldsOf(cache.tm, cache.cacheTime, truth)
    BY DEF ClockInit, FieldsOf
  <1> QED  BY <1>1, <1>3, <1>4 DEF ClockIInv

LEMMA StepClock == ASSUME ClockAssumption  PROVE ClockIInv /\ [ClockNext]_clockVars => ClockIInv'
  <1> SUFFICES ASSUME ClockIInv, [ClockNext]_clockVars  PROVE ClockIInv'
    OBVIOUS
  <1>1. CASE UNCHANGED clockVars
    BY <1>1 DEF clockVars, ClockIInv, ClockTypes, Right, Shows, Behind, FieldsOf
  <1>2. CASE ClockNext
    BY <1>2, NowKeeps, ReadKeeps, SetTimeKeeps, SetFieldsKeeps, AdjustKeeps, ProviderKeeps,
       IntervalKeeps, PauseKeeps DEF ClockNext
  <1> QED  BY <1>1, <1>2

\* The clock keeps the time it has been told, for any length of a second and of a
\* turn of millis(), and any pauses between the calls.
THEOREM ClockIsRight ==
    ASSUME ClockAssumption
    PROVE  ClockSpec => []ClockKeepsTime
  <1>1. ClockIInv => ClockKeepsTime
    BY DEF ClockIInv, ClockKeepsTime, Right, Shows, FieldsOf
  <1>2. ClockIInv /\ [ClockNext]_clockVars => ClockIInv'
    BY StepClock
  <1>3. ClockInit => ClockIInv
    BY ClockStarts
  <1> QED  BY <1>1, <1>2, <1>3, PTL DEF ClockSpec

-----------------------------------------------------------------------------
(* The editor of files                                                      *)

EditorSpec == EditorInit /\ [][EditorNext]_editorVars

\* Who may open a file for an upload.
Owner(e) == account = "none" \/ e.login

UploadOf(name, login, sent, tempFile, id) ==
    [method |-> "UPLOAD", name |-> name, login |-> login, sent |-> sent, tempFile |-> tempFile, id |-> id]

Upload ==
    [method : {"UPLOAD"}, name : Names, login : BOOLEAN, sent : Nat, tempFile : BOOLEAN, id : Nat]

Piece == Nat \X Nat

Uploads == {r \in Editors : edits[r].method = "UPLOAD"}

EditorTypes ==
    /\ DOMAIN edits = Editors /\ edits = [r \in Editors |-> edits[r]]
    /\ \A r \in Editors : edits[r] = NoEdit \/ edits[r] \in Upload
    /\ authenticated \in BOOLEAN /\ made \in Nat
    /\ \A n \in DOMAIN disk : disk[n] \in Seq(Piece)

\* Every upload has its own number, and no piece has one that is not given.
Numbered ==
    /\ \A r \in Uploads : edits[r].id <= made
    /\ \A q, r \in Uploads : edits[q].id = edits[r].id => q = r
    /\ \A n \in DOMAIN disk : \A i \in DOMAIN disk[n] : disk[n][i][1] <= made

\* The file is open from the first piece of one who may upload to the last.
OpenWhileSent ==
    \A r \in Uploads :
       /\ edits[r].sent <= UploadPieces
       /\ edits[r].tempFile = TRUE <=> Owner(edits[r]) /\ edits[r].sent \in 1 .. UploadPieces - 1
       /\ edits[r].tempFile = TRUE => authenticated = TRUE

Pieces(e) == [i \in 1 .. e.sent |-> <<e.id, i>>]

Undisturbed ==
    \A r \in Uploads :
       Owner(edits[r]) /\ edits[r].sent > 0 /\ r \notin disturbed =>
          edits[r].name \in DOMAIN disk /\ disk[edits[r].name] = Pieces(edits[r])

\* One who may not upload has no piece in any file.
Shut ==
    \A r \in Uploads : ~Owner(edits[r]) =>
        \A n \in DOMAIN disk : \A i \in DOMAIN disk[n] : disk[n][i][1] # edits[r].id

EditorIInv ==
    EditorTypes /\ Numbered /\ OpenWhileSent /\ Undisturbed /\ Shut /\ UploadsAreWhole

LEMMA PutHas ==
    ASSUME NEW files, NEW name, NEW pieces
    PROVE  /\ DOMAIN Put(files, name, pieces) = DOMAIN files \cup {name}
           /\ Put(files, name, pieces)[name] = pieces
           /\ \A n \in DOMAIN files : n # name => Put(files, name, pieces)[n] = files[n]
  BY DEF Put

\* The other files.
Beside(name) ==
    \A n : n # name => (n \in DOMAIN disk' <=> n \in DOMAIN disk) /\ (n \in DOMAIN disk => disk'[n] = disk[n])

\* What the file had before the piece that r hands over.
Before(e) == IF e.sent = 0 THEN <<>> ELSE disk[e.name]

\* What a piece of one who may upload does to the disk.
LEMMA OwnersPiece ==
    ASSUME EditorAssumption, EditorIInv, NEW r \in Editors, handleUpload(r), Owner(edits[r])
    PROVE  /\ Beside(edits[r].name) /\ authenticated' = TRUE
           /\ Uploading(edits[r].name) \ {r} \subseteq disturbed' /\ disturbed \subseteq disturbed'
           /\ \/ /\ edits[r].name \in DOMAIN disk'
                 /\ disk'[edits[r].name] = Append(Before(edits[r]), <<edits[r].id, edits[r].sent + 1>>)
                 /\ edits[r].sent > 0 => edits[r].name \in DOMAIN disk
              \/ r \in disturbed' /\ disk' = disk
              \/ /\ r \in disturbed' /\ edits[r].name \in DOMAIN disk' /\ disk'[edits[r].name] = <<>>
  <1> DEFINE e == edits[r]
             opens == e.sent = 0 /\ (account = "none" \/ e.login)
             opened == IF opens THEN Put(disk, e.name, <<>>) ELSE disk
             writes == (authenticated \/ opens) /\ (e.tempFile \/ opens)
             fits == HasRoom(opened) /\ e.name \in DOMAIN opened
             piece == <<e.id, e.sent + 1>>
  <1>1. e.method = "UPLOAD" /\ e.sent < UploadPieces /\ r \in Uploads
    BY DEF handleUpload, Uploads
  <1>2. e \in Upload
    BY <1>1 DEF EditorIInv, EditorTypes, NoEdit
  <1>3. e.sent \in Nat /\ UploadPieces \in Nat
    BY <1>2 DEF Upload, EditorAssumption
  <1>4. e.sent # 0 => e.tempFile = TRUE /\ authenticated = TRUE
    BY <1>1, <1>3 DEF EditorIInv, OpenWhileSent
  <1>5. opens \/ e.sent # 0
    BY DEF Owner
  <1>6. writes
    BY <1>4, <1>5, Zenon
  <1>7. authenticated' = TRUE
    <2>1. authenticated' = (authenticated \/ opens)
      BY Zenon DEF handleUpload
    <2> QED  BY <1>4, <1>5, <2>1, Zenon
  <1>8. /\ disk' = IF writes /\ fits THEN Put(opened, e.name, Append(opened[e.name], piece)) ELSE opened
        /\ disturbed' = disturbed \cup (IF opens \/ writes THEN Uploading(e.name) \ {r} ELSE {})
                                  \cup (IF writes /\ ~fits THEN {r} ELSE {})
    BY Zenon DEF handleUpload
  <1>9. opens => e.sent = 0
    OBVIOUS
  <1> HIDE DEF opens, writes, fits, piece
  <1>10. Uploading(e.name) \ {r} \subseteq disturbed' /\ disturbed \subseteq disturbed'
    BY <1>6, <1>8
  <1>11. /\ \A n : n # e.name =>
              (n \in DOMAIN opened <=> n \in DOMAIN disk) /\ (n \in DOMAIN disk => opened[n] = disk[n])
         /\ opens => e.name \in DOMAIN opened /\ opened[e.name] = <<>>
    <2>1. CASE opens
      <3>1. opened = Put(disk, e.name, <<>>)
        BY <2>1
      <3>2. /\ DOMAIN Put(disk, e.name, <<>>) = DOMAIN disk \cup {e.name}
            /\ Put(disk, e.name, <<>>)[e.name] = <<>>
            /\ \A n \in DOMAIN disk : n # e.name => Put(disk, e.name, <<>>)[n] = disk[n]
        BY DEF Put
      <3> HIDE DEF opened
      <3> QED  BY <3>1, <3>2
    <2>2. CASE ~opens
      BY <2>2
    <2> QED  BY <2>1, <2>2
  <1> HIDE DEF opened
  <1>12. CASE fits
    <2>1. disk' = Put(opened, e.name, Append(opened[e.name], piece))
      BY <1>6, <1>8, <1>12
    <2>2. e.name \in DOMAIN opened
      BY <1>12 DEF fits
    <2>3. opened[e.name] = Before(e) /\ (e.sent > 0 => e.name \in DOMAIN disk)
      BY <1>3, <1>5, <1>9, <1>11, <2>2 DEF opened, Before
    <2>4. /\ DOMAIN disk' = DOMAIN opened \cup {e.name} /\ disk'[e.name] = Append(opened[e.name], piece)
          /\ \A n \in DOMAIN opened : n # e.name => disk'[n] = opened[n]
      BY <2>1 DEF Put
    <2>5. Beside(e.name)
      BY <1>11, <2>4 DEF Beside
    <2> QED  BY <1>7, <1>10, <2>3, <2>4, <2>5 DEF piece
  <1>13. CASE ~fits
    <2>1. disk' = opened /\ r \in disturbed'
      BY <1>6, <1>8, <1>13
    <2>2. Beside(e.name)
      BY <1>11, <2>1 DEF Beside
    <2> QED  BY <1>7, <1>10, <1>11, <2>1, <2>2 DEF opened
  <1> QED  BY <1>12, <1>13

\* A piece of a stranger changes nothing.
LEMMA StrangersPiece ==
    ASSUME EditorAssumption, EditorIInv, NEW r \in Editors, handleUpload(r), ~Owner(edits[r])
    PROVE  disk' = disk /\ authenticated' = authenticated /\ disturbed' = disturbed
  <1> DEFINE e == edits[r]
             opens == e.sent = 0 /\ (account = "none" \/ e.login)
             opened == IF opens THEN Put(disk, e.name, <<>>) ELSE disk
             writes == (authenticated \/ opens) /\ (e.tempFile \/ opens)
             fits == HasRoom(opened) /\ e.name \in DOMAIN opened
             piece == <<e.id, e.sent + 1>>
  <1>1. e.method = "UPLOAD" /\ r \in Uploads
    BY DEF handleUpload, Uploads
  <1>2. e \in Upload
    BY <1>1 DEF EditorIInv, EditorTypes, NoEdit
  <1>3. e.login \in BOOLEAN /\ e.tempFile \in BOOLEAN /\ authenticated \in BOOLEAN
    BY <1>2 DEF Upload, EditorIInv, EditorTypes
  <1>4. e.tempFile # TRUE
    BY <1>1 DEF EditorIInv, OpenWhileSent
  <1>5. ~opens
    BY <1>3, Zenon DEF Owner
  <1>6. ~writes
    BY <1>3, <1>4, <1>5, Zenon
  <1>7. /\ disk' = IF writes /\ fits THEN Put(opened, e.name, Append(opened[e.name], piece)) ELSE opened
        /\ disturbed' = disturbed \cup (IF opens \/ writes THEN Uploading(e.name) \ {r} ELSE {})
                                  \cup (IF writes /\ ~fits THEN {r} ELSE {})
        /\ authenticated' = (authenticated \/ opens)
    BY Zenon DEF handleUpload
  <1>8. authenticated' = authenticated
    BY <1>3, <1>5, <1>7, Zenon
  <1> HIDE DEF opens, writes, fits, piece
  <1> QED  BY <1>5, <1>6, <1>7, <1>8

LEMMA UploadUpdates ==
    ASSUME NEW e \in Upload, NEW n \in Nat, NEW b \in BOOLEAN,
           NEW f, f = [[e EXCEPT !.sent = n] EXCEPT !.tempFile = b]
    PROVE  /\ f \in Upload /\ f.method = "UPLOAD" /\ f.name = e.name /\ f.login = e.login
           /\ f.id = e.id /\ f.sent = n /\ f.tempFile = b
  BY DEF Upload

\* What a piece does to its request.
LEMMA PieceCounted ==
    ASSUME EditorAssumption, EditorIInv, NEW r \in Editors, handleUpload(r)
    PROVE  /\ r \in Uploads /\ edits[r].sent < UploadPieces /\ edits[r] \in Upload
           /\ DOMAIN edits' = Editors /\ edits' = [q \in Editors |-> edits'[q]]
           /\ \A q \in Editors : q # r => edits'[q] = edits[q]
           /\ edits'[r] \in Upload
           /\ edits'[r].name = edits[r].name /\ edits'[r].login = edits[r].login
           /\ edits'[r].id = edits[r].id /\ edits'[r].sent = edits[r].sent + 1
           /\ edits'[r].tempFile = TRUE <=> Owner(edits[r]) /\ edits[r].sent + 1 < UploadPieces
           /\ Uploads' = Uploads
  <1> DEFINE e == edits[r]
             opens == e.sent = 0 /\ (account = "none" \/ e.login)
             open == (e.tempFile \/ opens) /\ e.sent + 1 < UploadPieces
  <1>1. e.method = "UPLOAD" /\ e.sent < UploadPieces /\ r \in Uploads
    BY DEF handleUpload, Uploads
  <1>2. e \in Upload
    BY <1>1 DEF EditorIInv, EditorTypes, NoEdit
  <1>3. e.login \in BOOLEAN /\ e.tempFile \in BOOLEAN /\ e.sent \in Nat /\ UploadPieces \in Nat
    BY <1>2 DEF Upload, EditorAssumption
  <1>4. DOMAIN edits = Editors /\ edits = [q \in Editors |-> edits[q]]
    BY DEF EditorIInv, EditorTypes
  <1>5. edits' = [edits EXCEPT ![r] = [[e EXCEPT !.sent = e.sent + 1] EXCEPT !.tempFile = open]]
    <2>1. edits' = [edits EXCEPT ![r].sent = @ + 1, ![r].tempFile = (@ \/ opens) /\ e.sent + 1 < UploadPieces]
      BY Zenon DEF handleUpload
    <2>2. PICK b : b = open
      OBVIOUS
    <2>3. [edits EXCEPT ![r].sent = @ + 1, ![r].tempFile = (@ \/ opens) /\ e.sent + 1 < UploadPieces]
            = [edits EXCEPT ![r] = [[e EXCEPT !.sent = e.sent + 1] EXCEPT !.tempFile = open]]
      BY <1>2, <1>4 DEF Upload
    <2> QED  BY <2>1, <2>3
  <1>6. PICK b \in BOOLEAN : b = open
    OBVIOUS
  <1> HIDE DEF open
  <1>7. edits'[r] = [[e EXCEPT !.sent = e.sent + 1] EXCEPT !.tempFile = b]
    BY <1>4, <1>5, <1>6
  <1>n. e.sent + 1 \in Nat
    BY <1>3
  <1>8. /\ edits'[r] \in Upload /\ edits'[r].method = "UPLOAD"
        /\ edits'[r].name = e.name /\ edits'[r].login = e.login
        /\ edits'[r].id = e.id /\ edits'[r].sent = e.sent + 1 /\ edits'[r].tempFile = b
    <2>1. PICK x \in Upload, n \in Nat : x = e /\ n = e.sent + 1
      BY <1>2, <1>n
    <2>f. PICK f : f = edits'[r]
      OBVIOUS
    <2>2. f = [[x EXCEPT !.sent = n] EXCEPT !.tempFile = b]
      BY <1>7, <2>1, <2>f
    <2>3. /\ f \in Upload /\ f.method = "UPLOAD" /\ f.name = x.name /\ f.login = x.login
          /\ f.id = x.id /\ f.sent = n /\ f.tempFile = b
      BY <2>2 DEF Upload
    <2> QED  BY <2>1, <2>f, <2>3
  <1>9. b <=> (e.tempFile \/ opens) /\ e.sent + 1 < UploadPieces
    BY <1>6, Zenon DEF open
  <1>10. e.sent # 0 => (e.tempFile = TRUE <=> Owner(e))
    BY <1>1, <1>3 DEF EditorIInv, OpenWhileSent
  <1>11. e.sent = 0 => (opens <=> Owner(e)) /\ e.tempFile # TRUE
    <2>2. opens <=> e.sent = 0 /\ Owner(e)
      BY Zenon DEF Owner
    <2>3. e.tempFile = TRUE => Owner(e) /\ e.sent \in 1 .. UploadPieces - 1
      BY <1>1, <1>3 DEF EditorIInv, OpenWhileSent
    <2>4. ~(e.sent = 0 /\ e.sent \in 1 .. UploadPieces - 1)
      BY <1>3
    <2> QED  BY <2>2, <2>3, <2>4, Zenon
  <1>12. e.sent # 0 => ~opens
    OBVIOUS
  <1> HIDE DEF opens
  <1>13. b <=> Owner(e) /\ e.sent + 1 < UploadPieces
    BY <1>3, <1>9, <1>10, <1>11, <1>12, Zenon
  <1>14. \A q \in Editors : q # r => edits'[q] = edits[q]
    BY <1>4, <1>5
  <1>15. DOMAIN edits' = Editors /\ edits' = [q \in Editors |-> edits'[q]]
    BY <1>4, <1>5
  <1>16. Uploads' = Uploads
    BY <1>1, <1>8, <1>14 DEF Uploads
  <1>17. b = TRUE <=> b
    BY <1>6
  <1>18. edits'[r].tempFile = TRUE <=> Owner(e) /\ e.sent + 1 < UploadPieces
    BY <1>8, <1>13, <1>17
  <1> QED  BY <1>1, <1>2, <1>8, <1>14, <1>15, <1>16, <1>18

LEMMA PieceAppended ==
    ASSUME NEW id \in Nat, NEW n \in Nat, NEW s \in Seq(Piece)
    PROVE  /\ Append(s, <<id, n>>) \in Seq(Piece)
           /\ \A i \in DOMAIN Append(s, <<id, n>>) :
                 \/ Append(s, <<id, n>>)[i][1] = id
                 \/ i \in DOMAIN s /\ Append(s, <<id, n>>)[i] = s[i]
  <1>1. PICK p \in Piece : p = <<id, n>>
    BY DEF Piece
  <1>2. p[1] = id
    BY <1>1
  <1>3. PICK t : t = Append(s, p)
    OBVIOUS
  <1>4. /\ t \in Seq(Piece) /\ Len(t) = Len(s) + 1
        /\ \A i \in 1 .. Len(s) + 1 : t[i] = IF i = Len(s) + 1 THEN p ELSE s[i]
    BY <1>3, AppendProperties
  <1>5. DOMAIN t = 1 .. Len(s) + 1 /\ DOMAIN s = 1 .. Len(s) /\ Len(s) \in Nat
    BY <1>4
  <1>6. ASSUME NEW i \in DOMAIN t  PROVE t[i][1] = id \/ (i \in DOMAIN s /\ t[i] = s[i])
    <2>1. t[i] = p \/ (i \in DOMAIN s /\ t[i] = s[i])
      <3>1. CASE i = Len(s) + 1
        BY <1>4, <1>5, <3>1
      <3>2. CASE i # Len(s) + 1
        BY <1>4, <1>5, <3>2
      <3> QED  BY <3>1, <3>2
    <2> QED  BY <1>2, <2>1, Zenon
  <1> QED  BY <1>1, <1>3, <1>4, <1>6, Zenon

LEMMA PiecesGrow ==
    ASSUME NEW id \in Nat, NEW n \in Nat
    PROVE  Append([i \in 1 .. n |-> <<id, i>>], <<id, n + 1>>) = [i \in 1 .. n + 1 |-> <<id, i>>]
  <1> DEFINE s == [i \in 1 .. n |-> <<id, i>>]
  <1>1. s \in Seq(Piece) /\ Len(s) = n
    BY DEF Piece
  <1>2. PICK p \in Piece : p = <<id, n + 1>>
    <2>1. n + 1 \in Nat
      OBVIOUS
    <2> QED  BY <2>1 DEF Piece
  <1>3. /\ Append(s, p) \in Seq(Piece) /\ Len(Append(s, p)) = Len(s) + 1
        /\ \A i \in 1 .. Len(s) + 1 : Append(s, p)[i] = IF i = Len(s) + 1 THEN p ELSE s[i]
    BY <1>1, AppendProperties
  <1>4. [i \in 1 .. n + 1 |-> <<id, i>>] \in Seq(Piece) /\ Len([i \in 1 .. n + 1 |-> <<id, i>>]) = n + 1
    BY DEF Piece
  <1>5. \A i \in 1 .. n : s[i] = <<id, i>>
    OBVIOUS
  <1> HIDE DEF s
  <1>6. \A i \in 1 .. n + 1 : Append(s, p)[i] = [j \in 1 .. n + 1 |-> <<id, j>>][i]
    BY <1>1, <1>2, <1>3, <1>5
  <1>7. Append(s, p) = [i \in 1 .. n + 1 |-> <<id, i>>]
    BY <1>1, <1>3, <1>4, <1>6, SeqEqual
  <1> QED  BY <1>2, <1>7 DEF s

\* The pieces in the files, when one who may upload hands one over.
LEMMA OwnersPieces ==
    ASSUME EditorAssumption, EditorIInv, NEW r \in Editors, handleUpload(r), Owner(edits[r])
    PROVE  \A n \in DOMAIN disk' :
              /\ disk'[n] \in Seq(Piece)
              /\ \A i \in DOMAIN disk'[n] :
                    \/ disk'[n][i][1] = edits[r].id
                    \/ n \in DOMAIN disk /\ i \in DOMAIN disk[n] /\ disk'[n][i] = disk[n][i]
  <1> DEFINE e == edits[r]
  <1>1. e \in Upload
    BY PieceCounted
  <1>2. e.id \in Nat /\ e.sent \in Nat /\ e.sent + 1 \in Nat
    BY <1>1 DEF Upload
  <1>3. \A n \in DOMAIN disk : disk[n] \in Seq(Piece)
    BY DEF EditorIInv, EditorTypes
  <1> SUFFICES ASSUME NEW n \in DOMAIN disk'
               PROVE  /\ disk'[n] \in Seq(Piece)
                      /\ \A i \in DOMAIN disk'[n] :
                            \/ disk'[n][i][1] = e.id
                            \/ n \in DOMAIN disk /\ i \in DOMAIN disk[n] /\ disk'[n][i] = disk[n][i]
    OBVIOUS
  <1>4. CASE n # e.name
    BY <1>3, <1>4, OwnersPiece DEF Beside
  <1>5. CASE n = e.name
    <2>1. CASE /\ disk'[n] = Append(Before(e), <<e.id, e.sent + 1>>)
               /\ e.sent > 0 => n \in DOMAIN disk
      <3>1. Before(e) \in Seq(Piece) /\ (DOMAIN Before(e) = {} \/ (n \in DOMAIN disk /\ Before(e) = disk[n]))
        <4>1. CASE e.sent = 0
          <5>1. Before(e) = <<>>
            BY <4>1 DEF Before
          <5>2. <<>> \in Seq(Piece)
            OBVIOUS
          <5>3. DOMAIN <<>> = {}
            OBVIOUS
          <5> QED  BY <5>1, <5>2, <5>3, Zenon
        <4>2. CASE e.sent # 0
          BY <1>2, <1>3, <1>5, <2>1, <4>2 DEF Before
        <4> QED  BY <4>1, <4>2
      <3>2. PICK s \in Seq(Piece), k \in Nat, id \in Nat : s = Before(e) /\ k = e.sent + 1 /\ id = e.id
        BY <1>2, <3>1
      <3>3. disk'[n] = Append(s, <<id, k>>)
        BY <2>1, <3>2
      <3> QED  BY <3>1, <3>2, <3>3, PieceAppended
    <2>2. CASE disk' = disk
      BY <1>3, <2>2
    <2>3. CASE disk'[n] = <<>>
      BY <2>3
    <2> QED  BY <1>5, <2>1, <2>2, <2>3, OwnersPiece
  <1> QED  BY <1>4, <1>5

LEMMA HandleUploadKeeps ==
    ASSUME EditorAssumption, EditorIInv, NEW r \in Editors, handleUpload(r)
    PROVE  EditorIInv'
  <1> DEFINE e == edits[r]
  <1>0. EditorTypes /\ Numbered /\ OpenWhileSent /\ Undisturbed /\ Shut /\ UploadsAreWhole
    BY DEF EditorIInv
  <1>1. UNCHANGED <<account, reply, made>>
    BY DEF handleUpload
  <1>2. /\ r \in Uploads /\ e.sent < UploadPieces /\ e \in Upload
        /\ DOMAIN edits' = Editors /\ edits' = [q \in Editors |-> edits'[q]]
        /\ \A q \in Editors : q # r => edits'[q] = edits[q]
        /\ edits'[r] \in Upload
        /\ edits'[r].name = e.name /\ edits'[r].login = e.login
        /\ edits'[r].id = e.id /\ edits'[r].sent = e.sent + 1
        /\ edits'[r].tempFile = TRUE <=> Owner(e) /\ e.sent + 1 < UploadPieces
        /\ Uploads' = Uploads
    BY PieceCounted
  <1>3. e.id \in Nat /\ e.sent \in Nat /\ UploadPieces \in Nat /\ made \in Nat
    BY <1>0, <1>2 DEF Upload, EditorAssumption, EditorTypes
  <1>4. Uploads \subseteq Editors /\ \A q \in Editors : edits'[q].id = edits[q].id
    BY <1>2 DEF Uploads
  <1>5. \A q \in Editors : Owner(edits[q])' <=> Owner(edits[q])
    <2> SUFFICES ASSUME NEW q \in Editors  PROVE Owner(edits[q])' <=> Owner(edits[q])
      OBVIOUS
    <2>1. edits'[q].login = edits[q].login
      BY <1>2
    <2> QED  BY <1>1, <2>1 DEF Owner
  <1>6. authenticated' \in BOOLEAN /\ (authenticated = TRUE => authenticated' = TRUE)
    <2>1. CASE Owner(e)
      BY <2>1, OwnersPiece
    <2>2. CASE ~Owner(e)
      BY <1>0, <2>2, StrangersPiece DEF EditorTypes
    <2> QED  BY <2>1, <2>2
  <1>7. EditorTypes'
    <2>1. \A n \in DOMAIN disk' : disk'[n] \in Seq(Piece)
      <3>1. CASE Owner(e)
        BY <3>1, OwnersPieces
      <3>2. CASE ~Owner(e)
        BY <1>0, <3>2, StrangersPiece DEF EditorTypes
      <3> QED  BY <3>1, <3>2
    <2> QED  BY <1>0, <1>1, <1>2, <1>6, <2>1 DEF EditorTypes
  <1>8. Numbered'
    <2>1. \A n \in DOMAIN disk' : \A i \in DOMAIN disk'[n] : disk'[n][i][1] <= made
      <3>1. CASE Owner(e)
        <4>1. e.id <= made
          BY <1>0, <1>2 DEF Numbered
        <4>2. \A n \in DOMAIN disk : \A i \in DOMAIN disk[n] : disk[n][i][1] <= made
          BY <1>0 DEF Numbered
        <4> SUFFICES ASSUME NEW n \in DOMAIN disk', NEW i \in DOMAIN disk'[n]
                     PROVE  disk'[n][i][1] <= made
          OBVIOUS
        <4>3. \/ disk'[n][i][1] = e.id
              \/ n \in DOMAIN disk /\ i \in DOMAIN disk[n] /\ disk'[n][i] = disk[n][i]
          BY <3>1, OwnersPieces
        <4> QED  BY <4>1, <4>2, <4>3
      <3>2. CASE ~Owner(e)
        BY <1>0, <3>2, StrangersPiece DEF Numbered
      <3> QED  BY <3>1, <3>2
    <2>2. \A q \in Uploads' : edits'[q].id <= made'
      BY <1>0, <1>1, <1>2, <1>4 DEF Numbered
    <2>3. \A p, q \in Uploads' : edits'[p].id = edits'[q].id => p = q
      BY <1>0, <1>2, <1>4 DEF Numbered
    <2> QED  BY <1>1, <2>1, <2>2, <2>3 DEF Numbered
  <1>9. OpenWhileSent'
    <2> SUFFICES ASSUME NEW q \in Uploads
                 PROVE  /\ edits'[q].sent <= UploadPieces
                        /\ edits'[q].tempFile = TRUE
                              <=> Owner(edits[q]) /\ edits'[q].sent \in 1 .. UploadPieces - 1
                        /\ edits'[q].tempFile = TRUE => authenticated' = TRUE
      BY <1>2, <1>4, <1>5 DEF OpenWhileSent
    <2>1. CASE q = r
      <3>1. e.sent + 1 <= UploadPieces /\ (e.sent + 1 < UploadPieces <=> e.sent + 1 \in 1 .. UploadPieces - 1)
        BY <1>2, <1>3
      <3>2. Owner(e) => authenticated' = TRUE
        BY OwnersPiece
      <3> QED  BY <1>2, <2>1, <3>1, <3>2
    <2>2. CASE q # r
      BY <1>0, <1>2, <1>4, <1>6, <2>2 DEF OpenWhileSent
    <2> QED  BY <2>1, <2>2
  <1>10. Undisturbed'
    <2> SUFFICES ASSUME NEW q \in Uploads, Owner(edits[q]), edits'[q].sent > 0, q \notin disturbed'
                 PROVE  /\ edits'[q].name \in DOMAIN disk'
                        /\ disk'[edits'[q].name] = [i \in 1 .. edits'[q].sent |-> <<edits'[q].id, i>>]
      BY <1>2, <1>4, <1>5 DEF Undisturbed, Pieces
    <2>1. CASE q = r
      <3>1. /\ e.name \in DOMAIN disk' /\ disk'[e.name] = Append(Before(e), <<e.id, e.sent + 1>>)
            /\ disturbed \subseteq disturbed'
        BY <2>1, OwnersPiece
      <3>2. Before(e) = [i \in 1 .. e.sent |-> <<e.id, i>>]
        <4>1. CASE e.sent = 0
          BY <4>1 DEF Before
        <4>2. CASE e.sent # 0
          <5>1. r \notin disturbed /\ e.sent > 0
            BY <1>3, <2>1, <3>1, <4>2
          <5> QED  BY <1>0, <1>2, <2>1, <4>2, <5>1 DEF Before, Undisturbed, Pieces
        <4> QED  BY <4>1, <4>2
      <3>3. disk'[e.name] = [i \in 1 .. e.sent + 1 |-> <<e.id, i>>]
        BY <1>3, <3>1, <3>2, PiecesGrow
      <3>4. edits'[q].name = e.name /\ edits'[q].sent = e.sent + 1 /\ edits'[q].id = e.id
        BY <1>2, <2>1
      <3>5. [i \in 1 .. edits'[q].sent |-> <<edits'[q].id, i>>] = [i \in 1 .. e.sent + 1 |-> <<e.id, i>>]
        BY <3>4
      <3> HIDE DEF e
      <3> QED  BY <3>1, <3>3, <3>4, <3>5, Zenon
    <2>2. CASE q # r
      <3>1. edits'[q] = edits[q] /\ q \in Editors
        BY <1>2, <1>4, <2>2
      <3>2. CASE Owner(e)
        <4>1. edits[q].name # e.name
          BY <2>2, <3>1, <3>2, OwnersPiece DEF Uploading, Uploads
        <4>2. q \notin disturbed
          BY <3>2, OwnersPiece
        <4>3. edits[q].name \in DOMAIN disk /\ disk[edits[q].name] = [i \in 1 .. edits[q].sent |-> <<edits[q].id, i>>]
          BY <1>0, <3>1, <4>2 DEF Undisturbed, Pieces
        <4>4. edits[q].name \in DOMAIN disk' /\ disk'[edits[q].name] = disk[edits[q].name]
          BY <3>2, <4>1, <4>3, OwnersPiece DEF Beside
        <4> QED  BY <3>1, <4>3, <4>4
      <3>3. CASE ~Owner(e)
        BY <1>0, <3>1, <3>3, StrangersPiece DEF Undisturbed, Pieces
      <3> QED  BY <3>2, <3>3
    <2> QED  BY <2>1, <2>2
  <1>11. Shut'
    <2> SUFFICES ASSUME NEW q \in Uploads, ~Owner(edits[q]), NEW n \in DOMAIN disk', NEW i \in DOMAIN disk'[n]
                 PROVE  disk'[n][i][1] # edits[q].id
      BY <1>2, <1>4, <1>5 DEF Shut
    <2>1. CASE Owner(e)
      <3>1. edits[q].id # e.id
        BY <1>0, <1>2, <2>1 DEF Numbered
      <3>2. \/ disk'[n][i][1] = e.id
            \/ n \in DOMAIN disk /\ i \in DOMAIN disk[n] /\ disk'[n][i] = disk[n][i]
        BY <2>1, OwnersPieces
      <3> QED  BY <1>0, <3>1, <3>2 DEF Shut
    <2>2. CASE ~Owner(e)
      BY <1>0, <2>2, StrangersPiece DEF Shut
    <2> QED  BY <2>1, <2>2
  <1>12. UploadsAreWhole'
    BY <1>0, <1>1 DEF UploadsAreWhole
  <1> QED  BY <1>7, <1>8, <1>9, <1>10, <1>11, <1>12 DEF EditorIInv

LEMMA BeginKeeps ==
    ASSUME EditorIInv, NEW r \in Editors, NEW name \in Names, NEW login \in BOOLEAN, Begin(r, name, login),
           EditorAssumption
    PROVE  EditorIInv'
  <1>0. EditorTypes /\ Numbered /\ OpenWhileSent /\ Undisturbed /\ Shut /\ UploadsAreWhole
    BY DEF EditorIInv
  <1>1. /\ edits[r] = NoEdit /\ made' = made + 1
        /\ UNCHANGED <<account, disk, authenticated, reply, disturbed>>
        /\ edits' = [edits EXCEPT ![r] = [method |-> "UPLOAD", name |-> name, login |-> login, sent |-> 0,
                                          tempFile |-> FALSE, id |-> made + 1]]
    BY DEF Begin
  <1>2. made \in Nat /\ made + 1 \in Nat /\ UploadPieces \in Nat
    BY <1>0 DEF EditorTypes, EditorAssumption
  <1>3. PICK e : e = [method |-> "UPLOAD", name |-> name, login |-> login, sent |-> 0,
                      tempFile |-> FALSE, id |-> made + 1]
    OBVIOUS
  <1>4. e \in Upload /\ e.method = "UPLOAD" /\ e.sent = 0 /\ e.tempFile = FALSE /\ e.id = made + 1
    BY <1>2, <1>3 DEF Upload
  <1>5. /\ DOMAIN edits' = Editors /\ edits' = [q \in Editors |-> edits'[q]]
        /\ edits'[r] = e /\ \A q \in Editors : q # r => edits'[q] = edits[q]
    BY <1>0, <1>1, <1>3 DEF EditorTypes
  <1>6. /\ r \notin Uploads /\ Uploads \subseteq Editors /\ Uploads' = Uploads \cup {r}
        /\ \A q \in Uploads : edits'[q] = edits[q]
    BY <1>1, <1>4, <1>5 DEF Uploads, NoEdit
  <1>7. \A q \in Uploads : Owner(edits[q])' <=> Owner(edits[q])
    BY <1>1, <1>6 DEF Owner
  <1>8. EditorTypes'
    BY <1>0, <1>1, <1>2, <1>4, <1>5 DEF EditorTypes
  <1>9. Numbered'
    <2>1. \A q \in Uploads : edits'[q].id <= made /\ edits'[q].id \in Nat
      <3>1. \A q \in Uploads : edits[q] \in Upload /\ edits[q].id <= made
        BY <1>0 DEF EditorTypes, Numbered, Uploads, NoEdit
      <3> QED  BY <1>6, <3>1 DEF Upload
    <2>2. \A n \in DOMAIN disk : \A i \in DOMAIN disk[n] : disk[n][i][1] \in Nat /\ disk[n][i][1] <= made
      <3> SUFFICES ASSUME NEW n \in DOMAIN disk, NEW i \in DOMAIN disk[n]
                   PROVE  disk[n][i][1] \in Nat /\ disk[n][i][1] <= made
        OBVIOUS
      <3>1. disk[n] \in Seq(Piece)
        BY <1>0 DEF EditorTypes
      <3>2. disk[n][i] \in Piece
        BY <3>1
      <3> QED  BY <1>0, <3>2 DEF Numbered, Piece
    <2>3. \A q \in Uploads' : edits'[q].id <= made'
      BY <1>1, <1>2, <1>4, <1>5, <1>6, <2>1
    <2>4. \A p, q \in Uploads' : edits'[p].id = edits'[q].id => p = q
      BY <1>0, <1>2, <1>4, <1>5, <1>6, <2>1 DEF Numbered
    <2>5. \A n \in DOMAIN disk' : \A i \in DOMAIN disk'[n] : disk'[n][i][1] <= made'
      BY <1>1, <1>2, <2>2
    <2> QED  BY <2>3, <2>4, <2>5 DEF Numbered
  <1>10. OpenWhileSent'
    <2>1. UNCHANGED authenticated
      BY <1>1
    <2>2. 0 <= UploadPieces /\ ~(0 \in 1 .. UploadPieces - 1)
      BY <1>2
    <2> SUFFICES ASSUME NEW q \in Uploads'
                 PROVE  /\ edits'[q].sent <= UploadPieces
                        /\ edits'[q].tempFile = TRUE
                              <=> Owner(edits[q])' /\ edits'[q].sent \in 1 .. UploadPieces - 1
                        /\ edits'[q].tempFile = TRUE => authenticated = TRUE
      BY <2>1 DEF OpenWhileSent
    <2>3. CASE q = r
      BY <1>4, <1>5, <2>2, <2>3
    <2>4. CASE q # r
      BY <1>0, <1>6, <1>7, <2>4 DEF OpenWhileSent
    <2> QED  BY <2>3, <2>4
  <1>11. Undisturbed'
    <2> SUFFICES ASSUME NEW q \in Uploads', Owner(edits[q])', edits'[q].sent > 0, q \notin disturbed
                 PROVE  /\ edits'[q].name \in DOMAIN disk
                        /\ disk[edits'[q].name] = [i \in 1 .. edits'[q].sent |-> <<edits'[q].id, i>>]
      BY <1>1 DEF Undisturbed, Pieces
    <2>1. q # r
      BY <1>4, <1>5
    <2> QED  BY <1>0, <1>6, <1>7, <2>1 DEF Undisturbed, Pieces
  <1>12. Shut'
    <2> SUFFICES ASSUME NEW q \in Uploads', ~Owner(edits[q])', NEW n \in DOMAIN disk, NEW i \in DOMAIN disk[n]
                 PROVE  disk[n][i][1] # edits'[q].id
      BY <1>1 DEF Shut
    <2>1. CASE q = r
      <3>1. disk[n] \in Seq(Piece)
        BY <1>0 DEF EditorTypes
      <3>2. disk[n][i] \in Piece /\ disk[n][i][1] <= made
        BY <1>0, <3>1 DEF Numbered
      <3>3. disk[n][i][1] \in Nat
        BY <3>2 DEF Piece
      <3> QED  BY <1>2, <1>4, <1>5, <2>1, <3>2, <3>3
    <2>2. CASE q # r
      BY <1>0, <1>6, <1>7, <2>2 DEF Shut
    <2> QED  BY <2>1, <2>2
  <1>13. UploadsAreWhole'
    BY <1>0, <1>1 DEF UploadsAreWhole
  <1> QED  BY <1>8, <1>9, <1>10, <1>11, <1>12, <1>13 DEF EditorIInv

LEMMA HandlePostKeeps ==
    ASSUME EditorAssumption, EditorIInv, NEW r \in Editors, handlePost(r)
    PROVE  EditorIInv'
  <1> DEFINE e == edits[r]
             code == IF ~Allowed(e.login) THEN 401 ELSE IF e.name \in DOMAIN disk THEN 200 ELSE 500
  <1>0. EditorTypes /\ Numbered /\ OpenWhileSent /\ Undisturbed /\ Shut /\ UploadsAreWhole
    BY DEF EditorIInv
  <1>1. /\ e.method = "UPLOAD" /\ e.sent = UploadPieces /\ disk' = disk
        /\ edits' = [edits EXCEPT ![r] = NoEdit] /\ disturbed' = disturbed \ {r}
        /\ UNCHANGED <<account, authenticated, made>>
    BY DEF handlePost, AnswerWith
  <1>2. reply' = [method |-> e.method, code |-> code, login |-> e.login, disturbed |-> r \in disturbed,
                  id |-> e.id, content |-> IF e.name \in DOMAIN disk THEN disk[e.name] ELSE <<>>]
    BY DEF handlePost, AnswerWith
  <1>3. /\ DOMAIN edits' = Editors /\ edits' = [q \in Editors |-> edits'[q]]
        /\ edits'[r] = NoEdit /\ \A q \in Editors : q # r => edits'[q] = edits[q]
    BY <1>0, <1>1 DEF EditorTypes
  <1>4. /\ r \in Uploads /\ Uploads \subseteq Editors /\ Uploads' = Uploads \ {r}
        /\ \A q \in Uploads \ {r} : edits'[q] = edits[q]
    BY <1>1, <1>3 DEF Uploads, NoEdit
  <1>5. \A q \in Uploads \ {r} : Owner(edits[q])' <=> Owner(edits[q])
    BY <1>1, <1>4 DEF Owner
  <1>6. EditorTypes'
    BY <1>0, <1>1, <1>3 DEF EditorTypes
  <1>7. Numbered'
    BY <1>0, <1>1, <1>4 DEF Numbered
  <1>8. OpenWhileSent'
    BY <1>0, <1>1, <1>4, <1>5 DEF OpenWhileSent
  <1>9. Undisturbed'
    BY <1>0, <1>1, <1>4, <1>5 DEF Undisturbed, Pieces
  <1>10. Shut'
    BY <1>0, <1>1, <1>4, <1>5 DEF Shut
  <1>11. UploadsAreWhole'
    <2>1. e \in Upload /\ e.sent > 0
      BY <1>0, <1>1 DEF EditorTypes, NoEdit, EditorAssumption
    <2>2. /\ reply'.code = code /\ reply'.login = e.login /\ reply'.id = e.id
          /\ reply'.content = IF e.name \in DOMAIN disk THEN disk[e.name] ELSE <<>>
      BY <1>2
    <2>3. PICK b : b = (r \in disturbed)
      OBVIOUS
    <2>4. reply'.disturbed = b
      <3>1. PICK content : content = IF e.name \in DOMAIN disk THEN disk[e.name] ELSE <<>>
        OBVIOUS
      <3>2. reply' = [method |-> e.method, code |-> code, login |-> e.login, disturbed |-> b,
                      id |-> e.id, content |-> content]
        BY <1>2, <2>3, <3>1, Zenon
      <3> QED  BY <3>2
    <2>5. (account = "none" \/ reply.login)' <=> Owner(e)
      BY <1>1, <2>2 DEF Owner
    <2>6. Owner(e) /\ r \notin disturbed => reply'.content = [i \in 1 .. UploadPieces |-> <<reply'.id, i>>]
      <3> SUFFICES ASSUME Owner(e), r \notin disturbed
                   PROVE  reply'.content = [i \in 1 .. UploadPieces |-> <<reply'.id, i>>]
        OBVIOUS
      <3>1. e.name \in DOMAIN disk /\ disk[e.name] = [i \in 1 .. e.sent |-> <<e.id, i>>]
        BY <1>0, <1>4, <2>1 DEF Undisturbed, Pieces
      <3> QED  BY <1>1, <2>2, <3>1
    <2>7. ~Owner(e) => \A i \in DOMAIN reply'.content : reply'.content[i][1] # reply'.id
      <3> SUFFICES ASSUME ~Owner(e), NEW i \in DOMAIN reply'.content
                   PROVE  reply'.content[i][1] # reply'.id
        OBVIOUS
      <3>1. e.name \in DOMAIN disk /\ reply'.content = disk[e.name]
        <4>1. DOMAIN <<>> = {}
          OBVIOUS
        <4> QED  BY <2>2, <4>1
      <3> QED  BY <1>0, <1>4, <2>2, <3>1 DEF Shut
    <2>8. ~reply'.disturbed <=> r \notin disturbed
      BY <2>3, <2>4, Zenon
    <2> HIDE DEF code, e
    <2> QED  BY <2>5, <2>6, <2>7, <2>8, Zenon DEF UploadsAreWhole
  <1> QED  BY <1>6, <1>7, <1>8, <1>9, <1>10, <1>11 DEF EditorIInv

\* What one of the other requests may do to the files.
LEMMA RequestedFiles ==
    ASSUME EditorIInv, NEW r \in Editors, NEW method \in {"GET", "DELETE", "PUT"}, NEW name \in Names,
           NEW login \in BOOLEAN, handleRequest(r, method, name, login)
    PROVE  /\ disturbed \subseteq disturbed'
           /\ disk' = disk \/ (Beside(name) /\ Uploading(name) \subseteq disturbed')
           /\ \A n \in DOMAIN disk' : \/ n \in DOMAIN disk /\ disk'[n] = disk[n]
                                     \/ disk'[n] = << <<made + 1, 0>> >>
           /\ reply'.method # "UPLOAD"
  <1> DEFINE e == [method |-> method, name |-> name, login |-> login, id |-> made + 1]
             content == << <<made + 1, 0>> >>
  <1>1. /\ disk' \in {disk, [n \in DOMAIN disk \ {name} |-> disk[n]], Put(disk, name, content)}
        /\ disk' # disk => disturbed' = disturbed \cup Uploading(name)
        /\ disturbed' \in {disturbed, disturbed \cup Uploading(name)}
    BY DEF handleRequest, AnswerWith
  <1>2. reply'.method = method
    BY DEF handleRequest, AnswerWith
  <1>3. disturbed \subseteq disturbed'
    BY <1>1
  <1>4. CASE disk' = disk
    BY <1>2, <1>3, <1>4
  <1>5. CASE disk' = [n \in DOMAIN disk \ {name} |-> disk[n]]
    BY <1>1, <1>2, <1>3, <1>5 DEF Beside
  <1>6. CASE disk' = Put(disk, name, content)
    <2>1. /\ DOMAIN disk' = DOMAIN disk \cup {name} /\ disk'[name] = content
          /\ \A n \in DOMAIN disk : n # name => disk'[n] = disk[n]
      BY <1>6 DEF Put
    <2> QED  BY <1>1, <1>2, <1>3, <2>1 DEF Beside
  <1> QED  BY <1>1, <1>4, <1>5, <1>6

LEMMA HandleRequestKeeps ==
    ASSUME EditorIInv, NEW r \in Editors, NEW method \in {"GET", "DELETE", "PUT"}, NEW name \in Names,
           NEW login \in BOOLEAN, handleRequest(r, method, name, login)
    PROVE  EditorIInv'
  <1>0. EditorTypes /\ Numbered /\ OpenWhileSent /\ Undisturbed /\ Shut /\ UploadsAreWhole
    BY DEF EditorIInv
  <1>1. made' = made + 1 /\ UNCHANGED <<account, authenticated, edits>>
    BY DEF handleRequest
  <1>2. made \in Nat /\ made + 1 \in Nat
    BY <1>0 DEF EditorTypes
  <1>3. Uploads' = Uploads /\ \A q : Owner(edits[q])' <=> Owner(edits[q])
    BY <1>1 DEF Uploads, Owner
  <1>4. \A n \in DOMAIN disk : /\ disk[n] \in Seq(Piece)
                              /\ \A i \in DOMAIN disk[n] : disk[n][i][1] \in Nat /\ disk[n][i][1] <= made
    <2> SUFFICES ASSUME NEW n \in DOMAIN disk, NEW i \in DOMAIN disk[n]
                 PROVE  disk[n][i][1] \in Nat /\ disk[n][i][1] <= made
      BY <1>0 DEF EditorTypes
    <2>1. disk[n] \in Seq(Piece)
      BY <1>0 DEF EditorTypes
    <2>2. disk[n][i] \in Piece
      BY <2>1
    <2> QED  BY <1>0, <2>2 DEF Numbered, Piece
  <1>5. PICK content : content = << <<made + 1, 0>> >>
    OBVIOUS
  <1>6. content \in Seq(Piece) /\ \A i \in DOMAIN content : content[i][1] = made + 1
    BY <1>2, <1>5 DEF Piece
  <1>7. \A n \in DOMAIN disk' : (n \in DOMAIN disk /\ disk'[n] = disk[n]) \/ disk'[n] = content
    BY <1>5, RequestedFiles
  <1>8. EditorTypes'
    BY <1>0, <1>1, <1>2, <1>4, <1>6, <1>7 DEF EditorTypes
  <1>9. Numbered'
    <2>1. \A q \in Uploads : edits[q].id \in Nat /\ edits[q].id <= made
      BY <1>0 DEF EditorTypes, Numbered, Uploads, NoEdit, Upload
    <2>2. \A n \in DOMAIN disk' : \A i \in DOMAIN disk'[n] : disk'[n][i][1] <= made + 1
      BY <1>2, <1>4, <1>6, <1>7
    <2> QED  BY <1>0, <1>1, <1>2, <1>3, <2>1, <2>2 DEF Numbered
  <1>10. OpenWhileSent'
    BY <1>0, <1>1, <1>3 DEF OpenWhileSent
  <1>11. Undisturbed'
    <2> SUFFICES ASSUME NEW q \in Uploads, Owner(edits[q]), edits[q].sent > 0, q \notin disturbed'
                 PROVE  edits[q].name \in DOMAIN disk' /\ disk'[edits[q].name] = Pieces(edits[q])
      BY <1>1, <1>3 DEF Undisturbed, Pieces
    <2>1. q \notin disturbed
      BY RequestedFiles
    <2>2. edits[q].name \in DOMAIN disk /\ disk[edits[q].name] = Pieces(edits[q])
      BY <1>0, <2>1 DEF Undisturbed
    <2>3. CASE disk' = disk
      BY <2>2, <2>3
    <2>4. CASE disk' # disk
      <3>1. edits[q].name # name
        BY <2>4, RequestedFiles DEF Uploading, Uploads
      <3> QED  BY <2>2, <2>4, <3>1, RequestedFiles DEF Beside
    <2> QED  BY <2>3, <2>4
  <1>12. Shut'
    <2> SUFFICES ASSUME NEW q \in Uploads, ~Owner(edits[q]), NEW n \in DOMAIN disk', NEW i \in DOMAIN disk'[n]
                 PROVE  disk'[n][i][1] # edits[q].id
      BY <1>1, <1>3 DEF Shut
    <2>1. edits[q].id \in Nat /\ edits[q].id <= made
      BY <1>0 DEF EditorTypes, Numbered, Uploads, NoEdit, Upload
    <2> QED  BY <1>0, <1>2, <1>6, <1>7, <2>1 DEF Shut
  <1>13. UploadsAreWhole'
    BY RequestedFiles DEF UploadsAreWhole
  <1> QED  BY <1>8, <1>9, <1>10, <1>11, <1>12, <1>13 DEF EditorIInv

LEMMA EditorStarts == EditorInit => EditorIInv
  <1> SUFFICES ASSUME EditorInit  PROVE EditorIInv
    OBVIOUS
  <1>1. /\ authenticated = FALSE /\ edits = [r \in Editors |-> NoEdit] /\ reply = NoEdit /\ made = 0
        /\ \A n \in DOMAIN disk : disk[n] = << <<0, 0>> >>
    BY DEF EditorInit, Old
  <1>2. Uploads = {}
    BY <1>1 DEF Uploads, NoEdit
  <1>3. << <<0, 0>> >> \in Seq(Piece) /\ \A i \in DOMAIN << <<0, 0>> >> : << <<0, 0>> >>[i][1] = 0
    BY DEF Piece
  <1>4. EditorTypes
    BY <1>1, <1>3 DEF EditorTypes
  <1>5. Numbered
    BY <1>1, <1>2, <1>3 DEF Numbered
  <1>6. OpenWhileSent /\ Undisturbed /\ Shut
    BY <1>2 DEF OpenWhileSent, Undisturbed, Shut
  <1>7. UploadsAreWhole
    BY <1>1 DEF UploadsAreWhole, NoEdit
  <1> QED  BY <1>4, <1>5, <1>6, <1>7 DEF EditorIInv

LEMMA StepEditor ==
    ASSUME EditorAssumption  PROVE EditorIInv /\ [EditorNext]_editorVars => EditorIInv'
  <1> SUFFICES ASSUME EditorIInv, [EditorNext]_editorVars  PROVE EditorIInv'
    OBVIOUS
  <1>1. CASE EditorNext
    BY <1>1, HandleUploadKeeps, HandlePostKeeps, BeginKeeps, HandleRequestKeeps DEF EditorNext
  <1>2. CASE UNCHANGED editorVars
    BY <1>2 DEF editorVars, EditorIInv, EditorTypes, Numbered, OpenWhileSent, Undisturbed, Shut, Uploads, Owner,
                Pieces, UploadsAreWhole
  <1> QED  BY <1>1, <1>2

\* An upload that is confirmed is in the file, whole and in order, unless another
\* request has touched the file or there was no room; one that is refused has
\* left no piece there: for any number of requests at a time, names and pieces
\* (handleUpload and handleRequest of SPIFFSEditor).
THEOREM UploadsStayWhole == ASSUME EditorAssumption  PROVE EditorSpec => []UploadsAreWhole
  <1>1. EditorIInv => UploadsAreWhole
    BY DEF EditorIInv
  <1> QED  BY <1>1, EditorStarts, StepEditor, PTL DEF EditorSpec

-----------------------------------------------------------------------------
(* The page that chooses the network                                        *)

AdminSpec == AdminInit /\ [][AdminNext]_adminVars

FormFields ==
    {"toggle", "select_sta_ssid", "manual_sta_ssid", "sta_password", "disable_submit", "isLoadAPList",
     "ap_list", "ssid"}

Timer == {[kind |-> "submit"]} \cup [kind : {"list"}, json : SUBSET ToSet(SSIDs)]

\* The credentials c are those of a submission, with the password or without it.
IsOf(c, s) == c.ssid = s.ssid /\ c.password \in {s.password, ""}

Sent(submissions) ==
    {[ssid |-> s.ssid, password |-> s.password] : s \in submissions}
    \cup {[ssid |-> s.ssid, password |-> ""] : s \in submissions}

Submitting == \E i \in DOMAIN timers : timers[i].kind = "submit"

UnderWay == scans + Len(timers) + Len(posts)

AdminTypes ==
    /\ form = [f \in FormFields |-> form[f]] /\ form.disable_submit \in BOOLEAN
    /\ scans \in Nat /\ timers \in Seq(Timer) /\ refreshed \in BOOLEAN /\ failed \in BOOLEAN
    /\ posts \in Seq(Sent(submitted)) /\ stored \in {Unset} \cup Sent(submitted)

\* What is going to be sent is what was submitted.
SubmittedIsSent ==
    Submitting => [ssid |-> form.ssid, password |-> form.sta_password] \in Sent(submitted)

\* Without a Refresh there is one thing under way, during which the button is
\* disabled.
OneAtATime ==
    refreshed = FALSE => UnderWay <= 1 /\ (UnderWay = 1 => form.disable_submit = TRUE)

Answering ==
    form.disable_submit = TRUE => scans > 0 \/ timers # <<>> \/ posts # <<>> \/ failed = TRUE

AdminIInv == AdminTypes /\ SubmittedIsSent /\ OneAtATime /\ Answering

LEMMA SentHas ==
    ASSUME NEW submissions, NEW c \in Sent(submissions)
    PROVE  \E s \in submissions : c.ssid = s.ssid /\ c.password \in {s.password, ""}
  <1>1. CASE c \in {[ssid |-> s.ssid, password |-> s.password] : s \in submissions}
    <2>1. PICK s \in submissions : c = [ssid |-> s.ssid, password |-> s.password]
      BY <1>1
    <2>2. c.ssid = s.ssid /\ c.password = s.password
      BY <2>1
    <2> QED  BY <2>2
  <1>2. CASE c \in {[ssid |-> s.ssid, password |-> ""] : s \in submissions}
    <2>1. PICK s \in submissions : c = [ssid |-> s.ssid, password |-> ""]
      BY <1>2
    <2>2. c.ssid = s.ssid /\ c.password = ""
      BY <2>1
    <2> QED  BY <2>2
  <1> QED  BY <1>1, <1>2 DEF Sent

LEMMA SentGrows ==
    ASSUME NEW submissions, NEW s
    PROVE  /\ Sent(submissions) \subseteq Sent(submissions \cup {s})
           /\ [ssid |-> s.ssid, password |-> s.password] \in Sent(submissions \cup {s})
           /\ [ssid |-> s.ssid, password |-> ""] \in Sent(submissions \cup {s})
  BY DEF Sent

LEMMA Cleared ==
    ASSUME NEW submissions, NEW ssid, NEW password, [ssid |-> ssid, password |-> password] \in Sent(submissions)
    PROVE  [ssid |-> ssid, password |-> ""] \in Sent(submissions)
  <1>1. PICK s \in submissions : \/ [ssid |-> ssid, password |-> password] = [ssid |-> s.ssid, password |-> s.password]
                               \/ [ssid |-> ssid, password |-> password] = [ssid |-> s.ssid, password |-> ""]
    BY DEF Sent
  <1>2. s.ssid = ssid
    BY <1>1
  <1> QED  BY <1>2 DEF Sent

LEMMA LongerSeq ==
    ASSUME NEW S, NEW T, S \subseteq T, NEW s \in Seq(S)  PROVE s \in Seq(T)
  OBVIOUS

LEMMA AdminImplies == AdminIInv => FormIsKept
  <1> SUFFICES ASSUME AdminIInv  PROVE FormIsKept
    OBVIOUS
  <1> DEFINE submits == {i \in DOMAIN timers : timers[i].kind = "submit"}
  <1>1. AdminTypes /\ OneAtATime /\ Answering
    BY DEF AdminIInv
  <1>2. ASSUME NEW c \in ToSet(posts) \cup {stored}, c # Unset
        PROVE  \E s \in submitted : c.ssid = s.ssid /\ c.password \in {s.password, ""}
    <2>1. c \in Sent(submitted)
      <3>1. \A i \in DOMAIN posts : posts[i] \in Sent(submitted)
        BY <1>1 DEF AdminTypes
      <3> QED  BY <1>1, <1>2, <3>1 DEF ToSet, AdminTypes
    <2> QED  BY <2>1, SentHas
  <1>3. Len(posts) + Cardinality(submits) > 1 => refreshed
    <2> SUFFICES ASSUME refreshed = FALSE  PROVE ~(Len(posts) + Cardinality(submits) > 1)
      BY <1>1 DEF AdminTypes
    <2>1. scans \in Nat /\ Len(timers) \in Nat /\ Len(posts) \in Nat /\ scans + Len(timers) + Len(posts) <= 1
      BY <1>1 DEF AdminTypes, OneAtATime, UnderWay
    <2>2. submits \subseteq 1 .. Len(timers)
      BY <1>1 DEF AdminTypes
    <2>3. IsFiniteSet(1 .. Len(timers)) /\ Cardinality(1 .. Len(timers)) = Len(timers)
      <3>1. 1 \in Int /\ Len(timers) \in Int
        BY <2>1
      <3>2. IsFiniteSet(1 .. Len(timers))
            /\ Cardinality(1 .. Len(timers)) = IF 1 > Len(timers) THEN 0 ELSE Len(timers) - 1 + 1
        BY <3>1, FS_Interval
      <3> QED  BY <2>1, <3>2
    <2> HIDE DEF submits
    <2>4. Cardinality(submits) <= Len(timers) /\ Cardinality(submits) \in Nat
      BY <2>2, <2>3, FS_Subset, FS_CardinalityType
    <2> QED  BY <2>1, <2>4
  <1>4. form.disable_submit => scans > 0 \/ timers # <<>> \/ posts # <<>> \/ failed
    <2>1. form.disable_submit = TRUE => scans > 0 \/ timers # <<>> \/ posts # <<>> \/ failed = TRUE
      BY <1>1 DEF Answering
    <2> QED  BY <1>1, <2>1 DEF AdminTypes
  <1> QED  BY <1>2, <1>3, <1>4, Zenon DEF FormIsKept

\* What a press leaves alone.
LEMMA FillInKeeps == ASSUME AdminIInv, FillIn  PROVE AdminIInv'
  <1>1. AdminTypes /\ OneAtATime /\ Answering
    BY DEF AdminIInv
  <1>2. UNCHANGED <<scans, timers, posts, stored, submitted, refreshed, failed>> /\ ~Submitting
    BY DEF FillIn, Press, Submitting
  <1>3. form' = [f \in FormFields |-> form'[f]] /\ form'.disable_submit = form.disable_submit
    <2>1. form = [f \in FormFields |-> form[f]]
      BY <1>1 DEF AdminTypes
    <2>2. \E v : \/ form' = [form EXCEPT !.select_sta_ssid = v]
                \/ form' = [form EXCEPT !.manual_sta_ssid = v]
                \/ form' = [form EXCEPT !.sta_password = v]
                \/ form' = [form EXCEPT !.toggle = v]
      BY Zenon DEF FillIn, Press
    <2> QED  BY <2>1, <2>2 DEF FormFields
  <1>4. AdminTypes'
    BY <1>1, <1>2, <1>3 DEF AdminTypes
  <1>5. OneAtATime' /\ Answering'
    BY <1>1, <1>2, <1>3 DEF OneAtATime, Answering, UnderWay
  <1>6. ~Submitting'
    BY <1>2 DEF Submitting
  <1> QED  BY <1>4, <1>5, <1>6 DEF AdminIInv, SubmittedIsSent

LEMMA ReloadKeeps == ASSUME AdminIInv, reloadAP  PROVE AdminIInv'
  <1>1. AdminTypes /\ OneAtATime /\ Answering
    BY DEF AdminIInv
  <1>2. /\ UNCHANGED <<timers, posts, stored, submitted, failed>> /\ ~Submitting
        /\ form' = [form EXCEPT !.isLoadAPList = TRUE, !.disable_submit = TRUE]
        /\ scans' = scans + 1 /\ refreshed' = TRUE
    BY DEF reloadAP, Press, Submitting
  <1>3. form' = [f \in FormFields |-> form'[f]] /\ form'.disable_submit = TRUE
    <2>1. form = [f \in FormFields |-> form[f]]
      BY <1>1 DEF AdminTypes
    <2>2. PICK b, loading : b = TRUE /\ form' = [form EXCEPT !.isLoadAPList = loading, !.disable_submit = b]
      BY <1>2, Zenon
    <2>3. form' = [f \in FormFields |-> form'[f]] /\ form'.disable_submit = b
      BY <2>1, <2>2 DEF FormFields
    <2> QED  BY <2>2, <2>3
  <1>4. AdminTypes' /\ scans' > 0
    <2>1. scans' \in Nat /\ scans' > 0
      BY <1>1, <1>2 DEF AdminTypes
    <2>2. refreshed' \in BOOLEAN /\ failed' \in BOOLEAN /\ form'.disable_submit \in BOOLEAN
      BY <1>1, <1>2, <1>3, Zenon DEF AdminTypes
    <2> QED  BY <1>1, <1>2, <1>3, <2>1, <2>2, Zenon DEF AdminTypes
  <1>5. OneAtATime' /\ Answering'
    BY <1>2, <1>4 DEF OneAtATime, Answering
  <1>6. ~Submitting'
    BY <1>2 DEF Submitting
  <1> QED  BY <1>4, <1>5, <1>6 DEF AdminIInv, SubmittedIsSent

LEMMA SubmitKeeps == ASSUME AdminIInv, onSubmit  PROVE AdminIInv'
  <1> DEFINE s == [ssid |-> Shown, password |-> form.sta_password]
             timer == [kind |-> "submit"]
  <1>1. AdminTypes /\ OneAtATime /\ Answering
    BY DEF AdminIInv
  <1>2. /\ UNCHANGED <<scans, posts, stored, refreshed, failed>> /\ ~form.disable_submit
        /\ form' = [form EXCEPT !.disable_submit = TRUE, !.ssid = Shown]
        /\ timers' = Append(timers, timer) /\ submitted' = submitted \cup {s}
    BY DEF onSubmit, Press
  <1>3. /\ form' = [f \in FormFields |-> form'[f]] /\ form'.disable_submit = TRUE
        /\ form'.ssid = Shown /\ form'.sta_password = form.sta_password
    <2>1. form = [f \in FormFields |-> form[f]]
      BY <1>1 DEF AdminTypes
    <2> QED  BY <1>2, <2>1 DEF FormFields
  <1>4. timers' \in Seq(Timer) /\ Len(timers') = Len(timers) + 1 /\ Len(timers) \in Nat
    BY <1>1, <1>2 DEF AdminTypes, Timer
  <1>5. Sent(submitted) \subseteq Sent(submitted') /\ s \in Sent(submitted')
    <2>1. s.ssid = Shown /\ s.password = form.sta_password
      OBVIOUS
    <2> QED  BY <1>2, <2>1, SentGrows
  <1>6. AdminTypes'
    <2>1. posts \in Seq(Sent(submitted'))
      BY <1>1, <1>5, LongerSeq DEF AdminTypes
    <2> QED  BY <1>1, <1>2, <1>3, <1>4, <1>5, <2>1 DEF AdminTypes
  <1>7. SubmittedIsSent'
    BY <1>3, <1>5 DEF SubmittedIsSent
  <1>8. OneAtATime'
    <2>1. form.disable_submit # TRUE
      BY <1>2, Zenon
    <2>2. scans \in Nat /\ Len(posts) \in Nat
      BY <1>1 DEF AdminTypes
    <2>3. refreshed = FALSE => scans + Len(timers) + Len(posts) = 0
      <3>1. refreshed = FALSE => UnderWay <= 1 /\ UnderWay # 1
        BY <1>1, <2>1, Zenon DEF OneAtATime
      <3> QED  BY <1>4, <2>2, <3>1 DEF UnderWay
    <2>4. refreshed = FALSE => UnderWay' = 1
      BY <1>2, <1>4, <2>2, <2>3 DEF UnderWay
    <2> QED  BY <1>2, <1>3, <2>4 DEF OneAtATime
  <1>9. Answering'
    <2>1. timers' # <<>>
      BY <1>4
    <2> QED  BY <2>1 DEF Answering
  <1> QED  BY <1>6, <1>7, <1>8, <1>9 DEF AdminIInv

LEMMA ScanAnsweredKeeps ==
    ASSUME AdminIInv, NEW list \in SUBSET ToSet(SSIDs), ScanAnswered(list)  PROVE AdminIInv'
  <1>1. AdminTypes /\ SubmittedIsSent /\ OneAtATime /\ Answering
    BY DEF AdminIInv
  <1>2. /\ UNCHANGED <<form, posts, stored, submitted, refreshed, failed>>
        /\ scans > 0 /\ scans' = scans - 1 /\ timers' = Append(timers, [kind |-> "list", json |-> list])
    BY DEF ScanAnswered
  <1>3. PICK t \in Timer : t = [kind |-> "list", json |-> list]
    BY DEF Timer
  <1>4. timers \in Seq(Timer) /\ timers' = Append(timers, t) /\ t.kind # "submit"
    BY <1>1, <1>2, <1>3 DEF AdminTypes
  <1> HIDE DEF Timer
  <1>5. /\ timers' \in Seq(Timer) /\ Len(timers') = Len(timers) + 1 /\ Len(timers) \in Nat
        /\ \A i \in 1 .. Len(timers) : timers'[i] = timers[i]
        /\ timers'[Len(timers) + 1] = t
    BY <1>4, AppendProperties
  <1>6. Submitting' => Submitting
    BY <1>4, <1>5 DEF Submitting
  <1>7. AdminTypes'
    BY <1>1, <1>2, <1>5 DEF AdminTypes
  <1>8. SubmittedIsSent'
    BY <1>1, <1>2, <1>6 DEF SubmittedIsSent
  <1>9. UnderWay' = UnderWay /\ timers' # <<>>
    <2>1. scans \in Nat /\ Len(posts) \in Nat /\ posts' = posts
      BY <1>1, <1>2 DEF AdminTypes
    <2>2. UnderWay' = UnderWay
      BY <1>2, <1>5, <2>1 DEF UnderWay
    <2> QED  BY <1>5, <2>2
  <1>10. OneAtATime' /\ Answering'
    BY <1>1, <1>2, <1>9 DEF OneAtATime, Answering
  <1> QED  BY <1>7, <1>8, <1>10 DEF AdminIInv

LEMMA ScanFailsKeeps == ASSUME AdminIInv, ScanFails  PROVE AdminIInv'
  <1>1. AdminTypes /\ SubmittedIsSent /\ OneAtATime /\ Answering
    BY DEF AdminIInv
  <1>2. /\ UNCHANGED <<form, timers, posts, stored, submitted, refreshed>>
        /\ scans > 0 /\ scans' = scans - 1 /\ failed' = TRUE
    BY DEF ScanFails
  <1>3. AdminTypes' /\ Len(timers) \in Nat /\ Len(posts) \in Nat /\ scans \in Nat
    BY <1>1, <1>2 DEF AdminTypes
  <1>4. OneAtATime' /\ Answering' /\ SubmittedIsSent'
    BY <1>1, <1>2, <1>3 DEF OneAtATime, Answering, SubmittedIsSent, UnderWay, Submitting
  <1> QED  BY <1>3, <1>4 DEF AdminIInv

\* A timer leaves.
LEMMA NextTimer ==
    ASSUME AdminTypes, timers # <<>>, timers' = Tail(timers)
    PROVE  /\ Head(timers) \in Timer /\ timers' \in Seq(Timer) /\ Len(timers') = Len(timers) - 1
           /\ Len(timers) \in Nat \ {0}
           /\ Submitting' => Submitting
           /\ Head(timers).kind = "submit" => Submitting
  <1>1. timers \in Seq(Timer) /\ timers # <<>>
    BY DEF AdminTypes
  <1> HIDE DEF Timer
  <1>2. /\ Head(timers) \in Timer /\ Head(timers) = timers[1] /\ timers' \in Seq(Timer)
        /\ Len(timers') = Len(timers) - 1 /\ Len(timers) \in Nat \ {0}
        /\ \A i \in 1 .. Len(timers) - 1 : timers'[i] = timers[i + 1]
    BY <1>1
  <1>3. Submitting' => Submitting
    <2> SUFFICES ASSUME NEW i \in DOMAIN timers', timers'[i].kind = "submit"  PROVE Submitting
      BY DEF Submitting
    <2>1. i + 1 \in DOMAIN timers /\ timers'[i] = timers[i + 1]
      BY <1>1, <1>2
    <2> QED  BY <2>1 DEF Submitting
  <1>4. Head(timers).kind = "submit" => Submitting
    <2>1. 1 \in DOMAIN timers
      BY <1>1, <1>2
    <2> QED  BY <1>2, <2>1 DEF Submitting
  <1> QED  BY <1>2, <1>3, <1>4

LEMMA ListedKeeps == ASSUME AdminIInv, Listed  PROVE AdminIInv'
  <1>1. AdminTypes /\ SubmittedIsSent /\ OneAtATime /\ Answering
    BY DEF AdminIInv
  <1>2. /\ UNCHANGED <<scans, posts, stored, submitted, refreshed, failed>>
        /\ timers # <<>> /\ timers' = Tail(timers)
    BY DEF Listed
  <1>3. PICK list, first : form' = [form EXCEPT !.ap_list = list, !.sta_password = "", !.select_sta_ssid = first,
                                                !.isLoadAPList = FALSE, !.disable_submit = FALSE]
    BY Zenon DEF Listed
  <1>4. /\ form' = [f \in FormFields |-> form'[f]] /\ form'.disable_submit = FALSE
        /\ form'.ssid = form.ssid /\ form'.sta_password = ""
    <2>1. form = [f \in FormFields |-> form[f]]
      BY <1>1 DEF AdminTypes
    <2> QED  BY <1>3, <2>1 DEF FormFields
  <1>5. AdminTypes'
    BY <1>1, <1>2, <1>4, NextTimer DEF AdminTypes
  <1>6. SubmittedIsSent'
    BY <1>1, <1>2, <1>4, NextTimer, Cleared DEF SubmittedIsSent
  <1>7. refreshed = FALSE => UnderWay' = 0
    <2>1. /\ scans \in Nat /\ Len(posts) \in Nat /\ Len(timers) \in Nat \ {0}
          /\ Len(timers') = Len(timers) - 1 /\ scans' = scans /\ posts' = posts
      BY <1>1, <1>2, NextTimer DEF AdminTypes
    <2>2. refreshed = FALSE => scans + Len(timers) + Len(posts) <= 1
      BY <1>1, Zenon DEF OneAtATime, UnderWay
    <2> QED  BY <2>1, <2>2 DEF UnderWay
  <1>8. OneAtATime' /\ Answering'
    <2>1. form'.disable_submit # TRUE
      BY <1>4, Zenon
    <2>2. refreshed' = FALSE => UnderWay' <= 1 /\ UnderWay' # 1
      <3>1. refreshed = FALSE => UnderWay' <= 1 /\ UnderWay' # 1
        BY <1>7
      <3> QED  BY <1>2, <3>1, Zenon
    <2> QED  BY <2>1, <2>2, Zenon DEF OneAtATime, Answering
  <1> QED  BY <1>5, <1>6, <1>8 DEF AdminIInv

LEMMA PostKeeps == ASSUME AdminIInv, Post  PROVE AdminIInv'
  <1> DEFINE c == [ssid |-> form.ssid, password |-> form.sta_password]
  <1>1. AdminTypes /\ SubmittedIsSent /\ OneAtATime /\ Answering
    BY DEF AdminIInv
  <1>2. /\ UNCHANGED <<form, scans, stored, submitted, refreshed, failed>>
        /\ timers # <<>> /\ timers' = Tail(timers) /\ Head(timers).kind = "submit"
        /\ posts' = Append(posts, c)
    BY DEF Post
  <1>3. c \in Sent(submitted)
    BY <1>1, <1>2, NextTimer DEF SubmittedIsSent
  <1> HIDE DEF c
  <1>4. posts' \in Seq(Sent(submitted)) /\ Len(posts') = Len(posts) + 1 /\ Len(posts) \in Nat /\ scans \in Nat
    BY <1>1, <1>2, <1>3 DEF AdminTypes
  <1>5. AdminTypes'
    BY <1>1, <1>2, <1>4, NextTimer DEF AdminTypes
  <1>6. SubmittedIsSent'
    BY <1>1, <1>2, NextTimer DEF SubmittedIsSent
  <1>7. UnderWay' = UnderWay /\ posts' # <<>>
    BY <1>1, <1>2, <1>4, NextTimer DEF UnderWay
  <1>8. OneAtATime' /\ Answering'
    BY <1>1, <1>2, <1>7 DEF OneAtATime, Answering
  <1> QED  BY <1>5, <1>6, <1>8 DEF AdminIInv

\* A post leaves.
LEMMA NextPost ==
    ASSUME AdminTypes, posts # <<>>, posts' = Tail(posts)
    PROVE  /\ Head(posts) \in Sent(submitted) /\ posts' \in Seq(Sent(submitted))
           /\ Len(posts') = Len(posts) - 1 /\ Len(posts) \in Nat \ {0}
  BY DEF AdminTypes

LEMMA SavedKeeps == ASSUME AdminIInv, Saved  PROVE AdminIInv'
  <1>1. AdminTypes /\ SubmittedIsSent /\ OneAtATime /\ Answering
    BY DEF AdminIInv
  <1>2. /\ UNCHANGED <<scans, timers, submitted, refreshed>>
        /\ posts # <<>> /\ posts' = Tail(posts) /\ stored' = Head(posts)
    BY DEF Saved
  <1>3. /\ form' = [f \in FormFields |-> form'[f]] /\ form'.disable_submit \in BOOLEAN
        /\ form'.ssid = form.ssid /\ form'.sta_password = form.sta_password
        /\ failed' \in BOOLEAN /\ (form'.disable_submit = TRUE => failed' = TRUE)
    <2>1. form = [f \in FormFields |-> form[f]] /\ form.disable_submit \in BOOLEAN /\ failed \in BOOLEAN
      BY <1>1 DEF AdminTypes
    <2>2. CASE form' = [form EXCEPT !.disable_submit = FALSE] /\ failed' = failed
      BY <2>1, <2>2 DEF FormFields
    <2>3. CASE failed' = TRUE /\ form' = form
      BY <2>1, <2>3 DEF FormFields
    <2> QED  BY <2>2, <2>3, Zenon DEF Saved
  <1>4. AdminTypes'
    BY <1>1, <1>2, <1>3, NextPost DEF AdminTypes
  <1>5. SubmittedIsSent'
    BY <1>1, <1>2, <1>3 DEF SubmittedIsSent, Submitting
  <1>6. refreshed = FALSE => UnderWay' = 0
    <2>1. /\ scans \in Nat /\ Len(timers) \in Nat /\ Len(posts) \in Nat \ {0}
          /\ Len(posts') = Len(posts) - 1 /\ scans' = scans /\ timers' = timers
      BY <1>1, <1>2, NextPost DEF AdminTypes
    <2>2. refreshed = FALSE => scans + Len(timers) + Len(posts) <= 1
      BY <1>1, Zenon DEF OneAtATime, UnderWay
    <2> QED  BY <2>1, <2>2 DEF UnderWay
  <1>7. OneAtATime' /\ Answering'
    BY <1>2, <1>3, <1>6 DEF OneAtATime, Answering
  <1> QED  BY <1>4, <1>5, <1>7 DEF AdminIInv

LEMMA PostFailsKeeps == ASSUME AdminIInv, PostFails  PROVE AdminIInv'
  <1>1. AdminTypes /\ SubmittedIsSent /\ OneAtATime /\ Answering
    BY DEF AdminIInv
  <1>2. /\ UNCHANGED <<form, scans, timers, stored, submitted, refreshed>>
        /\ posts # <<>> /\ posts' = Tail(posts) /\ failed' = TRUE
    BY DEF PostFails
  <1>3. AdminTypes'
    BY <1>1, <1>2, NextPost DEF AdminTypes
  <1>4. SubmittedIsSent' /\ Answering'
    BY <1>1, <1>2 DEF SubmittedIsSent, Submitting, Answering
  <1>5. refreshed = FALSE => UnderWay' = 0
    <2>1. /\ scans \in Nat /\ Len(timers) \in Nat /\ Len(posts) \in Nat \ {0}
          /\ Len(posts') = Len(posts) - 1 /\ scans' = scans /\ timers' = timers
      BY <1>1, <1>2, NextPost DEF AdminTypes
    <2>2. refreshed = FALSE => scans + Len(timers) + Len(posts) <= 1
      BY <1>1, Zenon DEF OneAtATime, UnderWay
    <2> QED  BY <2>1, <2>2 DEF UnderWay
  <1> QED  BY <1>2, <1>3, <1>4, <1>5 DEF AdminIInv, OneAtATime

LEMMA AdminStarts == AdminInit => AdminIInv
  <1> SUFFICES ASSUME AdminInit  PROVE AdminIInv
    OBVIOUS
  <1>1. /\ form = [f \in FormFields |-> form[f]] /\ form.disable_submit = TRUE
        /\ scans = 1 /\ timers = <<>> /\ posts = <<>> /\ stored = Unset /\ refreshed = FALSE /\ failed = FALSE
    BY DEF AdminInit, FormFields
  <1>2. ~Submitting
    BY <1>1 DEF Submitting
  <1>3. UnderWay = 1
    <2>1. Len(timers) = 0 /\ Len(posts) = 0
      BY <1>1
    <2> QED  BY <1>1, <2>1 DEF UnderWay
  <1>4. AdminTypes
    <2>1. timers \in Seq(Timer) /\ posts \in Seq(Sent(submitted)) /\ scans \in Nat
      BY <1>1
    <2>2. form.disable_submit \in BOOLEAN /\ refreshed \in BOOLEAN /\ failed \in BOOLEAN
      BY <1>1, Zenon
    <2> QED  BY <1>1, <2>1, <2>2, Zenon DEF AdminTypes
  <1>5. scans > 0 /\ UnderWay <= 1
    BY <1>1, <1>3
  <1> QED  BY <1>1, <1>2, <1>4, <1>5, Zenon DEF AdminIInv, SubmittedIsSent, OneAtATime, Answering

LEMMA StepAdmin == AdminIInv /\ [AdminNext]_adminVars => AdminIInv'
  <1> SUFFICES ASSUME AdminIInv, [AdminNext]_adminVars  PROVE AdminIInv'
    OBVIOUS
  <1>1. CASE AdminNext
    BY <1>1, FillInKeeps, ReloadKeeps, SubmitKeeps, ScanAnsweredKeeps, ScanFailsKeeps, ListedKeeps, PostKeeps,
       SavedKeeps, PostFailsKeeps DEF AdminNext
  <1>2. CASE UNCHANGED adminVars
    BY <1>2 DEF adminVars, AdminIInv, AdminTypes, SubmittedIsSent, OneAtATime, Answering, Submitting, UnderWay
  <1> QED  BY <1>1, <1>2

\* The device stores what the form showed when it was submitted, without the
\* password if a list came in between; without a Refresh one submission is under
\* way at a time; and a disabled button is waiting for a call or was left by one:
\* for any networks, passwords and order of answers (reloadAP and onSubmit of
\* STA.vue).
THEOREM FormStaysKept == AdminSpec => []FormIsKept
  BY AdminStarts, StepAdmin, AdminImplies, PTL DEF AdminSpec
=============================================================================
