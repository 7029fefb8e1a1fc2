----------------------------- MODULE JsonValues -----------------------------
(***************************************************************************)
(* JsonVariant: a value of ArduinoJson, what it is taken for when asked    *)
(* for a type, and numbers as text and back.  A variant that comes out of  *)
(* the parser is text, interpreted each time it is asked for.              *)
(* A float is a decimal: a sign, an integer and a power of ten; that a     *)
(* float of the chip is binary, and rounds its last digit, is left out.    *)
(***************************************************************************)
EXTENDS JsonText

CONSTANT IntWidth    \* bits of the integer type that is asked for

WidthAssumption == IntWidth \in 8 .. 16

-----------------------------------------------------------------------------
(* Decimals                                                                  *)

NumDigits(m) == IF m = 0 THEN 1 ELSE CHOOSE n \in 1 .. 10 : m \div 10^(n - 1) \in 1 .. 9

\* A power of ten above every mantissa need not be counted out.
DivPow(m, k) == IF k > 9 THEN 0 ELSE m \div 10^k
ModPow(m, k) == IF k > 9 THEN m ELSE m % 10^k

Decimal(neg, m, e) ==
    LET zeros == CHOOSE n \in 0 .. 9 : m % 10^n = 0 /\ m % 10^(n + 1) # 0
    IN  IF m = 0 THEN [kind |-> "finite", neg |-> FALSE, m |-> 0, e |-> 0]
        ELSE [kind |-> "finite", neg |-> neg, m |-> m \div 10^zeros, e |-> e + zeros]

Special(kind, neg) == [kind |-> kind, neg |-> neg, m |-> 0, e |-> 0]

\* The power of ten of the first digit.
Magnitude(x) == NumDigits(x.m) + x.e - 1

-----------------------------------------------------------------------------
(* Writing (FloatParts)                                                      *)

maxDecimalPlaces == 6     \* for a float; 9 for a double

\* [of |-> the value in what the exponent leaves, exponent |-> powersOf10]
normalize(x) ==
    LET Down(v, i) == IF Magnitude(v.of) >= 2^i
                      THEN [of |-> [v.of EXCEPT !.e = @ - 2^i], exponent |-> v.exponent + 2^i]
                      ELSE v
        Up(v, i) == IF Magnitude(v.of) < 1 - 2^i
                    THEN [of |-> [v.of EXCEPT !.e = @ + 2^i], exponent |-> v.exponent - 2^i]
                    ELSE v
        small == x.m # 0 /\ (Magnitude(x) < -5 \/ (Magnitude(x) = -5 /\ x.m = 1))
        as    == [of |-> x, exponent |-> 0]
    IN  CASE x.m # 0 /\ Magnitude(x) >= 7 -> FoldLeft(Down, as, <<5, 4, 3, 2, 1, 0>>)
          [] small -> FoldLeft(Up, as, <<5, 4, 3, 2, 1, 0>>)
          [] OTHER -> as

\* A carry goes into the integral part, and from there into the exponent if
\* there is one; zeros at the end are dropped.
Trimmed(n, whole, places, rounded) ==
    LET carry    == rounded >= 10^places
        decimal  == IF carry THEN 0 ELSE rounded
        integral == IF carry THEN whole + 1 ELSE whole
        over     == carry /\ n.exponent # 0 /\ integral >= 10
        kept     == CHOOSE k \in 0 .. places :
                        /\ decimal % 10^(places - k) = 0
                        /\ k = 0 \/ decimal % 10^(places - k + 1) # 0
    IN  [integral |-> IF over THEN 1 ELSE integral,
         decimal |-> decimal \div 10^(places - kept), places |-> kept,
         exponent |-> IF over THEN n.exponent + 1 ELSE n.exponent]

\* As many decimal places as the digits of the integral part leave, the last
\* one rounded.
Rounded(n, whole, fraction) ==
    LET places == maxDecimalPlaces - (NumDigits(whole) - 1)
        excess == -n.of.e - places
        half   == excess > 0 /\ DivPow(fraction, excess - 1) % 10 >= 5
        cut    == IF excess <= 0 THEN fraction * 10^(-excess) ELSE DivPow(fraction, excess)
    IN  Trimmed(n, whole, places, IF half THEN cut + 1 ELSE cut)

Split(n) ==
    Rounded(n, IF n.of.e >= 0 THEN n.of.m * 10^(n.of.e) ELSE DivPow(n.of.m, -n.of.e),
               IF n.of.e >= 0 THEN 0 ELSE ModPow(n.of.m, -n.of.e))

FloatParts(x) == Split(normalize(x))

\* With leading zeros.
writeDecimals(value, width) ==
    <<".">> \o [i \in 1 .. width |-> Digit[((value \div 10^(width - i)) % 10) + 1]]

writeParts(parts) ==
    writeInteger[parts.integral]
        \o (IF parts.places # 0 THEN writeDecimals(parts.decimal, parts.places) ELSE <<>>)
        \o (CASE parts.exponent < 0 -> <<"e", "-">> \o writeInteger[-parts.exponent]
              [] parts.exponent > 0 -> <<"e">> \o writeInteger[parts.exponent]
              [] OTHER -> <<>>)

writeFloat(x) ==
    LET sign == IF x.neg THEN <<"-">> ELSE <<>>
    IN  CASE x.kind = "nan" -> <<"N", "a", "N">>
          [] x.kind = "inf" -> sign \o <<"I", "n", "f", "i", "n", "i", "t", "y">>
          [] OTHER -> sign \o writeParts(FloatParts(x))

-----------------------------------------------------------------------------
(* Reading.  The end of a text reads as a null character.                    *)

At(s, i) == IF i <= Len(s) THEN s[i] ELSE "null"
isdigit(c) == c \in Digits
issign(c) == c \in {"-", "+"}
Ends(s, i) == i > Len(s)

\* The first position from i that has no digit, and the digits up to there.
Behind(s, i) == CHOOSE j \in i .. Len(s) + 1 :
                    ~isdigit(At(s, j)) /\ \A k \in i .. j - 1 : isdigit(s[k])
Run(s, i) == [k \in 1 .. Behind(s, i) - i |-> s[i + k - 1]]
ValueOfDigit(c) == CHOOSE n \in 0 .. 9 : Digit[n + 1] = c

Unsigned(s) == IF issign(At(s, 1)) THEN 2 ELSE 1

\* Also true of an empty text.
isInteger(s) == Ends(s, Behind(s, Unsigned(s)))

isFloat(s) ==
    LET from     == Unsigned(s)
        point    == Behind(s, from)
        fraction == IF At(s, point) = "." THEN Behind(s, point + 1) ELSE point
        exponent == IF issign(At(s, fraction + 1)) THEN fraction + 2 ELSE fraction + 1
    IN  \/ s = <<"N", "a", "N">>
        \/ SubSeq(s, from, Len(s)) = <<"I", "n", "f", "i", "n", "i", "t", "y">>
        \/ /\ ~Ends(s, from)
           /\ IF At(s, fraction) \in {"e", "E"}
              THEN isdigit(At(s, exponent)) /\ Ends(s, Behind(s, exponent))
              ELSE Ends(s, fraction)

\* The digits of a number go into w bits, whatever they are.
Wrapped(n) == n % 2^IntWidth
Signed(n) == IF n >= 2^(IntWidth - 1) THEN n - 2^IntWidth ELSE n

parseInteger(s) ==
    LET digits == Run(s, Unsigned(s))
        n      == FoldLeft(LAMBDA a, c : Wrapped(a * 10 + ValueOfDigit(c)), 0, digits)
    IN  IF At(s, 1) = "t" THEN 1
        ELSE Signed(Wrapped(IF At(s, 1) = "-" THEN 2^IntWidth - n ELSE n))

mantissa_max == 8388607
exponent_max == 38

\* The mantissa takes digits while it is below a tenth of what it can hold.
TakeDigit(a, c) ==
    IF a.m < mantissa_max \div 10
    THEN [m |-> a.m * 10 + ValueOfDigit(c), offset |-> a.offset - a.places, places |-> a.places]
    ELSE [a EXCEPT !.offset = @ + 1 - a.places]

\* make_float() multiplies by the powers of ten of the exponent's bits.
make_float(neg, m, e) == Decimal(neg, m, e)

\* The exponent that begins at position i, if one does, after the mantissa.
WithExponent(s, neg, mantissa, i) ==
    LET scaled   == At(s, i) \in {"e", "E"}
        negexp   == scaled /\ At(s, i + 1) = "-"
        digits   == Run(s, IF issign(At(s, i + 1)) THEN i + 2 ELSE i + 1)
        exponent == IF scaled THEN FoldLeft(LAMBDA a, c : a * 10 + ValueOfDigit(c), 0, digits) ELSE 0
        beyond   == scaled /\ digits # <<>> /\ exponent + mantissa.offset > exponent_max
    IN  CASE beyond /\ negexp -> Decimal(neg, 0, 0)
          [] beyond /\ ~negexp -> Special("inf", neg)
          [] OTHER -> make_float(neg, mantissa.m, (IF negexp THEN -exponent ELSE exponent) + mantissa.offset)

\* The digits behind the point, if there is one at position i.
WithFraction(s, neg, whole, i) ==
    IF At(s, i) = "."
    THEN WithExponent(s, neg, FoldLeft(TakeDigit, [whole EXCEPT !.places = 1], Run(s, i + 1)), Behind(s, i + 1))
    ELSE WithExponent(s, neg, whole, i)

parseFloat(s) ==
    LET from == Unsigned(s)
        neg  == At(s, 1) = "-"
        none == [m |-> 0, offset |-> 0, places |-> 0]
    IN  CASE At(s, from) = "t" -> Decimal(FALSE, 1, 0)
          [] At(s, from) \in {"n", "N"} -> Special("nan", FALSE)
          [] At(s, from) \in {"i", "I"} -> Special("inf", neg)
          [] OTHER -> WithFraction(s, neg, FoldLeft(TakeDigit, none, Run(s, from)), Behind(s, from))

-----------------------------------------------------------------------------
(* The variant.  Its content is named after the member of the union it is    *)
(* in; a string is a text or the null pointer.                               *)

\* No text holds a null character.
NullPointer == <<"null">>

OfBoolean(b) == [type |-> "boolean", content |-> IF b THEN 1 ELSE 0]
OfInteger(n) == IF n >= 0 THEN [type |-> "positive", content |-> n]
                          ELSE [type |-> "negative", content |-> -n]
OfFloat(x)   == [type |-> "float", content |-> x]
OfString(s)  == [type |-> "string", content |-> s]
OfRaw(s)     == [type |-> "unparsed", content |-> s]
Undefined    == [type |-> "undefined", content |-> NullPointer]

TrueText  == <<"t", "r", "u", "e">>
FalseText == <<"f", "a", "l", "s", "e">>
NullText  == <<"n", "u", "l", "l">>

IsText(v) == v.type \in {"string", "unparsed"} /\ v.content # NullPointer

\* A float that is no integer, or none of IntWidth bits, is cut off.
Truncated(x) ==
    LET n == IF x.e >= 0 THEN x.m * 10^x.e ELSE DivPow(x.m, -x.e)
    IN  IF x.neg THEN -n ELSE n

variantAsInteger(v) ==
    CASE v.type \in {"positive", "boolean"} -> Signed(Wrapped(v.content))
      [] v.type = "negative" -> Signed(Wrapped(2^IntWidth - Wrapped(v.content)))
      [] IsText(v) -> parseInteger(v.content)
      [] v.type = "float" -> Truncated(v.content)
      [] OTHER -> 0

variantAsString(v) == IF IsText(v) /\ ~(v.type = "unparsed" /\ v.content = NullText)
                      THEN v.content ELSE NullPointer

variantAsFloat(v) ==
    CASE v.type \in {"positive", "boolean"} -> Decimal(FALSE, v.content, 0)
      [] v.type = "negative" -> Decimal(TRUE, v.content, 0)
      [] IsText(v) -> parseFloat(v.content)
      [] v.type = "float" -> v.content
      [] OTHER -> Decimal(FALSE, 0, 0)

variantAsBoolean(v) == variantAsInteger(v) # 0

variantIsBoolean(v) ==
    v.type = "boolean" \/ (v.type = "unparsed" /\ v.content \in {TrueText, FalseText})
variantIsInteger(v) ==
    v.type \in {"positive", "negative"}
        \/ (v.type = "unparsed" /\ v.content # NullPointer /\ isInteger(v.content))
variantIsFloat(v) ==
    v.type \in {"positive", "negative", "float"}
        \/ (v.type = "unparsed" /\ v.content # NullPointer /\ isFloat(v.content))
variantIsString(v) == v.type = "string" \/ (v.type = "unparsed" /\ v.content = NullText)

\* as<String>(): what is no string is written.
writeVariant(v) ==
    CASE v.type = "float" -> writeFloat(v.content)
      [] v.type = "string" -> IF v.content = NullPointer THEN NullText ELSE writeString(v.content)
      [] v.type = "unparsed" -> v.content
      [] v.type = "negative" -> <<"-">> \o writeInteger[v.content]
      [] v.type = "positive" -> writeInteger[v.content]
      [] v.type = "boolean" -> IF v.content # 0 THEN TrueText ELSE FalseText
      [] OTHER -> <<>>

variantAsText(v) == IF variantAsString(v) # NullPointer THEN v.content ELSE writeVariant(v)

\* as<T>() and is<T>()
as(type, v) ==
    CASE type = "integer" -> variantAsInteger(v)
      [] type = "boolean" -> variantAsBoolean(v)
      [] type = "float"   -> variantAsFloat(v)
      [] type = "string"  -> variantAsString(v)
      [] type = "text"    -> variantAsText(v)

is(type, v) ==
    CASE type = "integer" -> variantIsInteger(v)
      [] type = "boolean" -> variantIsBoolean(v)
      [] type = "float"   -> variantIsFloat(v)
      [] type = "string"  -> variantIsString(v)
      [] OTHER -> v.type = type    \* array, object

\* operator==: the first type that both have decides.
SameFloat(x, y) == x.kind # "nan" /\ x = y
equals(v, w) ==
    CASE variantIsBoolean(v) /\ variantIsBoolean(w) -> variantAsBoolean(v) = variantAsBoolean(w)
      [] ~(variantIsBoolean(v) /\ variantIsBoolean(w))
           /\ variantIsInteger(v) /\ variantIsInteger(w) -> variantAsInteger(v) = variantAsInteger(w)
      [] ~(variantIsInteger(v) /\ variantIsInteger(w))
           /\ variantIsFloat(v) /\ variantIsFloat(w) -> SameFloat(variantAsFloat(v), variantAsFloat(w))
      [] variantIsString(v) /\ variantIsString(w) -> variantAsString(v) = variantAsString(w)
      [] OTHER -> FALSE

\* operator<, <=, > and >= with an integer compare what as<>() returns.
Compares(v, n) ==
    CASE variantAsInteger(v) < n -> "less"
      [] variantAsInteger(v) = n -> "equal"
      [] OTHER -> "more"

\* operator|: what takes the place of a value of another type.  An integer
\* may come out of a float, a string is never null.
OrInteger(v, n) == IF variantIsFloat(v) THEN variantAsInteger(v) ELSE n
OrBoolean(v, b) == IF variantIsBoolean(v) THEN variantAsBoolean(v) ELSE b
OrString(v, s)  == IF variantAsString(v) # NullPointer THEN variantAsString(v) ELSE s

-----------------------------------------------------------------------------
(* What has been written and parsed again                                    *)

\* JsonParser::parseStringTo()
AsParsed(read) == IF read.type = "string" THEN OfString(read.value) ELSE OfRaw(read.value)
Reparsed(v) == AsParsed(parseStringTo(writeVariant(v)).made)

\* The difference of two decimals that have the same magnitude or nearly so,
\* in units of 10^e.
InUnits(x, e) == (IF x.neg THEN -1 ELSE 1) * x.m * (IF x.e >= e THEN 10^(x.e - e) ELSE 0)
Apart(x, y) ==
    LET e == IF x.m = 0 \/ (y.m # 0 /\ y.e < x.e) THEN y.e ELSE x.e
        d == InUnits(x, e) - InUnits(y, e)
    IN  Decimal(FALSE, IF d < 0 THEN -d ELSE d, e)

\* A number is written in at most seven digits and read back in at least six:
\* with an exponent or an integral part nothing but the seventh digit may be
\* lost, and below one without an exponent half a millionth.
LostOf(x, d) ==
    \/ d.m = 0
    \/ Magnitude(x) \in -5 .. -1 /\ (Magnitude(d) < -6 \/ (d.m = 5 /\ d.e = -7))
    \/ NumDigits(x.m) >= 7 /\ Magnitude(d) < Magnitude(x) - 5
NumberKept(x, y) ==
    IF x.kind = "finite" THEN y.kind = "finite" /\ LostOf(x, Apart(x, y))
    ELSE y.kind = x.kind /\ (x.kind = "inf" => y = x)
NumberReadBack(x) == NumberKept(x, parseFloat(writeFloat(x)))

\* What a float may lose: an exponent hides its integral part, the integer
\* asked for may not hold it, and there are six decimal places at most.
Scaled(x) == FloatParts(x).exponent # 0
AsInteger(v) ==
    v.type = "float" =>
        v.content.kind = "finite" /\ ~Scaled(v.content) /\ Truncated(v.content) \in -(2^(IntWidth - 1)) .. 2^(IntWidth - 1) - 1
AsFloat(v) ==
    v.type = "float" =>
        \/ v.content.kind = "inf"
        \/ v.content.kind = "finite" /\ (Scaled(v.content) \/ v.content.e >= -6)

\* A value is taken for the same after it has been written and parsed: by the
\* types it is asked for, by comparisons and by the choice of a default.
SameValue(v, w) ==
    /\ \A type \in {"boolean", "float", "string", "array", "object"} : is(type, w) = is(type, v)
    /\ is("integer", v) => is("integer", w)
    /\ as("text", w) = as("text", v)
    /\ AsFloat(v) => equals(v, w)
    /\ AsInteger(v) =>
         /\ as("integer", w) = as("integer", v)
         /\ as("boolean", w) = as("boolean", v)
         /\ \A n \in {-1, 0, 7} : Compares(w, n) = Compares(v, n) /\ OrInteger(w, n) = OrInteger(v, n)
    /\ \A b \in BOOLEAN : OrBoolean(w, b) = OrBoolean(v, b)
    /\ variantIsString(v) =>
         as("string", w) = as("string", v) /\ OrString(w, <<"d">>) = OrString(v, <<"d">>)
ValueReadBack(v) == SameValue(v, Reparsed(v))
=============================================================================
