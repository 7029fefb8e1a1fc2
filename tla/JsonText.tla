------------------------------ MODULE JsonText ------------------------------
(***************************************************************************)
(* The JSON text of ArduinoJson: how JsonSerializer writes a document and  *)
(* how JsonParser gets it back.  A text is a sequence of characters; those *)
(* without a glyph are named.  A document is a record of a type and a      *)
(* value: a sequence of characters ("string"; "raw" for what has no quotes *)
(* and is interpreted when asked for), a number, a sequence of documents,  *)
(* or a sequence of pairs of a key and a document.                         *)
(***************************************************************************)
EXTENDS Integers, SequencesExt

\* Encoding::escapeTable(): the character behind the backslash, and what it
\* stands for.
EscapeTable ==
    << <<"quote", "quote">>, <<"backslash", "backslash">>, <<"b", "backspace">>,
       <<"f", "formfeed">>, <<"n", "newline">>, <<"r", "return">>, <<"t", "tab">> >>

IdenticalsToo == 1
NoIdenticals  == 3

\* "" if c needs no backslash.
escapeChar(c) ==
    LET rows == {i \in IdenticalsToo .. Len(EscapeTable) : EscapeTable[i][2] = c}
    IN  IF rows = {} THEN "" ELSE EscapeTable[CHOOSE i \in rows : TRUE][1]

unescapeChar(c) ==
    LET rows == {i \in NoIdenticals .. Len(EscapeTable) : EscapeTable[i][1] = c}
    IN  IF rows = {} THEN c ELSE EscapeTable[CHOOSE i \in rows : TRUE][2]

-----------------------------------------------------------------------------
(* Writing                                                                   *)

Digit == <<"0", "1", "2", "3", "4", "5", "6", "7", "8", "9">>

\* The do loop, from the last digit to the first.
writeInteger[n \in Nat] ==
    (IF n < 10 THEN <<>> ELSE writeInteger[n \div 10]) \o <<Digit[(n % 10) + 1]>>

writeCharQuotesOnly(c) ==    \* mutant
    IF c = "quote" THEN <<"backslash", c>> ELSE <<c>>

writeChar(c) ==
    IF escapeChar(c) # "" THEN <<"backslash", escapeChar(c)>> ELSE <<c>>

writeString(chars) ==
    <<"quote">> \o FlattenSeq([i \in DOMAIN chars |-> writeChar(chars[i])])
      \o <<"quote">>

\* The parts of an array or an object, with a comma between any two.
Listed(parts) ==
    FlattenSeq([i \in DOMAIN parts |-> IF i = 1 THEN parts[i] ELSE <<",">> \o parts[i]])

RECURSIVE serialize(_)
serialize(doc) ==
    CASE doc.type = "string" -> writeString(doc.value)
      [] doc.type = "raw" -> doc.value
      [] doc.type = "integer" ->
           IF doc.value < 0 THEN <<"-">> \o writeInteger[-doc.value] ELSE writeInteger[doc.value]
      [] doc.type = "array" ->
           <<"[">> \o Listed([i \in DOMAIN doc.value |-> serialize(doc.value[i])]) \o <<"]">>
      [] doc.type = "object" ->
           <<"{">> \o Listed([i \in DOMAIN doc.value |->
                                writeString(doc.value[i][1]) \o <<":">> \o serialize(doc.value[i][2])])
             \o <<"}">>

-----------------------------------------------------------------------------
(* Reading.  A part of the parser is given the text from where it stands     *)
(* and returns what it has made and the text that is left.                   *)

Failure == [ok |-> FALSE, made |-> [type |-> "invalid"], left |-> <<>>]
Made(doc, text) == [ok |-> TRUE, made |-> doc, left |-> text]

Spaces == {" ", "tab", "return", "newline"}
Digits == {Digit[i] : i \in DOMAIN Digit}

\* What is behind the first "*/", or the newline; a comment that does not end
\* takes all the rest.
BehindComment(text) ==
    LET block == {i \in 3 .. Len(text) - 1 : text[i] = "*" /\ text[i + 1] = "/"}
        line  == {i \in 2 .. Len(text) : text[i] = "newline"}
    IN  CASE text[2] = "*" /\ block # {} -> SubSeq(text, Min(block) + 2, Len(text))
          [] text[2] = "/" /\ line # {} -> SubSeq(text, Min(line), Len(text))
          [] OTHER -> <<>>

RECURSIVE skipSpacesAndComments(_)
skipSpacesAndComments(text) ==
    CASE text # <<>> /\ Head(text) \in Spaces -> skipSpacesAndComments(Tail(text))
      [] Len(text) >= 2 /\ Head(text) = "/" /\ text[2] \in {"*", "/"} ->
           skipSpacesAndComments(BehindComment(text))
      [] OTHER -> text

\* The end of the text reads as a null character.
current(text) == IF text = <<>> THEN "null" ELSE Head(text)

Eats(text, c) == current(skipSpacesAndComments(text)) = c
eat(text, c)  == Tail(skipSpacesAndComments(text))

isQuote(c) == c \in {"quote", "'"}

\* Letters, digits, "_", "+", "-" and ".": any of the others ends the string.
canBeInNonQuotedString(c) == c \in Digits \cup
    {"a", "b", "e", "f", "i", "l", "n", "r", "s", "t", "u", "y", "I", "N", "+", "-", "."}

\* Up to the closing quote or, if that is missing, to the end.
RECURSIVE QuotedString(_, _, _)
QuotedString(text, stopChar, str) ==
    LET c == current(text) IN
    CASE c = "null" -> Made(str, text)
      [] c = stopChar -> Made(str, Tail(text))
      [] c = "backslash" /\ Tail(text) # <<>> ->
           QuotedString(Tail(Tail(text)), stopChar, Append(str, unescapeChar(current(Tail(text)))))
      [] c = "backslash" /\ Tail(text) = <<>> -> Made(str, <<>>)
      [] OTHER -> QuotedString(Tail(text), stopChar, Append(str, c))

RECURSIVE PlainString(_, _)
PlainString(text, str) ==
    IF canBeInNonQuotedString(current(text)) THEN PlainString(Tail(text), Append(str, Head(text)))
    ELSE Made(str, text)

parseString(text) ==
    LET from == skipSpacesAndComments(text) IN
    IF isQuote(current(from)) THEN QuotedString(Tail(from), current(from), <<>>)
    ELSE PlainString(from, <<>>)

\* At a value: with quotes a string, without them something to interpret later.
parseStringTo(text) ==
    LET read == parseString(text)
        type == IF isQuote(current(text)) THEN "string" ELSE "raw"
    IN  Made([type |-> type, value |-> read.made], read.left)

\* With limit, the levels of nesting that are still allowed.
RECURSIVE parseAnythingTo(_, _), ArrayFrom(_, _, _), ObjectFrom(_, _, _)

parseArray(text, limit) ==
    CASE limit = 0 \/ ~Eats(text, "[") -> Failure
      [] limit > 0 /\ Eats(text, "[") /\ Eats(eat(text, "["), "]") ->
           Made([type |-> "array", value |-> <<>>], eat(eat(text, "["), "]"))
      [] OTHER -> ArrayFrom(eat(text, "["), limit - 1, <<>>)

\* The loop: a value, and a bracket or a comma.
ArrayFrom(text, limit, values) ==
    LET value == parseAnythingTo(text, limit)
        all   == Append(values, value.made)
    IN  CASE ~value.ok -> Failure
          [] value.ok /\ Eats(value.left, "]") ->
               Made([type |-> "array", value |-> all], eat(value.left, "]"))
          [] value.ok /\ Eats(value.left, ",") -> ArrayFrom(eat(value.left, ","), limit, all)
          [] OTHER -> Failure

parseObject(text, limit) ==
    CASE limit = 0 \/ ~Eats(text, "{") -> Failure
      [] limit > 0 /\ Eats(text, "{") /\ Eats(eat(text, "{"), "}") ->
           Made([type |-> "object", value |-> <<>>], eat(eat(text, "{"), "}"))
      [] OTHER -> ObjectFrom(eat(text, "{"), limit - 1, <<>>)

\* JsonObject::set(): a key that is there already keeps its place.
WithPair(pairs, key, doc) ==
    LET same == {i \in DOMAIN pairs : pairs[i][1] = key} IN
    IF same = {} THEN Append(pairs, <<key, doc>>)
    ELSE [pairs EXCEPT ![CHOOSE i \in same : TRUE] = <<key, doc>>]

ObjectFrom(text, limit, pairs) ==
    LET key   == parseString(text)
        value == parseAnythingTo(eat(key.left, ":"), limit)
        all   == WithPair(pairs, key.made, value.made)
    IN  CASE ~Eats(key.left, ":") -> Failure
          [] Eats(key.left, ":") /\ ~value.ok -> Failure
          [] Eats(key.left, ":") /\ value.ok /\ Eats(value.left, "}") ->
               Made([type |-> "object", value |-> all], eat(value.left, "}"))
          [] Eats(key.left, ":") /\ value.ok /\ Eats(value.left, ",") ->
               ObjectFrom(eat(value.left, ","), limit, all)
          [] OTHER -> Failure

parseAnythingTo(text, limit) ==
    LET from == skipSpacesAndComments(text) IN
    CASE current(from) = "[" -> parseArray(from, limit)
      [] current(from) = "{" -> parseObject(from, limit)
      [] OTHER -> parseStringTo(from)

-----------------------------------------------------------------------------
(* What a document is after having been written and read: numbers are text   *)
(* until someone asks for them.                                              *)
RECURSIVE Unparsed(_), Depth(_)
Unparsed(doc) ==
    CASE doc.type = "integer" -> [type |-> "raw", value |-> serialize(doc)]
      [] doc.type = "array" ->
           [doc EXCEPT !.value = [i \in DOMAIN @ |-> Unparsed(@[i])]]
      [] doc.type = "object" ->
           [doc EXCEPT !.value = [i \in DOMAIN @ |-> <<@[i][1], Unparsed(@[i][2])>>]]
      [] OTHER -> doc

Depth(doc) ==
    CASE doc.type = "array" -> 1 + Max({0} \cup {Depth(doc.value[i]) : i \in DOMAIN doc.value})
      [] doc.type = "object" -> 1 + Max({0} \cup {Depth(doc.value[i][2]) : i \in DOMAIN doc.value})
      [] OTHER -> 0

\* A document that is written and parsed again is the same, whatever its keys
\* and strings hold; one nested deeper than the parser allows is refused.
ReadBack(doc, limit) ==
    LET read == parseObject(serialize(doc), limit) IN
    IF Depth(doc) <= limit
    THEN read = Made(Unparsed(doc), <<>>)
    ELSE ~read.ok
=============================================================================
