----------------------------- MODULE JsonPrint ------------------------------
(***************************************************************************)
(* prettyPrintTo(): the compact text of a document goes character by       *)
(* character through the Prettyfier, which knows the last one and whether  *)
(* it is inside a string, and the IndentedPrint behind it.                 *)
(***************************************************************************)
EXTENDS JsonText

MAX_LEVEL == 15    \* because it's only 4 bits
TabSize   == 2

-----------------------------------------------------------------------------
(* IndentedPrint                                                             *)

writeTabs(p) == [i \in 1 .. p.level * TabSize |-> " "]

PrintChar(p, c) ==
    [p EXCEPT !.out = @ \o (IF p.isNewLine THEN writeTabs(p) ELSE <<>>) \o <<c>>,
              !.isNewLine = c = "newline"]

print(p, chars) == FoldLeft(PrintChar, p, chars)

indent(p)   == IF p.level < MAX_LEVEL THEN [p EXCEPT !.level = @ + 1] ELSE p
unindent(p) == IF p.level > 0 THEN [p EXCEPT !.level = @ - 1] ELSE p

-----------------------------------------------------------------------------
(* Prettyfier                                                                *)

NewLine == <<"return", "newline">>

inEmptyBlock(p) == p.previousChar \in {"{", "["}

indentIfNeeded(p)   == IF inEmptyBlock(p) THEN print(indent(p), NewLine) ELSE p
unindentIfNeeded(p) == IF inEmptyBlock(p) THEN p ELSE print(unindent(p), NewLine)

handleMarkupChar(p, c) ==
    CASE c \in {"}", "]"} -> PrintChar(unindentIfNeeded(p), c)
      [] c = ":" -> print(p, <<":", " ">>)
      [] c = "," -> print(p, <<",">> \o NewLine)
      [] c = "quote" -> PrintChar([indentIfNeeded(p) EXCEPT !.inString = TRUE], c)
      [] OTHER -> PrintChar(indentIfNeeded(p), c)

\* A quote behind a backslash does not end the string, even if that backslash
\* has one of its own before it.
handleStringChar(p, c) ==
    PrintChar([p EXCEPT !.inString = ~(c = "quote" /\ p.previousChar # "backslash")], c)

Prettyfy(p, c) ==
    [(IF p.inString THEN handleStringChar(p, c) ELSE handleMarkupChar(p, c))
        EXCEPT !.previousChar = c]

prettyPrint(doc) ==
    FoldLeft(Prettyfy,
             [out |-> <<>>, level |-> 0, isNewLine |-> TRUE, previousChar |-> "null", inString |-> FALSE],
             serialize(doc))

-----------------------------------------------------------------------------
(* What is printed                                                           *)

RECURSIVE EndsPlainly(_)
\* No string ends in a backslash.
EndsPlainly(doc) ==
    CASE doc.type = "string" -> doc.value = <<>> \/ Last(doc.value) # "backslash"
      [] doc.type = "array" -> \A i \in DOMAIN doc.value : EndsPlainly(doc.value[i])
      [] doc.type = "object" ->
           \A i \in DOMAIN doc.value :
               /\ doc.value[i][1] = <<>> \/ Last(doc.value[i][1]) # "backslash"
               /\ EndsPlainly(doc.value[i][2])
      [] OTHER -> TRUE

\* A person who edits the text puts comments at the ends of lines.
Commented(text) ==
    FlattenSeq([i \in DOMAIN text |->
        CASE text[i] = "return" -> <<"/", "*", "*", "{", "*", "/">>
          [] text[i] = "newline" -> <<"/", "/", "}", "newline">>
          [] OTHER -> <<text[i]>>])

\* The indented text, with or without comments, is parsed to the document
\* it was made from, and all its blocks are closed again.
PrettyReadBack(doc, limit) ==
    LET p == prettyPrint(doc)
        s == Made(Unparsed(doc), <<>>)
    IN  EndsPlainly(doc) /\ Depth(doc) <= limit =>
            /\ parseObject(p.out, limit) = s
            /\ parseObject(Commented(p.out), limit) = s
            /\ p.level = 0 /\ ~p.inString
=============================================================================
