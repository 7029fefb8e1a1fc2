----------------------------- MODULE EventText ------------------------------
(***************************************************************************)
(* The text of a server-sent event: generateEventMessage() and what a      *)
(* browser makes of it.  A text is a sequence of tokens: the names of      *)
(* fields, characters, "CR" and "LF".                                      *)
(***************************************************************************)
EXTENDS Integers, SequencesExt

Newline == <<"CR", "LF">>
FieldLine(name, value) == <<name>> \o value \o Newline

\* A line ends at the first "CR" or "LF"; the other one behind it belongs to it.
EndOfLine(message) ==
    LET ends == {i \in DOMAIN message : message[i] \in {"CR", "LF"}} IN
    IF ends = {} THEN 0 ELSE CHOOSE i \in ends : \A j \in ends : i <= j

NextLine(message, e) ==
    IF e < Len(message) /\ message[e + 1] \in {"CR", "LF"} \ {message[e]} THEN e + 2 ELSE e + 1

RECURSIVE DataLinesAtEnd(_)
DataLinesAtEnd(message) ==    \* mutant: no empty line behind a final newline
    LET e == EndOfLine(message)
        next == SubSeq(message, NextLine(message, e), Len(message))
    IN  IF e = 0 THEN FieldLine("data", message) \o Newline
        ELSE FieldLine("data", SubSeq(message, 1, e - 1))
               \o IF next = <<>> THEN <<>> ELSE DataLinesAtEnd(next)

\* The do loop: a data field for every line, and an empty line behind the last.
RECURSIVE DataLines(_)
DataLines(message) ==
    LET e == EndOfLine(message)
        next == SubSeq(message, NextLine(message, e), Len(message))
    IN  IF e = 0 THEN FieldLine("data", message) \o Newline
        ELSE FieldLine("data", SubSeq(message, 1, e - 1))
               \o IF next = <<>> THEN Newline ELSE DataLines(next)

\* An id of 0 is none; the event has a name unless it is null.
generateEventMessage(m) ==
    (IF m.id # <<"0">> THEN FieldLine("id", m.id) ELSE <<>>)
      \o (IF m.event # <<>> THEN FieldLine("event", m.event) ELSE <<>>)
      \o DataLines(m.message)

-----------------------------------------------------------------------------
(* The browser: fields up to an empty line; data lines are joined.           *)
Blank == [id |-> <<"0">>, event |-> <<>>, lines |-> <<>>, whole |-> FALSE]

RECURSIVE BrowserReads(_, _)
BrowserReads(text, e) ==
    LET n == EndOfLine(text)
        line == SubSeq(text, 1, n - 1)
        left == SubSeq(text, NextLine(text, n), Len(text))
    IN  CASE n = 0 -> e
          [] n # 0 /\ line = <<>> -> [e EXCEPT !.whole = left = <<>>]
          [] OTHER ->
               BrowserReads(left,
                 CASE line[1] = "id" -> [e EXCEPT !.id = Tail(line)]
                   [] line[1] = "event" -> [e EXCEPT !.event = Tail(line)]
                   [] line[1] = "data" -> [e EXCEPT !.lines = Append(@, Tail(line))])

\* The lines of a message; a newline at its end does not begin another one.
RECURSIVE LinesOf(_)
LinesOf(message) ==
    LET e == EndOfLine(message)
        next == SubSeq(message, NextLine(message, e), Len(message))
    IN  IF e = 0 THEN <<message>>
        ELSE <<SubSeq(message, 1, e - 1)>> \o IF next = <<>> THEN <<>> ELSE LinesOf(next)

\* A browser gets the event with its lines, whichever newlines they end with,
\* and the event is over where the text is.
EventReadBack(m) ==
    BrowserReads(generateEventMessage(m), Blank)
      = [id |-> m.id, event |-> m.event, lines |-> LinesOf(m.message), whole |-> TRUE]
=============================================================================
