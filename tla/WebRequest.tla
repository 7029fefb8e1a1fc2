----------------------------- MODULE WebRequest -----------------------------
(***************************************************************************)
(* AsyncWebServerRequest: an HTTP request is parsed from whatever segments *)
(* TCP cuts it into.  Lines go to _temp until their newline has come; the  *)
(* body goes, byte by byte, through the machine for forms with files, the  *)
(* one for plain forms, or as it is to the handler.                        *)
(* A line is two tokens and "LF" (its carriage return is trimmed by the    *)
(* code); a body is a sequence of bytes, of which only those the machines  *)
(* look at are told apart.  Header lines inside a body are tokens too.     *)
(***************************************************************************)
EXTENDS Integers, Sequences, FiniteSets, SequencesExt

CONSTANTS
    Boundary,       \* the boundary of forms with files, a sequence of bytes
    ItemBuffer,     \* size of _itemBuffer (1460 in the code)
    Requests,       \* the requests clients send
    Segments        \* sizes of segments, besides "all that is left"

ASSUME RequestAssumption ==
    /\ ItemBuffer \in Nat \ {0} /\ Segments \subseteq Nat \ {0}
    /\ Boundary # <<>>

VARIABLES
    request,    \* the request that is being sent
    incoming,   \* what has not arrived yet
    r           \* the AsyncWebServerRequest object

requestVars == <<request, incoming, r>>

\* What a client sends: a request is a sequence of parts with a name and data,
\* of which a form with files may have several that are files, and a plain
\* form several that are not.
Dashes == <<"-", "-">>

Part(p) ==
    Dashes \o Boundary \o <<"CR", "LF">>
      \o (IF p.file THEN <<"file">> \o p.name \o <<"CR", "LF", "type", "bin", "CR", "LF">>
                    ELSE <<"field">> \o p.name \o <<"CR", "LF">>)
      \o <<"CR", "LF">> \o p.data \o <<"CR", "LF">>

\* What a browser escapes in the fields of a plain form or a query.
Escape(b) ==
    CASE b = "&" -> <<"%", "2", "6">>
      [] b = "=" -> <<"%", "3", "D">>
      [] b = "%" -> <<"%", "2", "5">>
      [] b = "+" -> <<"%", "2", "B">>
      [] b = " " -> <<"+">>
      [] OTHER -> <<b>>

Field(f) ==
    f.name \o <<"=">> \o FoldLeft(LAMBDA s, b : s \o Escape(b), <<>>, f.data)

Join(fields) ==
    FoldLeft(LAMBDA b, f : IF b = <<>> THEN Field(f) ELSE b \o <<"&">> \o Field(f),
             <<>>, fields)

Body(q) ==
    CASE q.kind = "multipart" ->
           FoldLeft(LAMBDA b, p : b \o Part(p), <<>>, q.parts)
             \o Dashes \o Boundary \o <<"-", "-", "CR", "LF">>
      [] q.kind = "plain" -> Join(q.parts)
      [] q.kind = "get" -> <<>>
      [] OTHER -> FoldLeft(LAMBDA b, p : b \o p.data, <<>>, q.parts)

Lines(q) ==
    <<q.method, q.url>> \o (IF q.kind = "get" THEN <<"?">> \o Join(q.parts) ELSE <<>>)
      \o <<"LF", "type", q.kind, "LF">> \o (IF q.kind = "get" THEN <<>> ELSE <<"length", "n", "LF">>) \o <<"LF">>

Stream(q) == Lines(q) \o Body(q)

-----------------------------------------------------------------------------
(* Calls of the handler                                                     *)

NewRequest ==
    [state |-> "START", temp |-> <<>>, method |-> "", url |-> "", ctype |-> "", length |-> 0,
     parsed |-> 0, isPlain |-> FALSE, multi |-> "EXPECT_BOUNDARY", bpos |-> 0,
     item |-> [name |-> <<>>, file |-> FALSE, size |-> 0, value |-> <<>>, buffer |-> <<>>],
     params |-> <<>>, files |-> <<>>, raw |-> <<>>, handled |-> 0]

\* Upload handlers begin a file at index 0 and write the rest behind what they
\* have (Update.write() does not look at the index).
handleUpload(q, index, data, final) ==
    [q EXCEPT !.files =
        IF index = 0 THEN Append(@, [name |-> q.item.name, data |-> data, final |-> final])
        ELSE IF @ = <<>> THEN @
        ELSE [@ EXCEPT ![Len(@)].data = @ \o data, ![Len(@)].final = final]]

_addParam(q, name, value, size) == [q EXCEPT !.params = Append(@, <<name, value, size>>)]

\* "%" and two hexadecimal digits, or "+", become what they stand for.
HexChar(h, l) ==
    LET hex == <<h, l>> IN
    CASE hex = <<"2", "6">> -> "&" [] hex = <<"3", "D">> -> "="
      [] hex = <<"2", "5">> -> "%" [] hex = <<"2", "B">> -> "+"

urlDecode(text) ==
    LET n == Len(text)
        from[i \in 1 .. n + 1] ==
            IF i > n THEN <<>>
            ELSE IF text[i] = "%" /\ i + 2 <= n
                 THEN <<HexChar(text[i + 1], text[i + 2])>> \o from[i + 3]
            ELSE <<IF text[i] = "+" THEN " " ELSE text[i]>> \o from[i + 1]
    IN from[1]

\* The first i with c at text[i], or 0.
indexOf(text, c) ==
    LET at == {i \in DOMAIN text : text[i] = c} IN
    IF at = {} THEN 0 ELSE CHOOSE i \in at : \A j \in at : i <= j

\* The query is cut at each "&"; a field without "=" has no value.
_addGetParams(q, query) ==
    LET cut(s) == IF indexOf(s, "&") = 0 THEN Len(s) + 1 ELSE indexOf(s, "&")
        add[s \in {SubSeq(query, i, Len(query)) : i \in 1 .. Len(query) + 1}] ==
            IF s = <<>> THEN <<>>
            ELSE LET field == SubSeq(s, 1, cut(s) - 1)
                     eq == IF indexOf(field, "=") = 0 THEN Len(field) + 1 ELSE indexOf(field, "=")
                 IN <<<<urlDecode(SubSeq(field, 1, eq - 1)),
                        urlDecode(SubSeq(field, eq + 1, Len(field))), 0>>>>
                      \o add[SubSeq(s, cut(s) + 1, Len(s))]
    IN [q EXCEPT !.params = @ \o add[query]]

handleRequest(q) == [q EXCEPT !.state = "END", !.handled = @ + 1]

-----------------------------------------------------------------------------
(* Forms with files                                                         *)

\* The buffer is handed on when it is full, and at the end of a segment.
_handleUploadByte(q, b, last) ==
    LET buffer == Append(q.item.buffer, b)
        index == q.item.size - Len(buffer)
    IN IF last \/ Len(buffer) = ItemBuffer
       THEN [handleUpload(q, index, buffer, FALSE) EXCEPT !.item.buffer = <<>>]
       ELSE [q EXCEPT !.item.buffer = buffer]

itemWriteByte(q, b, last) ==
    LET q1 == [q EXCEPT !.item.size = @ + 1] IN
    IF q.item.file THEN _handleUploadByte(q1, b, last)
    ELSE [q1 EXCEPT !.item.value = Append(@, b)]

WaitForReturn(q, b, last) ==
    IF b # "CR" THEN itemWriteByte(q, b, last) ELSE [q EXCEPT !.multi = "EXPECT_FEED1"]

RestartWithoutByte(q, seen, b, last) ==    \* mutant
    FoldLeft(LAMBDA s, c : itemWriteByte(s, c, last),
             [q EXCEPT !.multi = "WAIT_FOR_RETURN1"], Append(seen, b))

\* What was seen is not the delimiter after all: it is data, and the byte that
\* told so is looked at again.
Restart(q, seen, b, last) ==
    LET q1 == FoldLeft(LAMBDA s, c : itemWriteByte(s, c, last),
                       [q EXCEPT !.multi = "WAIT_FOR_RETURN1"], seen)
    IN WaitForReturn(q1, b, last)

Delimiter(n) == <<"CR", "LF", "-", "-">> \o SubSeq(Boundary, 1, n)

\* The first boundary, which has no newline before it.
ExpectBoundary(q, b) ==
    LET n == q.parsed
        expected == Dashes \o Boundary \o <<"CR", "LF">>
    IN IF expected[n + 1] # b THEN [q EXCEPT !.multi = "PARSE_ERROR"]
       ELSE IF n + 1 = Len(expected)
            THEN [q EXCEPT !.multi = "PARSE_HEADERS", !.item.file = FALSE]
            ELSE q

\* Header lines of a part; an empty one starts its data.
PartHeader(q, b) ==
    CASE b = "CR" -> q
      [] b # "LF" /\ b # "CR" -> [q EXCEPT !.temp = Append(@, b)]
      [] b = "LF" ->
           IF q.temp = <<>>
           THEN [q EXCEPT !.multi = "WAIT_FOR_RETURN1", !.item.size = 0,
                          !.item.value = <<>>, !.item.buffer = <<>>]
           ELSE [q EXCEPT !.temp = <<>>,
                          !.item.file = @ \/ q.temp[1] \in {"type", "file"},
                          !.item.name = IF q.temp[1] \in {"field", "file"} THEN Tail(q.temp) ELSE @]

\* The boundary is complete: the part is.  A file without data is not reported.
ItemDone(q) ==
    LET q1 == [q EXCEPT !.multi = "DASH3_OR_RETURN2"]
        item == q.item
        q2 == [handleUpload(q1, item.size - Len(item.buffer), item.buffer, TRUE)
                 EXCEPT !.item.buffer = <<>>]
    IN IF ~item.file THEN _addParam(q1, item.name, item.value, 0)
       ELSE IF item.size = 0 THEN [q1 EXCEPT !.item.buffer = <<>>]
       ELSE _addParam(q2, item.name, <<>>, item.size)

BoundaryOrData(q, b, last) ==
    CASE Boundary[q.bpos + 1] # b -> Restart(q, Delimiter(q.bpos), b, last)
      [] Boundary[q.bpos + 1] = b /\ q.bpos + 1 = Len(Boundary) -> ItemDone(q)
      [] OTHER -> [q EXCEPT !.bpos = @ + 1]

\* "--" after a boundary ends the form: two bytes and a newline are to come,
\* whatever Content-Length said.
DashOrReturn(q, b, last) ==
    CASE b = "CR" -> [q EXCEPT !.multi = "EXPECT_FEED2"]
      [] b = "-" -> [q EXCEPT !.length = q.parsed + 4, !.multi = "PARSING_FINISHED"]
      [] OTHER -> Restart(q, Delimiter(Len(Boundary)), b, last)

_parseMultipartPostByte(q, b, last) ==
    CASE q.multi = "WAIT_FOR_RETURN1" -> WaitForReturn(q, b, last)
      [] q.multi = "EXPECT_BOUNDARY" -> ExpectBoundary(q, b)
      [] q.multi = "PARSE_HEADERS" -> PartHeader(q, b)
      [] q.multi = "EXPECT_FEED1" ->
           IF b # "LF" THEN Restart(q, <<"CR">>, b, last) ELSE [q EXCEPT !.multi = "EXPECT_DASH1"]
      [] q.multi = "EXPECT_DASH1" ->
           IF b # "-" THEN Restart(q, <<"CR", "LF">>, b, last)
                      ELSE [q EXCEPT !.multi = "EXPECT_DASH2"]
      [] q.multi = "EXPECT_DASH2" ->
           IF b # "-" THEN Restart(q, <<"CR", "LF", "-">>, b, last)
                      ELSE [q EXCEPT !.multi = "BOUNDARY_OR_DATA", !.bpos = 0]
      [] q.multi = "BOUNDARY_OR_DATA" -> BoundaryOrData(q, b, last)
      [] q.multi = "DASH3_OR_RETURN2" -> DashOrReturn(q, b, last)
      [] q.multi = "EXPECT_FEED2" ->
           IF b = "LF" THEN [q EXCEPT !.multi = "PARSE_HEADERS", !.item.file = FALSE]
           ELSE Restart(q, Delimiter(Len(Boundary)) \o <<"CR">>, b, last)
      [] OTHER -> q    \* PARSING_FINISHED, PARSE_ERROR

-----------------------------------------------------------------------------
(* Plain forms                                                              *)

\* A field ends at "&" or with the body; without a "=" behind its first byte,
\* or starting like JSON, it is the parameter "body".
_parsePlainPostChar(q, b) ==
    LET temp == IF b = "&" THEN q.temp ELSE Append(q.temp, b)
        eq == indexOf(temp, "=")
        isPair == eq > 1 /\ Head(temp) \notin {"{", "["}
        name == IF isPair THEN SubSeq(temp, 1, eq - 1) ELSE <<"body">>
        value == IF isPair THEN SubSeq(temp, eq + 1, Len(temp)) ELSE temp
    IN IF b = "&" \/ q.parsed = q.length
       THEN [_addParam(q, urlDecode(name), urlDecode(value), 0) EXCEPT !.temp = <<>>]
       ELSE [q EXCEPT !.temp = temp]

-----------------------------------------------------------------------------
(* Lines and the whole                                                      *)

\* Method, url and query.
_parseReqHead(q, line) ==
    LET mark == indexOf(line, "?") IN
    _addGetParams([q EXCEPT !.method = line[1], !.url = line[2]],
                  IF mark = 0 THEN <<>> ELSE SubSeq(line, mark + 1, Len(line)))

\* Of the headers, the two that tell how to read the body.
_parseReqHeader(q, line) ==
    CASE line[1] = "length" -> [q EXCEPT !.length = Len(Body(request))]
      [] line[1] = "type" -> [q EXCEPT !.ctype = line[2]]

\* A request line, a header, or the empty line that ends them: the handler is
\* attached, and called at once if no body is to come.
_parseLine(q, line) ==
    CASE q.state = "START" /\ line = <<>> -> [q EXCEPT !.state = "FAIL"]
      [] q.state = "START" /\ line # <<>> ->
           _parseReqHead([q EXCEPT !.state = "HEADERS"], line)
      [] q.state = "HEADERS" /\ line # <<>> -> _parseReqHeader(q, line)
      [] q.state = "HEADERS" /\ line = <<>> ->
           IF q.length # 0 THEN [q EXCEPT !.state = "BODY"] ELSE handleRequest(q)

InLines(q) == q.state \in {"START", "HEADERS"}

LineToken(q, t) ==
    IF ~InLines(q) THEN q
    ELSE IF t = "LF" THEN _parseLine([q EXCEPT !.temp = <<>>], q.temp)
    ELSE [q EXCEPT !.temp = Append(@, t)]

BodyByte(q, b, last) ==
    CASE q.ctype = "multipart" ->
           [_parseMultipartPostByte(q, b, last) EXCEPT !.parsed = q.parsed + 1]
      [] q.ctype = "plain" -> _parsePlainPostChar([q EXCEPT !.parsed = @ + 1], b)
      [] OTHER -> [q EXCEPT !.raw = Append(@, b), !.parsed = @ + 1]

\* The body in a segment; the handler is called when its last byte makes the
\* body complete.
BodyBytes(q, seg) ==
    LET q1 == FoldLeftDomain(LAMBDA s, i : BodyByte(s, seg[i], i = Len(seg)), q, seg)
    IN IF q1.parsed = q1.length THEN handleRequest(q1) ELSE q1

_onData(q, seg) ==
    LET inLines(n) == InLines(FoldLeft(LineToken, q, SubSeq(seg, 1, n)))
        lines == Cardinality({n \in 0 .. Len(seg) - 1 : inLines(n)})
        q1 == FoldLeft(LineToken, q, SubSeq(seg, 1, lines))
    IN IF q1.state = "BODY" /\ lines < Len(seg)
       THEN BodyBytes(q1, SubSeq(seg, lines + 1, Len(seg))) ELSE q1

-----------------------------------------------------------------------------
RequestInit ==
    /\ request \in Requests
    /\ incoming = Stream(request) /\ r = NewRequest

Receive ==
    /\ incoming # <<>>
    /\ \E n \in {k \in Segments : k < Len(incoming)} \cup {Len(incoming)} :
          /\ r' = _onData(r, SubSeq(incoming, 1, n))
          /\ incoming' = SubSeq(incoming, n + 1, Len(incoming))
    /\ UNCHANGED request

-----------------------------------------------------------------------------
\* What the request means, by reference.
ParamsOf(q) ==
    IF q.kind = "raw" THEN <<>>
    ELSE [i \in DOMAIN q.parts |->
            LET p == q.parts[i] IN
            IF p.file THEN <<p.name, <<>>, Len(p.data)>> ELSE <<p.name, p.data, 0>>]

FilesOf(q) ==
    IF q.kind # "multipart" THEN <<>>
    ELSE LET files == SelectSeq(q.parts, LAMBDA p : p.file)
         IN [i \in DOMAIN files |->
               [name |-> files[i].name, data |-> files[i].data, final |-> TRUE]]

\* While a file is arriving, what its handler has written is a beginning of
\* it, and is final only when it is all of it.
UploadIsPrefix ==
    LET sent == FilesOf(request) IN
    /\ Len(r.files) <= Len(sent)
    /\ \A i \in DOMAIN r.files :
         /\ r.files[i].name = sent[i].name
         /\ IsPrefix(r.files[i].data, sent[i].data)
         /\ r.files[i].final \/ i < Len(r.files) => r.files[i] = sent[i]

\* However the request is cut into segments, and whatever its data looks like,
\* the handler is called once, when all of it has arrived, and has been given
\* every parameter and every file, whole and in order.
HandledAsSent ==
    /\ r.handled = IF incoming = <<>> THEN 1 ELSE 0
    /\ r.handled = 1 =>
         /\ r.params = ParamsOf(request)
         /\ r.files = FilesOf(request)
         /\ request.kind = "raw" => r.raw = Body(request)
    /\ UploadIsPrefix
=============================================================================
