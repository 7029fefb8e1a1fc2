---------------------------- MODULE WebResponse -----------------------------
(***************************************************************************)
(* The responses of ESPAsyncWebServer.  A response is written as far as    *)
(* the send buffer of its connection has room, and continued whenever an   *)
(* acknowledgement has been reported or the connection is polled.  The     *)
(* report of an acknowledgement waits in the queue of AsyncTCP, while the  *)
(* room it makes can be used at once.                                      *)
(* A byte is a pair: where it comes from, and which it is.                 *)
(* What write() does not take is lost, and the code counts on room that is *)
(* not there when the head is kept after the first fill.  The response     *)
(* notes that in lapse and goes on as the code does.                       *)
(***************************************************************************)
EXTENDS Integers, Sequences, SequencesExt

CONSTANTS
    SendBuffer,     \* room of the send buffer (TCP_SND_BUF)
    Responses,      \* the responses handlers make: kind, length of head and of content,
                    \* and whether the source of the content can be read
    ServerError,    \* the one of them that answers 500
    TryAgains,      \* bound: how often a filler has nothing yet, or memory is short
    Acks,           \* sizes of acknowledgements, besides "all that is out"
    Reports         \* bound: acknowledgements that wait to be handled

ASSUME ResponseAssumption ==
    /\ SendBuffer \in Nat \ {0} /\ TryAgains \in Nat
    /\ Acks \subseteq Nat \ {0} /\ Reports \in Nat \ {0}
    /\ ServerError \in Responses /\ ServerError.kind = "basic"
    /\ \A a \in Responses :
         /\ a.kind \in {"basic", "sized", "unsized", "chunked"}
         /\ a.head \in Nat \ {0} /\ a.content \in Nat
         /\ a.source \in {"sound", "frail", "missing"}

VARIABLES
    s,          \* the AsyncWebServerResponse object
    wire,       \* what has been written to the connection
    acked,      \* how much of it the peer has acknowledged
    reports     \* acknowledgements not yet handled

responseVars == <<s, wire, acked, reports>>

HeadBytes(n) == [i \in 1 .. n |-> <<"head", i>>]
Content(n) == [i \in 1 .. n |-> <<"content", i>>]

\* _contentLength: none is known of chunks, nor where the length 0 was given.
LengthOf(a) == IF a.kind \in {"basic", "sized"} THEN a.content ELSE 0

\* The object made for a response; from is the number of bytes of the content
\* that _fillBuffer() has handed out.
NewResponse(a) ==
    [of |-> a, state |-> "HEADERS", head |-> HeadBytes(a.head), content |-> <<>>,
     contentLength |-> LengthOf(a), sentLength |-> 0, ackedLength |-> 0, writtenLength |-> 0,
     from |-> 0, tries |-> 0, lapse |-> "none"]

NoResponse == [state |-> "SETUP"]

ResponseInit == s = NoResponse /\ wire = <<>> /\ acked = 0 /\ reports = <<>>

\* AsyncClient::space() and write(): what does not fit is not sent.
Space == SendBuffer - (Len(wire) - acked)
Fit(bytes) == SubSeq(bytes, 1, IF Len(bytes) > Space THEN Space ELSE Len(bytes))

\* The object goes on as o, having written bytes.
Writes(o, bytes) ==
    /\ wire' = wire \o Fit(bytes)
    /\ s' = [o EXCEPT !.writtenLength = @ + Len(Fit(bytes))]

WritesNothing(o) == s' = o /\ UNCHANGED wire

-----------------------------------------------------------------------------
(* AsyncBasicResponse: a string                                             *)

\* The whole, the head in part, or the head and the content in part, as space
\* allows; what is left is content from now on.
BasicRespond(o) ==
    LET out == o.head
        content == Content(o.of.content)
        o1 == [o EXCEPT !.head = <<>>, !.content = content]
        n == Len(out)
        shift == Space - n
    IN \/ /\ Space >= n + Len(content) /\ n + Len(content) > 0
          /\ Writes([o1 EXCEPT !.state = "WAIT_ACK"], out \o content)
       \/ /\ Space > 0 /\ Space < n
          /\ Writes([o1 EXCEPT !.state = "CONTENT", !.contentLength = @ + n - Space,
                               !.content = SubSeq(out, Space + 1, n) \o content],
                    SubSeq(out, 1, Space))
       \/ /\ Space > n /\ Space < n + Len(content)
          /\ Writes([o1 EXCEPT !.state = "CONTENT", !.sentLength = shift,
                               !.content = SubSeq(content, shift + 1, Len(content))],
                    out \o SubSeq(content, 1, shift))
       \/ /\ Space = 0 \/ (Space = n /\ content # <<>>)
          /\ WritesNothing([o1 EXCEPT !.state = "CONTENT", !.contentLength = @ + n,
                                      !.content = out \o content])

BasicAckKeepingContent(o) ==    \* mutant
    LET available == o.contentLength - o.sentLength IN
    \/ /\ o.state = "CONTENT" /\ Space > available
       /\ Writes([o EXCEPT !.state = "WAIT_ACK", !.content = <<>>], o.content)
    \/ /\ o.state = "CONTENT" /\ Space <= available
       /\ Writes([o EXCEPT !.sentLength = @ + Space], SubSeq(o.content, 1, Space))
    \/ /\ o.state = "WAIT_ACK"
       /\ WritesNothing([o EXCEPT !.state = IF o.ackedLength >= o.writtenLength THEN "END" ELSE @])

BasicAck(o) ==
    LET available == o.contentLength - o.sentLength IN
    \/ /\ o.state = "CONTENT" /\ Space > available
       /\ Writes([o EXCEPT !.state = "WAIT_ACK", !.content = <<>>], o.content)
    \/ /\ o.state = "CONTENT" /\ Space <= available
       /\ Writes([o EXCEPT !.sentLength = @ + Space,
                           !.content = SubSeq(o.content, Space + 1, Len(o.content))],
                 SubSeq(o.content, 1, Space))
    \/ /\ o.state = "WAIT_ACK"
       /\ WritesNothing([o EXCEPT !.state = IF o.ackedLength >= o.writtenLength THEN "END" ELSE @])

-----------------------------------------------------------------------------
(* AsyncAbstractResponse: a file, a stream, program memory or a callback,   *)
(* with a length ("sized"), with none, ended by closing ("unsized"; also    *)
(* chunks, when an HTTP/1.0 client asks), or in chunks                      *)

\* What _fillBuffer() may return when asked for up to room bytes: a filler may
\* give fewer, a single one, and has nothing more at the end of the content.
Fills(o, room) ==
    LET left == o.of.content - o.from
        most == IF room < left THEN room ELSE left
    IN IF most = 0 THEN {0} ELSE {1, most}

Filled(o, n) == SubSeq(Content(o.of.content), o.from + 1, o.from + n)

\* The length in hexadecimal, filled up to four places, and two newlines:
\* eight bytes more than the data.
Chunk(data) ==
    <<<<"size", Len(data)>>, <<"size", 2>>, <<"size", 3>>, <<"size", 4>>, <<"CR", 1>>, <<"LF", 1>>>>
      \o data \o <<<<"CR", 2>>, <<"LF", 2>>>>

\* A fill that writes nothing.  Where the head was to go out with it, the head
\* is kept, though no room is set aside for it again: the next fill takes the
\* whole room for the content, and what the head displaces is lost.
WithoutFill(o) == WritesNothing([o EXCEPT !.lapse = IF o.head = <<>> THEN @ ELSE "kept"])

\* RESPONSE_TRY_AGAIN, or no memory for the buffer.
TryAgain(o) ==
    /\ o.tries < TryAgains
    /\ WithoutFill([o EXCEPT !.tries = @ + 1])

Chunked(o, space) ==
    \/ space <= 8 /\ WithoutFill(o)
    \/ space > 8 /\ TryAgain(o)
    \/ /\ space > 8
       /\ \E n \in Fills(o, space - 8) :
             Writes([o EXCEPT !.head = <<>>, !.from = @ + n, !.sentLength = @ + n,
                              !.state = IF n = 0 THEN "WAIT_ACK" ELSE @],
                    o.head \o Chunk(Filled(o, n)))

\* Without a length, the first fill that writes nothing ends the response, and
\* so does the one with the head if it reads nothing: also where the head has
\* left no room to read anything into.  malloc(0) gives no buffer.
Plain(o, space) ==
    LET unsized == o.of.kind = "unsized"
        left == o.contentLength - o.sentLength
        outLen == IF unsized \/ left > space THEN space ELSE left
    IN \/ outLen = 0 /\ o.head = <<>> /\ WritesNothing(o)
       \/ (outLen > 0 \/ o.head # <<>>) /\ TryAgain(o)
       \/ /\ outLen > 0 \/ o.head # <<>>
          /\ \E n \in Fills(o, outLen) :
                Writes([o EXCEPT !.head = <<>>, !.from = @ + n, !.sentLength = @ + n,
                                 !.lapse = IF unsized /\ space = 0 THEN "late" ELSE @,
                                 !.state = IF \/ o.sentLength + n = o.contentLength
                                              \/ unsized /\ o.head = <<>> /\ n = 0
                                           THEN "WAIT_ACK" ELSE @],
                       o.head \o Filled(o, n))

FillAndSend(o, space) ==
    \/ o.of.kind = "chunked" /\ Chunked(o, space)
    \/ o.of.kind # "chunked" /\ Plain(o, space)

\* Without a length the connection is closed at the end, which tells the peer.
AbstractAck(o) ==
    LET n == Len(o.head) IN
    \/ /\ o.state = "HEADERS" /\ Space < n
       /\ Writes([o EXCEPT !.head = SubSeq(o.head, Space + 1, n)], SubSeq(o.head, 1, Space))
    \/ /\ o.state = "HEADERS" /\ Space >= n
       /\ FillAndSend([o EXCEPT !.state = "CONTENT"], Space - n)
    \/ /\ o.state = "CONTENT"
       /\ FillAndSend(o, Space)
    \/ /\ o.state = "WAIT_ACK"
       /\ WritesNothing([o EXCEPT !.state =
             IF o.of.kind # "sized" \/ o.ackedLength >= o.writtenLength THEN "END" ELSE @])

-----------------------------------------------------------------------------
(* What AsyncWebServerRequest does with its response                        *)

Started == s.state # "SETUP"
Finished == s.state \in {"END", "FAILED"}

\* _sourceValid() is asked first: of the library's classes none turns invalid
\* under way, but the function is virtual.  A failed response closes.
SourceFails == s.of.source = "frail" /\ WritesNothing([s EXCEPT !.state = "FAILED"])

_ack(len) ==
    LET o == [s EXCEPT !.ackedLength = @ + len] IN
    IF o.of.kind = "basic" THEN BasicAck(o) ELSE SourceFails \/ AbstractAck(o)

\* AsyncWebServerRequest::send(), called by the handler with a response: if its
\* source is missing, the answer is another one.
Answer(a) == IF a.kind # "basic" /\ a.source = "missing" THEN ServerError ELSE a

Respond(a) ==
    LET b == Answer(a)
        o == NewResponse(b)
    IN /\ IF b.kind = "basic" THEN BasicRespond(o) ELSE AbstractAck(o)
       /\ UNCHANGED <<acked, reports>>

OnAckWhenNotWhole ==    \* mutant
    /\ reports # <<>>
    /\ reports' = Tail(reports)
    /\ IF Started /\ ~Finished /\ acked < Len(wire) THEN _ack(Head(reports)) ELSE UNCHANGED <<s, wire>>
    /\ UNCHANGED acked

\* _onAck(): a response that has ended is deleted, which changes nothing more.
OnAck ==
    /\ reports # <<>>
    /\ reports' = Tail(reports)
    /\ IF Started /\ ~Finished THEN _ack(Head(reports)) ELSE UNCHANGED <<s, wire>>
    /\ UNCHANGED acked

OnPoll ==
    /\ Started /\ ~Finished /\ Space > 0
    /\ _ack(0)
    /\ UNCHANGED <<acked, reports>>

\* The peer acknowledges what it has, TCP makes room and reports it.
Acknowledged ==
    /\ Len(reports) < Reports
    /\ \E n \in Acks \cup {Len(wire) - acked} :
          /\ 0 < n /\ n <= Len(wire) - acked
          /\ acked' = acked + n /\ reports' = Append(reports, n)
    /\ UNCHANGED <<s, wire>>

ResponseNext == OnAck \/ OnPoll \/ Acknowledged

\* The tasks of TCP and AsyncTCP run; a connection is polled every half second.
ResponseFairness ==
    WF_responseVars(OnAck) /\ WF_responseVars(OnPoll) /\ WF_responseVars(Acknowledged)

-----------------------------------------------------------------------------
\* What the peer makes of the bytes behind the head: the data, and whether it
\* knows that there is no more.
Unchunked(bytes) ==
    LET RestOf(i) == SubSeq(bytes, i, Len(bytes))
        data[i \in 1 .. Len(bytes) + 1] ==
            IF i > Len(bytes) THEN [read |-> <<>>, last |-> FALSE]
            ELSE LET size == bytes[i][2]
                     chunk == SubSeq(bytes, i, i + size + 7)
                     rest == data[i + size + 8]
                 IN IF bytes[i][1] # "size" \/ i + size + 7 > Len(bytes)
                    THEN [read |-> <<<<"garbled", i>>>>, last |-> FALSE]
                    ELSE IF chunk # Chunk(SubSeq(bytes, i + 6, i + size + 5))
                    THEN [read |-> <<<<"garbled", i>>>>, last |-> FALSE]
                    ELSE IF size = 0 THEN [read |-> <<>>, last |-> i + 7 = Len(bytes)]
                    ELSE [read |-> SubSeq(bytes, i + 6, i + size + 5) \o rest.read, last |-> rest.last]
    IN data[1]

\* What is on the wire is at any time a beginning of the response, well framed;
\* and when the server has no more to send, or takes the response for ended, it
\* is the whole of it, the peer can tell, and one with a length has been
\* acknowledged when it has ended.  Excepted are a head that was kept after the
\* first fill and a response without a length whose head left no room.
ResponseIsWhole ==
    Started /\ s.lapse = "none" =>
        LET n == s.of.head
            behind == SubSeq(wire, n + 1, Len(wire))
            finished == s.state \in {"WAIT_ACK", "END"}
        IN /\ \A i \in DOMAIN wire : i <= n => wire[i] = HeadBytes(n)[i]
           /\ IF s.of.kind = "chunked"
              THEN IsPrefix(Unchunked(behind).read, Content(s.of.content))
              ELSE IsPrefix(behind, Content(s.of.content))
           /\ finished =>
                IF s.of.kind = "chunked"
                THEN Unchunked(behind) = [read |-> Content(s.of.content), last |-> TRUE]
                ELSE behind = Content(s.of.content)
           /\ s.state = "END" /\ s.of.kind \in {"basic", "sized"} => acked = Len(wire)
=============================================================================
