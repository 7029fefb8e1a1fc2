----------------------------- MODULE WebSocket ------------------------------
(***************************************************************************)
(* AsyncWebSocket: messages, text or binary, to one client or to all, pings *)
(* and the closing handshake.  A client has a queue of messages, cut into frames as the    *)
(* send buffer has room, one frame at a time until it is acknowledged, and *)
(* a queue of control frames, which go between frames of a message.  A     *)
(* text to all is one buffer, counted by the messages that use it.         *)
(* A handler that goes through the clients, or through the frames of a     *)
(* segment, is taken apart into steps, between which the peers may         *)
(* acknowledge.  A frame is one segment: whole frames are acknowledged.    *)
(***************************************************************************)
EXTENDS Integers, Sequences, FiniteSets, SequencesExt

CONSTANTS
    Sockets,        \* the connections
    Scripts,        \* what the peers may send: a frame is its header and len bytes
    Calls,          \* bound: messages, pings and closings by the program
    Opcodes,        \* of the messages: that of each call, should it send one
    TextLen,        \* length of a message
    ShortFrame,     \* the longest frame with a header of two bytes (125)
    SocketRoom,     \* room of the send buffer (TCP_SND_BUF)
    SocketHead,     \* size of the head of the response
    MaxQueued,      \* WS_MAX_QUEUED_MESSAGES
    SocketReports,  \* bound: acknowledgements of a connection that wait to be handled
    Cuts,           \* sizes of the peer's segments, besides "all that is left"
    Calm            \* the clients whose queue is left alone while a control frame is under way

ASSUME SocketAssumption ==
    /\ IsFiniteSet(Sockets)
    /\ \A s \in Scripts : s \in [Sockets -> Seq([op : STRING, len : Nat])]
    /\ Calls \in Nat /\ Opcodes \in [1 .. Calls -> {"TEXT", "BINARY"}] /\ TextLen \in Nat \ {0}
    /\ ShortFrame \in Nat /\ SocketRoom \in 11 .. 65535 /\ SocketHead \in 1 .. SocketRoom
    /\ MaxQueued \in Nat \ {0} /\ SocketReports \in Nat \ {0} /\ Cuts \subseteq Nat \ {0}
    /\ Calm \subseteq Sockets

\* A peer closes once, as the protocol asks.
ASSUME ScriptAssumption ==
    \A s \in Scripts : \A c \in Sockets : \A i, j \in DOMAIN s[c] :
        s[c][i].op = "CLOSE" /\ s[c][j].op = "CLOSE" => i = j

VARIABLES
    ws,         \* the AsyncWebSocketClient of each connection
    buffers,    \* _buffers: the count of each text to all
    task,       \* what a handler that takes several steps is doing
    calls,      \* number of texts, pings and closings by the program
    line,       \* what has been written to each connection, and is under way
    coming,     \* what the peer has sent and has not arrived
    handed      \* what the handler of WS_EVT_DATA has been given of messages

socketVars == <<ws, buffers, task, calls, line, coming, handed>>

\* todo: the clients a text, ping or closing has not got to; data: of the segment
\* that arrived at the client of todo, what has not been looked at.
Idle == [does |-> "nothing", todo |-> {}, data |-> <<>>]

NewClient ==
    [st |-> "none", status |-> "CONNECTED", controls |-> <<>>, messages |-> <<>>,
     pstate |-> 0, op |-> "TEXT", len |-> 0, index |-> 0]

\* frames: the frames of texts that have gone out; flight: for each segment not
\* acknowledged, the bytes up to its end, from the first that is not acknowledged;
\* reports: acknowledgements not handled; queued: the texts queued, in order.
NewLine == [frames |-> <<>>, flight |-> <<>>, reports |-> <<>>, queued |-> <<>>]

SocketInit ==
    /\ ws = [c \in Sockets |-> NewClient]
    /\ buffers = <<>> /\ task = Idle /\ calls = 0
    /\ line = [c \in Sockets |-> NewLine]
    /\ coming \in Scripts
    /\ handed = [c \in Sockets |-> <<>>]

InFlight(l) == IF l.flight = <<>> THEN 0 ELSE Last(l.flight)
SocketSpace(l) == SocketRoom - InFlight(l)

\* webSocketSendFrameWindow()
Window(l) == IF SocketSpace(l) < 9 THEN 0 ELSE SocketSpace(l) - 8

\* A longer frame has its length in two more bytes.
FrameHead(len) == IF len > ShortFrame THEN 4 ELSE 2

\* webSocketSendFrame() of len bytes from "from" on
SendFrame(l, op, final, id, from, len) ==
    [l EXCEPT !.frames = IF id = 0 THEN @
                         ELSE Append(@, [op |-> op, final |-> final, id |-> id, from |-> from, len |-> len]),
              !.flight = Append(@, InFlight(l) + len + FrameHead(len))]

-----------------------------------------------------------------------------
(* Messages and buffers.  id is the text; that of a "multi" message is in a *)
(* buffer of _buffers, that of a "basic" one its own.                       *)

NewBasicMessage(id) ==
    [id |-> id, kind |-> "basic", sent |-> 0, ack |-> 0, acked |-> 0, state |-> "SENDING"]

NewMultiMessage(id) == [NewBasicMessage(id) EXCEPT !.kind = "multi"]

BetweenFrames(m) == m.acked = m.ack

\* ack()
BasicAck(m, len) ==
    [m EXCEPT !.acked = @ + len,
              !.state = IF m.sent = TextLen /\ m.acked + len = m.ack THEN "SENT" ELSE @]

MultiAck(m, len) ==
    [m EXCEPT !.acked = @ + len,
              !.state = IF m.sent = TextLen /\ m.acked + len >= m.ack THEN "SENT" ELSE @]

MessageAck(m, len) == IF m.kind = "multi" THEN MultiAck(m, len) ELSE BasicAck(m, len)

Uses(id, messages) == Cardinality({i \in DOMAIN messages : messages[i].id = id /\ messages[i].kind = "multi"})

\* The buffers when messages have been destroyed.
Without(bs, messages) == [id \in DOMAIN bs |-> bs[id] - Uses(id, messages)]

\* A buffer is made for one message to all: nothing uses it yet.
makeBuffer(bs, id) == [i \in DOMAIN bs \cup {id} |-> IF i = id THEN 0 ELSE bs[i]]

CleanAll(bs) == <<>>    \* mutant

_cleanBuffers(bs) == [id \in {i \in DOMAIN bs : bs[i] > 0} |-> bs[id]]

-----------------------------------------------------------------------------
(* The queues of a client.  What a handler works on is one record: the      *)
(* client, its connection and the buffers.                                  *)

On(c) == [ws |-> ws[c], line |-> line[c], buffers |-> buffers]

SendAllOfMessage(h) ==    \* mutant
    LET m == Head(h.ws.messages)
        toSend == IF TextLen - m.sent < Window(h.line) THEN TextLen - m.sent ELSE Window(h.line)
    IN [h EXCEPT !.ws.messages[1] = [m EXCEPT !.sent = @ + toSend, !.ack = @ + toSend + FrameHead(toSend)],
                 !.line = SendFrame(@, Opcodes[m.id], IF m.sent + toSend = TextLen THEN 1 ELSE 0, m.id, m.sent, toSend)]

\* send() of the message in front
SendMessage(h) ==
    LET m == Head(h.ws.messages)
        left == TextLen - m.sent
        toSend == IF left < Window(h.line) THEN left ELSE Window(h.line)
        op == IF m.sent = 0 THEN Opcodes[m.id] ELSE "CONTINUATION"
    IN IF left = 0 THEN [h EXCEPT !.ws.messages[1].state = "SENT"]
       ELSE [h EXCEPT !.ws.messages[1] = [m EXCEPT !.sent = @ + toSend, !.ack = @ + toSend + FrameHead(toSend)],
                      !.line = SendFrame(@, op, IF left = toSend THEN 1 ELSE 0, m.id, m.sent, toSend)]

\* send() of the control frame in front: it is finished, and stays in the
\* queue until it is acknowledged.
SendControl(h) ==
    [h EXCEPT !.ws.controls[1].finished = TRUE,
              !.line = SendFrame(@, Head(h.ws.controls).op, 1, 0, 0, 0)]

\* Finished messages leave the front.
RemoveFinished(h) ==
    LET messages == h.ws.messages
        unfinished == {i \in DOMAIN messages : messages[i].state = "SENDING"}
        first == IF unfinished = {} THEN Len(messages) + 1
                 ELSE CHOOSE i \in unfinished : \A j \in unfinished : i <= j
    IN [h EXCEPT !.ws.messages = SubSeq(messages, first, Len(messages)),
                 !.buffers = Without(@, SubSeq(messages, 1, first - 1))]

\* Then a control frame, or a frame of the message in front, goes out.
_runQueue(h) ==
    LET g == RemoveFinished(h)
        between == g.ws.messages = <<>> \/ BetweenFrames(Head(g.ws.messages))
    IN CASE between /\ g.ws.controls # <<>> /\ Window(g.line) > 1 -> SendControl(g)
         [] between /\ (g.ws.controls = <<>> \/ Window(g.line) = 1)
              /\ g.ws.messages # <<>> /\ Window(g.line) > 0 -> SendMessage(g)
         [] OTHER -> g

RunIfRoom(h) == IF SocketSpace(h.line) > 0 THEN _runQueue(h) ELSE h

\* A message for a client that has too many is dropped at once.
_queueMessage(h, m) ==
    IF h.ws.status # "CONNECTED" THEN h
    ELSE RunIfRoom(
           IF Len(h.ws.messages) >= MaxQueued THEN h
           ELSE [h EXCEPT !.ws.messages = Append(@, m),
                          !.line.queued = Append(@, m.id),
                          !.buffers = [id \in DOMAIN @ |-> @[id] + Uses(id, <<m>>)]])

_queueControl(h, op) ==
    RunIfRoom([h EXCEPT !.ws.controls = Append(@, [op |-> op, finished |-> FALSE])])

\* The connection is closed and the client deleted, with its queues.
Gone(h) ==
    [h EXCEPT !.ws = [NewClient EXCEPT !.st = "gone"],
              !.line = NewLine,
              !.buffers = Without(@, h.ws.messages)]

-----------------------------------------------------------------------------
(* The callbacks of a connection                                            *)

After(c, h) ==
    /\ ws' = [ws EXCEPT ![c] = h.ws]
    /\ line' = [line EXCEPT ![c] = h.line]
    /\ buffers' = h.buffers

\* Nothing runs the queues of a client in Calm that has a control frame under
\* way, but the acknowledgement of that frame.
Quiet(c) == ws[c].controls # <<>> /\ Head(ws[c].controls).finished
CalmAt(c) == c \in Calm => ~Quiet(c)

AckReady(c) == task = Idle /\ ws[c].st \in {"response", "open"} /\ line[c].reports # <<>>
DataReady(c) == task = Idle /\ ws[c].st = "open" /\ CalmAt(c) /\ coming[c] # <<>>
PeerReady(c) ==
    /\ ws[c].st \in {"response", "open"}
    /\ line[c].flight # <<>> /\ Len(line[c].reports) < SocketReports

\* AsyncWebSocketResponse
Upgrade(c) ==
    /\ task = Idle /\ ws[c].st = "none"
    /\ ws' = [ws EXCEPT ![c].st = "response"]
    /\ line' = [line EXCEPT ![c].flight = <<SocketHead>>]
    /\ UNCHANGED <<buffers, task, calls, coming, handed>>

OnAckKeepingControl(h, report) ==    \* mutant
    IF h.ws.controls = <<>> /\ h.ws.messages # <<>>
    THEN _runQueue([h EXCEPT !.ws.messages[1] = MessageAck(@, report)])
    ELSE _runQueue(h)

\* The control frame that is out, or else the message in front, is acknowledged.
AckQueues(h, report) ==
    LET control == h.ws.controls # <<>> /\ Head(h.ws.controls).finished
        len == IF control THEN report - 2 ELSE report
        h1 == IF control THEN [h EXCEPT !.ws.controls = Tail(@)] ELSE h
        h2 == IF len > 0 /\ h.ws.messages # <<>>
              THEN [h1 EXCEPT !.ws.messages[1] = MessageAck(@, len)] ELSE h1
    IN IF control /\ h.ws.status = "DISCONNECTING" /\ Head(h.ws.controls).op = "CLOSE"
       THEN Gone(h)
       ELSE _runQueue([h2 EXCEPT !.buffers = _cleanBuffers(@)])

_onAck(c) ==
    LET h == On(c)
        taken == [h EXCEPT !.line.reports = Tail(@)]
    IN /\ AckReady(c)
       /\ After(c, IF h.ws.st = "response" THEN [taken EXCEPT !.ws.st = "open"]
                   ELSE AckQueues(taken, Head(h.line.reports)))
       /\ UNCHANGED <<task, calls, coming, handed>>

_onPoll(c) ==
    /\ task = Idle /\ ws[c].st = "open" /\ CalmAt(c) /\ SocketSpace(line[c]) > 0
    /\ ws[c].controls # <<>> \/ ws[c].messages # <<>>
    /\ After(c, _runQueue(On(c)))
    /\ UNCHANGED <<task, calls, coming, handed>>

\* The end of a frame: a closing is answered, or ends the handshake.
FrameEnds(h) ==
    CASE h.ws.op = "CLOSE" /\ h.ws.status = "DISCONNECTING" -> Gone(h)
      [] h.ws.op = "CLOSE" /\ h.ws.status = "CONNECTED" ->
           _queueControl([h EXCEPT !.ws.status = "DISCONNECTING"], "CLOSE")
      [] h.ws.op = "PING" -> _queueControl(h, "PONG")
      [] OTHER -> h

HandData(d, w, n) ==
    IF w.op = "TEXT" THEN Append(d, [len |-> w.len, index |-> w.index, n |-> n]) ELSE d

\* A segment arrives.
_onData(c) ==
    /\ DataReady(c)
    /\ \E n \in {k \in Cuts : k < Len(coming[c])} \cup {Len(coming[c])} :
          /\ task' = [does |-> "data", todo |-> {c}, data |-> SubSeq(coming[c], 1, n)]
          /\ coming' = [coming EXCEPT ![c] = SubSeq(@, n + 1, Len(@))]
    /\ UNCHANGED <<ws, buffers, calls, line, handed>>

FrameRestarted(w, data) ==    \* mutant
    [w EXCEPT !.op = IF w.pstate = 1 THEN @ ELSE data[1].op, !.len = IF w.pstate = 1 THEN @ ELSE data[1].len,
              !.index = 0]

\* A frame begins with its header, unless the last segment has ended inside it.
FrameOf(w, data) ==
    IF w.pstate = 1 THEN w ELSE [w EXCEPT !.op = data[1].op, !.len = data[1].len, !.index = 0]

\* The next frame of the segment, of which the last may go on in the next segment.
\* (A control frame that does is given to the handler in part, with its opcode,
\* which tells it from a message.  Behind a second CLOSE the loop would go on in a
\* client that is deleted.)
ReadFrame(c) ==
    /\ task.does = "data" /\ task.todo = {c}
    /\ LET w == FrameOf(ws[c], task.data)
           rest == IF ws[c].pstate = 1 THEN task.data ELSE Tail(task.data)
           n == IF Len(rest) < w.len - w.index THEN Len(rest) ELSE w.len - w.index
           more == n < w.len - w.index
           h == [On(c) EXCEPT !.ws = [w EXCEPT !.pstate = IF more THEN 1 ELSE 0, !.index = IF more THEN @ + n ELSE @]]
           g == IF more THEN h ELSE FrameEnds(h)
           left == SubSeq(rest, n + 1, Len(rest))
       IN /\ After(c, g) /\ handed' = [handed EXCEPT ![c] = HandData(@, w, n)]
          /\ task' = IF left = <<>> \/ g.ws.st = "gone" THEN Idle ELSE [task EXCEPT !.data = left]
    /\ UNCHANGED <<calls, coming>>

_onDisconnect(c) ==
    /\ task = Idle /\ ws[c].st \in {"response", "open"}
    /\ After(c, Gone(On(c)))
    /\ UNCHANGED <<task, calls, coming, handed>>

\* The peer acknowledges some of the segments it has.
Acknowledged(c) ==
    /\ PeerReady(c)
    /\ \E n \in DOMAIN line[c].flight :
          line' = [line EXCEPT ![c].flight = [i \in 1 .. Len(@) - n |-> @[n + i] - @[n]],
                               ![c].reports = Append(@, line[c].flight[n])]
    /\ UNCHANGED <<ws, buffers, task, calls, coming, handed>>

-----------------------------------------------------------------------------
(* The program                                                              *)

IsConnected(c) == ws[c].st = "open" /\ ws[c].status = "CONNECTED"

MayCall == task = Idle /\ calls < Calls /\ calls' = calls + 1 /\ UNCHANGED <<coming, handed>>
MayCallAll == MayCall /\ \A c \in Sockets : IsConnected(c) => CalmAt(c)

\* text(), binary() and printf() of a client
text(c) ==
    /\ MayCall /\ IsConnected(c) /\ CalmAt(c)
    /\ After(c, _queueMessage(On(c), NewBasicMessage(calls + 1)))
    /\ UNCHANGED task

\* ping() and close(), which leaves the client CONNECTED
PingOrClose(c) ==
    /\ MayCall /\ IsConnected(c) /\ CalmAt(c)
    /\ \E op \in {"PING", "CLOSE"} : After(c, _queueControl(On(c), op))
    /\ UNCHANGED task

Begin(does) ==
    task' = [does |-> does, todo |-> {c \in Sockets : IsConnected(c)}, data |-> <<>>]

\* textAll(), binaryAll() and printfAll(): all clients share a buffer.
textAll ==
    /\ MayCallAll /\ Begin("text") /\ buffers' = makeBuffer(buffers, calls + 1)
    /\ UNCHANGED <<ws, line>>

\* pingAll() and closeAll()
PingOrCloseAll ==
    /\ MayCallAll /\ \E op \in {"PING", "CLOSE"} : Begin(op)
    /\ UNCHANGED <<ws, line, buffers>>

\* One client after the other, in the order of their list.
ForOne(c) ==
    /\ task.does \in {"text", "PING", "CLOSE"} /\ task.todo # {}
    /\ c = CHOOSE first \in task.todo : TRUE
    /\ task' = [task EXCEPT !.todo = @ \ {c}]
    /\ After(c, IF task.does = "text" THEN _queueMessage(On(c), NewMultiMessage(calls))
                ELSE _queueControl(On(c), task.does))
    /\ UNCHANGED <<calls, coming, handed>>

AllDone ==
    /\ task.does \in {"text", "PING", "CLOSE"} /\ task.todo = {} /\ task' = Idle
    /\ buffers' = IF task.does = "text" THEN _cleanBuffers(buffers) ELSE buffers
    /\ UNCHANGED <<ws, calls, line, coming, handed>>

TaskStep == AllDone \/ \E c \in Sockets : ReadFrame(c) \/ ForOne(c)

SocketNext ==
    \/ textAll \/ PingOrCloseAll \/ TaskStep
    \/ \E c \in Sockets :
          \/ Upgrade(c) \/ _onAck(c) \/ _onPoll(c) \/ _onData(c) \/ _onDisconnect(c)
          \/ Acknowledged(c) \/ text(c) \/ PingOrClose(c)

\* A handler goes on.  Strong fairness of the callbacks and of the peer, with the conditions under
\* which they can be taken written out.  No poll is needed.
SocketFairness ==
    /\ WF_socketVars(TaskStep)
    /\ \A c \in Sockets :
          /\ []<>AckReady(c) => []<><<_onAck(c)>>_socketVars
          /\ []<>DataReady(c) => []<><<_onData(c)>>_socketVars
          /\ []<>PeerReady(c) => []<><<Acknowledged(c)>>_socketVars

Spec == SocketInit /\ [][SocketNext]_socketVars /\ SocketFairness

-----------------------------------------------------------------------------
\* A buffer is there as long as a message uses it, and its count is the number
\* of these messages.
BufferIsCounted ==
    LET Is(id, messages, i) == i \in DOMAIN messages /\ messages[i].kind = "multi" /\ messages[i].id = id
        used(id) == {p \in Sockets \X (1 .. MaxQueued) : Is(id, ws[p[1]].messages, p[2])}
    IN \A id \in 1 .. calls :
          /\ used(id) # {} => id \in DOMAIN buffers
          /\ id \in DOMAIN buffers => buffers[id] = Cardinality(used(id))

\* The peer reads the messages queued for it, in their order and each from its
\* first byte to its last, from frames of which the first tells the kind, the
\* others continue it, and the last is final, whatever control frames go between
\* them.
FramesAreTexts ==
    \A c \in Sockets :
       LET data == line[c].frames
           queued == line[c].queued
           Begins(f) == f.op = Opcodes[f.id] /\ f.from = 0
           Continues(f, e) == f.op = "CONTINUATION" /\ f.id = e.id /\ f.from = e.from + e.len
           Follows(f, e) == \E j \in 1 .. Len(queued) - 1 : queued[j] = e.id /\ queued[j + 1] = f.id
       IN \A i \in DOMAIN data :
             /\ IF i = 1 THEN Begins(data[i]) /\ data[i].id = queued[1]
                ELSE IF data[i - 1].final = 1 THEN Begins(data[i]) /\ Follows(data[i], data[i - 1])
                ELSE Continues(data[i], data[i - 1])
             /\ data[i].final = 1 <=> data[i].from + data[i].len = TextLen

\* The handler is given each frame of the peer whole and in order, however it is
\* cut into segments: it goes on where it was left, also behind a header that
\* ended a segment, with which no data was given.
HandedInOrder ==
    \A c \in Sockets :
       LET data == handed[c]
           Whole(d) == d.index + d.n = d.len
       IN  \A i \in DOMAIN data :
              /\ data[i].index + data[i].n <= data[i].len
              /\ IF i = 1 \/ Whole(data[i - 1]) THEN data[i].index = 0
                 ELSE data[i].index = data[i - 1].index + data[i - 1].n /\ data[i].len = data[i - 1].len

\* Texts leave the queue and a closing handshake comes to its end, for a client
\* of which control frames are acknowledged before anything else runs the queue,
\* whatever the others meet.
\* (Otherwise the control frame goes out again, the acknowledgement of its
\* second copy is taken for one of the message in front, and that client hears
\* nothing any more.)
QueueIsServed ==
    \A c \in Calm :
       LET waits == ws[c].messages # <<>> \/ ws[c].status = "DISCONNECTING"
       IN waits ~> ~waits
=============================================================================
