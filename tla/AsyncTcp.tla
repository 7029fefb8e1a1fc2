------------------------------ MODULE AsyncTcp ------------------------------
(***************************************************************************)
(* AsyncTCP: two tasks and a queue between them.  The tcpip thread of LwIP *)
(* calls back on every event of a connection and puts a packet into        *)
(* _async_queue; the async_tcp task takes the packets one by one and calls *)
(* the methods of the AsyncClient they name by address, which call the web *)
(* server.  What the async_tcp task asks of LwIP (tcpip_api_call) is done  *)
(* by the tcpip thread when it is not inside a callback.  Nothing is       *)
(* locked: the order of the queue, and the CLEAR packet that takes the     *)
(* packets of a closed client out of it, are all that keeps a packet from  *)
(* reaching a client that no longer exists.                                *)
(***************************************************************************)
EXTENDS Integers, Sequences, SequencesExt

CONSTANTS
    Clients,    \* addresses of AsyncClient objects
    Pcbs,       \* addresses of tcp_pcb structures
    None,       \* the null pointer
    QueueSize,  \* capacity of _async_queue (32 in the code)
    MaxConns,   \* connections accepted in a behaviour
    MaxData     \* pieces of data received in a behaviour

ASSUME TcpAssumption ==
    /\ None \notin Clients \cup Pcbs
    /\ QueueSize \in Nat \ {0} /\ MaxConns \in Nat /\ MaxData \in Nat

VARIABLES
    queue,      \* _async_queue
    lwip,       \* the packet the tcpip thread is about to send, or None
    task,       \* where async_tcp is, and the client whose method it runs
    pcbs,       \* LwIP's side of each connection
    clients,    \* the AsyncClient objects
    born,       \* number of connections accepted so far
    pieces,     \* number of pieces of data received so far
    given,      \* per connection, the data handed to its request
    mishaps     \* history: what has gone wrong between the tasks

vars == <<queue, lwip, task, pcbs, clients, born, pieces, given, mishaps>>

\* The orders of steps that the program does not exclude and cannot stand:
\*   "overtaking" a packet is sent while CLEAR turns the queue over, to a place
\*                in front of packets that are still to be looked at
\*   "reuse"      a freed address is handed out again while it is still named
\*   "crossing"   the timeout of reception closes a client whose FIN the tcpip
\*                thread has begun to handle
Mishaps == {"overtaking", "reuse", "crossing"}

Conns == 1 .. MaxConns

\* conn and n, the connection and the number of a piece of data or of an
\* acknowledgement, stand for the content and make packets distinct, as their
\* addresses do; the program never compares them.
Packet(event, arg, p, conn, n) ==
    [event |-> event, arg |-> arg, pcb |-> p, conn |-> conn, n |-> n]

Events == {"recv", "fin", "sent", "poll", "error", "clear", "accept"}
Message == [event : Events, arg : Clients, pcb : Pcbs \cup {None}, conn : Nat, n : Nat]

\* The null pointer points to no packet.
ASSUME NoneAssumption ==
    None \notin Message \cup [packet : Message, at : {"fin", "send"}]

NoClient ==
    [st |-> "free", pcb |-> None, busy |-> FALSE, rx |-> FALSE, conn |-> 0]

FreePcb == [st |-> "free", arg |-> None, conn |-> 0, sent |-> 0, acks |-> 0, unacked |-> FALSE]

Idle == [at |-> "idle", self |-> None, first |-> None, conn |-> 0]

Init ==
    /\ queue = <<>> /\ lwip = None /\ task = Idle
    /\ pcbs = [p \in Pcbs |-> FreePcb]
    /\ clients = [c \in Clients |-> NoClient]
    /\ born = 0 /\ pieces = 0
    /\ given = [k \in Conns |-> <<>>]
    /\ mishaps = {}

Packets ==
    [event : Events, arg : Clients, pcb : Pcbs \cup {None}, conn : Conns, n : 0 .. MaxData]

TypeOK ==
    /\ queue \in Seq(Packets) /\ Len(queue) <= QueueSize
    /\ lwip \in {None} \cup [packet : Packets, at : {"fin", "send"}]
    /\ task \in [at : {"idle", "clear", "api", "finclear", "rotate"},
                 self : Clients \cup {None}, first : {None} \cup Packets,
                 conn : 0 .. MaxConns]
    /\ pcbs \in [Pcbs -> [st : {"free", "open", "closed"},
                          arg : Clients \cup {None},
                          conn : 0 .. MaxConns, sent : 0 .. MaxData,
                          acks : 0 .. MaxData, unacked : BOOLEAN]]
    /\ clients \in [Clients -> [st : {"free", "new", "used", "deleted"},
                                pcb : Pcbs \cup {None}, busy : BOOLEAN,
                                rx : BOOLEAN, conn : 0 .. MaxConns]]
    /\ born \in 0 .. MaxConns /\ pieces \in 0 .. MaxData
    /\ given \in [Conns -> Seq(Conns \X (1 .. MaxData))]
    /\ mishaps \subseteq Mishaps

Alive(c) == clients[c].st \in {"new", "used"}

\* Addresses the allocator may return; those never used are all alike.
Available(mem) ==
    LET fresh == {a \in DOMAIN mem : mem[a].st = "free"} IN
    {a \in DOMAIN mem : mem[a].st \in {"closed", "deleted"}}
        \cup (IF fresh = {} THEN {} ELSE {CHOOSE a \in fresh : TRUE})

\* A packet or a method still names the client at c, or a client the pcb at p.
StillNamed(p, c) ==
    \/ \E i \in DOMAIN queue : queue[i].arg = c
    \/ task.self = c
    \/ \E d \in Clients : Alive(d) /\ clients[d].pcb = p

Noting(mishap, happens) == mishaps' = mishaps \cup (IF happens THEN {mishap} ELSE {})

-----------------------------------------------------------------------------
(* The tcpip thread: callbacks                                              *)

\* CLEAR turns the queue over: each packet is taken from the front and freed or
\* put back at the end, until the first one put back is in front again.
MoreToTurn == queue # <<>> /\ Head(queue) # task.first

SendInFront ==    \* mutant
    /\ lwip # None /\ lwip.at = "send"
    /\ Len(queue) < QueueSize
    /\ queue' = IF lwip.packet.event = "recv" THEN <<lwip.packet>> \o queue
                                              ELSE Append(queue, lwip.packet)
    /\ lwip' = None
    /\ UNCHANGED <<task, pcbs, clients, born, pieces, given, mishaps>>

\* A callback ends by sending its packet; the queue may have to be waited
\* for (portMAX_DELAY).  ACCEPT goes to the front.
Send ==
    /\ lwip # None /\ lwip.at = "send"
    /\ Len(queue) < QueueSize
    /\ queue' = IF lwip.packet.event = "accept" THEN <<lwip.packet>> \o queue
                                                ELSE Append(queue, lwip.packet)
    /\ lwip' = None
    /\ Noting("overtaking", /\ lwip.packet.event # "accept"
                            /\ task.at = "rotate" /\ task.first # None /\ MoreToTurn)
    /\ UNCHANGED <<task, pcbs, clients, born, pieces, given>>

Callback(p) == lwip = None /\ pcbs[p].st = "open" /\ pcbs[p].arg # None

Raise(event, p, n) ==
    lwip' = [packet |-> Packet(event, pcbs[p].arg, p, pcbs[p].conn, n), at |-> "send"]

\* A connection is accepted: the client is made here, its request by
\* async_tcp when it gets the packet.
Accept(p, c) ==
    /\ lwip = None /\ born < MaxConns
    /\ p \in Available(pcbs) /\ c \in Available(clients)
    /\ born' = born + 1
    /\ pcbs' = [pcbs EXCEPT ![p] = [FreePcb EXCEPT !.st = "open", !.arg = c, !.conn = born + 1]]
    /\ clients' = [clients EXCEPT ![c] =
                     [NoClient EXCEPT !.st = "new", !.pcb = p, !.conn = born + 1]]
    /\ lwip' = [packet |-> Packet("accept", c, p, born + 1, 0), at |-> "send"]
    /\ UNCHANGED <<queue, task, pieces, given>>
    /\ Noting("reuse", StillNamed(p, c))

\* _tcp_recv() with data.
Data(p) ==
    /\ Callback(p) /\ pieces < MaxData
    /\ pieces' = pieces + 1
    /\ pcbs' = [pcbs EXCEPT ![p].sent = @ + 1]
    /\ Raise("recv", p, pcbs[p].sent + 1)
    /\ UNCHANGED <<queue, task, clients, born, given, mishaps>>

\* _tcp_sent(): the peer has acknowledged.
Acked(p) ==
    /\ Callback(p) /\ pcbs[p].unacked
    /\ pcbs' = [pcbs EXCEPT ![p].unacked = FALSE, ![p].acks = @ + 1]
    /\ Raise("sent", p, pcbs[p].acks + 1)
    /\ UNCHANGED <<queue, task, clients, born, pieces, given, mishaps>>

\* _tcp_poll(), every half second; bounded to one poll of a connection under way.
Poll(p) ==
    /\ Callback(p)
    /\ \A i \in DOMAIN queue : queue[i].event = "poll" => queue[i].pcb # p
    /\ Raise("poll", p, 0)
    /\ UNCHANGED <<queue, task, pcbs, clients, born, pieces, given, mishaps>>

\* _tcp_recv() without data: the peer closes ...
Fin(p) ==
    /\ Callback(p)
    /\ lwip' = [packet |-> Packet("fin", pcbs[p].arg, p, pcbs[p].conn, 0), at |-> "fin"]
    /\ UNCHANGED <<queue, task, pcbs, clients, born, pieces, given, mishaps>>

LwipFinKeepsCallbacks ==    \* mutant
    /\ lwip # None /\ lwip.at = "fin"
    /\ clients' = [clients EXCEPT ![lwip.packet.arg].pcb = None]
    /\ lwip' = [lwip EXCEPT !.at = "send"]
    /\ UNCHANGED <<queue, task, pcbs, born, pieces, given, mishaps>>

\* ... and _lwip_fin() takes the pcb from the client, in the tcpip thread.
LwipFin ==
    /\ lwip # None /\ lwip.at = "fin"
    /\ LET c == lwip.packet.arg
           p == lwip.packet.pcb
       IN IF clients[c].pcb = p
          THEN /\ clients' = [clients EXCEPT ![c].pcb = None]
               /\ pcbs' = [pcbs EXCEPT ![p].st = "closed", ![p].arg = None]
          ELSE UNCHANGED <<clients, pcbs>>
    /\ lwip' = [lwip EXCEPT !.at = "send"]
    /\ UNCHANGED <<queue, task, born, pieces, given, mishaps>>

\* _tcp_error(): LwIP has freed the pcb; the client still points to it.
Reset(p) ==
    /\ Callback(p)
    /\ pcbs' = [pcbs EXCEPT ![p].st = "closed", ![p].arg = None]
    /\ Raise("error", p, 0)
    /\ UNCHANGED <<queue, task, clients, born, pieces, given, mishaps>>

-----------------------------------------------------------------------------
(* The async_tcp task: packets                                              *)

\* The task takes the first packet.  A packet for a client that is gone is
\* undefined behaviour: it stops this model (see PacketsFindTheirClient).
Take(event) ==
    /\ task.at = "idle" /\ queue # <<>>
    /\ Head(queue).event = event
    /\ event = "clear" \/ Alive(Head(queue).arg)

Self == Head(queue).arg

\* onClient of the server: setRxTimeout(3), and a request with its callbacks.
HandleAccept ==
    /\ Take("accept")
    /\ clients' = [clients EXCEPT ![Self].st = "used", ![Self].rx = TRUE]
    /\ queue' = Tail(queue)
    /\ UNCHANGED <<lwip, task, pcbs, born, pieces, given, mishaps>>

\* An api call on the pcb of c is made by the tcpip thread, between callbacks,
\* and only if c still has the pcb.
ApiFree(c) == clients[c].pcb # None => lwip = None

\* add() and send() fail without a pcb, and on one that is not established.
CanSend(c) == clients[c].pcb # None /\ pcbs[clients[c].pcb].st = "open"

\* _recv(): the request gets the data and may answer, which disarms the
\* timeout of reception.  Data that has overtaken ACCEPT finds no request.
HandleRecv(answer) ==
    /\ Take("recv")
    /\ LET c == Self
           p == clients[c].pcb
           k == clients[c].conn
           sends == answer /\ CanSend(c)
       IN
       /\ ApiFree(c)
       /\ answer => clients[c].st = "used"
       /\ given' = IF clients[c].st # "used" THEN given
                   ELSE [given EXCEPT ![k] = Append(@, <<Head(queue).conn, Head(queue).n>>)]
       /\ clients' = [clients EXCEPT ![c].busy = @ \/ sends, ![c].rx = @ /\ ~answer]
       /\ pcbs' = IF sends THEN [pcbs EXCEPT ![p].unacked = TRUE] ELSE pcbs
    /\ queue' = Tail(queue)
    /\ UNCHANGED <<lwip, task, born, pieces, mishaps>>

\* _close(), first part: with a pcb, take the callbacks off it.  The memory
\* of a pcb freed by LwIP is written to as well.
BeginClose(c, cls) ==
    IF cls[c].pcb = None
    THEN UNCHANGED <<pcbs, task>>
    ELSE /\ pcbs' = [pcbs EXCEPT ![cls[c].pcb].arg = None]
         /\ task' = [at |-> "clear", self |-> c, first |-> None, conn |-> cls[c].conn]

\* _sent(): the request goes on with its response, and may be done with it:
\* close() begins with a call of LwIP.
HandleSent(close) ==
    /\ Take("sent")
    /\ close => ApiFree(Self) /\ clients[Self].st = "used"
    /\ LET cls == [clients EXCEPT ![Self].busy = FALSE] IN
       /\ clients' = cls
       /\ IF close THEN BeginClose(Self, cls) ELSE UNCHANGED <<pcbs, task>>
    /\ queue' = Tail(queue)
    /\ UNCHANGED <<lwip, born, pieces, given, mishaps>>

PollWithoutRxTimeout(ackLate, rxLate) ==    \* mutant
    /\ Take("poll")
    /\ queue' = Tail(queue)
    /\ IF clients[Self].pcb # None /\ clients[Self].busy /\ ackLate
       THEN BeginClose(Self, clients) ELSE UNCHANGED <<pcbs, task>>
    /\ UNCHANGED <<lwip, clients, born, pieces, given, mishaps>>

\* _poll(): an acknowledgement not seen for ASYNC_MAX_ACK_TIME (ackLate) or,
\* while no answer has begun, data not seen for the three seconds of
\* setRxTimeout() (rxLate) close the connection.  Either time may be over at
\* any poll.  The request closes with close(), the second timeout with _close(),
\* which calls nothing of LwIP before the callbacks are off.
HandlePoll(ackLate, rxLate) ==
    /\ Take("poll")
    /\ LET c == Self
           own == clients[c].pcb # None /\ clients[c].pcb = Head(queue).pcb
           ackOut == own /\ clients[c].busy /\ ackLate
           rxOut == own /\ ~ackOut /\ clients[c].rx /\ rxLate
           cls == IF ackOut THEN [clients EXCEPT ![c].busy = FALSE] ELSE clients
       IN
       /\ ackOut => ApiFree(c)
       /\ clients' = cls
       /\ IF ackOut \/ rxOut THEN BeginClose(c, cls) ELSE UNCHANGED <<pcbs, task>>
       /\ Noting("crossing", rxOut /\ lwip # None /\ lwip.at = "fin" /\ lwip.packet.arg = c)
    /\ queue' = Tail(queue)
    /\ UNCHANGED <<lwip, born, pieces, given>>

\* The disconnect callback of the request deletes the request and the client; a
\* client whose ACCEPT was overtaken has none.
Discard(cls, c) ==
    [cls EXCEPT ![c] = IF cls[c].st = "new" THEN [cls[c] EXCEPT !.pcb = None]
                       ELSE [NoClient EXCEPT !.st = "deleted", !.conn = cls[c].conn]]

\* _error(): the callbacks are taken off the pcb, which LwIP has freed.
HandleError ==
    /\ Take("error")
    /\ LET p == clients[Self].pcb IN
       pcbs' = IF p = None THEN pcbs ELSE [pcbs EXCEPT ![p].arg = None]
    /\ clients' = Discard(clients, Self)
    /\ queue' = Tail(queue)
    /\ UNCHANGED <<lwip, task, born, pieces, given, mishaps>>

\* _fin(), which clears events before the client is deleted.
HandleFin ==
    /\ Take("fin")
    /\ task' = [at |-> "finclear", self |-> Self, first |-> None, conn |-> clients[Self].conn]
    /\ queue' = Tail(queue)
    /\ UNCHANGED <<lwip, pcbs, clients, born, pieces, given, mishaps>>

-----------------------------------------------------------------------------
(* Closing and clearing                                                     *)

ClearPacket(c) == Packet("clear", c, None, task.conn, 0)

CloseClearBehind ==    \* mutant
    /\ task.at = "clear" /\ Len(queue) < QueueSize
    /\ queue' = Append(queue, ClearPacket(task.self))
    /\ task' = [task EXCEPT !.at = "api"]
    /\ UNCHANGED <<lwip, pcbs, clients, born, pieces, given, mishaps>>

\* _tcp_clear_events() goes to the front of the queue ...
CloseClear ==
    /\ task.at = "clear" /\ Len(queue) < QueueSize
    /\ queue' = <<ClearPacket(task.self)>> \o queue
    /\ task' = [task EXCEPT !.at = "api"]
    /\ UNCHANGED <<lwip, pcbs, clients, born, pieces, given, mishaps>>

\* ... then tcp_close(), or tcp_abort() if that fails, and the client goes.
CloseApi ==
    /\ task.at = "api" /\ ApiFree(task.self)
    /\ LET p == clients[task.self].pcb IN
       pcbs' = IF p = None THEN pcbs
               ELSE [pcbs EXCEPT ![p].st = "closed", ![p].arg = None]
    /\ clients' = Discard(clients, task.self)
    /\ task' = Idle
    /\ UNCHANGED <<queue, lwip, born, pieces, given, mishaps>>

FinClear ==
    /\ task.at = "finclear" /\ Len(queue) < QueueSize
    /\ queue' = <<ClearPacket(task.self)>> \o queue
    /\ clients' = Discard(clients, task.self)
    /\ task' = Idle
    /\ UNCHANGED <<lwip, pcbs, born, pieces, given, mishaps>>

\* CLEAR: _remove_events_with_arg().
HandleClear ==
    /\ Take("clear")
    /\ task' = [at |-> "rotate", self |-> Self, first |-> None, conn |-> 0]
    /\ queue' = Tail(queue)
    /\ UNCHANGED <<lwip, pcbs, clients, born, pieces, given, mishaps>>

\* The argument of ACCEPT is the server, so that CLEAR leaves it.
RotateEnd ==
    /\ task.at = "rotate" /\ ~MoreToTurn
    /\ task' = Idle
    /\ UNCHANGED <<queue, lwip, pcbs, clients, born, pieces, given, mishaps>>

RotateStep ==
    /\ task.at = "rotate" /\ MoreToTurn
    /\ IF Head(queue).arg = task.self /\ Head(queue).event # "accept"
       THEN queue' = Tail(queue) /\ UNCHANGED task
       ELSE /\ queue' = Append(Tail(queue), Head(queue))
            /\ task' = [task EXCEPT !.first = IF @ = None THEN Head(queue) ELSE @]
    /\ UNCHANGED <<lwip, pcbs, clients, born, pieces, given, mishaps>>

-----------------------------------------------------------------------------
\* A behaviour is followed up to the first reuse: from there on, two objects
\* share one memory.
Lwip ==
    /\ "reuse" \notin mishaps
    /\ \/ Send \/ LwipFin
       \/ \E p \in Pcbs :
             \/ \E c \in Clients : Accept(p, c)
             \/ Data(p) \/ Acked(p) \/ Poll(p) \/ Fin(p) \/ Reset(p)

AsyncTask ==
    /\ "reuse" \notin mishaps
    /\ \/ HandleAccept
       \/ \E answer \in BOOLEAN : HandleRecv(answer)
       \/ \E close \in BOOLEAN : HandleSent(close)
       \/ \E ackLate, rxLate \in BOOLEAN : HandlePoll(ackLate, rxLate)
       \/ HandleError \/ HandleFin \/ HandleClear
       \/ CloseClear \/ CloseApi \/ FinClear \/ RotateEnd \/ RotateStep

\* Every connection has come and gone, or what comes now is not determined.
Quiet ==
    /\ \/ mishaps # {}
       \/ /\ born = MaxConns /\ queue = <<>> /\ lwip = None /\ task = Idle
          /\ \A c \in Clients : ~Alive(c)
    /\ UNCHANGED vars

Next == Lwip \/ AsyncTask \/ Quiet

Spec == Init /\ [][Next]_vars

\* A peer that was answered closes: the answer says "Connection: close".
AnsweredFin(p) ==
    /\ Lwip /\ Fin(p)
    /\ ~clients[pcbs[p].arg].rx /\ clients[pcbs[p].arg].st = "used"

\* Both tasks are scheduled, every connection is polled, a connection on which
\* no request arrives is in the end found to be timed out, and a peer that has
\* its answer closes.
Fairness ==
    /\ WF_vars(AsyncTask) /\ WF_vars(Lwip /\ (Send \/ LwipFin))
    /\ \A p \in Pcbs :
          /\ WF_vars(Lwip /\ Poll(p))
          /\ SF_vars(/\ queue # <<>> /\ Head(queue).pcb = p
                     /\ AsyncTask /\ HandlePoll(FALSE, TRUE))
          /\ SF_vars(AnsweredFin(p))

FairSpec == Spec /\ Fairness

-----------------------------------------------------------------------------
\* A packet that is about to be handled names a client that exists, and the
\* one of the connection it is about: CLEAR has taken out what was queued for
\* the client before it was deleted.  So it is until one of the three mishaps.
PacketsFindTheirClient ==
    mishaps = {} =>
        (task.at = "idle" /\ queue # <<>> /\ Head(queue).event # "clear" =>
            /\ Alive(Head(queue).arg)
            /\ clients[Head(queue).arg].conn = Head(queue).conn)

\* A request is given what its connection received, in the order in which it
\* was received and without a gap.  So it is until one of the three mishaps:
\* turning the queue over is meant to keep the order, and does unless a packet
\* is sent into it.
DataInOrder ==
    mishaps = {} => \A k \in Conns : \A i \in DOMAIN given[k] : given[k][i] = <<k, i>>

\* A pcb with callbacks belongs to a client that exists and points back, as long
\* as no address is handed out again that is still named; the other mishaps do
\* not matter.
CallbacksHaveClient ==
    "reuse" \notin mishaps =>
        \A p \in Pcbs : pcbs[p].st = "open" /\ pcbs[p].arg # None =>
            Alive(pcbs[p].arg) /\ clients[pcbs[p].arg].pcb = p

\* The client of every connection is deleted, whether the peer sends a request,
\* closes, resets or falls silent before its answer has begun, unless a mishap
\* comes before.
EveryClientIsDeleted ==
    \A k \in Conns :
        (\E c \in Clients : clients[c].conn = k /\ Alive(c))
            ~> (mishaps # {} \/ \A c \in Clients : clients[c].conn = k => ~Alive(c))
=============================================================================
