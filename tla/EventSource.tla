---------------------------- MODULE EventSource -----------------------------
(***************************************************************************)
(* AsyncEventSource: the server sends events to every browser that listens *)
(* at /events.  Each has a queue of its own; an event goes out whole, when *)
(* the send buffer has room for it, and leaves the queue when as many      *)
(* bytes have been acknowledged as it has.                                 *)
(* The handlers run in the task of AsyncTCP; TCP itself, which makes room  *)
(* when an acknowledgement comes in, in another one, so also while a queue *)
(* is being run.                                                           *)
(***************************************************************************)
EXTENDS Integers, Sequences, FiniteSets, SequencesExt

CONSTANTS
    Listeners,      \* the browsers
    Events,         \* bound: how many events the server sends
    EventRoom,      \* room of the send buffer (TCP_SND_BUF)
    EventSize,      \* size of an event
    SmallSize,      \* size of every other one, if sizes differ
    EventHead,      \* size of the head of the response
    EventAcks,      \* sizes of acknowledgements of each, besides "all that is out"
    EventReports    \* bound: acknowledgements of a client that wait to be handled

ASSUME EventAssumption ==
    /\ Events \in Nat /\ EventHead \in Nat \ {0}
    /\ EventSize \in SmallSize .. EventRoom /\ SmallSize \in Nat \ {0} /\ EventRoom \in Nat
    /\ IsFiniteSet(Listeners)
    /\ EventHead <= EventSize /\ EventAcks \in [Listeners -> SUBSET (Nat \ {0})] /\ EventReports \in Nat \ {0}

VARIABLES
    even,       \* all events have the same size, and TCP makes no room while
                \* a queue is being run
    listener,   \* the AsyncEventSourceClient of each browser, with its queue
    out,        \* the events written to its connection
    flight,     \* bytes of the connection not yet acknowledged
    reports,    \* acknowledgements not yet handled
    meant,      \* the events the server has sent to it
    event,      \* number of events sent
    task        \* what the task of AsyncTCP is doing

eventVars == <<even, listener, out, flight, reports, meant, event, task>>

Hello == 0      \* the event of onConnect()
Size(e) == IF even \/ e % 2 = 0 THEN EventSize ELSE SmallSize

NoListener == [st |-> "none", queue |-> <<>>]
Idle == [todo |-> <<>>, at |-> 0, event |-> Hello, left |-> 0]

EventSourceInit ==
    /\ even \in BOOLEAN
    /\ listener = [c \in Listeners |-> NoListener]
    /\ out = [c \in Listeners |-> <<>>]
    /\ flight = [c \in Listeners |-> 0]
    /\ reports = [c \in Listeners |-> <<>>]
    /\ meant = [c \in Listeners |-> <<>>]
    /\ event = 0 /\ task = Idle

EventSpace(c) == EventRoom - flight[c]

-----------------------------------------------------------------------------
(* The queue of a client                                                    *)

Message(e) == [event |-> e, sent |-> FALSE, acked |-> 0]

\* write() and send(): the event is queued, and the queue is run.
QueueEvent(c, e) ==
    /\ listener' = [listener EXCEPT ![c].queue = Append(@, Message(e))]
    /\ meant' = [meant EXCEPT ![c] = Append(@, e)]

Busy == task # Idle
Running == task.at > 0
Run(clients, e) == [todo |-> clients, at |-> 1, event |-> e, left |-> 0]

\* Bytes of an acknowledgement are to be credited, then the queue is run.
Crediting == task.left > 0
Credit(c, len) == [todo |-> <<c>>, at |-> 0, event |-> Hello, left |-> len]

ExtraLost(m, len) == 0    \* mutant
\* What is left of "len" bytes when the message has all of its own.
Extra(m, len) == m.acked + len - Size(m.event)

\* One round of the loop of _onAck(): the message in front gets the bytes, and
\* when it has all of its own it leaves the queue.
CreditOne ==
    LET c == Head(task.todo)
        queue == listener[c].queue
        m == Head(queue)
        finished == m.acked + task.left >= Size(m.event)
        rest == IF finished THEN Tail(queue)
                ELSE <<[m EXCEPT !.acked = @ + task.left]>> \o Tail(queue)
        left == IF finished THEN Extra(m, task.left) ELSE 0
    IN /\ Crediting /\ queue # <<>>
       /\ listener' = [listener EXCEPT ![c].queue = rest]
       /\ task' = IF left = 0 THEN Run(<<c>>, Hello) ELSE Credit(c, left)
       /\ UNCHANGED <<even, out, flight, reports, meant, event>>

\* More bytes than the messages in the queue have.
CreditDone ==
    /\ Crediting /\ listener[Head(task.todo)].queue = <<>>
    /\ task' = Run(task.todo, Hello)
    /\ UNCHANGED <<even, listener, out, flight, reports, meant, event>>

SendOneAgain ==    \* mutant
    LET c == Head(task.todo)
        m == listener[c].queue[task.at]
    IN /\ Running /\ task.at <= Len(listener[c].queue)
       /\ IF m.acked = 0 /\ Size(m.event) <= EventSpace(c)
          THEN /\ out' = [out EXCEPT ![c] = Append(@, m.event)]
               /\ flight' = [flight EXCEPT ![c] = @ + Size(m.event)]
               /\ listener' = [listener EXCEPT ![c].queue[task.at].sent = TRUE]
          ELSE UNCHANGED <<out, flight, listener>>
       /\ task' = [task EXCEPT !.at = @ + 1]
       /\ UNCHANGED <<even, reports, meant, event>>

\* One round of the loop of _runQueue(): a message that has not been sent is,
\* if there is room for it.
SendOne ==
    LET c == Head(task.todo)
        m == listener[c].queue[task.at]
    IN /\ Running /\ task.at <= Len(listener[c].queue)
       /\ IF ~m.sent /\ Size(m.event) <= EventSpace(c)
          THEN /\ out' = [out EXCEPT ![c] = Append(@, m.event)]
               /\ flight' = [flight EXCEPT ![c] = @ + Size(m.event)]
               /\ listener' = [listener EXCEPT ![c].queue[task.at].sent = TRUE]
          ELSE UNCHANGED <<out, flight, listener>>
       /\ task' = [task EXCEPT !.at = @ + 1]
       /\ UNCHANGED <<even, reports, meant, event>>

\* The queue has been run; if the event is for more clients, it is the turn of
\* the next.
RunDone ==
    LET c == Head(task.todo)
        rest == Tail(task.todo)
    IN /\ Running /\ task.at > Len(listener[c].queue)
       /\ IF rest = <<>> THEN task' = Idle /\ UNCHANGED <<listener, meant>>
          ELSE QueueEvent(Head(rest), task.event) /\ task' = Run(rest, task.event)
       /\ UNCHANGED <<even, out, flight, reports, event>>

-----------------------------------------------------------------------------
(* Callbacks of a connection                                                *)

Reported(c) == ~Busy /\ listener[c].st \in {"response", "client"} /\ reports[c] # <<>>
PeerCanAck(c) ==
    /\ even => ~Running
    /\ listener[c].st # "gone" /\ Len(reports[c]) < EventReports /\ flight[c] > 0

\* A browser asks for /events: the head of the response goes out.
Listen(c) ==
    /\ ~Busy /\ listener[c].st = "none"
    /\ listener' = [listener EXCEPT ![c].st = "response"]
    /\ flight' = [flight EXCEPT ![c] = EventHead]
    /\ UNCHANGED <<even, out, reports, meant, event, task>>

\* The first acknowledgement, of the head or a part of it, makes the client.
ResponseAck(c) ==
    /\ Reported(c) /\ listener[c].st = "response"
    /\ reports' = [reports EXCEPT ![c] = Tail(@)]
    /\ listener' = [listener EXCEPT ![c] = [st |-> "client", queue |-> <<Message(Hello)>>]]
    /\ meant' = [meant EXCEPT ![c] = <<Hello>>]
    /\ task' = Run(<<c>>, Hello)
    /\ UNCHANGED <<even, out, flight, event>>

ListenerAck(c) ==
    /\ Reported(c) /\ listener[c].st = "client"
    /\ reports' = [reports EXCEPT ![c] = Tail(@)]
    /\ task' = Credit(c, Head(reports[c]))
    /\ UNCHANGED <<even, listener, out, flight, meant, event>>

ListenerPoll(c) ==
    /\ ~Busy /\ listener[c].queue # <<>>
    /\ task' = Run(<<c>>, Hello)
    /\ UNCHANGED <<even, listener, out, flight, reports, meant, event>>

ListenerGone(c) ==
    /\ ~Busy /\ listener[c].st # "none"
    /\ listener' = [listener EXCEPT ![c] = [st |-> "gone", queue |-> <<>>]]
    /\ UNCHANGED <<even, out, flight, reports, meant, event, task>>

Connected == {c \in Listeners : listener[c].st = "client"}

\* AsyncEventSource::send(), by another handler
send ==
    /\ ~Busy /\ event < Events /\ event' = event + 1
    /\ IF Connected = {} THEN UNCHANGED <<listener, meant, task>>
       ELSE LET clients == SetToSeq(Connected) IN
            /\ QueueEvent(Head(clients), event + 1)
            /\ task' = Run(clients, event + 1)
    /\ UNCHANGED <<even, out, flight, reports>>

\* The peer acknowledges, TCP makes room and reports it.
PeerAck(c) ==
    /\ PeerCanAck(c)
    /\ \E n \in EventAcks[c] \cup {flight[c]} :
          /\ 0 < n /\ n <= flight[c]
          /\ flight' = [flight EXCEPT ![c] = @ - n]
          /\ reports' = [reports EXCEPT ![c] = Append(@, n)]
    /\ UNCHANGED <<even, listener, out, meant, event, task>>

EventSourceNext ==
    \/ CreditOne \/ CreditDone \/ SendOne \/ RunDone \/ send
    \/ \E c \in Listeners :
          \/ Listen(c) \/ ResponseAck(c) \/ ListenerAck(c) \/ ListenerPoll(c)
          \/ ListenerGone(c) \/ PeerAck(c)

\* The tasks run, and a peer that is there acknowledges; no poll is needed.
EventSourceFairness ==
    /\ <>[]Busy => []<><<CreditOne \/ CreditDone \/ SendOne \/ RunDone>>_eventVars
    /\ \A c \in Listeners :
          /\ []<>Reported(c) => []<><<ResponseAck(c) \/ ListenerAck(c)>>_eventVars
          /\ []<>PeerCanAck(c) => []<><<PeerAck(c)>>_eventVars

Spec == EventSourceInit /\ [][EventSourceNext]_eventVars /\ EventSourceFairness

-----------------------------------------------------------------------------
\* The events of a queue behind its first k messages.
Behind(queue, k) == [i \in 1 .. Len(queue) - k |-> queue[k + i].event]

\* No listener gets an event twice, or one that was not meant for it; and with
\* events of one size, and no room made in mid-queue, a listener gets every
\* event in the order of sending: the messages sent are at the front of its
\* queue, and what is not out yet is behind them.
\* (Otherwise a later event goes out before an earlier one, and the bytes
\* acknowledged for it take the earlier one, unsent, out of the queue.)
EventsInOrder ==
    \A c \in Listeners :
       LET queue == listener[c].queue IN
       /\ IsInjective(out[c])
       /\ ToSet(out[c]) \subseteq ToSet(meant[c])
       /\ even /\ listener[c].st = "client" =>
             \E k \in 0 .. Len(queue) :
                /\ \A i \in DOMAIN queue : queue[i].sent <=> i <= k
                /\ meant[c] = out[c] \o Behind(queue, k)

\* As long as the listener stays, nothing stays in its queue: no loss of an
\* acknowledgement's bytes keeps a message from being finished.
QueueDrains ==
    \A c \in Listeners :
       listener[c].queue # <<>> ~> listener[c].queue = <<>>
=============================================================================
