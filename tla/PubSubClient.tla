---------------------------- MODULE PubSubClient ----------------------------
(***************************************************************************)
(* The MQTT client the device talks to its broker with: calls that send a  *)
(* message and block until its reply comes, retransmission, packet         *)
(* identifiers, the keep-alive, and messages of the broker that are        *)
(* processed in the middle of another call's wait, which nests waits.      *)
(*                                                                         *)
(* The client is single-threaded: one call at a time, with a stack of      *)
(* waits.  The network and the broker are the environment: a TCP           *)
(* connection delivers in order or breaks, a broker answers every message  *)
(* as the protocol asks or falls silent.                                   *)
(***************************************************************************)
EXTENDS Naturals, Sequences

CONSTANTS
    Ops,         \* the calls the application makes
    MaxCalls,    \* bound on the calls other than loop()
    MaxRetries,  \* _max_retries
    IdMax,       \* the largest packet identifier, 65535 in the code
    KeepAlive,   \* the keep-alive period, in ticks of the clock
    Inbound,     \* the QoS levels the broker publishes at
    MaxInbound,  \* bound on the messages the broker publishes
    Flushing,    \* the callback discards the input that has arrived, as the
                 \* one of MqttConnector does
    MayDie       \* the broker may fall silent

ASSUME BoundsAssumption ==
    /\ MaxCalls \in Nat /\ MaxInbound \in Nat /\ MaxRetries \in Nat
    /\ IdMax \in Nat \ {0} /\ KeepAlive \in Nat \ {0} /\ Inbound \subseteq 0 .. 2
    /\ Flushing \in BOOLEAN /\ MayDie \in BOOLEAN

VARIABLES
    \* the client
    stack,              \* the waits in progress, innermost first
    call,               \* the call in progress
    calls,              \* calls so far
    result,             \* the last call that returned
    nextMsgId,
    pingOutstanding,
    isSubAckFound,
    sinceIn,            \* ticks since lastInActivity, up to KeepAlive + 1
    sinceOut,           \* ticks since lastOutActivity, up to KeepAlive + 1
    \* the network
    tcp,                \* the connection is up
    outbox, inbox,      \* messages under way
    \* the broker
    subscribed,         \* this connection is subscribed
    held,               \* identifiers of QoS 2 messages not yet released
    delivered,          \* how often each publication of a call was accepted
    inbound,            \* messages published so far
    silent,             \* it answers no more
    \* the scheduling
    looped,             \* loop() was called since the last tick
    \* what has happened to the last ping of the connection
    waited,             \* ticks it or its answer was under way, up to KeepAlive + 1
    dropped             \* its answer went with the input the callback discarded

client  == <<stack, call, calls, result, nextMsgId>>
alive   == <<pingOutstanding, sinceIn, sinceOut>>
network == <<tcp, outbox, inbox>>
broker  == <<subscribed, held, delivered, inbound, silent>>
past    == <<waited, dropped>>
vars    == <<stack, call, calls, result, nextMsgId, pingOutstanding,
             isSubAckFound, sinceIn, sinceOut, tcp, outbox, inbox,
             subscribed, held, delivered, inbound, silent, looped, waited, dropped>>

\* "no" tells the publications of different calls apart: it stands for the
\* payload, and the program never reads it.
Msg(type, id, no) == [type |-> type, id |-> id, no |-> no]

Holds(seq, type) == \E i \in DOMAIN seq : seq[i].type = type

NoCall == [op |-> "none", no |-> 0, ok |-> TRUE]
Age    == 0 .. KeepAlive + 1

StateOK ==
    /\ \A i \in DOMAIN stack :
          /\ stack[i].tries \in 0 .. MaxRetries
          /\ stack[i].phase \in {"first", "check", "read", "after"}
    /\ call \in Ops \cup {"none", "loop"}
    /\ calls \in 0 .. MaxCalls
    /\ result.op \in Ops \cup {"none"} /\ result.ok \in BOOLEAN
    /\ nextMsgId \in 1 .. IdMax
    /\ pingOutstanding \in BOOLEAN /\ isSubAckFound \in BOOLEAN
    /\ sinceIn \in Age /\ sinceOut \in Age
    /\ tcp \in BOOLEAN
    /\ subscribed \in BOOLEAN
    /\ held \subseteq 1 .. IdMax
    /\ delivered \in [1 .. MaxCalls -> Nat]
    /\ inbound \in 0 .. MaxInbound
    /\ silent \in BOOLEAN /\ looped \in BOOLEAN

PastOK == waited \in Age /\ dropped \in BOOLEAN

TypeOK == StateOK /\ PastOK

Init ==
    /\ stack = <<>> /\ call = "none" /\ calls = 0 /\ result = NoCall
    /\ nextMsgId = 1
    /\ pingOutstanding = FALSE /\ isSubAckFound = FALSE
    /\ sinceIn = 0 /\ sinceOut = 0
    /\ tcp = FALSE /\ outbox = <<>> /\ inbox = <<>>
    /\ subscribed = FALSE /\ held = {} /\ inbound = 0 /\ silent = FALSE
    /\ delivered = [n \in 1 .. MaxCalls |-> 0]
    /\ looped = FALSE /\ waited = 0 /\ dropped = FALSE

-----------------------------------------------------------------------------
(* Sending                                                                   *)

\* _next_packet_id(): 16-bit, and never 0.
NextPacketId == IF nextMsgId = IdMax THEN 1 ELSE nextMsgId + 1

\* The reply each message waits for.
ResponseType(type) ==
    CASE type = "CONNECT"     -> "CONNACK"
      [] type = "SUBSCRIBE"   -> "SUBACK"
      [] type = "UNSUBSCRIBE" -> "UNSUBACK"
      [] type = "PUBLISH1"    -> "PUBACK"
      [] type = "PUBLISH2"    -> "PUBREC"
      [] type = "PUBREC"      -> "PUBREL"
      [] type = "PUBREL"      -> "PUBCOMP"

\* Message::send() writes the packet into the connection, if there is one.
Transmit(msgs) ==
    outbox' = IF tcp THEN outbox \o msgs ELSE outbox

Wait(msg) == [msg |-> msg, tries |-> 0, phase |-> "first"]

Top  == Head(stack)
Rest == Tail(stack)

SetPhase(phase) == stack' = <<[Top EXCEPT !.phase = phase]>> \o Rest

\* The call returns to the application.
Return(ok) ==
    /\ call' = "none"
    /\ result' = IF call = "loop" THEN result
                 ELSE [op |-> call, no |-> calls, ok |-> ok]

-----------------------------------------------------------------------------
(* The calls of the application                                              *)

\* connect(): a new TCP connection (or none: the call returns false).
Connect ==
    /\ "connect" \in Ops /\ call = "none" /\ ~tcp /\ calls < MaxCalls
    /\ calls' = calls + 1
    /\ tcp' = TRUE /\ inbox' = <<>>
    /\ call' = "connect"
    /\ stack' = <<Wait(Msg("CONNECT", 0, calls'))>>
    /\ outbox' = <<Msg("CONNECT", 0, calls')>>
    /\ pingOutstanding' = FALSE /\ nextMsgId' = 1
    /\ sinceIn' = 0 /\ sinceOut' = 0
    /\ waited' = 0 /\ dropped' = FALSE
    /\ subscribed' = FALSE /\ held' = {}
    /\ UNCHANGED <<result, isSubAckFound, delivered, inbound, silent, looped>>

TypeOf(op) ==
    CASE op = "subscribe" -> "SUBSCRIBE" [] op = "unsubscribe" -> "UNSUBSCRIBE"
      [] op = "publish1" -> "PUBLISH1" [] op = "publish2" -> "PUBLISH2"

\* subscribe(), unsubscribe() and publish() of QoS 1 and 2 on a connection:
\* a fresh identifier, the message is sent and its reply awaited.
Request(op) ==
    /\ op \in Ops /\ call = "none" /\ tcp /\ calls < MaxCalls
    /\ calls' = calls + 1
    /\ nextMsgId' = NextPacketId
    /\ call' = op
    /\ LET msg == Msg(TypeOf(op), nextMsgId', calls')
       IN  stack' = <<Wait(msg)>> /\ Transmit(<<msg>>)
    /\ sinceOut' = 0
    /\ UNCHANGED <<result, pingOutstanding, isSubAckFound, sinceIn, tcp,
                   inbox, broker, looped, past>>

\* publish() of QoS 0 sends and returns; bounded to one such message under way.
PublishQos0 ==
    /\ "publish0" \in Ops /\ call = "none" /\ tcp
    /\ ~Holds(outbox, "PUBLISH0")
    /\ Transmit(<<Msg("PUBLISH0", 0, 0)>>)
    /\ sinceOut' = 0
    /\ UNCHANGED <<client, pingOutstanding, isSubAckFound, sinceIn, tcp,
                   inbox, broker, looped, past>>

\* disconnect()
Disconnect ==
    /\ "disconnect" \in Ops /\ call = "none" /\ tcp /\ calls < MaxCalls
    /\ calls' = calls + 1
    /\ tcp' = FALSE /\ outbox' = <<>> /\ inbox' = <<>>
    /\ subscribed' = FALSE /\ held' = {}
    /\ sinceIn' = 0 /\ sinceOut' = 0
    /\ UNCHANGED <<stack, call, result, nextMsgId, pingOutstanding,
                   isSubAckFound, delivered, inbound, silent, looped, past>>

-----------------------------------------------------------------------------
(* Receiving                                                                 *)

\* What is left of the input once the callback has been called.
AfterCallback(msg, rest) ==
    IF Flushing /\ msg.type \in {"PUBLISH0", "PUBLISH1", "PUBLISH2"}
    THEN {SubSeq(rest, i, Len(rest)) : i \in 1 .. Len(rest) + 1}
    ELSE {rest}

\* _process_message(): acknowledge what the broker sends; a QoS 2 publication
\* starts a wait for its release, nested in the wait under way, if any.
\* "before" is what the caller has sent already.
Process(msg, base, before) ==
    /\ inbox' \in AfterCallback(msg, Tail(inbox))
    /\ dropped' = (dropped \/ (Holds(Tail(inbox), "PINGRESP") /\ ~Holds(inbox', "PINGRESP")))
    /\ sinceIn' = 0
    /\ CASE msg.type = "PUBLISH1" ->
              /\ stack' = base /\ sinceOut' = 0
              /\ Transmit(Append(before, Msg("PUBACK", msg.id, 0)))
         [] msg.type = "PUBLISH2" ->
              LET rec == Msg("PUBREC", msg.id, 0)
              IN  /\ stack' = <<Wait(rec)>> \o base /\ sinceOut' = 0
                  /\ Transmit(Append(before, rec))
         [] OTHER ->
              /\ stack' = base /\ Transmit(before)
              /\ sinceOut' = IF before = <<>> THEN sinceOut ELSE 0

\* A PINGRESP ends the wait for it, wherever it is read.
PingForgotten(outstanding, msg) == outstanding    \* mutant
StillOutstanding(outstanding, msg) == outstanding /\ msg.type # "PINGRESP"

\* loop(): keep the connection alive, then process one message.  A QoS 2
\* publication makes loop() wait.
PingDueOut == sinceOut > KeepAlive    \* mutant
PingDue == sinceIn > KeepAlive \/ sinceOut > KeepAlive

LoopStop ==
    /\ call = "none" /\ tcp /\ PingDue /\ pingOutstanding
    /\ tcp' = FALSE /\ outbox' = <<>> /\ inbox' = <<>>
    /\ subscribed' = FALSE /\ held' = {}
    /\ looped' = TRUE
    /\ UNCHANGED <<client, alive, isSubAckFound, delivered, inbound, silent, past>>

LoopRun ==
    /\ call = "none" /\ tcp /\ ~(PingDue /\ pingOutstanding)
    /\ LET pings == IF PingDue THEN <<Msg("PINGREQ", 0, 0)>> ELSE <<>>
           pinged == pingOutstanding \/ PingDue
       IN  IF inbox = <<>>
           THEN /\ Transmit(pings)
                /\ sinceIn' = (IF PingDue THEN 0 ELSE sinceIn)
                /\ sinceOut' = (IF PingDue THEN 0 ELSE sinceOut)
                /\ pingOutstanding' = pinged
                /\ UNCHANGED <<inbox, stack, dropped>>
           ELSE /\ Process(Head(inbox), <<>>, pings)
                /\ pingOutstanding' = StillOutstanding(pinged, Head(inbox))
    /\ call' = IF stack' = <<>> THEN "none" ELSE "loop"
    /\ waited' = IF PingDue THEN 0 ELSE waited
    /\ looped' = TRUE
    /\ UNCHANGED <<calls, result, nextMsgId, isSubAckFound, tcp, broker>>

LoopOffline ==
    /\ call = "none" /\ ~tcp /\ ~looped
    /\ looped' = TRUE
    /\ UNCHANGED <<client, alive, isSubAckFound, network, broker, past>>

-----------------------------------------------------------------------------
(* Waiting: _wait_for() and the retransmission in _send_message()            *)

Waiting(phase) == stack # <<>> /\ Top.phase = phase

\* The wait failed: send again with the same identifier, or give up.  With
\* the connection gone every attempt fails at once.
CanRetry == tcp /\ Top.tries < MaxRetries

ResentAnew == [Top.msg EXCEPT !.id = NextPacketId]    \* mutant
Resent     == Top.msg

Retry(input) ==
    /\ stack' = <<[Top EXCEPT !.phase = "first", !.tries = @ + 1]>> \o Rest
    /\ Transmit(<<Resent>>) /\ inbox' = input
    /\ sinceOut' = 0
    /\ UNCHANGED <<call, result, tcp, subscribed, held>>

\* _send_message() returns false: connect() closes the connection, a nested
\* wait leaves its publication unfinished, the other calls return false.
GiveUp(input) ==
    /\ stack' = Rest
    /\ IF Rest = <<>> THEN Return(FALSE) ELSE UNCHANGED <<call, result>>
    /\ IF Top.msg.type = "CONNECT"
       THEN /\ tcp' = FALSE /\ outbox' = <<>> /\ inbox' = <<>>
            /\ subscribed' = FALSE /\ held' = {}
       ELSE inbox' = input /\ UNCHANGED <<tcp, outbox, subscribed, held>>
    /\ UNCHANGED sinceOut

\* "input" is what the wait has left to read.
WaitFailed(input) == IF CanRetry THEN Retry(input) ELSE GiveUp(input)

\* The reply came: a QoS 2 publication goes on with PUBREL, a nested wait
\* ends with PUBCOMP, the other calls return true.
WaitSucceeded ==
    CASE Top.msg.type = "PUBLISH2" ->
           LET rel == Msg("PUBREL", Top.msg.id, 0)
           IN  /\ stack' = <<Wait(rel)>> \o Rest
               /\ Transmit(<<rel>>) /\ sinceOut' = 0
               /\ UNCHANGED <<call, result>>
      [] Top.msg.type = "PUBREC" ->
           /\ stack' = Rest
           /\ Transmit(<<Msg("PUBCOMP", Top.msg.id, 0)>>) /\ sinceOut' = 0
           /\ IF Rest = <<>> THEN Return(TRUE) ELSE UNCHANGED <<call, result>>
      [] OTHER ->
           stack' = Rest /\ Return(TRUE) /\ UNCHANGED <<outbox, sinceOut>>

\* The first loop of _wait_for(): until input is there, or for one period.
WaitInput ==
    /\ Waiting("first") /\ inbox # <<>>
    /\ SetPhase("check")
    /\ UNCHANGED <<call, calls, result, nextMsgId, alive, isSubAckFound,
                   network, broker, looped, past>>

WaitExpired ==
    /\ Waiting("first") /\ inbox = <<>> /\ sinceIn > KeepAlive
    /\ WaitFailed(inbox)
    /\ UNCHANGED <<calls, nextMsgId, pingOutstanding, isSubAckFound, sinceIn,
                   delivered, inbound, silent, looped, past>>

\* The second loop tests the time before each message ...
WaitCheck ==
    /\ Waiting("check") /\ sinceIn < KeepAlive
    /\ SetPhase("read")
    /\ UNCHANGED <<call, calls, result, nextMsgId, alive, isSubAckFound,
                   network, broker, looped, past>>

WaitTooLate ==
    /\ Waiting("check") /\ sinceIn >= KeepAlive
    /\ WaitFailed(inbox)
    /\ UNCHANGED <<calls, nextMsgId, pingOutstanding, isSubAckFound, sinceIn,
                   delivered, inbound, silent, looped, past>>

\* ... and then reads one, for as long as that takes: readPacket() spins until
\* a byte is there.
MatchesType == TRUE    \* mutant
Matches     == Top.msg.id \in {0, Head(inbox).id}

ReadReply ==
    /\ Waiting("read") /\ inbox # <<>>
    /\ Head(inbox).type = ResponseType(Top.msg.type)
    /\ sinceIn' = 0
    /\ IF Matches
       THEN /\ WaitSucceeded /\ inbox' = Tail(inbox)
            /\ UNCHANGED <<tcp, subscribed, held>>
       ELSE WaitFailed(Tail(inbox))
    /\ UNCHANGED <<calls, nextMsgId, pingOutstanding, isSubAckFound,
                   delivered, inbound, silent, looped, past>>

ReadOther ==
    /\ Waiting("read") /\ inbox # <<>>
    /\ Head(inbox).type # ResponseType(Top.msg.type)
    /\ isSubAckFound' = (isSubAckFound \/ Head(inbox).type = "SUBACK")
    /\ pingOutstanding' = StillOutstanding(pingOutstanding, Head(inbox))
    /\ Process(Head(inbox), <<[Top EXCEPT !.phase = "after"]>> \o Rest, <<>>)
    /\ UNCHANGED <<call, calls, result, nextMsgId, tcp, broker, looped, waited>>

\* A SUBACK a nested wait has swallowed makes the wait for it start again.
AfterOther ==
    /\ Waiting("after")
    /\ IF Top.msg.type = "SUBSCRIBE" /\ isSubAckFound
       THEN isSubAckFound' = FALSE /\ WaitFailed(inbox)
       ELSE /\ SetPhase("check")
            /\ UNCHANGED <<call, result, isSubAckFound, sinceOut, network,
                           subscribed, held>>
    /\ UNCHANGED <<calls, nextMsgId, pingOutstanding, sinceIn,
                   delivered, inbound, silent, looped, past>>

-----------------------------------------------------------------------------
(* The environment                                                           *)

\* A broker as the protocol describes it.
BrokerReply(msg) ==
    CASE msg.type = "CONNECT"     -> <<Msg("CONNACK", 0, 0)>>
      [] msg.type = "SUBSCRIBE"   -> <<Msg("SUBACK", msg.id, 0)>>
      [] msg.type = "UNSUBSCRIBE" -> <<Msg("UNSUBACK", msg.id, 0)>>
      [] msg.type = "PUBLISH1"    -> <<Msg("PUBACK", msg.id, 0)>>
      [] msg.type = "PUBLISH2"    -> <<Msg("PUBREC", msg.id, 0)>>
      [] msg.type = "PUBREL"      -> <<Msg("PUBCOMP", msg.id, 0)>>
      [] msg.type = "PUBREC"      -> <<Msg("PUBREL", msg.id, 0)>>
      [] msg.type = "PINGREQ"     -> <<Msg("PINGRESP", 0, 0)>>
      [] OTHER                    -> <<>>

\* A QoS 2 message is accepted once for each time its identifier is fresh.
Accepts(msg) ==
    msg.type = "PUBLISH1" \/ (msg.type = "PUBLISH2" /\ msg.id \notin held)

BrokerReceive ==
    /\ outbox # <<>> /\ ~silent
    /\ LET msg == Head(outbox)
       IN  /\ inbox' = inbox \o BrokerReply(msg)
           /\ subscribed' = CASE msg.type = "SUBSCRIBE" -> TRUE
                              [] msg.type = "UNSUBSCRIBE" -> FALSE
                              [] OTHER -> subscribed
           /\ held' = CASE msg.type = "PUBLISH2" -> held \cup {msg.id}
                        [] msg.type = "PUBREL" -> held \ {msg.id}
                        [] OTHER -> held
           /\ delivered' = IF Accepts(msg)
                           THEN [delivered EXCEPT ![msg.no] = @ + 1]
                           ELSE delivered
    /\ outbox' = Tail(outbox)
    /\ UNCHANGED <<client, alive, isSubAckFound, tcp, inbound, silent, looped, past>>

\* A silent broker: what is sent to it disappears.
Vanish ==
    /\ outbox # <<>> /\ silent
    /\ outbox' = <<>>
    /\ UNCHANGED <<client, alive, isSubAckFound, tcp, inbox, broker, looped, past>>

BrokerPublish(qos) ==
    /\ tcp /\ subscribed /\ ~silent /\ inbound < MaxInbound
    /\ inbound' = inbound + 1
    /\ inbox' = Append(inbox,
                       CASE qos = 0 -> Msg("PUBLISH0", 0, 0)
                         [] qos = 1 -> Msg("PUBLISH1", inbound', 0)
                         [] qos = 2 -> Msg("PUBLISH2", inbound', 0))
    /\ UNCHANGED <<client, alive, isSubAckFound, tcp, outbox, subscribed,
                   held, delivered, silent, looped, past>>

BrokerFallsSilent ==
    /\ MayDie /\ ~silent /\ silent' = TRUE
    /\ UNCHANGED <<client, alive, isSubAckFound, network, subscribed, held,
                   delivered, inbound, looped, past>>

ConnectionLost ==
    /\ tcp
    /\ tcp' = FALSE /\ outbox' = <<>> /\ inbox' = <<>>
    /\ subscribed' = FALSE /\ held' = {}
    /\ UNCHANGED <<client, alive, isSubAckFound, delivered, inbound, silent,
                   looped, past>>

\* One tick of the clock.
Older(age) == IF age > KeepAlive THEN age ELSE age + 1

Tick ==
    /\ sinceIn' = Older(sinceIn) /\ sinceOut' = Older(sinceOut)
    /\ waited' = IF Holds(outbox, "PINGREQ") \/ Holds(inbox, "PINGRESP")
                 THEN Older(waited) ELSE waited
    /\ looped' = FALSE
    /\ UNCHANGED <<client, pingOutstanding, isSubAckFound, network, broker, dropped>>

-----------------------------------------------------------------------------
Requests == {"subscribe", "unsubscribe", "publish1", "publish2"}

Application == Connect \/ (\E op \in Requests : Request(op)) \/ PublishQos0
               \/ Disconnect

Loop == LoopStop \/ LoopRun \/ LoopOffline

WaitStep ==
    \/ WaitInput \/ WaitExpired \/ WaitCheck \/ WaitTooLate
    \/ ReadReply \/ ReadOther \/ AfterOther

Broker == BrokerReceive \/ Vanish

Next ==
    \/ Application \/ Loop \/ WaitStep \/ Broker
    \/ (\E qos \in Inbound : BrokerPublish(qos))
    \/ BrokerFallsSilent \/ ConnectionLost \/ Tick

Spec == Init /\ [][Next]_vars

\* loop() is called for ever and a wait goes on by itself; the broker answers
\* while it is alive; the clock ticks.
Fairness ==
    /\ WF_vars(Loop) /\ WF_vars(WaitStep) /\ WF_vars(Broker) /\ WF_vars(Tick)

FairSpec == Spec /\ Fairness

-----------------------------------------------------------------------------
(* Properties                                                                *)

\* A call that returned true has had its effect at the broker: a publication
\* of QoS 1 was accepted, one of QoS 2 exactly once, a subscription stands and
\* an unsubscription is gone, whatever was retransmitted, swallowed by a nested
\* wait or answered late, as long as no packet identifier has come round again.
TrueMeansDone ==
    result.ok /\ calls <= IdMax + 1 =>
        /\ result.op = "publish1" => delivered[result.no] >= 1
        /\ result.op = "publish2" => delivered[result.no] = 1
        /\ result.op = "subscribe" /\ call = "none" /\ tcp => subscribed
        /\ result.op = "unsubscribe" /\ call = "none" /\ tcp => ~subscribed

\* Even a QoS 2 publication that failed was not accepted twice.
NeverTwice == result.op = "publish2" => delivered[result.no] <= 1

\* loop() closes no connection to a broker that answers: not while the device is
\* busy for less than a period and not because of what it sends and receives
\* itself, but only when a ping and its answer were under way for a whole period
\* or the callback has discarded the answer together with its own message.
LiveBrokerKept == [][LoopStop => silent \/ dropped \/ waited > KeepAlive]_vars

\* A broker that has fallen silent is noticed and the connection closed,
\* whatever the client itself keeps sending, unless a wait is already blocked
\* in readPacket(), which does not look at the connection.
SilenceNoticed == silent ~> ~tcp \/ Waiting("read")
=============================================================================
