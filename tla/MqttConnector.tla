--------------------------- MODULE MqttConnector ---------------------------
(***************************************************************************)
(* The connector that keeps the device's MQTT session: it connects until a *)
(* broker answers, subscribes to the command topics and to the device's    *)
(* own status, and publishes a status when its timer expires, when it has  *)
(* connected, or when the application asks for one.                        *)
(*                                                                         *)
(* The client it drives is PubSubClient, seen through what its calls       *)
(* return: subscribe() returns true only on a subscribed session           *)
(* (PubSubClient!TrueMeansDone), and may not return at all once the        *)
(* connection is lost: readPacket() waits without looking at it.           *)
(***************************************************************************)
EXTENDS Naturals

CONSTANTS
    Interval,    \* _publish_interval, in ticks; 0 on a device never set up
    Quiet,       \* no status for this long after a message (1000 ms)
    MaxForeign   \* bound on the messages others send the device

ASSUME ConnectorAssumption ==
    Interval \in Nat /\ Quiet \in Nat /\ MaxForeign \in Nat

VARIABLES
    pc,        \* where the main task is in connect(), _connect() and loop()
    link,      \* the client is connected
    session,   \* the broker holds the subscription of this connection
    pending,   \* messages the broker has sent and the client not read
    foreign,   \* messages of others so far
    object,    \* _subscribe_object # NULL
    counter,   \* _subscription_counter
    forced,    \* _force_publish
    timer,     \* age of _publish_timer, up to Interval
    quiet,     \* ticks since _msg_arrived_ms, up to Quiet + 1
    sent       \* the subscription counts reported on this connection

conn == <<link, session>>
vars == <<pc, link, session, pending, foreign, object, counter, forced,
          timer, quiet, sent>>

SessionType ==
    /\ pc \in {"connecting", "subscribing", "greeting", "running", "publishing"}
    /\ link \in BOOLEAN /\ session \in BOOLEAN
    /\ object \in BOOLEAN /\ counter \in {0, 1} /\ forced \in BOOLEAN
    /\ sent \subseteq {0, 1}

CountType ==
    /\ pending \in Nat /\ foreign \in 0 .. MaxForeign
    /\ timer \in 0 .. Interval /\ quiet \in 0 .. Quiet + 1

TypeOK == SessionType /\ CountType

\* The constructor does not initialise _msg_arrived_ms: any age.
Init ==
    /\ pc = "connecting" /\ link = FALSE /\ session = FALSE
    /\ pending = 0 /\ foreign = 0
    /\ object = FALSE /\ counter = 0 /\ forced = FALSE
    /\ timer = 0 /\ quiet \in 0 .. Quiet + 1
    /\ sent = {}

-----------------------------------------------------------------------------
(* _connect()                                                                *)

\* The client is connected at last; attempts that fail change nothing, and
\* connect() fails while a connection is up.
ConnectKeepingCount ==    \* mutant
    /\ pc = "connecting" /\ ~link
    /\ link' = TRUE /\ session' = FALSE /\ pending' = 0 /\ sent' = {}
    /\ object' = TRUE
    /\ pc' = "subscribing"
    /\ UNCHANGED <<foreign, counter, forced, timer, quiet>>

Connect ==
    /\ pc = "connecting" /\ ~link
    /\ link' = TRUE /\ session' = FALSE /\ pending' = 0 /\ sent' = {}
    /\ counter' = IF object THEN 0 ELSE counter
    /\ object' = TRUE
    /\ pc' = "subscribing"
    /\ UNCHANGED <<foreign, forced, timer, quiet>>

Subscribed ==
    /\ pc = "subscribing" /\ session
    /\ counter' = counter + 1
    /\ pc' = "greeting"
    /\ UNCHANGED <<conn, pending, foreign, object, forced, timer, quiet, sent>>

SubscribeFailedReconnecting ==    \* mutant
    /\ pc = "subscribing"
    /\ pc' = "connecting"
    /\ UNCHANGED <<conn, pending, foreign, object, counter, forced, timer,
                   quiet, sent>>

\* A subscription that failed leaves the connection as it is, without the
\* status of a new connection.
SubscribeFailed ==
    /\ pc = "subscribing"
    /\ pc' = "running"
    /\ UNCHANGED <<conn, pending, foreign, object, counter, forced, timer,
                   quiet, sent>>

-----------------------------------------------------------------------------
(* doPublish() and loop()                                                    *)

\* A status is due and none of the early returns is taken.  A request of the
\* application is forgotten either way; the device reads its own status back.
Publishes(force) ==
    /\ force \/ timer >= Interval \/ forced
    /\ link /\ quiet > Quiet

Publish(force) ==
    /\ Publishes(force)
    /\ forced' = FALSE /\ timer' = 0
    /\ sent' = sent \cup {counter}
    /\ pending' = IF session THEN pending + 1 ELSE pending

Skip(force) ==
    /\ ~Publishes(force)
    /\ forced' = FALSE
    /\ UNCHANGED <<timer, sent, pending>>

doPublish(force) == Publish(force) \/ Skip(force)

Greet ==
    /\ pc = "greeting" /\ doPublish(TRUE)
    /\ pc' = "running"
    /\ UNCHANGED <<conn, foreign, object, counter, quiet>>

LoopPublish ==
    /\ pc = "publishing" /\ doPublish(FALSE)
    /\ pc' = "running"
    /\ UNCHANGED <<conn, foreign, object, counter, quiet>>

\* The callback notes the time and discards the input that has arrived.
Read ==
    /\ IF pending > 0
       THEN pending' \in 0 .. pending - 1 /\ quiet' = 0
       ELSE UNCHANGED <<pending, quiet>>
    /\ UNCHANGED <<conn, foreign, object, counter, forced, timer, sent>>

LoopConnected == pc = "running" /\ link /\ pc' = "publishing" /\ Read

LoopIdle == pc = "running" /\ ~link /\ UNCHANGED vars    \* mutant

LoopReconnect ==
    /\ pc = "running" /\ ~link
    /\ pc' = "connecting"
    /\ UNCHANGED <<conn, pending, foreign, object, counter, forced, timer,
                   quiet, sent>>

\* The wait for the reply to a SUBSCRIBE reads messages, too.
ReadSubscribing ==
    /\ pc = "subscribing" /\ pending > 0
    /\ Read /\ UNCHANGED pc

set_force_publish_flag ==
    /\ ~forced /\ forced' = TRUE
    /\ UNCHANGED <<pc, conn, pending, foreign, object, counter, timer, quiet,
                   sent>>

-----------------------------------------------------------------------------
(* The environment                                                           *)

\* The broker handles a SUBSCRIBE of this connection, perhaps long after the
\* call that sent it has given up.
BrokerSubscribes ==
    /\ link /\ ~session
    /\ session' = TRUE
    /\ UNCHANGED <<pc, link, pending, foreign, object, counter, forced, timer,
                   quiet, sent>>

Message ==
    /\ session /\ foreign < MaxForeign
    /\ foreign' = foreign + 1 /\ pending' = pending + 1
    /\ UNCHANGED <<pc, conn, object, counter, forced, timer, quiet, sent>>

\* The connection breaks, or the keep-alive closes it.
LinkLost ==
    /\ link
    /\ link' = FALSE /\ session' = FALSE /\ pending' = 0
    /\ UNCHANGED <<pc, foreign, object, counter, forced, timer, quiet, sent>>

Tick ==
    /\ timer' = (IF timer < Interval THEN timer + 1 ELSE timer)
    /\ quiet' = (IF quiet <= Quiet THEN quiet + 1 ELSE quiet)
    /\ UNCHANGED <<pc, conn, pending, foreign, object, counter, forced, sent>>

-----------------------------------------------------------------------------
Connector ==
    \/ Connect \/ Subscribed \/ Greet
    \/ LoopConnected \/ LoopPublish \/ LoopReconnect

Next ==
    \/ Connector \/ SubscribeFailed \/ ReadSubscribing
    \/ set_force_publish_flag
    \/ BrokerSubscribes \/ Message \/ LinkLost \/ Tick

Spec == Init /\ [][Next]_vars

\* The main task runs for ever and a broker is reachable; on a connection
\* that stays up the broker answers, so subscribe() returns one way or the
\* other; the clock ticks.
Fairness ==
    /\ WF_vars(Connector) /\ WF_vars(Tick)
    /\ WF_vars(link /\ (Subscribed \/ SubscribeFailed))

FairSpec == Spec /\ Fairness

-----------------------------------------------------------------------------
(* Properties                                                                *)

\* The count the connector keeps is that of this connection, never one left
\* over from an earlier one: with a connection up it is 1 only if the broker
\* holds the subscription.
CountOfSession == link /\ counter = 1 => session

\* A status that reports a subscription was published on a subscribed
\* connection, and no connection reports first one thing, then the other.
StatusIsTrue ==
    link => (1 \in sent => session) /\ sent # {0, 1}

\* The inductive invariant: how far _connect() has come fixes the count, and
\* the count and what was reported belong to the connection of the moment.
Progress ==
    /\ pc = "connecting" => ~link
    /\ pc = "subscribing" => object /\ counter = 0 /\ sent = {}
    /\ pc = "greeting" => counter = 1 /\ sent = {}
    /\ counter = 1 => object

Ties ==
    /\ session => link
    /\ link /\ counter = 1 => session
    /\ link => sent \subseteq {counter}

IInv == SessionType /\ CountType /\ Progress /\ Ties

\* On a connection that stays up the statuses keep coming, although each of
\* them comes back as a message that holds the next one back, and whatever
\* became of the subscription.
StatusKeepsComing == <>[]link => []<><<\E force \in BOOLEAN : Publish(force)>>_vars

\* A lost connection is replaced, unless it was lost during subscribe(), which
\* may never return then.
Reconnects == ~link /\ pc # "subscribing" ~> link
=============================================================================
