---------------------------- MODULE MqttMessages -----------------------------
(***************************************************************************)
(* How a program makes the messages it sends: a constructor and calls that *)
(* set what is optional, in any order and as often as it likes.  What goes *)
(* out is made of the byte of flags and of the fields they leave behind.   *)
(***************************************************************************)
EXTENDS MqttPacket

MQTT_KEEPALIVE == 15

-----------------------------------------------------------------------------
(* Connect                                                                   *)

\* _will_qos and _will_retain are not initialised, and not read without a topic.
NewConnect(cid) ==
    [type |-> "CONNECT", flags |-> 0, need_packet_id |-> FALSE, clean_session |-> TRUE,
     clientid |-> cid, keepalive |-> MQTT_KEEPALIVE, username |-> <<>>, password |-> <<>>,
     will_topic |-> <<>>, will_message |-> <<>>, will_qos |-> 0, will_retain |-> FALSE]

set_will(m, topic, message, qos, retain) ==
    [m EXCEPT !.will_topic = topic, !.will_message = message,
              !.will_qos = qos, !.will_retain = retain]

set_auth(m, u, p) == [m EXCEPT !.username = u, !.password = p]

ConnectCall(m, call) ==
    CASE call.set = "clean_session" -> [m EXCEPT !.clean_session = call.on]
      [] call.set = "keepalive" -> [m EXCEPT !.keepalive = call.seconds]
      [] call.set = "auth" -> set_auth(m, call.user, call.password)
      [] call.set = "no_auth" -> set_auth(m, <<>>, <<>>)
      [] call.set = "will" -> set_will(m, call.topic, call.message, call.qos, call.retain)
      [] call.set = "no_will" -> [m EXCEPT !.will_topic = <<>>]

\* PubSubClient::connect() with a will of its own.
ConnectWith(id, will) ==
    IF will.topic = <<>> THEN NewConnect(id)
    ELSE set_will(NewConnect(id), will.topic, will.message, will.qos, will.retain)

\* What write_variable_header() and write_payload() make of it.
ConnectSent(m) ==
    [f \in {"type", "clean_session", "keepalive", "clientid", "will_topic", "will_message",
            "will_qos", "will_retain", "username", "password"} |->
        IF f = "will_qos" /\ m.will_qos > 2 THEN 2 ELSE m[f]]

-----------------------------------------------------------------------------
(* Publish: the flags are bits 3 (dup), 2 and 1 (QoS) and 0 (retain)         *)

NewPublish(topic, payload) ==
    [type |-> "PUBLISH", flags |-> 0, need_packet_id |-> FALSE, topic |-> topic, payload |-> payload]

qos(m)  == (m.flags \div 2) % 4
FlagsWithout(m, mask) == m.flags - ((m.flags \div mask) % 2) * mask

\* A QoS of 0 takes the need for an identifier back only in unset_qos().
set_qos(m, q) ==
    LET k == IF q > 2 THEN 2 ELSE q
    IN  [m EXCEPT !.flags = m.flags - 2 * qos(m) + 2 * k,
                  !.need_packet_id = @ \/ k > 0]

unset_qos(m) == [m EXCEPT !.flags = m.flags - 2 * qos(m), !.need_packet_id = FALSE]

PublishCall(m, call) ==
    CASE call.set = "qos" -> set_qos(m, call.qos)
      [] call.set = "no_qos" -> unset_qos(m)
      [] call.set = "retain" -> [m EXCEPT !.flags = FlagsWithout(m, 1) + Bit(call.on)]
      [] call.set = "dup" -> [m EXCEPT !.flags = FlagsWithout(m, 8) + 8 * Bit(call.on)]

\* PubSubClient::publish() and publish_P() with a payload of their own.
PublishWith(topic, payload, retained) ==
    PublishCall(NewPublish(topic, payload), [set |-> "retain", on |-> retained])

\* The client has given the message an identifier, if it needs one.
PublishSent(m, id) ==
    [type |-> "PUBLISH", dup |-> m.flags \div 8 = 1, qos |-> qos(m), retain |-> m.flags % 2 = 1,
     topic |-> m.topic, id |-> IF qos(m) > 0 /\ m.need_packet_id THEN id ELSE 0,
     payload |-> m.payload]

PublishResponse(m) == CASE qos(m) = 0 -> "None" [] qos(m) = 1 -> "PUBACK" [] qos(m) = 2 -> "PUBREC"

-----------------------------------------------------------------------------
(* Subscribe and Unsubscribe                                                 *)

NewSubscribe == [type |-> "SUBSCRIBE", flags |-> 0, need_packet_id |-> TRUE, topics |-> <<>>]
NewUnsubscribe == [NewSubscribe EXCEPT !.type = "UNSUBSCRIBE"]

\* Subscribe::add_topic().
add_topic(m, topic, q) == [m EXCEPT !.topics = Append(@, [topic |-> topic, qos |-> q])]

\* Unsubscribe::add_topic(): there is no QoS.
add_topic_only(m, topic) == add_topic(m, topic, 0)

SubscribeSent(m, id) == [type |-> m.type, id |-> id, topics |-> m.topics]

response_type(m) ==
    CASE m.type = "PUBLISH" -> PublishResponse(m)
      [] m.type = "CONNECT" -> "CONNACK"
      [] m.type = "SUBSCRIBE" -> "SUBACK"
      [] m.type = "UNSUBSCRIBE" -> "UNSUBACK"

-----------------------------------------------------------------------------
\* A message made by these calls, one after the other.
Made(type, calls) ==
    CASE type = "CONNECT" -> FoldLeft(ConnectCall, NewConnect(<<9>>), calls)
      [] type = "PUBLISH" -> FoldLeft(PublishCall, NewPublish(<<8>>, <<7>>), calls)
      [] type = "SUBSCRIBE" -> FoldLeft(LAMBDA m, c : add_topic(m, c.topic, c.qos), NewSubscribe, calls)
      [] type = "UNSUBSCRIBE" -> FoldLeft(LAMBDA m, c : add_topic_only(m, c.topic), NewUnsubscribe, calls)

SentAs(m, id) ==
    CASE m.type = "CONNECT" -> ConnectSent(m)
      [] m.type = "PUBLISH" -> PublishSent(m, id)
      [] OTHER -> SubscribeSent(m, id)

\* The calls that PubSubClient has a function of its own for.
MadeByClient(type, calls) ==
    CASE calls # <<>> /\ Last(calls).set = "will" -> ConnectWith(<<9>>, Last(calls))
      [] calls # <<>> /\ Last(calls).set = "retain" -> PublishWith(<<8>>, <<7>>, Last(calls).on)
      [] OTHER -> Made(type, <<>>)

ReadBackAs(m, id) ==
    LET sends == SentAs(m, id)
    IN  Parsed(m.type, Flags(sends), write_variable_header(sends) \o write_payload(sends))

\* A broker reads from a message what the last call for each option has set,
\* whatever the order of the calls: the session, the period, the login and the
\* will of a Connect, no will without a topic and no password without a name;
\* the flags of a Publish, with an identifier and a response to wait for
\* exactly if it has a QoS; the topics of a Subscribe, in their order.  What
\* PubSubClient makes of its own arguments is what the calls make of them.
MessagesSaySo(type, calls) ==
    LET m    == Made(type, calls)
        got  == ReadBackAs(m, 5)
        latest(names, default) ==
            LET those == SelectSeq(calls, LAMBDA c : c.set \in names)
            IN  IF those = <<>> THEN default ELSE those[Len(those)]
        none == [set |-> "none", on |-> FALSE]
        auth == latest({"auth", "no_auth"}, none)
        will == latest({"will", "no_will"}, none)
        level == latest({"qos", "no_qos"}, none)
        q    == IF level.set # "qos" THEN 0 ELSE IF level.qos > 2 THEN 2 ELSE level.qos
        login == auth.set = "auth" /\ auth.user # <<>>
        willed == will.set = "will" /\ will.topic # <<>>
    IN  /\ ReadBackAs(MadeByClient(type, calls), 5)
             = ReadBackAs(Made(type, IF calls # <<>> /\ Last(calls).set \in {"will", "retain"}
                                     THEN <<Last(calls)>> ELSE <<>>), 5)
        /\ CASE type = "CONNECT" ->
                  /\ got.clean_session = latest({"clean_session"}, [on |-> TRUE]).on
                  /\ got.keepalive = latest({"keepalive"}, [seconds |-> MQTT_KEEPALIVE]).seconds
                  /\ got.username = IF login THEN auth.user ELSE <<>>
                  /\ got.password = IF login THEN auth.password ELSE <<>>
                  /\ got.will_topic = IF willed THEN will.topic ELSE <<>>
                  /\ willed => /\ got.will_message = will.message /\ got.will_retain = will.retain
                               /\ got.will_qos = IF will.qos > 2 THEN 2 ELSE will.qos
                  /\ got.clientid = <<9>>
             [] type = "PUBLISH" ->
                  /\ got = [type |-> "PUBLISH", dup |-> latest({"dup"}, none).on, qos |-> q,
                            retain |-> latest({"retain"}, none).on, topic |-> <<8>>,
                            id |-> IF q > 0 THEN 5 ELSE 0, payload |-> <<7>>]
                  /\ response_type(m) = <<"None", "PUBACK", "PUBREC">>[q + 1]
             [] OTHER ->
                  got.topics = [i \in DOMAIN calls |->
                                   [topic |-> calls[i].topic, qos |-> IF type = "SUBSCRIBE" THEN calls[i].qos ELSE 0]]
=============================================================================
