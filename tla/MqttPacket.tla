----------------------------- MODULE MqttPacket -----------------------------
(***************************************************************************)
(* The packets of the MQTT client, byte by byte: how a message is written  *)
(* into a buffer and how readPacket() gets it back from a TCP connection,  *)
(* which hands over the bytes in pieces of any size.                       *)
(*                                                                         *)
(* One stream of packets is modelled, in either direction.  What the       *)
(* client sends to a broker only is read by a broker, which is external    *)
(* and decodes as the protocol defines; everything else is read by         *)
(* readPacket().                                                           *)
(***************************************************************************)
EXTENDS Naturals, SequencesExt

CONSTANTS
    Messages,     \* the messages sent, as records (see Init)
    MaxSent,      \* bound on the messages under way
    Streamed,     \* lengths of payloads that are written behind the buffer
    SplitBodies   \* the network may split a packet behind its fixed header

ASSUME PacketAssumption ==
    /\ MaxSent \in Nat \ {0} /\ SplitBodies \in BOOLEAN
    /\ Streamed \subseteq Nat

VARIABLES
    sent,     \* the messages under way, oldest first
    wire,     \* the pieces that have not arrived
    arrived,  \* the bytes that have: client.available() is their number
    \* readPacket()
    pc,       \* "type", "length" or "body"
    first,    \* the first byte: type and flags
    length,   \* remaining_length so far
    weight,   \* 1 << shifter
    body,     \* remaining_data, as far as it is filled
    \* history
    last      \* the message just read, and the one that was sent

vars == <<sent, wire, arrived, pc, first, length, weight, body, last>>

-----------------------------------------------------------------------------
(* Writing                                                                   *)

Types == <<"CONNECT", "CONNACK", "PUBLISH", "PUBACK", "PUBREC", "PUBREL",
           "PUBCOMP", "SUBSCRIBE", "SUBACK", "UNSUBSCRIBE", "UNSUBACK",
           "PINGREQ", "PINGRESP", "DISCONNECT">>

Code(type) == CHOOSE i \in DOMAIN Types : Types[i] = type

Bit(condition) == IF condition THEN 1 ELSE 0

U16(n) == <<n \div 256, n % 256>>
Str(s) == U16(Len(s)) \o s

\* The do loop of write_fixed_header().
LengthBytes[n \in Nat] ==
    IF n < 128 THEN <<n>> ELSE <<(n % 128) + 128>> \o LengthBytes[n \div 128]

fixed_header_length(n) ==
    IF n < 128 THEN 2 ELSE IF n < 16384 THEN 3
    ELSE IF n < 2097152 THEN 4 ELSE 5

Flags(m) ==
    CASE m.type = "PUBLISH" ->
           8 * Bit(m.dup) + 2 * m.qos + Bit(m.retain)
      [] m.type \in {"PUBREL", "SUBSCRIBE", "UNSUBSCRIBE"} -> 2
      [] OTHER -> 0

HasWill(m) == m.will_topic # <<>>
HasUser(m) == m.username # <<>>
HasPassword(m) == HasUser(m) /\ m.password # <<>>

ConnectFlags(m) ==
    2 * Bit(m.clean_session)
    + (IF HasWill(m) THEN 4 + 8 * m.will_qos + 32 * Bit(m.will_retain) ELSE 0)
    + 128 * Bit(HasUser(m)) + 64 * Bit(HasPassword(m))

MQTT == <<77, 81, 84, 84>>

WithId == {"PUBACK", "PUBREC", "PUBREL", "PUBCOMP", "SUBSCRIBE", "SUBACK",
           "UNSUBSCRIBE", "UNSUBACK"}

ConnectHeader(m) ==
    Str(MQTT) \o <<4, ConnectFlags(m)>> \o U16(m.keepalive)

PublishHeader(m) == Str(m.topic) \o (IF m.qos > 0 THEN U16(m.id) ELSE <<>>)

ConnackHeader(m) == <<Bit(m.session_present), m.rc>>

write_variable_header(m) ==
    CASE m.type = "CONNECT" -> ConnectHeader(m)
      [] m.type = "CONNACK" -> ConnackHeader(m)
      [] m.type = "PUBLISH" -> PublishHeader(m)
      [] m.type \in WithId  -> U16(m.id)
      [] OTHER -> <<>>

ConnectPayload(m) ==
    Str(m.clientid)
    \o (IF HasWill(m) THEN Str(m.will_topic) \o Str(m.will_message) ELSE <<>>)
    \o (IF HasUser(m) THEN Str(m.username) ELSE <<>>)
    \o (IF HasPassword(m) THEN Str(m.password) ELSE <<>>)

\* The buffers add_topic() extends.
SubscribePayload(m) ==
    FlattenSeq([i \in DOMAIN m.topics |->
                   Str(m.topics[i].topic) \o <<m.topics[i].qos>>])

UnsubscribePayload(m) ==
    FlattenSeq([i \in DOMAIN m.topics |-> Str(m.topics[i].topic)])

write_payload(m) ==
    CASE m.type = "CONNECT"     -> ConnectPayload(m)
      [] m.type = "SUBSCRIBE"   -> SubscribePayload(m)
      [] m.type = "UNSUBSCRIBE" -> UnsubscribePayload(m)
      [] m.type = "PUBLISH"     -> m.payload
      [] m.type = "SUBACK"      -> m.rcs
      [] OTHER -> <<>>

\* The lengths the buffer is allocated with, computed on their own.
variable_header_length(m) ==
    CASE m.type = "CONNECT" -> 10
      [] m.type = "PUBLISH" -> 2 + Len(m.topic) + 2 * Bit(m.qos > 0)
      [] m.type \in WithId \cup {"CONNACK"} -> 2
      [] OTHER -> 0

WillLength(m) ==
    IF HasWill(m) THEN 4 + Len(m.will_topic) + Len(m.will_message) ELSE 0

ConnectLengthWithPassword(m) ==    \* mutant
    2 + Len(m.clientid) + WillLength(m)
    + (IF HasUser(m) THEN 2 + Len(m.username) ELSE 0)
    + (IF m.password # <<>> THEN 2 + Len(m.password) ELSE 0)

ConnectLength(m) ==
    2 + Len(m.clientid) + WillLength(m)
    + (IF HasUser(m) THEN 2 + Len(m.username) ELSE 0)
    + (IF HasPassword(m) THEN 2 + Len(m.password) ELSE 0)

payload_length(m) ==
    IF m.type = "CONNECT" THEN ConnectLength(m) ELSE Len(write_payload(m))

remaining_length(m) == variable_header_length(m) + payload_length(m)

packet_length(m) ==
    fixed_header_length(remaining_length(m)) + remaining_length(m)

FixedHeader(m) ==
    <<16 * Code(m.type) + Flags(m)>> \o LengthBytes[remaining_length(m)]

Packet(m) == FixedHeader(m) \o write_variable_header(m) \o write_payload(m)

-----------------------------------------------------------------------------
(* Reading                                                                   *)

U16At(b, p) == 256 * b[p] + b[p + 1]
StrAt(b, p) == SubSeq(b, p + 2, p + 1 + U16At(b, p))
After(b, p) == p + 2 + U16At(b, p)
From(b, p)  == SubSeq(b, p, Len(b))

Publish(flags, b) ==
    LET p   == After(b, 1)
        qos == (flags \div 2) % 4
    IN  [type |-> "PUBLISH", dup |-> flags \div 8 = 1, qos |-> qos,
         retain |-> flags % 2 = 1, topic |-> StrAt(b, 1),
         id |-> IF qos > 0 THEN U16At(b, p) ELSE 0,
         payload |-> From(b, IF qos > 0 THEN p + 2 ELSE p)]

ConnectAck(b) ==
    [type |-> "CONNACK", session_present |-> b[1] % 2 = 1, rc |-> b[2]]

SubscribeAck(b) == [type |-> "SUBACK", id |-> U16At(b, 1), rcs |-> From(b, 3)]

\* A packet of more than MQTT_TOO_BIG bytes is not read whole: the payload of a
\* publication and the results of a SUBACK stay in the connection, and the
\* message counts what is left there.  b is what the connection has.
MQTT_TOO_BIG == 4096

StreamedPublish(flags, b, remaining) ==
    LET m == Publish(flags, b)
    IN  [m |-> m, payload_len |-> remaining - 2 - Len(m.topic) - (IF m.qos > 0 THEN 2 ELSE 0)]

StreamedSubscribeAck(b, remaining) == [id |-> U16At(b, 1), num_rcs |-> remaining - 2]

\* PublishAck, PublishRec, PublishRel, PublishComp and UnsubscribeAck.
Ack(type, b) == [type |-> type, id |-> U16At(b, 1)]

\* A broker reads the strings of a CONNECT in order, as the flags say.
BrokerConnect(b) ==
    LET strings[p \in Nat] ==
            IF p > Len(b) THEN <<>> ELSE <<StrAt(b, p)>> \o strings[After(b, p)]
        s     == strings[11]
        flag(w) == (b[8] \div w) % 2
        next(i, w) == IF flag(w) = 1 THEN s[i] ELSE <<>>
        user  == 2 + 2 * flag(4)
    IN  [type |-> "CONNECT", clean_session |-> flag(2) = 1,
         keepalive |-> U16At(b, 9), clientid |-> s[1],
         will_topic |-> next(2, 4), will_message |-> next(3, 4),
         will_qos |-> (b[8] \div 8) % 4, will_retain |-> flag(32) = 1,
         username |-> next(user, 128), password |-> next(user + 1, 64)]

BrokerTopics(b, withQos) ==
    LET topics[p \in Nat] ==
            IF p > Len(b) THEN <<>>
            ELSE <<[topic |-> StrAt(b, p),
                    qos |-> IF withQos THEN b[After(b, p)] ELSE 0]>>
                 \o topics[After(b, p) + Bit(withQos)]
    IN  topics[3]

Garbled == [type |-> "garbled"]
Nothing == [got |-> Garbled, of |-> Garbled]

\* The switch at the end of readPacket(), or the broker's.
Parsed(type, flags, b) ==
    CASE type = "CONNACK" -> ConnectAck(b)
      [] type = "PUBLISH" -> Publish(flags, b)
      [] type = "SUBACK" -> SubscribeAck(b)
      [] type \in {"PUBACK", "PUBREC", "PUBREL", "PUBCOMP", "UNSUBACK"} ->
           Ack(type, b)
      [] type \in {"PINGREQ", "PINGRESP", "DISCONNECT"} -> [type |-> type]
      [] type = "CONNECT" -> BrokerConnect(b)
      [] type \in {"SUBSCRIBE", "UNSUBSCRIBE"} ->
           [type |-> type, id |-> U16At(b, 1),
            topics |-> BrokerTopics(b, type = "SUBSCRIBE")]
      [] OTHER -> Garbled

-----------------------------------------------------------------------------
(* The connection.  A message is                                             *)
(*   CONNECT: clean_session, keepalive, clientid, will_topic, will_message,  *)
(*            will_qos, will_retain, username, password                      *)
(*   PUBLISH: dup, qos, retain, topic, id (0 without QoS), payload           *)
(*   (UN)SUBSCRIBE: id, topics; SUBACK: id, rcs; CONNACK: session_present,   *)
(*   rc; the other acknowledgements: id                                      *)
(* together with its type.                                                   *)

Init ==
    /\ sent = <<>> /\ wire = <<>> /\ arrived = <<>>
    /\ pc = "type" /\ first = 0 /\ length = 0 /\ weight = 1 /\ body = <<>>
    /\ last = Nothing

\* What the network never separates: a byte, or, unless SplitBodies, the last
\* byte of the fixed header and what follows it.
Pieces(m) ==
    LET bytes == Packet(m)
        cut   == IF SplitBodies THEN Len(bytes) ELSE Len(FixedHeader(m))
    IN  [i \in 1 .. cut - 1 |-> <<bytes[i]>>] \o <<From(bytes, cut)>>

Send(m) ==
    /\ Len(sent) < MaxSent
    /\ sent' = Append(sent, m)
    /\ wire' = wire \o Pieces(m)
    /\ UNCHANGED <<arrived, pc, first, length, weight, body, last>>

Arrive ==
    /\ wire # <<>>
    /\ arrived' = arrived \o Head(wire) /\ wire' = Tail(wire)
    /\ UNCHANGED <<sent, pc, first, length, weight, body, last>>

\* read<uint8_t>(): waits for a byte.
ReadByte == arrived # <<>> /\ arrived' = Tail(arrived)

ReadType ==
    /\ pc = "type" /\ ReadByte
    /\ first' = Head(arrived)
    /\ pc' = "length" /\ length' = 0 /\ weight' = 1
    /\ last' = Nothing
    /\ UNCHANGED <<sent, wire, body>>

ReadLength ==
    /\ pc = "length" /\ ReadByte
    /\ LET digit == Head(arrived)
       IN  /\ length' = length + (digit % 128) * weight
           /\ pc' = IF digit < 128 THEN "body" ELSE "length"
    /\ weight' = weight * 128
    /\ UNCHANGED <<sent, wire, first, body, last>>

\* An iteration of the loop that takes what is there, up to what is missing.
ReadBody ==
    /\ pc = "body" /\ Len(body) < length /\ arrived # <<>>
    /\ LET missing == length - Len(body)
           n == IF Len(arrived) < missing THEN Len(arrived) ELSE missing
       IN  /\ body' = body \o SubSeq(arrived, 1, n)
           /\ arrived' = From(arrived, n + 1)
    /\ UNCHANGED <<sent, wire, pc, first, length, weight, last>>

\* What an application that sets a password and no user name has sent.
Meant(m) ==
    IF m.type = "CONNECT" /\ ~HasUser(m) THEN [m EXCEPT !.password = <<>>]
    ELSE m

ParseWaiting ==    \* mutant: a byte of the body is waited for
    /\ pc = "body" /\ Len(body) = length /\ length > 0
    /\ last' = [got |-> Parsed(Types[first \div 16], first % 16, body),
                of |-> Meant(Head(sent))]
    /\ sent' = Tail(sent) /\ pc' = "type" /\ body' = <<>>
    /\ first' = 0 /\ length' = 0 /\ weight' = 1
    /\ UNCHANGED <<wire, arrived>>

\* The loop is over, and the message is made from what is in the buffer; the
\* part that was not there in time is not initialised.
Parse ==
    /\ pc = "body" /\ (Len(body) = length \/ arrived = <<>>)
    /\ last' = [got |-> IF Len(body) = length
                        THEN Parsed(Types[first \div 16], first % 16, body)
                        ELSE Garbled,
                of |-> Meant(Head(sent))]
    /\ sent' = Tail(sent) /\ pc' = "type" /\ body' = <<>>
    /\ first' = 0 /\ length' = 0 /\ weight' = 1
    /\ UNCHANGED <<wire, arrived>>

Reader == ReadType \/ ReadLength \/ ReadBody \/ Parse

Next == (\E m \in Messages : Send(m)) \/ Arrive \/ Reader

Spec == Init /\ [][Next]_vars

\* What was sent arrives, and the reader reads what is there.
FairSpec == Spec /\ WF_vars(Arrive) /\ WF_vars(Reader)

-----------------------------------------------------------------------------
(* Properties                                                                *)

\* send() fills the buffer it has allocated, no more and no less, whatever
\* options are set.
BufferIsFilled(m) == Len(Packet(m)) = packet_length(m)

\* So does the fixed header of a publication whose payload is streamed behind
\* it, up to the longest packet the protocol has (four bytes of seven bits);
\* and a reader that streams it too counts the payload that is left.
HeaderFits(m) ==
    m.type = "PUBLISH" =>
        \A n \in Streamed :
            LET total == variable_header_length(m) + n
            IN  total < 268435456 =>
                    /\ 1 + Len(LengthBytes[total]) = fixed_header_length(total)
                    /\ total > MQTT_TOO_BIG =>
                         StreamedPublish(Flags(m), write_variable_header(m), total)
                           = [m |-> [m EXCEPT !.payload = <<>>], payload_len |-> n]

\* The same of a SUBACK with many results.
ResultsAreCounted(m) ==
    m.type = "SUBACK" =>
        \A n \in Streamed :
            n > MQTT_TOO_BIG =>
                StreamedSubscribeAck(write_variable_header(m) \o m.rcs, 2 + n) = [id |-> m.id, num_rcs |-> n]

\* The lengths computed before a packet is written are those that are written:
\* no message overruns the buffer allocated for it, or its header.
LengthsAgree ==
    \A i \in DOMAIN sent : 
        BufferIsFilled(sent[i]) /\ HeaderFits(sent[i]) /\ ResultsAreCounted(sent[i])

\* Messages are read as they were sent and in that order, whichever fields
\* are there, as long as the network splits packets in the fixed header only.
ReadAsSent == last.got = last.of

\* The reader never waits for bytes that no packet has.
KeepsReading == Len(sent) = MaxSent ~> Len(sent) < MaxSent
=============================================================================
