---------------------------- MODULE MCMqttPacket ----------------------------
EXTENDS MqttPacket

A    == <<97>>
Long == [i \in 1 .. 130 |-> 98]

Connects ==
    [type : {"CONNECT"}, clean_session : {TRUE}, keepalive : {300},
     clientid : {A}, will_topic : {<<>>, A}, will_message : {<<>>, A},
     will_qos : {0, 2}, will_retain : BOOLEAN,
     username : {<<>>, A}, password : {<<>>, Long}]

\* A will has its attributes only together with its topic; it is retained and
\* has a QoS when it has a message, which shows two values of each flag.  Every
\* login goes with such a will, the others with a whole login.
WillsAreWhole(m) ==
    /\ m.will_topic = <<>> => m.will_message = <<>>
    /\ m.will_retain <=> m.will_message # <<>>
    /\ m.will_qos = 0 <=> m.will_message = <<>>
    /\ m.will_message = <<>> => m.username # <<>> /\ m.password # <<>>

Publishes ==
    [type : {"PUBLISH"}, dup : {FALSE}, qos : 0 .. 2, retain : BOOLEAN,
     topic : {A}, id : {0, 515}, payload : {<<>>, A, Long}]

\* Only a publication with QoS has an identifier; one with payload A is
\* retained.
PublishIsWhole(m) ==
    /\ (m.qos = 0) <=> (m.id = 0)
    /\ m.retain <=> m.payload = A

Subscribes ==
    [type : {"SUBSCRIBE", "UNSUBSCRIBE"}, id : {515},
     topics : {<<[topic |-> A, qos |-> 0]>>,
               <<[topic |-> A, qos |-> 0], [topic |-> Long, qos |-> 0]>>}]

FromBroker ==
    {m \in Publishes : PublishIsWhole(m)}
    \cup [type : {"CONNACK"}, session_present : {TRUE}, rc : {5}]
    \cup [type : {"PUBACK", "PUBREC", "PUBREL", "PUBCOMP", "UNSUBACK"},
          id : {515}]
    \cup [type : {"SUBACK"}, id : {515}, rcs : {<<0>>, <<0, 128>>}]
    \cup [type : {"PINGRESP"}]

ToBroker ==
    {m \in Connects : WillsAreWhole(m)} \cup Subscribes
    \cup [type : {"PINGREQ", "DISCONNECT"}]

AllMessages == FromBroker \cup ToBroker

Acks == {m \in FromBroker : m.type \in {"PUBACK", "PINGRESP"}}

\* Around each threshold, for the variable headers of 3 and 5 bytes.
Boundaries ==
    {n - header : n \in {127, 128, 16383, 16384, 2097151, 2097152, 268435455},
                  header \in {3, 5}}
=============================================================================
