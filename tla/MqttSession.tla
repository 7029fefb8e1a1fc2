----------------------------- MODULE MqttSession -----------------------------
(***************************************************************************)
(* What the connector tells the broker and what it listens to: client      *)
(* identifier, login, last will and topics, from the stored settings and   *)
(* the hooks of the application; and what becomes of a message.  Texts are *)
(* sequences of characters.                                                *)
(***************************************************************************)
EXTENDS MqttMessages

Blank == 32
Slash == 47
Plus  == 43
Dollar == <<36>>
Word(letter) == <<letter>>    \* a word of the source, by its first letter
COMMAND == Dollar \o <<Slash>> \o Word(99)     \* $/command
REBOOT  == Dollar \o <<Slash>> \o Word(114)    \* $/reboot
STATUS  == Word(115)                           \* status
LWT     == Word(108)                           \* lwt
Capital(word) == [i \in DOMAIN word |-> IF word[i] > 96 THEN word[i] - 32 ELSE word[i]]
Below(name, word) == name \o <<Slash>> \o word

\* String::trim()
trim(s) ==
    LET kept == {i \in DOMAIN s : s[i] # Blank}
    IN  IF kept = {} THEN <<>>
        ELSE SubSeq(s, CHOOSE i \in kept : \A j \in kept : i <= j, CHOOSE i \in kept : \A j \in kept : i >= j)

-----------------------------------------------------------------------------
(* Configuration: connect() sets the identifier it starts with, lets the    *)
(* application change the configuration, and completes it.                  *)

_set_default_client_id(mac) ==
    [clientId |-> mac, channelPrefix |-> <<101>>, topicSub |-> <<>>, topicPub |-> <<>>,
     username |-> <<>>, password |-> <<>>, enableLastWill |-> TRUE, firstCapChannel |-> FALSE]

\* The hook of the MQTT module turns the will off.
OnPrepareConfiguration(config, s) ==
    [config EXCEPT !.clientId = s.MQTT_CLIENT_ID, !.channelPrefix = s.MQTT_PREFIX,
                   !.enableLastWill = FALSE, !.firstCapChannel = FALSE,
                   !.username = s.MQTT_USERNAME, !.password = s.MQTT_PASSWORD,
                   !.topicPub = s.MQTT_PREFIX \o Below(s.DEVICE_NAME, STATUS)]

\* The same with the options an application may take instead; the module's own
\* are no will, no capitals and no topic.
ApplicationHook(config, s, options) ==
    [OnPrepareConfiguration(config, s) EXCEPT
        !.enableLastWill = options.lastWill, !.firstCapChannel = options.capitals,
        !.topicSub = options.topicSub]

TopicOr(topic, default) == IF trim(topic) = <<>> THEN default ELSE trim(topic)

WillText(id) == <<0>> \o id

\* The options of the connection: a login only with a name and a password, a
\* will of QoS 1 that is retained.
ConnOpts(config) ==
    LET login == trim(config.username) # <<>> /\ trim(config.password) # <<>>
        m  == NewConnect(config.clientId)
        m1 == IF login THEN set_auth(m, trim(config.username), trim(config.password)) ELSE m
        m2 == [m1 EXCEPT !.clean_session = TRUE]
    IN  IF ~config.enableLastWill THEN m2
        ELSE [set_will(m2, config.topicLastWill, WillText(config.clientId), 1, TRUE) EXCEPT !.keepalive = 15]

ChannelOfId(config, id, word) == Below(id, word)    \* mutant

Channel(config, id, word) ==
    config.channelPrefix \o Below(id, IF config.firstCapChannel THEN Capital(word) ELSE word)

_hook_config(config, mac) ==
    LET id == IF config.clientId = <<>> THEN mac ELSE config.clientId
        done == [clientId |-> id, channelPrefix |-> config.channelPrefix,
                 topicSub |-> TopicOr(config.topicSub, Channel(config, id, COMMAND)),
                 topicPub |-> TopicOr(config.topicPub, Channel(config, id, STATUS)),
                 topicLastWill |-> Channel(config, id, LWT),
                 username |-> config.username, password |-> config.password,
                 enableLastWill |-> config.enableLastWill]
    IN  [config |-> done, connOpts |-> ConnOpts(done)]

connect(s, options, mac) ==
    _hook_config(ApplicationHook(_set_default_client_id(mac), s, options), mac)

\* The hook of the MQTT module, and the topic of the configuration.
OnSubscribe(config, s) ==
    <<s.MQTT_PREFIX \o Below(s.DEVICE_NAME, Dollar \o <<Slash, Plus>>),
      s.MQTT_PREFIX \o Below(s.DEVICE_NAME, STATUS), config.topicSub>>

\* The will taken back by a retained message on its topic, once connected.
ClearedWill(config) == [topic |-> config.topicLastWill, retain |-> TRUE]

-----------------------------------------------------------------------------
(* Messages                                                                  *)

\* The topic is taken apart at the end of the prefix and at the first slash
\* behind it, which is searched for without regard to the end of the text.
Arrives(config, topic) ==
    LET p_topic == From(topic, Len(config.channelPrefix) + 1)
        slashes == {i \in DOMAIN p_topic : p_topic[i] = Slash}
        fc      == CHOOSE i \in slashes : \A j \in slashes : i <= j
    IN  IF slashes = {} THEN [topic |-> p_topic, cmd |-> "overrun"]
        ELSE [topic |-> p_topic, cmd |-> From(p_topic, fc + 1)]

\* on_after_message_arrived() of the MQTT module.  value is what toFloat() gets
\* from the payload, in hundredths.
Effect(cmd, payload, value) ==
    CASE cmd = COMMAND /\ value # 0 -> <<"servo", value * 180>>
      [] cmd = COMMAND /\ value = 0 /\ payload \in {"A", "B", "C", "D", "E"} -> <<"strip", payload>>
      [] cmd = REBOOT -> <<"restart">>
      [] OTHER -> <<>>

\* sync_pub() writes to the topic the device listens to itself.
sync_pub(config) == [topic |-> config.topicSub, retain |-> TRUE]

\* sync_advpub() has a channel of its own for a message with a prefix, whatever
\* the prefix is.
sync_advpub(config, prefix, topic) ==
    IF prefix = <<>> THEN topic ELSE config.channelPrefix \o <<Slash>> \o config.clientId \o topic

-----------------------------------------------------------------------------
(* A broker                                                                  *)

TopicLevels(topic) ==
    FoldLeft(LAMBDA ls, c : IF c = Slash THEN Append(ls, <<>>) ELSE [ls EXCEPT ![Len(ls)] = Append(@, c)],
             <<<<>>>>, topic)

Matches(filter, topic) ==
    LET f == TopicLevels(filter)
        t == TopicLevels(topic)
    IN  Len(f) = Len(t) /\ \A i \in DOMAIN f : f[i] = <<Plus>> \/ f[i] = t[i]

\* A device whose name and identifier have no slash gets the commands sent to
\* its name, and those sent to its identifier unless the application listens
\* elsewhere; it takes them for what they are, it hears its own status unless
\* the topic loses a leading blank, and it takes none of its own messages for a
\* command, except what sync_pub() tells it to.  Of another device with the same prefix it hears nothing.  The
\* broker gets the login whole or not at all, and the will of this device.
CommandsAreUnderstood(s, options, mac, other) ==
    LET done    == connect(s, options, mac)
        config  == done.config
        hears(topic) == \E f \in ToSet(OnSubscribe(config, s)) : Matches(f, topic)
        of(name, word) == s.MQTT_PREFIX \o Below(name, word)
        got     == ReadBackAs(done.connOpts, 0)
        plain(name) == Slash \notin ToSet(name)
        both    == trim(s.MQTT_USERNAME) # <<>> /\ trim(s.MQTT_PASSWORD) # <<>>
    IN  /\ plain(s.DEVICE_NAME) =>
             \A word \in {COMMAND, REBOOT} :
                hears(of(s.DEVICE_NAME, word)) /\ Arrives(config, of(s.DEVICE_NAME, word)).cmd = word
        /\ plain(config.clientId) /\ trim(options.topicSub) = <<>> /\ ~options.capitals
             /\ Head(s.MQTT_PREFIX \o config.clientId) # Blank =>
             hears(of(config.clientId, COMMAND))
               /\ Arrives(config, of(config.clientId, COMMAND)).cmd = COMMAND
               /\ Arrives(config, sync_pub(config).topic).cmd = COMMAND
        /\ Plus \notin ToSet(config.topicSub) => hears(sync_pub(config).topic)
        /\ Head(config.topicPub) = Head(s.MQTT_PREFIX \o Below(s.DEVICE_NAME, STATUS)) => hears(config.topicPub)
        /\ \A topic \in {of(s.DEVICE_NAME, STATUS), config.topicLastWill,
                         sync_advpub(config, Word(1), Below(<<>>, STATUS))} :
              Effect(Arrives(config, topic).cmd, "A", 0) = <<>>
        /\ other \notin {s.DEVICE_NAME, config.clientId} /\ trim(options.topicSub) = <<>> =>
             \A word \in {COMMAND, REBOOT, STATUS} : ~hears(of(other, word))
        /\ got.clientid = config.clientId /\ got.clean_session
        /\ got.username = (IF both THEN trim(s.MQTT_USERNAME) ELSE <<>>)
        /\ got.password = (IF both THEN trim(s.MQTT_PASSWORD) ELSE <<>>)
        /\ got.will_topic = (IF options.lastWill THEN ClearedWill(config).topic ELSE <<>>)
        /\ options.lastWill => got.will_qos = 1 /\ got.will_retain
=============================================================================
