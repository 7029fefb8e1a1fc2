----------------------------- MODULE MqttProofs -----------------------------
(***************************************************************************)
(* Proofs about MQTT on the device, two specifications that share nothing: *)
(* saves cut short by restarts leave the settings in the order they were   *)
(* written, and a confirmed form whole, for every set of periods and every *)
(* number of forms; and what the connector reports is of the connection of *)
(* the moment, for every interval, quiet time and number of messages.      *)
(***************************************************************************)
EXTENDS MqttSettings, MqttConnector, TLAPS

-----------------------------------------------------------------------------
(* The settings                                                             *)

\* There are eight keys.
LEMMA EightKeys == Len(Keys) = 8 /\ DOMAIN Keys = 1 .. 8
  BY DEF Keys

\* What config() makes of a value is a value of the same form, with the
\* period in milliseconds if it is the period and under a thousand.
LEMMA LoadedValue ==
    ASSUME NEW key, NEW value \in Values
    PROVE  /\ Loaded(key, value) \in Values
           /\ Loaded(key, value).no = value.no
           /\ key = "PUBLISH_EVERY_S" /\ value.period < Second =>
                 Loaded(key, value).period = value.period * Second
  <1>1. CASE key = "MQTT_PASSWORD"
    BY <1>1 DEF Loaded, Values, Plus
  <1>2. CASE key = "PUBLISH_EVERY_S"
    <2>1. Loaded(key, value) = [value EXCEPT !.period = Millis(@)]
      BY <1>2 DEF Loaded
    <2>2. Millis(value.period) \in Nat
      BY SettingsAssumption DEF Millis, Values
    <2>3. value.period < Second => Millis(value.period) = value.period * Second
      BY DEF Millis
    <2> QED  BY <1>2, <2>1, <2>2, <2>3 DEF Values
  <1>3. CASE key # "MQTT_PASSWORD" /\ key # "PUBLISH_EVERY_S"
    BY <1>3 DEF Loaded
  <1> QED  BY <1>1, <1>2, <1>3

\* A device fresh from the factory.
LEMMA InitSettings == SettingsInit => SettingsInv
  <1> SUFFICES ASSUME SettingsInit  PROVE SettingsInv
    OBVIOUS
  <1>1. SettingsTypeOK
    BY EightKeys, SettingsAssumption
       DEF SettingsInit, SettingsTypeOK, Settings, Values, Missing, Answer
  <1>2. SaveProgress /\ WrittenInOrder /\ AckedIsWhole /\ RunsOnSaved
    BY EightKeys
       DEF SettingsInit, Missing, SaveProgress, WrittenInOrder, AckedIsWhole, RunsOnSaved
  <1> QED  BY <1>1, <1>2 DEF SettingsInv

\* Reading the settings changes nothing in flash.
LEMMA ConfigSettings == SettingsInv /\ config => SettingsInv'
  <1> SUFFICES ASSUME SettingsInv, config  PROVE SettingsInv'
    OBVIOUS
  <1> USE DEF SettingsInv, config
  <1>1. \A k \in DOMAIN Keys : nvs[k] \in Values
    BY DEF SettingsTypeOK, Settings
  <1>2. \A k \in DOMAIN Keys : ram'[k] = Loaded(Keys[k], nvs[k])
    OBVIOUS
  <1>3. SettingsTypeOK'
    <2>1. ram' \in Settings
      BY <1>1, LoadedValue DEF Settings
    <2> QED  BY <2>1 DEF SettingsTypeOK
  <1>4. SaveProgress' /\ WrittenInOrder' /\ AckedIsWhole'
    BY EightKeys DEF SettingsTypeOK, SaveProgress, WrittenInOrder, AckedIsWhole, Answer
  <1>5. RunsOnSaved'
    BY <1>1, <1>2, LoadedValue DEF RunsOnSaved
  <1> QED  BY <1>3, <1>4, <1>5

\* A new form is newer than all that is in flash.
LEMMA SubmitSettings ==
    ASSUME SettingsInv, NEW password \in {"solid", "spaced"}, NEW period \in Rates,
           Submit(password, period)
    PROVE  SettingsInv'
  <1> USE DEF SettingsInv, Submit
  <1>1. SettingsTypeOK'
    <2>1. forms' \in 0 .. MaxForms
      BY SettingsAssumption DEF SettingsTypeOK
    <2>2. [no |-> forms', password |-> password, period |-> period] \in Values
      BY <2>1, SettingsAssumption DEF Values
    <2>3. ram' \in Settings
      BY <2>2 DEF Settings
    <2> QED  BY <2>1, <2>3, EightKeys DEF SettingsTypeOK, Answer
  <1>2. SaveProgress'
    BY EightKeys DEF SettingsTypeOK, Settings, Values, SaveProgress
  <1>3. WrittenInOrder' /\ AckedIsWhole' /\ RunsOnSaved'
    BY DEF WrittenInOrder, AckedIsWhole, RunsOnSaved
  <1> QED  BY <1>1, <1>2, <1>3

\* A put makes its key the newest, as those before it are already, while
\* those after it are no newer than that.
LEMMA PutSettings == SettingsInv /\ Put => SettingsInv'
  <1> SUFFICES ASSUME SettingsInv, Put  PROVE SettingsInv'
    OBVIOUS
  <1> USE DEF SettingsInv, Put
  <1>1. handler \in 1 .. 8 /\ phase = "portal"
    BY EightKeys DEF SaveProgress
  <1>2. \A k \in 1 .. 8 : nvs'[k].no = IF k <= handler THEN forms ELSE nvs[k].no
    <2>1. nvs' = [nvs EXCEPT ![handler] = ram[handler]] /\ DOMAIN nvs = 1 .. 8
      BY EightKeys DEF SettingsTypeOK, Settings
    <2>2. \A k \in 1 .. 8 : nvs'[k] = IF k = handler THEN ram[k] ELSE nvs[k]
      BY <1>1, <2>1
    <2> QED  BY <1>1, <2>2, EightKeys DEF SaveProgress
  <1>3. SettingsTypeOK'
    <2>1. nvs' \in Settings
      BY DEF SettingsTypeOK, Settings
    <2> QED  BY <1>1, <2>1, EightKeys, SettingsAssumption DEF SettingsTypeOK, Answer
  <1>4. \A k \in 1 .. 8 : nvs[k].no <= forms /\ nvs[k].no \in Nat
    BY EightKeys DEF SaveProgress, SettingsTypeOK, Settings, Values
  <1>5. SaveProgress'
    BY <1>1, <1>2, <1>4, EightKeys DEF SaveProgress, SettingsTypeOK
  <1>6. WrittenInOrder'
    BY <1>1, <1>2, <1>4, EightKeys DEF WrittenInOrder, SettingsTypeOK
  <1>7. AckedIsWhole' /\ RunsOnSaved'
    BY <1>1 DEF AckedIsWhole, RunsOnSaved
  <1> QED  BY <1>3, <1>5, <1>6, <1>7

\* When the handler answers, every key holds its form.
LEMMA ReplySettings == SettingsInv /\ Reply => SettingsInv'
  <1> SUFFICES ASSUME SettingsInv, Reply  PROVE SettingsInv'
    OBVIOUS
  <1> USE DEF SettingsInv, Reply
  <1>1. ram[1].no = forms /\ \A k \in DOMAIN Keys : nvs[k].no = forms
    BY EightKeys DEF SaveProgress, Answer
  <1>2. SettingsTypeOK' /\ SaveProgress'
    BY <1>1, EightKeys DEF SettingsTypeOK, SaveProgress, Answer
  <1>3. WrittenInOrder' /\ AckedIsWhole' /\ RunsOnSaved'
    BY <1>1 DEF WrittenInOrder, AckedIsWhole, RunsOnSaved
  <1> QED  BY <1>2, <1>3

\* A restart takes the handler with it and leaves the flash as it is.
LEMMA RestartSettings == SettingsInv /\ Restart => SettingsInv'
  <1> SUFFICES ASSUME SettingsInv, Restart  PROVE SettingsInv'
    OBVIOUS
  <1> USE DEF SettingsInv, Restart
  <1>1. SettingsTypeOK'
    BY EightKeys, SettingsAssumption DEF SettingsTypeOK, Settings, Values, Missing, Answer
  <1>2. SaveProgress' /\ WrittenInOrder' /\ AckedIsWhole' /\ RunsOnSaved'
    BY DEF SaveProgress, WrittenInOrder, AckedIsWhole, RunsOnSaved
  <1> QED  BY <1>1, <1>2

\* SettingsInv holds in every reachable state.
THEOREM SettingsInvariance == SettingsSpec => []SettingsInv
  <1>1. SettingsInv /\ [SettingsNext]_settingsVars => SettingsInv'
    <2> SUFFICES ASSUME SettingsInv, [SettingsNext]_settingsVars  PROVE SettingsInv'
      OBVIOUS
    <2>1. CASE config \/ Put \/ Reply \/ Restart
      BY <2>1, ConfigSettings, PutSettings, ReplySettings, RestartSettings
    <2>2. CASE \E password \in {"solid", "spaced"}, period \in Rates :
                  Submit(password, period)
      BY <2>2, SubmitSettings
    <2>3. CASE UNCHANGED settingsVars
      BY <2>3 DEF settingsVars, SettingsInv, SettingsTypeOK, SaveProgress, WrittenInOrder,
                  AckedIsWhole, RunsOnSaved
    <2> QED  BY <2>1, <2>2, <2>3 DEF SettingsNext
  <1> QED  BY InitSettings, <1>1, PTL DEF SettingsSpec

\* No key is ever newer than one written before it.
THEOREM KeysInOrder == SettingsSpec => []WrittenInOrder
  <1>1. SettingsInv => WrittenInOrder
    BY DEF SettingsInv
  <1> QED  BY <1>1, SettingsInvariance, PTL

\* A confirmed form is in flash as a whole.
THEOREM ConfirmedIsWhole == SettingsSpec => []AckedIsWhole
  <1>1. SettingsInv => AckedIsWhole
    BY DEF SettingsInv
  <1> QED  BY <1>1, SettingsInvariance, PTL

\* Run mode uses the settings in flash, and the period in seconds as long as
\* it is under a thousand.
THEOREM RunUsesSaved == SettingsSpec => []RunsOnSaved
  <1>1. SettingsInv => RunsOnSaved
    BY DEF SettingsInv
  <1> QED  BY <1>1, SettingsInvariance, PTL

-----------------------------------------------------------------------------
(* The connector: IInv ties the count and what was reported to the          *)
(* connection of the moment.                                                *)

\* The connector is started with no connection and no count.
LEMMA InitIInv == Init => IInv
  <1> SUFFICES ASSUME Init  PROVE IInv
    OBVIOUS
  <1>1. SessionType
    BY DEF Init, SessionType
  <1>2. CountType
    BY ConnectorAssumption DEF Init, CountType
  <1>3. Progress /\ Ties
    BY DEF Init, Progress, Ties
  <1> QED  BY <1>1, <1>2, <1>3 DEF IInv

\* Setting a connection up: a connection starts with a count of 0, which is
\* what makes the one subscribe() adds the count of this connection.
LEMMA ConnectSteps ==
    ASSUME IInv, Connect \/ Subscribed \/ SubscribeFailed \/ Greet
    PROVE  IInv'
  <1> USE DEF IInv, conn
  <1>1. CASE Connect
    <2>1. SessionType'
      BY <1>1 DEF Connect, SessionType, Progress
    <2>2. CountType'
      BY <1>1, ConnectorAssumption DEF Connect, CountType
    <2>3. Progress'
      BY <1>1 DEF Connect, SessionType, Progress, Ties
    <2>4. Ties'
      BY <1>1 DEF Connect, SessionType, Progress, Ties
    <2> QED  BY <2>1, <2>2, <2>3, <2>4
  <1>2. CASE Subscribed
    <2>1. SessionType'
      BY <1>2 DEF Subscribed, SessionType, Progress
    <2>2. CountType'
      BY <1>2, ConnectorAssumption DEF Subscribed, CountType
    <2>3. Progress'
      BY <1>2 DEF Subscribed, SessionType, Progress, Ties
    <2>4. Ties'
      BY <1>2 DEF Subscribed, SessionType, Progress, Ties
    <2> QED  BY <2>1, <2>2, <2>3, <2>4
  <1>3. CASE SubscribeFailed
    <2>1. SessionType' /\ Progress' /\ Ties'
      BY <1>3 DEF SubscribeFailed, SessionType, Progress, Ties
    <2>2. CountType'
      BY <1>3, ConnectorAssumption DEF SubscribeFailed, CountType
    <2> QED  BY <2>1, <2>2
  <1>4. CASE Greet
    <2>1. CASE Publish(TRUE)
      <3>1. SessionType' /\ Progress' /\ Ties'
        BY <1>4, <2>1 DEF Greet, Publish, Publishes, SessionType, Progress, Ties
      <3>2. CountType'
        BY <1>4, <2>1, ConnectorAssumption DEF Greet, Publish, CountType
      <3> QED  BY <3>1, <3>2
    <2>2. CASE Skip(TRUE)
      BY <1>4, <2>2 DEF Greet, Skip, SessionType, CountType, Progress, Ties
    <2> QED  BY <1>4, <2>1, <2>2 DEF Greet, doPublish
  <1> QED  BY <1>1, <1>2, <1>3, <1>4

\* The main loop: a status adds nothing to "sent" but the count.
LEMMA LoopSteps ==
    ASSUME IInv,
           LoopConnected \/ LoopPublish \/ LoopReconnect \/ ReadSubscribing
           \/ set_force_publish_flag
    PROVE  IInv'
  <1> USE DEF IInv, conn
  <1>1. CASE LoopConnected
    <2>1. SessionType' /\ Progress' /\ Ties'
      BY <1>1 DEF LoopConnected, Read, SessionType, Progress, Ties
    <2>2. CountType'
      BY <1>1, ConnectorAssumption DEF LoopConnected, Read, CountType
    <2> QED  BY <2>1, <2>2
  <1>2. CASE LoopPublish
    <2>1. CASE Publish(FALSE)
      <3>1. SessionType' /\ Progress' /\ Ties'
        BY <1>2, <2>1 DEF LoopPublish, Publish, Publishes, SessionType, Progress, Ties
      <3>2. CountType'
        BY <1>2, <2>1, ConnectorAssumption DEF LoopPublish, Publish, CountType
      <3> QED  BY <3>1, <3>2
    <2>2. CASE Skip(FALSE)
      BY <1>2, <2>2 DEF LoopPublish, Skip, SessionType, CountType, Progress, Ties
    <2> QED  BY <1>2, <2>1, <2>2 DEF LoopPublish, doPublish
  <1>3. CASE LoopReconnect
    <2>1. SessionType' /\ Progress' /\ Ties'
      BY <1>3 DEF LoopReconnect, SessionType, Progress, Ties
    <2>2. CountType'
      BY <1>3, ConnectorAssumption DEF LoopReconnect, CountType
    <2> QED  BY <2>1, <2>2
  <1>4. CASE ReadSubscribing
    <2>1. SessionType' /\ Progress' /\ Ties'
      BY <1>4 DEF ReadSubscribing, Read, SessionType, Progress, Ties
    <2>2. CountType'
      BY <1>4, ConnectorAssumption DEF ReadSubscribing, Read, CountType
    <2> QED  BY <2>1, <2>2
  <1>5. CASE set_force_publish_flag
    <2>1. SessionType' /\ Progress' /\ Ties'
      BY <1>5 DEF set_force_publish_flag, SessionType, Progress, Ties
    <2>2. CountType'
      BY <1>5, ConnectorAssumption DEF set_force_publish_flag, CountType
    <2> QED  BY <2>1, <2>2
  <1> QED  BY <1>1, <1>2, <1>3, <1>4, <1>5

\* The broker, the network and the clock: a connection that breaks takes the
\* subscription with it and leaves the count stale, which nothing reports.
LEMMA EnvironmentSteps ==
    ASSUME IInv, BrokerSubscribes \/ Message \/ LinkLost \/ Tick
    PROVE  IInv'
  <1> USE DEF IInv, conn
  <1>1. CASE BrokerSubscribes
    <2>1. SessionType' /\ Progress' /\ Ties'
      BY <1>1 DEF BrokerSubscribes, SessionType, Progress, Ties
    <2>2. CountType'
      BY <1>1, ConnectorAssumption DEF BrokerSubscribes, CountType
    <2> QED  BY <2>1, <2>2
  <1>2. CASE Message
    <2>1. SessionType' /\ Progress' /\ Ties'
      BY <1>2 DEF Message, SessionType, Progress, Ties
    <2>2. CountType'
      BY <1>2, ConnectorAssumption DEF Message, CountType
    <2> QED  BY <2>1, <2>2
  <1>3. CASE LinkLost
    <2>1. SessionType' /\ Progress' /\ Ties'
      BY <1>3 DEF LinkLost, SessionType, Progress, Ties
    <2>2. CountType'
      BY <1>3, ConnectorAssumption DEF LinkLost, CountType
    <2> QED  BY <2>1, <2>2
  <1>4. CASE Tick
    <2>1. SessionType' /\ Progress' /\ Ties'
      BY <1>4 DEF Tick, SessionType, Progress, Ties
    <2>2. CountType'
      BY <1>4, ConnectorAssumption DEF Tick, CountType
    <2> QED  BY <2>1, <2>2
  <1> QED  BY <1>1, <1>2, <1>3, <1>4

\* IInv holds in every reachable state.
THEOREM Invariance == Spec => []IInv
  <1>1. IInv /\ [Next]_vars => IInv'
    <2> SUFFICES ASSUME IInv, [Next]_vars  PROVE IInv'
      OBVIOUS
    <2>1. CASE Connector
      BY <2>1, ConnectSteps, LoopSteps DEF Connector
    <2>2. CASE SubscribeFailed \/ ReadSubscribing \/ set_force_publish_flag
      BY <2>2, ConnectSteps, LoopSteps
    <2>3. CASE BrokerSubscribes \/ Message \/ LinkLost \/ Tick
      BY <2>3, EnvironmentSteps
    <2>4. CASE UNCHANGED vars
      BY <2>4 DEF vars, conn, IInv, SessionType, CountType, Progress, Ties
    <2> QED  BY <2>1, <2>2, <2>3, <2>4 DEF Next
  <1> QED  BY InitIInv, <1>1, PTL DEF Spec

\* Every variable keeps its type; in particular the count never exceeds 1,
\* however many connections there have been.
THEOREM TypeCorrect == Spec => []TypeOK
  <1>1. IInv => TypeOK
    BY DEF IInv, TypeOK
  <1> QED  BY <1>1, Invariance, PTL

\* The count is that of the connection that is up.
THEOREM CountIsFresh == Spec => []CountOfSession
  <1>1. IInv => CountOfSession
    BY DEF IInv, Ties, CountOfSession
  <1> QED  BY <1>1, Invariance, PTL

\* What a connection reported of its subscription is true, and one thing.
THEOREM ReportsAreTrue == Spec => []StatusIsTrue
  <1>1. IInv => StatusIsTrue
    BY DEF IInv, SessionType, Ties, StatusIsTrue
  <1> QED  BY <1>1, Invariance, PTL
=============================================================================
