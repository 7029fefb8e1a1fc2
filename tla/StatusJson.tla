----------------------------- MODULE StatusJson -----------------------------
(***************************************************************************)
(* The document of a status.  It is made once, in two buffers of a fixed   *)
(* size whose memory is never given back, and every publication assigns    *)
(* all of its fields again: a number takes the place of the one before, a  *)
(* string is copied, until no copy fits any more.  How long the settings    *)
(* are decides whether the strings fit that are copied at every boot.      *)
(***************************************************************************)
EXTENDS Integers, SequencesExt

CONSTANTS
    Capacity,      \* of the buffer behind each of the objects "info" and "d"
    NodeSize,      \* bytes of a node of an object: a key, a value and a link
    ObjectSize,    \* bytes of an object
    TextCapacity,  \* jsonStrbuffer
    Constructed,   \* the fields init_config() sets
    Configured,    \* those _hook_config() sets
    Assigned,      \* those doPublish() and its hooks set, in order
    MacLength,     \* of a MAC address as text
    StatusLengths, \* lengths of the settings a status holds
    SettingsRoom   \* characters of a text that are left to the settings

\* A field has an object, a key, the most characters it has in the text, and,
\* if it is a copied string, its length or the setting it is a copy of.
StatusAssumption ==
    /\ NodeSize \in Nat /\ ObjectSize \in Nat /\ TextCapacity \in Nat
    /\ MacLength \in Nat /\ SettingsRoom \in Nat /\ Capacity \in [{"info", "d"} -> Nat]
    /\ StatusLengths \subseteq [name : Nat, client : Nat, prefix : Nat]

VARIABLES
    lengths,      \* of the settings of this device: DEVICE_NAME, MQTT_CLIENT_ID, MQTT_PREFIX
    json,         \* bytes used of each buffer, and the fields of each object
    reading,      \* what the numbers of this publication are
    status        \* the fields published last, and what of their text fits

statusVars == <<lengths, json, reading, status>>

-----------------------------------------------------------------------------
(* ArduinoJson                                                               *)

\* StaticJsonBufferBase::alloc(): from the next word on.
Aligned(n) == ((n + 3) \div 4) * 4
CanAlloc(j, o, n) == Aligned(j.used[o]) + n <= Capacity[o]
Alloc(j, o, n) ==
    [j EXCEPT !.used[o] = Aligned(@) + (IF CanAlloc(j, o, n) THEN n ELSE 0)]

\* Position of a key, 0 if it is not there.
findKey(j, f) ==
    LET at == {i \in DOMAIN j.fields[f.object] : j.fields[f.object][i].key = f.key}
    IN  IF at = {} THEN 0 ELSE CHOOSE i \in at : TRUE

\* List::add(): a key with a value that is not defined yet.
WithKey(j, f) ==
    IF findKey(j, f) # 0 THEN j
    ELSE LET k == Alloc(j, f.object, NodeSize)
         IN  IF ~CanAlloc(j, f.object, NodeSize) THEN k
             ELSE [k EXCEPT !.fields[f.object] = Append(@, [key |-> f.key, value |-> "undefined"])]

\* Without a client id of its own the device has its MAC address.
SettingLength(setting) ==
    IF setting = "client" /\ lengths.client = 0 THEN MacLength ELSE lengths[setting]

IsSetting(f) == "setting" \in DOMAIN f
Copied(f) == IsSetting(f) \/ "length" \in DOMAIN f
LengthOf(f) == IF IsSetting(f) THEN SettingLength(f.setting) ELSE f.length

\* ValueSaver::save(): a string goes to the buffer first.
SaveUnchecked(j, f, value) ==    \* mutant: without a look at what duplicate() returned
    LET o == f.object
        saved == IF Copied(f) THEN Alloc(j, o, LengthOf(f) + 1) ELSE j
        fits  == ~Copied(f) \/ CanAlloc(j, o, LengthOf(f) + 1)
    IN  [saved EXCEPT !.fields[o][findKey(j, f)].value = IF fits THEN value ELSE "null"]

Save(j, f, value) ==
    LET o == f.object
        saved == IF Copied(f) THEN Alloc(j, o, LengthOf(f) + 1) ELSE j
        fits  == ~Copied(f) \/ CanAlloc(j, o, LengthOf(f) + 1)
    IN  IF fits THEN [saved EXCEPT !.fields[o][findKey(j, f)].value = value] ELSE saved

\* JsonObject::set_impl()
set(j, f, value) ==
    LET k == WithKey(j, f)
    IN  IF findKey(k, f) = 0 THEN k ELSE Save(k, f, value)

\* A string says the same whenever it is assigned, a number what is read.
ValueOf(f, n) == IF f.number THEN n ELSE "text"

SetAll(j, fields, n) == FoldLeft(LAMBDA k, f : set(k, f, ValueOf(f, n)), j, fields)

\* printTo(): what goes beyond the buffer is not written.  The braces of the
\* three objects and the keys of two are around the fields.
Frame == 16
TextLength(fields) ==
    Frame + MapThenSumSet(LAMBDA f : f.width + (IF IsSetting(f) THEN LengthOf(f) ELSE 0), fields)

-----------------------------------------------------------------------------
(* MqttConnector                                                             *)

\* The root and its two fields are in the buffer of "info"; "d" has its own.
Created ==
    [used |-> [info |-> 2 * ObjectSize + 2 * NodeSize, d |-> ObjectSize],
     fields |-> [info |-> <<>>, d |-> <<>>]]

init_config == SetAll(Created, Constructed, 0)

\* connect() calls it once, before the first publication.
hook_config(j) == SetAll(j, Configured, 0)

StatusInit ==
    /\ lengths \in StatusLengths
    /\ json = hook_config(init_config)
    /\ reading = 0
    /\ status = [fields |-> [info |-> <<>>, d |-> <<>>], whole |-> TRUE]

\* What is measured, and the counters, differ from one publication to the next.
doPublish ==
    /\ reading' = 1 - reading
    /\ json' = SetAll(json, Assigned, reading')
    /\ status' = [fields |-> json'.fields,
                  whole |-> TextLength(Range(Constructed \o Configured \o Assigned)) < TextCapacity]
    /\ UNCHANGED lengths

-----------------------------------------------------------------------------
(* Properties                                                                *)

HasField(f, value) ==
    \E i \in DOMAIN status.fields[f.object] :
        status.fields[f.object][i].key = f.key /\ status.fields[f.object][i].value = value

\* The client id is in the text twice.
SettingsFit ==
    2 * SettingLength("client") + SettingLength("prefix") + SettingLength("name") <= SettingsRoom

\* However often the device has published, also when its buffers have long
\* been full and whatever its settings: a status has the numbers that were read
\* for it.  It has every field, and its text is not cut off, while the client id
\* (twice), the prefix and the name stay within SettingsRoom.
StatusIsComplete ==
    status.fields.d # <<>> =>
      /\ \A f \in Range(Assigned) : f.number => HasField(f, reading)
      /\ SettingsFit =>
           /\ status.whole
           /\ \A f \in Range(Constructed \o Configured) : HasField(f, ValueOf(f, 0))
           /\ \A f \in Range(Assigned) : HasField(f, ValueOf(f, reading))
=============================================================================
