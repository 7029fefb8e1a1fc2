---------------------------- MODULE MqttSettings ----------------------------
(***************************************************************************)
(* The settings MqttModule keeps in NVS: eight keys, written one after the *)
(* other by the handler of POST /api/mqtt while loopTask may restart the   *)
(* chip, and read back, with two conversions, when the device boots.       *)
(*                                                                         *)
(* A form stands for everything a client enters; a key holds the form its  *)
(* value comes from.  Only two values matter in themselves, the period and *)
(* the password, because they are not used as they were entered.           *)
(***************************************************************************)
EXTENDS Naturals, Sequences

CONSTANTS
    Rates,     \* the values of publishRateSecond a client may enter
    MaxForms,  \* bound on the forms submitted
    Second     \* a second in milliseconds: 1000

ASSUME SettingsAssumption ==
    Rates \subseteq Nat /\ MaxForms \in Nat /\ Second \in Nat \ {0}

VARIABLES
    nvs,       \* the preferences namespace "db-conf-mqtt"
    ram,       \* the members MQTT_HOST, ... DEVICE_NAME
    phase,     \* "off" (or booting), "portal" or "run"
    handler,   \* the next put of the handler; 0 when no form is being
               \* saved, Answer when all keys are written
    forms,     \* forms submitted so far
    acked      \* the number of the last form confirmed, 0 for none (history)

settingsVars == <<nvs, ram, phase, handler, forms, acked>>

\* In the order the handler writes them.
Keys == <<"MQTT_HOST", "MQTT_USERNAME", "MQTT_PASSWORD", "MQTT_CLIENT_ID",
          "MQTT_PREFIX", "MQTT_PORT", "PUBLISH_EVERY_S", "DEVICE_NAME">>

Values == [no : 0 .. MaxForms, password : {"solid", "spaced", "plus"},
           period : Nat]

\* What a missing preference reads as: the empty string, or 0.
Missing == [no |-> 0, password |-> "solid", period |-> 0]

Settings == [DOMAIN Keys -> Values]

Answer == Len(Keys) + 1

SettingsTypeOK ==
    /\ nvs \in Settings /\ ram \in Settings
    /\ phase \in {"off", "portal", "run"}
    /\ handler \in 0 .. Answer
    /\ forms \in 0 .. MaxForms /\ acked \in 0 .. MaxForms

SettingsInit ==
    /\ nvs = [k \in DOMAIN Keys |-> Missing]
    /\ ram = [k \in DOMAIN Keys |-> Missing]
    /\ phase = "off" /\ handler = 0
    /\ forms = 0 /\ acked = 0

-----------------------------------------------------------------------------
\* MQTT_PASSWORD.replace(" ", "+")
Plus(password) == IF password = "spaced" THEN "plus" ELSE password

\* if (PUBLISH_EVERY_S < 1000) PUBLISH_EVERY_S *= 1000
MillisDropped(period) == period    \* mutant
Millis(period) == IF period < Second THEN period * Second ELSE period

Loaded(key, value) ==
    CASE key = "MQTT_PASSWORD"   -> [value EXCEPT !.password = Plus(@)]
      [] key = "PUBLISH_EVERY_S" -> [value EXCEPT !.period = Millis(@)]
      [] OTHER                   -> value

\* MqttModule::config(), in either mode.
config ==
    /\ phase = "off"
    /\ ram' = [k \in DOMAIN Keys |-> Loaded(Keys[k], nvs[k])]
    /\ phase' \in {"portal", "run"}
    /\ UNCHANGED <<nvs, handler, forms, acked>>

\* The handler takes the form into RAM ...
Submit(password, period) ==
    /\ phase = "portal" /\ handler = 0 /\ forms < MaxForms
    /\ forms' = forms + 1
    /\ ram' = [k \in DOMAIN Keys |->
                  [no |-> forms', password |-> password, period |-> period]]
    /\ handler' = 1
    /\ UNCHANGED <<nvs, phase, acked>>

\* Mutant: the last key is forgotten.
PutAllButLast ==
    /\ handler \in DOMAIN Keys
    /\ nvs' = [nvs EXCEPT ![handler] = ram[handler]]
    /\ handler' = IF handler + 1 = Len(Keys) THEN Answer ELSE handler + 1
    /\ acked' = 0
    /\ UNCHANGED <<ram, phase, forms>>

\* ... writes one key after the other ...
Put ==
    /\ handler \in DOMAIN Keys
    /\ nvs' = [nvs EXCEPT ![handler] = ram[handler]]
    /\ handler' = handler + 1
    /\ acked' = 0
    /\ UNCHANGED <<ram, phase, forms>>

\* ... and answers.
Reply ==
    /\ handler = Answer
    /\ acked' = ram[1].no /\ handler' = 0
    /\ UNCHANGED <<nvs, ram, phase, forms>>

\* Any restart or power failure, with the handler wherever it is.
Restart ==
    /\ phase # "off"
    /\ phase' = "off" /\ handler' = 0
    /\ ram' = [k \in DOMAIN Keys |-> Missing]
    /\ UNCHANGED <<nvs, forms, acked>>

SettingsNext ==
    \/ config \/ Put \/ Reply \/ Restart
    \/ \E password \in {"solid", "spaced"}, period \in Rates :
          Submit(password, period)

SettingsSpec == SettingsInit /\ [][SettingsNext]_settingsVars

-----------------------------------------------------------------------------
(* Properties                                                                *)

\* However many saves a restart has cut short, what is in flash was written
\* in the order of the keys: no key is newer than one before it.
WrittenInOrder ==
    \A i, j \in DOMAIN Keys : i < j => nvs[i].no >= nvs[j].no

\* The settings a client was told are saved are in flash, all of them and of
\* that form only, until a later save begins to overwrite them.
AckedIsWhole ==
    acked # 0 => \A k \in DOMAIN Keys : nvs[k].no = acked

\* Run mode uses what is in flash: it publishes every so many milliseconds as
\* there are seconds in the form, for a period under a thousand seconds, and
\* has every other setting from the form its key holds.
RunsOnSaved ==
    phase = "run" =>
        \A k \in DOMAIN Keys :
            /\ ram[k].no = nvs[k].no
            /\ Keys[k] = "PUBLISH_EVERY_S" /\ nvs[k].period < Second =>
                  ram[k].period = nvs[k].period * Second

\* The form calls the period "Publish Eevery Second".
PeriodIsInSeconds ==
    phase = "run" =>
        \A k \in DOMAIN Keys :
            Keys[k] = "PUBLISH_EVERY_S" =>
                ram[k].period = nvs[k].period * Second

\* How far a save has come: the keys before the next put hold the form being
\* saved, which is the newest there is.
SaveProgress ==
    /\ \A k \in DOMAIN Keys : nvs[k].no <= forms
    /\ handler # 0 =>
          /\ phase = "portal"
          /\ \A k \in DOMAIN Keys : ram[k].no = forms
          /\ \A k \in DOMAIN Keys : k < handler => nvs[k].no = forms
    /\ handler > 1 => acked = 0

SettingsInv == SettingsTypeOK /\ SaveProgress /\ WrittenInOrder /\ AckedIsWhole /\ RunsOnSaved
=============================================================================
