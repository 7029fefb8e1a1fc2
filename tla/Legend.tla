------------------------------- MODULE Legend -------------------------------
(***************************************************************************)
(* The life of the device between two power cycles: the boot decision of   *)
(* CMMC_Legend, its configuration portal, the WiFi credentials WiFiModule  *)
(* keeps in NVS, the push button, and the run mode.                        *)
(*                                                                         *)
(* Two tasks run concurrently in the portal: loopTask, which executes      *)
(* setup() and loop() of main.cpp and waits in init_network(), and the     *)
(* async_tcp task, which executes the web handlers one at a time.  They    *)
(* share the flash, the mount state of SPIFFS and stopFlag, and either of  *)
(* them may restart the chip while the other is in the middle of a         *)
(* handler.                                                                *)
(***************************************************************************)
EXTENDS Naturals

CONSTANTS
    Creds,      \* the credentials a client may submit; one stands for an
                \* ssid together with its password
    NoCred,     \* the empty string a missing preference reads as
    MaxOutages  \* bound on the power failures of a behaviour

ASSUME CredsAssumption   == NoCred \notin Creds
ASSUME OutagesAssumption == MaxOutages \in Nat

VARIABLES
    \* what survives a restart
    spiffs,     \* the SPIFFS partition: "ok", or "torn" by a partial image
    enabled,    \* the file /enabled exists
    nvs,        \* the preferences namespace "db-conf-wifi"
    \* loopTask
    pc,         \* where loopTask is
    mode,       \* CMMC_Legend::mode
    mounted,    \* SPIFFS is mounted
    stopFlag,   \* CMMC_Legend::stopFlag
    late,       \* the portal has been open for more than 20 minutes
    sta,        \* sta_ssid and sta_pwd, as config() copied them
    \* the async_tcp task
    http,       \* where the handler of POST /api/wifi/sta is
    req,        \* the credential that handler is saving
    posts,      \* the upload routes in the middle of a request
    session,    \* the partition the global Update object is writing
    \* the environment
    button,     \* the button is held down
    outages,    \* power failures so far
    acked       \* the last credential confirmed to a client (history)

flash   == <<spiffs, enabled, nvs>>
updates == <<posts, session, stopFlag>>
env     == <<button, outages>>
vars    == <<spiffs, enabled, nvs, pc, mode, mounted, stopFlag, late, sta,
             http, req, posts, session, button, outages, acked>>

Strings == Creds \cup {NoCred}
Sta     == [ssid : Strings, pass : Strings]
NoSta   == [ssid |-> NoCred, pass |-> NoCred]
Routes  == {"update", "firmware", "fs"}

PortalPcs == {"portal", "rebooting"}
RunPcs    == {"bootButton", "bootHeld", "sta", "mqtt", "run", "pressing",
              "longHeld", "rebooting"}
Pcs       == {"off", "config"} \cup PortalPcs \cup RunPcs
SavePcs   == {"ssid", "pass", "first", "reply", "enable", "sleep"}

TypeOK ==
    /\ spiffs \in {"ok", "torn"}
    /\ enabled \in BOOLEAN
    /\ nvs \in [ssid : Strings, pass : Strings, first : BOOLEAN]
    /\ pc \in Pcs
    /\ mode \in {"unset", "CONFIG", "RUN"}
    /\ mounted \in BOOLEAN
    /\ stopFlag \in BOOLEAN
    /\ late \in BOOLEAN
    /\ sta \in Sta
    /\ http \in {"down", "idle"} \cup SavePcs
    /\ req \in Strings
    /\ posts \in SUBSET Routes
    /\ session \in {"none", "flash", "fs"}
    /\ button \in BOOLEAN
    /\ outages \in 0 .. MaxOutages
    /\ acked \in Strings

\* A device that leaves the factory: an image of the repository's data
\* directory (which holds no file /enabled) and no preferences.
Init ==
    /\ spiffs = "ok" /\ enabled = FALSE
    /\ nvs = [ssid |-> NoCred, pass |-> NoCred, first |-> FALSE]
    /\ pc = "off" /\ mode = "unset" /\ mounted = FALSE
    /\ stopFlag = FALSE /\ late = FALSE /\ sta = NoSta
    /\ http = "down" /\ req = NoCred
    /\ posts = {} /\ session = "none"
    /\ button = FALSE /\ outages = 0 /\ acked = NoCred

-----------------------------------------------------------------------------
(* Helpers *)

\* ESP.restart(), ESP.deepSleep() and a power failure: all RAM is lost.
PowerOff ==
    /\ pc' = "off" /\ mode' = "unset" /\ mounted' = FALSE
    /\ stopFlag' = FALSE /\ late' = FALSE /\ sta' = NoSta
    /\ http' = "down" /\ req' = NoCred
    /\ posts' = {} /\ session' = "none"

\* SPIFFS.open("/enabled", "a+") and SPIFFS.remove("/enabled"): without a
\* mounted file system both fail, and no caller looks at the result.
enable_run_mode    == enabled' = (enabled \/ mounted)
enable_config_mode == enabled' = (enabled /\ ~mounted)

\* loopTask moves on, changing nothing but its position.
Goto(from, to) ==
    /\ pc = from
    /\ pc' = to
    /\ UNCHANGED <<flash, mode, mounted, late, sta, http, req, updates, env,
                   acked>>

-----------------------------------------------------------------------------
(* loopTask: boot *)

\* setup() up to CMMC_Legend::init_fs(): mount SPIFFS, choose the mode.
Boot ==
    /\ pc = "off"
    /\ pc' = "config"
    /\ mounted' = (spiffs = "ok")
    /\ mode' = IF spiffs = "ok" /\ enabled THEN "RUN" ELSE "CONFIG"
    /\ UNCHANGED <<flash, late, sta, http, req, updates, env, acked>>

\* WiFiModule::config() after a save: consume the mark, sleep and boot again.
ConsumeFirst ==
    /\ pc = "config" /\ nvs.first
    /\ nvs' = [nvs EXCEPT !.first = FALSE]
    /\ PowerOff
    /\ UNCHANGED <<spiffs, enabled, env, acked>>

\* Mutant: the mark of a save is not tested.
LoadConfigAlways ==
    /\ pc = "config"
    /\ sta' = [ssid |-> nvs.ssid, pass |-> nvs.pass]
    /\ \/ mode = "CONFIG" /\ pc' = "portal" /\ http' = "idle"
       \/ mode = "RUN" /\ pc' = "bootButton" /\ UNCHANGED http
    /\ UNCHANGED <<flash, mode, mounted, late, req, updates, env, acked>>

\* WiFiModule::config() otherwise, and init_network() up to the portal loop
\* (the web server is started) or to the end of os->setup().
LoadConfig ==
    /\ pc = "config" /\ ~nvs.first
    /\ sta' = [ssid |-> nvs.ssid, pass |-> nvs.pass]
    /\ \/ mode = "CONFIG" /\ pc' = "portal" /\ http' = "idle"
       \/ mode = "RUN" /\ pc' = "bootButton" /\ UNCHANGED http
    /\ UNCHANGED <<flash, mode, mounted, late, req, updates, env, acked>>

\* setup() of main.cpp samples the button before os->start().
BootButton ==
    \/ button /\ Goto("bootButton", "bootHeld")
    \/ ~button /\ Goto("bootButton", "sta")

\* Mutant: restart without withdrawing the run flag.
ToConfigModeKeepingFlag(from) == ~button /\ Goto(from, "rebooting")

\* Withdraw the run flag and restart.
ToConfigMode(from) ==
    /\ pc = from /\ ~button
    /\ enable_config_mode
    /\ pc' = "rebooting"
    /\ UNCHANGED <<spiffs, nvs, mode, mounted, late, sta, http, req, updates,
                   env, acked>>

BootReleased == ToConfigMode("bootHeld")

-----------------------------------------------------------------------------
(* loopTask: the portal loop of init_network().  An iteration tests          *)
(* stopFlag, then the button, then the timeout; stopFlag may be set after it *)
(* was tested, so the two other exits do not depend on it.                   *)

ExitPortal ==
    /\ pc = "portal"
    /\ enable_run_mode
    /\ pc' = "rebooting"
    /\ UNCHANGED <<spiffs, nvs, mode, mounted, late, sta, http, req, updates,
                   env, acked>>

PortalStop    == stopFlag /\ ExitPortal
PortalButton  == button /\ ExitPortal

\* Mutants: restart without setting the run flag; the timeout waits for an
\* upload to finish.
TimeoutKeepingFlag == late /\ Goto("portal", "rebooting")
TimeoutAfterUpload == late /\ stopFlag /\ ExitPortal

PortalTimeout == late /\ ExitPortal

\* millis() passes startConfigLoopAtMs + 20 minutes.
TimeoutElapses ==
    /\ pc = "portal" /\ ~late
    /\ late' = TRUE
    /\ UNCHANGED <<flash, pc, mode, mounted, sta, http, req, updates, env,
                   acked>>

\* ESP.restart() after the delay that follows enable_*_mode(): until then the
\* async_tcp task goes on.
Restart ==
    /\ pc = "rebooting"
    /\ PowerOff
    /\ UNCHANGED <<flash, env, acked>>

-----------------------------------------------------------------------------
(* loopTask: run mode.  While it joins the access point or the broker it     *)
(* blocks and samples no button.                                             *)

StaJoin == sta.ssid # NoCred /\ Goto("sta", "mqtt")

MqttJoin == Goto("mqtt", "run")

MqttLost == Goto("run", "mqtt")

\* isLongPressed(): pressed, released too early, held for 3 seconds, released.
Pressed       == button /\ Goto("run", "pressing")
ShortReleased == ~button /\ Goto("pressing", "run")
LongPressed   == button /\ Goto("pressing", "longHeld")
LongReleased  == ToConfigMode("longHeld")

\* A message on the topic $/reboot: ESP.restart() from the MQTT callback.
RemoteReboot ==
    /\ pc \in {"mqtt", "run"}
    /\ PowerOff
    /\ UNCHANGED <<flash, env, acked>>

-----------------------------------------------------------------------------
(* The async_tcp task: POST /api/wifi/sta.  Each put is a commit of its own. *)

HttpGoto(from, to) ==
    /\ http = from
    /\ http' = to
    /\ UNCHANGED <<pc, mode, mounted, late, sta, updates, env>>

\* Mutant: the client is answered before anything is written.
SaveBeginAnswering(c) ==
    /\ HttpGoto("idle", "ssid")
    /\ req' = c
    /\ acked' = c
    /\ UNCHANGED flash

SaveBegin(c) ==
    /\ HttpGoto("idle", "ssid")
    /\ req' = c
    /\ UNCHANGED <<flash, acked>>

\* Mutant: the mark is written first.
PutSsidAndFirst ==
    /\ HttpGoto("ssid", "pass")
    /\ nvs' = [nvs EXCEPT !.ssid = req, !.first = TRUE]
    /\ acked' = NoCred
    /\ UNCHANGED <<spiffs, enabled, req>>

PutSsid ==
    /\ HttpGoto("ssid", "pass")
    /\ nvs' = [nvs EXCEPT !.ssid = req]
    /\ acked' = NoCred
    /\ UNCHANGED <<spiffs, enabled, req>>

PutPass ==
    /\ HttpGoto("pass", "first")
    /\ nvs' = [nvs EXCEPT !.pass = req]
    /\ UNCHANGED <<spiffs, enabled, req, acked>>

\* Only when WiFi.status() was WL_CONNECTED does the handler answer the
\* client; otherwise its answer comes after deepSleep(), that is never.
PutFirst ==
    /\ \E after \in {"reply", "enable"} : HttpGoto("first", after)
    /\ nvs' = [nvs EXCEPT !.first = TRUE]
    /\ UNCHANGED <<spiffs, enabled, req, acked>>

SaveReply ==
    /\ HttpGoto("reply", "enable")
    /\ acked' = req
    /\ UNCHANGED <<flash, req>>

SaveEnable ==
    /\ HttpGoto("enable", "sleep")
    /\ enable_run_mode
    /\ UNCHANGED <<spiffs, nvs, req, acked>>

SaveSleep ==
    /\ http = "sleep"
    /\ PowerOff
    /\ UNCHANGED <<flash, env, acked>>

\* GET /reboot
RebootRequest ==
    /\ http = "idle"
    /\ PowerOff
    /\ UNCHANGED <<flash, env, acked>>

-----------------------------------------------------------------------------
(* The async_tcp task: uploads.  The three routes share one Update object,  *)
(* and chunks of several requests may interleave.                           *)

Target(route) == IF route = "fs" THEN "fs" ELSE "flash"

\* Mutant: /do-fs does not unmount SPIFFS.
UploadStartMounted(route) ==
    /\ http = "idle" /\ route \notin posts
    /\ posts' = posts \cup {route}
    /\ mounted' = (mounted /\ route # "firmware")
    /\ \/ session = "none" /\ session' = Target(route)
       \/ UNCHANGED session
    /\ UNCHANGED <<flash, pc, mode, stopFlag, late, sta, http, req, env, acked>>

\* The first chunk: /do-firmware and /do-fs unmount SPIFFS; Update.begin()
\* may fail, and fails when a session is open; the upload goes on anyway.
UploadStart(route) ==
    /\ http = "idle" /\ route \notin posts
    /\ posts' = posts \cup {route}
    /\ mounted' = (mounted /\ route = "update")
    /\ \/ session = "none" /\ session' = Target(route)
       \/ UNCHANGED session
    /\ UNCHANGED <<flash, pc, mode, stopFlag, late, sta, http, req, env, acked>>

\* Update.write() into the open session, which an error closes.
UploadWrite(route) ==
    /\ http = "idle" /\ route \in posts /\ session # "none"
    /\ session' \in {session, "none"}
    /\ IF session = "fs"
       THEN spiffs' = "torn" /\ enabled' = FALSE
       ELSE UNCHANGED <<spiffs, enabled>>
    /\ UNCHANGED <<nvs, pc, mode, mounted, stopFlag, late, sta, http, req,
                   posts, env, acked>>

\* The last chunk when Update.end(true) succeeds: the image is complete.
UploadSuccess(route) ==
    /\ http = "idle" /\ route \in posts /\ session # "none"
    /\ posts' = posts \ {route}
    /\ session' = "none"
    /\ stopFlag' = (stopFlag \/ route # "fs")
    /\ IF session = "fs"
       THEN spiffs' = "ok" /\ enabled' = FALSE
       ELSE UNCHANGED <<spiffs, enabled>>
    /\ UNCHANGED <<nvs, pc, mode, mounted, late, sta, http, req, env, acked>>

\* The last chunk when Update.end(true) fails: an open session is aborted.
UploadFailure(route) ==
    /\ http = "idle" /\ route \in posts
    /\ posts' = posts \ {route}
    /\ session' = "none"
    /\ UNCHANGED <<flash, pc, mode, mounted, stopFlag, late, sta, http, req,
                   env, acked>>

-----------------------------------------------------------------------------
(* The environment *)

PressButton ==
    /\ button' = ~button
    /\ ~button
    /\ UNCHANGED <<flash, pc, mode, mounted, late, sta, http, req, updates,
                   outages, acked>>

ReleaseButton ==
    /\ button
    /\ button' = ~button
    /\ UNCHANGED <<flash, pc, mode, mounted, late, sta, http, req, updates,
                   outages, acked>>

Outage ==
    /\ pc # "off" /\ outages < MaxOutages
    /\ outages' = outages + 1
    /\ PowerOff
    /\ UNCHANGED <<flash, button, acked>>

-----------------------------------------------------------------------------
\* Steps loopTask takes by itself; joining a network is not one of them.
LoopTask ==
    \/ Boot \/ ConsumeFirst \/ LoadConfig \/ BootButton \/ BootReleased
    \/ PortalStop \/ PortalButton \/ PortalTimeout \/ Restart
    \/ Pressed \/ ShortReleased \/ LongReleased

Network == StaJoin \/ MqttJoin \/ MqttLost \/ RemoteReboot

SaveTask ==
    \/ PutSsid \/ PutPass \/ PutFirst \/ SaveReply \/ SaveEnable \/ SaveSleep

Clients ==
    \/ \E c \in Creds : SaveBegin(c)
    \/ RebootRequest
    \/ \E route \in Routes :
          \/ UploadStart(route) \/ UploadWrite(route)
          \/ UploadSuccess(route) \/ UploadFailure(route)

User == PressButton \/ ReleaseButton \/ LongPressed

Next ==
    LoopTask \/ Network \/ SaveTask \/ Clients \/ User \/ TimeoutElapses
    \/ Outage

Spec == Init /\ [][Next]_vars

\* Each task keeps running, the clock advances, and a button is let go long
\* enough for the loops that wait for it to see it.
Fairness ==
    /\ WF_vars(LoopTask) /\ WF_vars(SaveTask)
    /\ WF_vars(TimeoutElapses) /\ WF_vars(ReleaseButton)
    /\ SF_vars(BootReleased) /\ SF_vars(LongReleased)

FairSpec == Spec /\ Fairness

-----------------------------------------------------------------------------
(* Safety *)

\* WIFI_FIRST = "1" marks a save that wrote both strings: no interleaving of
\* restarts and saves leaves the mark beside half of a pair.
FlagMarksCompleteSave ==
    nvs.first => nvs.ssid = nvs.pass /\ nvs.ssid # NoCred

\* What a client was told is saved is what the flash holds, through restarts
\* and power failures, until a later save begins to overwrite it.
AckedIsDurable ==
    acked # NoCred => nvs.ssid = acked /\ nvs.pass = acked

\* In run mode the file system is mounted, the run flag stands until the
\* button withdraws it, no unconsumed save is left, and the credentials in
\* use are those in flash.
RunIsConsistent ==
    mode = "RUN" /\ pc # "config" =>
        /\ mounted /\ spiffs = "ok" /\ (enabled \/ pc = "rebooting")
        /\ ~nvs.first
        /\ sta = [ssid |-> nvs.ssid, pass |-> nvs.pass]

\* The SPIFFS partition is never rewritten under a mounted file system.
NeverWriteMounted ==
    mounted => spiffs = "ok" /\ session # "fs"

\* Whoever leaves the portal, button, timeout, firmware or save, has set the
\* run flag, unless an upload took the file system away.
PortalExitEnablesRun ==
    (mode = "CONFIG" /\ pc = "rebooting") \/ http = "sleep" =>
        enabled \/ ~mounted

\* Which task is where, in which mode.
Control ==
    /\ mode = "unset" <=> pc = "off"
    /\ mode = "CONFIG" => pc \in {"config"} \cup PortalPcs
    /\ mode = "RUN" => pc \in {"config"} \cup RunPcs
    /\ http # "down" <=> mode = "CONFIG" /\ pc \in PortalPcs
    /\ http = "down" => posts = {} /\ session = "none"

\* The mode just chosen is the one the flash asks for.
ModeIsFresh ==
    pc = "config" =>
        /\ mounted = (spiffs = "ok")
        /\ mode = (IF spiffs = "ok" /\ enabled THEN "RUN" ELSE "CONFIG")

\* How far a save has come.
SaveProgress ==
    /\ http \in SavePcs => req \in Creds
    /\ http \in SavePcs \ {"ssid"} => nvs.ssid = req
    /\ http \in SavePcs \ {"ssid", "pass"} => nvs.pass = req
    /\ http \in {"idle", "ssid", "pass", "first"} => ~nvs.first
    /\ http \in {"pass", "first"} => acked = NoCred

\* The inductive invariant: the safety properties together with the control
\* and data facts they rest on.
IInv ==
    /\ TypeOK /\ Control /\ ModeIsFresh /\ SaveProgress
    /\ FlagMarksCompleteSave /\ AckedIsDurable /\ RunIsConsistent
    /\ NeverWriteMounted /\ PortalExitEnablesRun

-----------------------------------------------------------------------------
(* Liveness *)

\* Once the button is recognised, at boot or by a long press, the device comes
\* up as a portal, unless the power fails first.
ButtonOpensPortal ==
    \A n \in 0 .. MaxOutages :
        (pc \in {"bootHeld", "longHeld"} /\ outages = n)
            ~> (pc = "portal" \/ outages # n)

-----------------------------------------------------------------------------
(* The device implements ModeSwitch.                                         *)

phase == CASE mode = "unset" \/ pc = "config"     -> "off"
           [] mode = "RUN" /\ pc # "config"       -> "run"
           [] mode = "CONFIG" /\ pc # "config"    -> "portal"

next == IF spiffs = "ok" /\ enabled THEN "RUN" ELSE "CONFIG"

Switch == INSTANCE ModeSwitch WITH phase <- phase, next <- next

\* Every step changes mode and run flag in a way ModeSwitch allows.
SwitchSpec == Switch!Spec

\* And the device neither stays off, also when it restarts because of a save,
\* nor keeps its portal open for ever: with the run flag set it reaches run
\* mode, unless an upload replaces the file system.
SwitchFairSpec == Switch!FairSpec
=============================================================================
