---------------------------- MODULE LegendProofs ----------------------------
(***************************************************************************)
(* Proofs that the safety properties of Legend hold, and that every step   *)
(* of Legend is one ModeSwitch allows, for every set of credentials and    *)
(* every bound on the power failures.                                      *)
(***************************************************************************)
EXTENDS Legend, TLAPS

\* The factory state satisfies the inductive invariant.
LEMMA InitIInv == Init => IInv
<1> SUFFICES ASSUME Init PROVE IInv
  OBVIOUS
<1> USE DEF Init
<1>1. TypeOK
  <2>1. nvs \in [ssid : Strings, pass : Strings, first : BOOLEAN]
    BY DEF Strings
  <2>2. sta \in Sta
    BY DEF Strings, Sta, NoSta
  <2>3. outages \in 0 .. MaxOutages
    BY OutagesAssumption
  <2>4. pc \in Pcs /\ http \in {"down", "idle"} \cup SavePcs
    BY DEF Pcs, SavePcs
  <2>5. req \in Strings /\ acked \in Strings /\ posts \in SUBSET Routes
    BY DEF Strings, Routes
  <2> QED
    BY <2>1, <2>2, <2>3, <2>4, <2>5 DEF TypeOK
<1>2. Control
  BY DEF Control, PortalPcs
<1>3. ModeIsFresh /\ SaveProgress
  BY DEF ModeIsFresh, SaveProgress, SavePcs
<1>4. FlagMarksCompleteSave /\ AckedIsDurable
  BY DEF FlagMarksCompleteSave, AckedIsDurable
<1>5. RunIsConsistent /\ NeverWriteMounted /\ PortalExitEnablesRun
  BY DEF RunIsConsistent, NeverWriteMounted, PortalExitEnablesRun
<1> QED
  BY <1>1, <1>2, <1>3, <1>4, <1>5 DEF IInv

\* Losing the RAM preserves the invariant, wherever either task was: what is
\* left to show is that the flash is consistent by itself.
LEMMA PowerOffIInv ==
  ASSUME IInv, PowerOff, UNCHANGED <<spiffs, enabled, acked>>,
         nvs' \in {nvs, [nvs EXCEPT !.first = FALSE]},
         button' \in BOOLEAN, outages' \in 0 .. MaxOutages
  PROVE  IInv'
<1> USE DEF PowerOff
<1>1. TypeOK'
  <2>1. sta' \in Sta
    BY DEF Strings, Sta, NoSta
  <2>2. nvs' \in [ssid : Strings, pass : Strings, first : BOOLEAN]
    BY DEF IInv, TypeOK
  <2>3. req' \in Strings /\ posts' \in SUBSET Routes
    BY DEF Strings
  <2>4. pc' \in Pcs /\ http' \in {"down", "idle"} \cup SavePcs
    BY DEF Pcs
  <2> QED
    BY <2>1, <2>2, <2>3, <2>4 DEF IInv, TypeOK
<1>2. Control'
  BY DEF Control, PortalPcs
<1>3. ModeIsFresh' /\ SaveProgress'
  BY DEF ModeIsFresh, SaveProgress, SavePcs
<1>4. FlagMarksCompleteSave' /\ AckedIsDurable'
  BY DEF IInv, TypeOK, FlagMarksCompleteSave, AckedIsDurable
<1>5. RunIsConsistent' /\ NeverWriteMounted' /\ PortalExitEnablesRun'
  BY DEF RunIsConsistent, NeverWriteMounted, PortalExitEnablesRun
<1> QED
  BY <1>1, <1>2, <1>3, <1>4, <1>5 DEF IInv

\* Booting, up to the portal or the check of the button.
LEMMA BootSteps ==
  ASSUME IInv, Boot \/ ConsumeFirst \/ LoadConfig \/ BootButton \/ BootReleased \/ Restart
  PROVE  IInv'
<1> USE DEF IInv, TypeOK, Control, ModeIsFresh, SaveProgress,
            FlagMarksCompleteSave, AckedIsDurable, RunIsConsistent,
            NeverWriteMounted, PortalExitEnablesRun, Pcs, RunPcs, PortalPcs,
            SavePcs, Strings, Sta, Goto, HttpGoto, flash, updates, env
<1>1. CASE Boot
  BY <1>1 DEF Boot
<1>2. CASE ConsumeFirst
  BY <1>2, PowerOffIInv DEF ConsumeFirst
<1>3. CASE LoadConfig
  BY <1>3 DEF LoadConfig
<1>4. CASE BootButton
  <2>1. CASE Goto("bootButton", "bootHeld")
    BY <2>1
  <2>2. CASE Goto("bootButton", "sta")
    BY <2>2
  <2> QED
    BY <1>4, <2>1, <2>2 DEF BootButton
<1>5. CASE BootReleased
  BY <1>5 DEF BootReleased, ToConfigMode, enable_config_mode
<1>6. CASE Restart
  BY <1>6, PowerOffIInv DEF Restart
<1> QED
  BY <1>1, <1>2, <1>3, <1>4, <1>5, <1>6

\* The portal loop of loopTask and its clock.
LEMMA PortalSteps ==
  ASSUME IInv, PortalStop \/ PortalButton \/ PortalTimeout \/ TimeoutElapses
  PROVE  IInv'
<1> USE DEF IInv, TypeOK, Control, ModeIsFresh, SaveProgress,
            FlagMarksCompleteSave, AckedIsDurable, RunIsConsistent,
            NeverWriteMounted, PortalExitEnablesRun, Pcs, RunPcs, PortalPcs,
            SavePcs, Strings, Sta, Goto, HttpGoto, flash, updates, env
<1>1. CASE PortalStop
  BY <1>1 DEF PortalStop, ExitPortal, enable_run_mode
<1>2. CASE PortalButton
  BY <1>2 DEF PortalButton, ExitPortal, enable_run_mode
<1>3. CASE PortalTimeout
  BY <1>3 DEF PortalTimeout, ExitPortal, enable_run_mode
<1>4. CASE TimeoutElapses
  BY <1>4 DEF TimeoutElapses
<1> QED
  BY <1>1, <1>2, <1>3, <1>4

\* Run mode.
LEMMA RunSteps ==
  ASSUME IInv, Network \/ Pressed \/ ShortReleased \/ LongPressed \/ LongReleased
  PROVE  IInv'
<1> USE DEF IInv, TypeOK, Control, ModeIsFresh, SaveProgress,
            FlagMarksCompleteSave, AckedIsDurable, RunIsConsistent,
            NeverWriteMounted, PortalExitEnablesRun, Pcs, RunPcs, PortalPcs,
            SavePcs, Strings, Sta, Goto, HttpGoto, flash, updates, env
<1>1. CASE StaJoin
  BY <1>1 DEF StaJoin
<1>2. CASE MqttJoin
  BY <1>2 DEF MqttJoin
<1>3. CASE MqttLost
  BY <1>3 DEF MqttLost
<1>4. CASE RemoteReboot
  BY <1>4, PowerOffIInv DEF RemoteReboot
<1>5. CASE Pressed
  BY <1>5 DEF Pressed
<1>6. CASE ShortReleased
  BY <1>6 DEF ShortReleased
<1>7. CASE LongPressed
  BY <1>7 DEF LongPressed
<1>8. CASE LongReleased
  BY <1>8 DEF LongReleased, ToConfigMode, enable_config_mode
<1> QED
  BY <1>1, <1>2, <1>3, <1>4, <1>5, <1>6, <1>7, <1>8 DEF Network

\* The handlers of POST /api/wifi/sta and GET /reboot.
LEMMA SaveSteps ==
  ASSUME IInv, (\E c \in Creds : SaveBegin(c)) \/ SaveTask \/ RebootRequest
  PROVE  IInv'
<1> USE DEF IInv, TypeOK, Control, ModeIsFresh, SaveProgress,
            FlagMarksCompleteSave, AckedIsDurable, RunIsConsistent,
            NeverWriteMounted, PortalExitEnablesRun, Pcs, RunPcs, PortalPcs,
            SavePcs, Strings, Sta, Goto, HttpGoto, flash, updates, env
<1>1. CASE \E c \in Creds : SaveBegin(c)
  BY <1>1, CredsAssumption DEF SaveBegin
<1>2. CASE PutSsid
  BY <1>2 DEF PutSsid
<1>3. CASE PutPass
  BY <1>3 DEF PutPass
<1>4. CASE PutFirst
  <2>1. PICK after \in {"reply", "enable"} : HttpGoto("first", after)
    BY <1>4 DEF PutFirst
  <2>2. nvs.ssid = req /\ nvs.pass = req /\ req # NoCred
    BY <2>1, CredsAssumption
  <2>3. nvs' \in [ssid : Strings, pass : Strings, first : BOOLEAN]
    BY <1>4 DEF PutFirst
  <2>4. TypeOK' /\ Control' /\ ModeIsFresh'
    BY <1>4, <2>1, <2>3 DEF PutFirst
  <2>5. SaveProgress' /\ FlagMarksCompleteSave'
    BY <1>4, <2>1, <2>2 DEF PutFirst
  <2> QED
    BY <1>4, <2>1, <2>2, <2>4, <2>5 DEF PutFirst
<1>5. CASE SaveReply
  BY <1>5 DEF SaveReply
<1>6. CASE SaveEnable
  BY <1>6 DEF SaveEnable, enable_run_mode
<1>7. CASE SaveSleep
  BY <1>7, PowerOffIInv DEF SaveSleep
<1>8. CASE RebootRequest
  BY <1>8, PowerOffIInv DEF RebootRequest
<1> QED
  BY <1>1, <1>2, <1>3, <1>4, <1>5, <1>6, <1>7, <1>8 DEF SaveTask

\* The upload handlers.
LEMMA UploadSteps ==
  ASSUME IInv, NEW route \in Routes,
         \/ UploadStart(route) \/ UploadWrite(route)
         \/ UploadSuccess(route) \/ UploadFailure(route)
  PROVE  IInv'
<1> USE DEF IInv, TypeOK, Control, ModeIsFresh, SaveProgress,
            FlagMarksCompleteSave, AckedIsDurable, RunIsConsistent,
            NeverWriteMounted, PortalExitEnablesRun, Pcs, RunPcs, PortalPcs,
            SavePcs, Strings, Sta, Goto, HttpGoto, flash, updates, env
<1>1. CASE UploadStart(route)
  <2>1. posts' \in SUBSET Routes /\ session' \in {session, Target(route)}
    BY <1>1 DEF UploadStart
  <2>2. CASE route = "fs"
    BY <1>1, <2>1, <2>2 DEF UploadStart, Target
  <2>3. CASE route # "fs"
    <3>1. TypeOK'
      BY <1>1, <2>1, <2>3 DEF UploadStart, Target
    <3>2. Control' /\ ModeIsFresh' /\ SaveProgress'
      BY <1>1, <2>1, <2>3 DEF UploadStart, Target
    <3>3. FlagMarksCompleteSave' /\ AckedIsDurable' /\ RunIsConsistent'
      BY <1>1, <2>1, <2>3 DEF UploadStart, Target
    <3>4. NeverWriteMounted' /\ PortalExitEnablesRun'
      BY <1>1, <2>1, <2>3 DEF UploadStart, Target
    <3> HIDE DEF TypeOK, Control, ModeIsFresh, SaveProgress,
                 FlagMarksCompleteSave, AckedIsDurable, RunIsConsistent,
                 NeverWriteMounted, PortalExitEnablesRun
    <3> QED
      BY <3>1, <3>2, <3>3, <3>4
  <2> QED
    BY <2>2, <2>3
<1>2. CASE UploadWrite(route)
  <2>1. mode = "CONFIG" /\ pc \in PortalPcs /\ (session = "fs" => ~mounted)
    BY <1>2 DEF UploadWrite
  <2>2. TypeOK'
    <3>1. spiffs' \in {"ok", "torn"} /\ enabled' \in BOOLEAN
      <4>1. CASE session = "fs"
        BY <1>2, <4>1 DEF UploadWrite
      <4>2. CASE session # "fs"
        BY <1>2, <4>2 DEF UploadWrite
      <4> QED
        BY <4>1, <4>2
    <3>2. session' \in {"none", "flash", "fs"}
      BY <1>2 DEF UploadWrite
    <3>3. UNCHANGED <<nvs, pc, mode, mounted, stopFlag, late, sta, http, req,
                      posts, button, outages, acked>>
      BY <1>2 DEF UploadWrite
    <3> QED
      BY <3>1, <3>2, <3>3
  <2>3. Control' /\ ModeIsFresh' /\ SaveProgress'
    BY <1>2, <2>1 DEF UploadWrite
  <2>4. FlagMarksCompleteSave' /\ AckedIsDurable' /\ RunIsConsistent'
    BY <1>2, <2>1 DEF UploadWrite
  <2>5. NeverWriteMounted' /\ PortalExitEnablesRun'
    BY <1>2, <2>1 DEF UploadWrite
  <2> HIDE DEF TypeOK, Control, ModeIsFresh, SaveProgress,
               FlagMarksCompleteSave, AckedIsDurable, RunIsConsistent,
               NeverWriteMounted, PortalExitEnablesRun
  <2> QED
    BY <2>2, <2>3, <2>4, <2>5
<1>3. CASE UploadSuccess(route)
  <2>1. mode = "CONFIG" /\ pc \in PortalPcs /\ (session = "fs" => ~mounted)
    BY <1>3 DEF UploadSuccess
  <2>2. TypeOK'
    BY <1>3, <2>1 DEF UploadSuccess
  <2>3. Control' /\ ModeIsFresh' /\ SaveProgress'
    BY <1>3, <2>1 DEF UploadSuccess
  <2>4. FlagMarksCompleteSave' /\ AckedIsDurable' /\ RunIsConsistent'
    BY <1>3, <2>1 DEF UploadSuccess
  <2>5. NeverWriteMounted' /\ PortalExitEnablesRun'
    BY <1>3, <2>1 DEF UploadSuccess
  <2> HIDE DEF TypeOK, Control, ModeIsFresh, SaveProgress,
               FlagMarksCompleteSave, AckedIsDurable, RunIsConsistent,
               NeverWriteMounted, PortalExitEnablesRun
  <2> QED
    BY <2>2, <2>3, <2>4, <2>5
<1>4. CASE UploadFailure(route)
  BY <1>4 DEF UploadFailure
<1> QED
  BY <1>1, <1>2, <1>3, <1>4

\* The button, the power and stuttering.
LEMMA EnvironmentSteps ==
  ASSUME IInv, PressButton \/ ReleaseButton \/ Outage \/ UNCHANGED vars
  PROVE  IInv'
<1> USE DEF IInv, TypeOK, Control, ModeIsFresh, SaveProgress,
            FlagMarksCompleteSave, AckedIsDurable, RunIsConsistent,
            NeverWriteMounted, PortalExitEnablesRun, Pcs, RunPcs, PortalPcs,
            SavePcs, Strings, Sta, Goto, HttpGoto, flash, updates, env
<1>1. CASE PressButton
  BY <1>1 DEF PressButton
<1>2. CASE ReleaseButton
  BY <1>2 DEF ReleaseButton
<1>3. CASE Outage
  <2>1. outages' \in 0 .. MaxOutages
    BY <1>3, OutagesAssumption DEF Outage
  <2> QED
    BY <1>3, <2>1, PowerOffIInv DEF Outage
<1>4. CASE UNCHANGED vars
  BY <1>4 DEF vars
<1> QED
  BY <1>1, <1>2, <1>3, <1>4

\* The invariant is inductive: each group of actions preserves it.
LEMMA StepIInv == IInv /\ [Next]_vars => IInv'
  BY BootSteps, PortalSteps, RunSteps, SaveSteps, UploadSteps,
     EnvironmentSteps DEF Next, LoopTask, Network, SaveTask, Clients, User

\* The inductive invariant holds: the facts about control, flash and saves
\* that every safety property rests on.
THEOREM Invariance == Spec => []IInv
  BY InitIInv, StepIInv, PTL DEF Spec

\* Every variable keeps the type the code gives it, whatever the tasks do.
THEOREM TypeCorrect == Spec => []TypeOK
  BY Invariance, PTL DEF IInv

\* The mark of a save stands beside a whole pair of strings only, so config()
\* never restarts the device on half a save.
THEOREM MarkIsComplete == Spec => []FlagMarksCompleteSave
  BY Invariance, PTL DEF IInv

\* A credential confirmed to a client stays in flash until a later save.
THEOREM AckedSurvives == Spec => []AckedIsDurable
  BY Invariance, PTL DEF IInv

\* Run mode rests on a mounted file system, a standing run flag and the
\* credentials in flash.
THEOREM RunModeConsistent == Spec => []RunIsConsistent
  BY Invariance, PTL DEF IInv

\* No upload rewrites a mounted file system.
THEOREM WritesUnmounted == Spec => []NeverWriteMounted
  BY Invariance, PTL DEF IInv

\* Every exit of the portal has set the run flag if it could.
THEOREM ExitsEnable == Spec => []PortalExitEnablesRun
  BY Invariance, PTL DEF IInv

-----------------------------------------------------------------------------
(* Refinement: the steps of Legend seen as steps of ModeSwitch.              *)

\* The factory state is switched off, in the mode CONFIG.
LEMMA InitSwitch == Init => Switch!Init
  BY DEF Init, Switch!Init, phase, next

\* A step that keeps mode and run flag is invisible.
LEMMA Invisible ==
  ASSUME UNCHANGED <<spiffs, enabled, mode>>, pc # "config", pc' # "config"
  PROVE  UNCHANGED <<phase, next>>
  BY DEF phase, next

\* Losing the RAM switches the device off.
LEMMA PowerOffSwitch ==
  ASSUME PowerOff, UNCHANGED <<spiffs, enabled>>, phase \in {"off", "portal", "run"}
  PROVE  [Switch!Next]_<<phase, next>>
<1>1. phase' = "off" /\ next' = next
  BY DEF PowerOff, phase, next
<1> QED
  BY <1>1 DEF Switch!Next, Switch!Stop

\* The mapping is defined in every state of the invariant.
LEMMA PhaseType == IInv => phase \in {"off", "portal", "run"}
  BY DEF IInv, TypeOK, phase

\* Booting comes up in the mode the flash asks for.
LEMMA BootSwitch ==
  ASSUME IInv, Boot \/ ConsumeFirst \/ LoadConfig \/ BootButton \/ BootReleased \/ Restart
  PROVE  [Switch!Next]_<<phase, next>>
<1>1. CASE Boot
  <2>1. phase = "off" /\ phase' = "off" /\ next' = next
    BY <1>1 DEF Boot, IInv, Control, phase, next, flash
  <2> QED
    BY <2>1
<1>2. CASE ConsumeFirst
  BY <1>2, PowerOffSwitch, PhaseType DEF ConsumeFirst, flash
<1>3. CASE LoadConfig
  <2>1. phase = "off" /\ next' = next
    BY <1>3 DEF LoadConfig, phase, next, flash
  <2>2. phase' = IF next = "RUN" THEN "run" ELSE "portal"
    BY <1>3 DEF LoadConfig, IInv, ModeIsFresh, phase, next
  <2> QED
    BY <2>1, <2>2 DEF Switch!Next, Switch!Start
<1>4. CASE BootButton
  BY <1>4, Invisible DEF BootButton, Goto, flash
<1>5. CASE BootReleased
  <2>1. phase = "run" /\ phase' = "run"
    BY <1>5 DEF BootReleased, ToConfigMode, IInv, TypeOK, Control, PortalPcs, phase
  <2>2. next' \in {next, "CONFIG"}
    BY <1>5 DEF BootReleased, ToConfigMode, enable_config_mode, next
  <2> QED
    BY <2>1, <2>2 DEF Switch!Next, Switch!Withdraw
<1>6. CASE Restart
  BY <1>6, PowerOffSwitch, PhaseType DEF Restart, flash
<1> QED
  BY <1>1, <1>2, <1>3, <1>4, <1>5, <1>6

\* Leaving the portal approves run mode.
LEMMA PortalSwitch ==
  ASSUME IInv, PortalStop \/ PortalButton \/ PortalTimeout \/ TimeoutElapses
  PROVE  [Switch!Next]_<<phase, next>>
<1>1. CASE PortalStop
  <2>1. phase = "portal" /\ phase' = "portal"
    BY <1>1 DEF PortalStop, ExitPortal, IInv, TypeOK, Control, PortalPcs, RunPcs,
              phase
  <2>2. next' \in {next, "RUN"}
    BY <1>1 DEF PortalStop, ExitPortal, enable_run_mode, next
  <2> QED
    BY <2>1, <2>2 DEF Switch!Next, Switch!Approve
<1>2. CASE PortalButton
  <2>1. phase = "portal" /\ phase' = "portal"
    BY <1>2 DEF PortalButton, ExitPortal, IInv, TypeOK, Control, PortalPcs, RunPcs,
              phase
  <2>2. next' \in {next, "RUN"}
    BY <1>2 DEF PortalButton, ExitPortal, enable_run_mode, next
  <2> QED
    BY <2>1, <2>2 DEF Switch!Next, Switch!Approve
<1>3. CASE PortalTimeout
  <2>1. phase = "portal" /\ phase' = "portal"
    BY <1>3 DEF PortalTimeout, ExitPortal, IInv, TypeOK, Control, PortalPcs, RunPcs,
              phase
  <2>2. next' \in {next, "RUN"}
    BY <1>3 DEF PortalTimeout, ExitPortal, enable_run_mode, next
  <2> QED
    BY <2>1, <2>2 DEF Switch!Next, Switch!Approve
<1>4. CASE TimeoutElapses
  BY <1>4, Invisible DEF TimeoutElapses, flash
<1> QED
  BY <1>1, <1>2, <1>3, <1>4

\* Run mode: only the button, at boot or by a long press, touches the run
\* flag.
LEMMA RunSwitch ==
  ASSUME IInv, Network \/ Pressed \/ ShortReleased \/ LongPressed \/ LongReleased
  PROVE  [Switch!Next]_<<phase, next>>
<1>1. CASE StaJoin
  BY <1>1, Invisible DEF StaJoin, Goto, flash
<1>2. CASE MqttJoin
  BY <1>2, Invisible DEF MqttJoin, Goto, flash
<1>3. CASE MqttLost
  BY <1>3, Invisible DEF MqttLost, Goto, flash
<1>4. CASE RemoteReboot
  BY <1>4, PowerOffSwitch, PhaseType DEF RemoteReboot, flash
<1>5. CASE Pressed
  BY <1>5, Invisible DEF Pressed, Goto, flash
<1>6. CASE ShortReleased
  BY <1>6, Invisible DEF ShortReleased, Goto, flash
<1>7. CASE LongPressed
  BY <1>7, Invisible DEF LongPressed, Goto, flash
<1>8. CASE LongReleased
  <2>1. phase = "run" /\ phase' = "run"
    BY <1>8 DEF LongReleased, ToConfigMode, IInv, TypeOK, Control, PortalPcs, phase
  <2>2. next' \in {next, "CONFIG"}
    BY <1>8 DEF LongReleased, ToConfigMode, enable_config_mode, next
  <2> QED
    BY <2>1, <2>2 DEF Switch!Next, Switch!Withdraw
<1> QED
  BY <1>1, <1>2, <1>3, <1>4, <1>5, <1>6, <1>7, <1>8 DEF Network

\* A save approves run mode; its other steps are invisible.
LEMMA SaveSwitch ==
  ASSUME IInv, (\E c \in Creds : SaveBegin(c)) \/ SaveTask \/ RebootRequest
  PROVE  [Switch!Next]_<<phase, next>>
<1>1. CASE \E c \in Creds : SaveBegin(c)
  <2>1. pc # "config"
    BY <1>1 DEF SaveBegin, HttpGoto, IInv, Control, PortalPcs
  <2> QED
    BY <1>1, <2>1, Invisible DEF SaveBegin, HttpGoto, flash
<1>2. CASE PutSsid
  <2>1. pc # "config"
    BY <1>2 DEF PutSsid, HttpGoto, IInv, Control, PortalPcs
  <2> QED
    BY <1>2, <2>1, Invisible DEF PutSsid, HttpGoto, flash
<1>3. CASE PutPass
  <2>1. pc # "config"
    BY <1>3 DEF PutPass, HttpGoto, IInv, Control, PortalPcs
  <2> QED
    BY <1>3, <2>1, Invisible DEF PutPass, HttpGoto, flash
<1>4. CASE PutFirst
  <2>1. pc # "config"
    BY <1>4 DEF PutFirst, HttpGoto, IInv, Control, PortalPcs
  <2> QED
    BY <1>4, <2>1, Invisible DEF PutFirst, HttpGoto, flash
<1>5. CASE SaveReply
  <2>1. pc # "config"
    BY <1>5 DEF SaveReply, HttpGoto, IInv, Control, PortalPcs
  <2> QED
    BY <1>5, <2>1, Invisible DEF SaveReply, HttpGoto, flash
<1>6. CASE SaveEnable
  <2>1. phase = "portal" /\ phase' = "portal"
    BY <1>6 DEF SaveEnable, HttpGoto, IInv, TypeOK, Control, PortalPcs, RunPcs,
              phase
  <2>2. next' \in {next, "RUN"}
    BY <1>6 DEF SaveEnable, HttpGoto, enable_run_mode, next
  <2> QED
    BY <2>1, <2>2 DEF Switch!Next, Switch!Approve
<1>7. CASE SaveSleep
  BY <1>7, PowerOffSwitch, PhaseType DEF SaveSleep, flash
<1>8. CASE RebootRequest
  BY <1>8, PowerOffSwitch, PhaseType DEF RebootRequest, flash
<1> QED
  BY <1>1, <1>2, <1>3, <1>4, <1>5, <1>6, <1>7, <1>8 DEF SaveTask

\* Uploads change the flash in the portal only, and to CONFIG only.
LEMMA UploadSwitch ==
  ASSUME IInv, NEW route \in Routes,
         \/ UploadStart(route) \/ UploadWrite(route)
         \/ UploadSuccess(route) \/ UploadFailure(route)
  PROVE  [Switch!Next]_<<phase, next>>
<1>1. CASE UploadStart(route)
  <2>1. phase = "portal" /\ phase' = "portal"
    BY <1>1 DEF UploadStart, flash, IInv, TypeOK, Control, PortalPcs, RunPcs,
              phase
  <2>2. next' \in {next, "CONFIG"}
    BY <1>1 DEF UploadStart, flash, next
  <2> QED
    BY <2>1, <2>2 DEF Switch!Next, Switch!Reflash
<1>2. CASE UploadWrite(route)
  <2>1. phase = "portal" /\ phase' = "portal"
    BY <1>2 DEF UploadWrite, IInv, TypeOK, Control, PortalPcs, RunPcs,
              phase
  <2>2. next' \in {next, "CONFIG"}
    BY <1>2 DEF UploadWrite, next
  <2> QED
    BY <2>1, <2>2 DEF Switch!Next, Switch!Reflash
<1>3. CASE UploadSuccess(route)
  <2>1. phase = "portal" /\ phase' = "portal"
    BY <1>3 DEF UploadSuccess, IInv, TypeOK, Control, PortalPcs, RunPcs,
              phase
  <2>2. next' \in {next, "CONFIG"}
    BY <1>3 DEF UploadSuccess, next
  <2> QED
    BY <2>1, <2>2 DEF Switch!Next, Switch!Reflash
<1>4. CASE UploadFailure(route)
  <2>1. phase = "portal" /\ phase' = "portal"
    BY <1>4 DEF UploadFailure, flash, IInv, TypeOK, Control, PortalPcs, RunPcs,
              phase
  <2>2. next' \in {next, "CONFIG"}
    BY <1>4 DEF UploadFailure, flash, next
  <2> QED
    BY <2>1, <2>2 DEF Switch!Next, Switch!Reflash
<1> QED
  BY <1>1, <1>2, <1>3, <1>4

\* The button alone changes nothing; the power switches the device off.
LEMMA EnvironmentSwitch ==
  ASSUME IInv, PressButton \/ ReleaseButton \/ Outage \/ UNCHANGED vars
  PROVE  [Switch!Next]_<<phase, next>>
<1>1. CASE PressButton
  BY <1>1 DEF PressButton, flash, phase, next
<1>2. CASE ReleaseButton
  BY <1>2 DEF ReleaseButton, flash, phase, next
<1>3. CASE Outage
  BY <1>3, PowerOffSwitch, PhaseType DEF Outage, flash
<1>4. CASE UNCHANGED vars
  BY <1>4 DEF vars, phase, next
<1> QED
  BY <1>1, <1>2, <1>3, <1>4

\* Legend implements ModeSwitch: the device comes up in the mode recorded in
\* flash, and the record changes only as the abstract switch allows.
THEOREM ImplementsSwitch == Spec => SwitchSpec
<1>1. IInv /\ [Next]_vars => [Switch!Next]_<<phase, next>>
  BY BootSwitch, PortalSwitch, RunSwitch, SaveSwitch, UploadSwitch,
     EnvironmentSwitch DEF Next, LoopTask, Network, SaveTask, Clients, User
<1> QED
  BY <1>1, InitSwitch, Invariance, PTL DEF Spec, SwitchSpec, Switch!Spec
=============================================================================
