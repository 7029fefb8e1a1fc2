----------------------------- MODULE ModeSwitch -----------------------------
(***************************************************************************)
(* What CMMC_Legend promises about its two modes: the device comes up in   *)
(* the mode recorded in flash, stays in it until it is switched off, and   *)
(* the record is moved to RUN in the portal only, and back to CONFIG only  *)
(* by the button of a running device or by flashing a new file system in   *)
(* the portal.                                                             *)
(***************************************************************************)
VARIABLES
    phase,  \* "off" (or booting), "portal" or "run"
    next    \* the mode the device comes up in: "CONFIG" or "RUN"

Init == phase = "off" /\ next = "CONFIG"

Start ==
    /\ phase = "off"
    /\ phase' = IF next = "RUN" THEN "run" ELSE "portal"
    /\ UNCHANGED next

Stop == phase # "off" /\ phase' = "off" /\ UNCHANGED next

\* The portal is left by its button, its timeout, a firmware image or a save.
Approve == phase = "portal" /\ next' = "RUN" /\ UNCHANGED phase

\* The button of a running device.
Withdraw == phase = "run" /\ next' = "CONFIG" /\ UNCHANGED phase

\* A file system image is uploaded.
Reflash == phase = "portal" /\ next' = "CONFIG" /\ UNCHANGED phase

Next == Start \/ Stop \/ Approve \/ Withdraw \/ Reflash

Spec == Init /\ [][Next]_<<phase, next>>

\* The device does not stay off, and the portal closes.
Fairness ==
    /\ WF_<<phase, next>>(Start)
    /\ WF_<<phase, next>>(phase = "portal" /\ Stop)

FairSpec == Spec /\ Fairness
=============================================================================
