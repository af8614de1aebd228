------------------------------- MODULE OneInstall ------------------------------
(***************************************************************************)
(* What the installer service promises the install screen                  *)
(* (daemon/pentad/installer.py, "an install is already running"): installs *)
(* run one at a time, and how the last one ended is known once it is over. *)
(***************************************************************************)
CONSTANTS Targets, NoTarget

VARIABLES
  writing,   \* the device that is being installed to, or NoTarget
  last       \* how the last install ended

vars == <<writing, last>>

Init == writing = NoTarget /\ last = "none"

Begin(d) ==
  /\ writing = NoTarget
  /\ writing' = d
  /\ UNCHANGED last

\* An install that the daemon takes down with it has failed.
End(how) ==
  /\ writing # NoTarget
  /\ writing' = NoTarget
  /\ last' = how

Next ==
  \/ \E d \in Targets : Begin(d)
  \/ \E how \in {"ok", "failed"} : End(how)

Spec == Init /\ [][Next]_vars
===============================================================================
