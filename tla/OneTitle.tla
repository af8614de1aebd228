------------------------------- MODULE OneTitle -------------------------------
(***************************************************************************)
(* What the session layer promises the console: titles run one at a time   *)
(* (daemon/pentad/session.py, first paragraph of its docstring).  One      *)
(* title at a time holds the console, from the moment its process exists   *)
(* until the daemon has taken note of its exit.                            *)
(***************************************************************************)
CONSTANTS Titles, NoTitle

VARIABLES
  claim,     \* the title that holds the console, or NoTitle
  playing,   \* the title whose process is alive, or NoTitle
  shown      \* the title system.status reports, or NoTitle

vars == <<claim, playing, shown>>

Init ==
  /\ claim = NoTitle
  /\ playing = NoTitle
  /\ shown = NoTitle

\* A title may start only while no other holds the console.
Start(u) ==
  /\ claim = NoTitle
  /\ claim' = u
  /\ playing' = u
  /\ UNCHANGED shown

Announce ==
  /\ claim # NoTitle
  /\ shown = NoTitle
  /\ shown' = claim
  /\ UNCHANGED <<claim, playing>>

Quit ==
  /\ playing # NoTitle
  /\ playing' = NoTitle
  /\ UNCHANGED <<claim, shown>>

\* The console is released only after the title is gone.
Release ==
  /\ claim # NoTitle
  /\ playing = NoTitle
  /\ claim' = NoTitle
  /\ shown' = NoTitle
  /\ UNCHANGED playing

\* The daemon dies and systemd takes the title's processes down with it.
Fall ==
  /\ claim' = NoTitle
  /\ playing' = NoTitle
  /\ shown' = NoTitle

Next ==
  \/ \E u \in Titles : Start(u)
  \/ Announce
  \/ Quit
  \/ Release
  \/ Fall

Spec == Init /\ [][Next]_vars

\* What is alive, and what is reported, is the title that holds the console.
OnlyTheHolder ==
  /\ playing # NoTitle => playing = claim
  /\ shown # NoTitle => shown = claim
===============================================================================
