----------------------------- MODULE InstallFlow ------------------------------
(***************************************************************************)
(* The install screen (menu/screens/installer.gd) against the daemon's     *)
(* install commands (daemon/pentad/__main__.py, installer.py), over the    *)
(* one connection of the menu: answers come in the order of the requests   *)
(* (Ipc), progress and install.done events in between.                     *)
(*                                                                         *)
(* The screen asks for three seconds of Cross on a disk.  _process runs    *)
(* every frame, and goes on firing _begin_install while Cross stays down   *)
(* and the answer is still under way.                                      *)
(***************************************************************************)
EXTENDS Integers, Sequences, FiniteSets, SequencesExt

CONSTANTS
  Order,        \* the devices in the order lsblk lists them
  Eligible,     \* those that may be installed to
  None,
  HoldFrames,   \* HOLD_SECONDS, in frames
  MaxAsked,     \* bound: requests not answered when _begin_install fires
  MaxClones,    \* bound: installs
  MaxEvents     \* bound: times the screen opens, a disk is plugged or unplugged
                \* or the daemon dies, taken together

Devices == ToSet(Order)

ASSUME FlowAssumption ==
  /\ Eligible \subseteq Devices
  /\ None \notin Devices
  /\ HoldFrames \in Nat \ {0}
  /\ {MaxAsked, MaxClones, MaxEvents} \subseteq Nat

VARIABLES
  \* the screen
  open,      \* _open
  phase,     \* _phase
  list,      \* _targets
  index,     \* _index, from 1
  hold,      \* _hold
  asked,     \* requests not answered yet, oldest first
  up,        \* Ipc._connected
  \* the wire
  toDaemon, toMenu,
  \* the daemon
  clone,     \* the device of the _clone task that runs, or None
  last,      \* how the last one ended
  \* the user and the world
  cross,     \* Cross is down
  steady,    \* frames it has been down on the device in focus
  held,      \* devices it was down on for the whole time
  disks,     \* devices attached
  opens, plugs, clones, deaths

screen == <<open, phase, list, index, hold, asked, up>>
wire == <<toDaemon, toMenu>>
daemon == <<clone, last>>
user == <<cross, steady, held>>
bounds == <<opens, plugs, clones, deaths>>
vars == <<screen, wire, daemon, user, disks, bounds>>

Ask(cmd, d) == [cmd |-> cmd, dev |-> d]
Answer(ok, ds) == [kind |-> "reply", ok |-> ok, list |-> ds]
Progress == [kind |-> "progress", ok |-> TRUE, list |-> <<>>]
Done(ok) == [kind |-> "done", ok |-> ok, list |-> <<>>]

MoreEvents == opens + plugs + deaths < MaxEvents

Focus == IF list = <<>> THEN None ELSE list[index]

Init ==
  /\ open = FALSE /\ phase = "pick" /\ list = <<>> /\ index = 1 /\ hold = 0
  /\ asked = <<>> /\ up = TRUE
  /\ toDaemon = <<>> /\ toMenu = <<>>
  /\ clone = None /\ last = "none"
  /\ cross = FALSE /\ steady = 0 /\ held = {}
  /\ disks \in SUBSET Devices
  /\ opens = 0 /\ plugs = 0 /\ clones = 0 /\ deaths = 0

Send(r) ==
  /\ asked' = Append(asked, r)
  /\ toDaemon' = Append(toDaemon, r)

\* _fail.
Fail == phase' = "pick" /\ hold' = 0

-------------------------------------------------------------------------------
\* The user.

\* open(): what was listed the last time is still there.
Open ==
  /\ ~ open
  /\ MoreEvents
  /\ opens' = opens + 1
  /\ open' = TRUE
  /\ phase' = "pick"
  /\ index' = 1
  /\ hold' = 0
  /\ steady' = 0
  /\ IF up THEN Send(Ask("targets", None)) ELSE UNCHANGED <<asked, toDaemon>>
  /\ UNCHANGED <<list, up, toMenu, daemon, cross, held, disks, plugs, clones, deaths>>

\* close(): refused while a clone is shown.
Close ==
  /\ open
  /\ phase # "working"
  /\ open' = FALSE
  /\ UNCHANGED <<phase, list, index, hold, asked, up, wire, daemon, user, disks,
                 bounds>>

\* _process does something with Cross.
Polling == open /\ phase \in {"pick", "confirm"} /\ Focus \in Eligible

\* Cross goes down or up, and up it stays for a frame at least.  On the last
\* screen a press leaves.
Cross ==
  /\ cross' = ~ cross
  /\ ~ cross => ~ (Polling /\ hold > 0)
  /\ steady' = 0
  /\ open' = (open /\ ~ (phase = "done" /\ cross'))
  /\ UNCHANGED <<phase, list, index, hold, asked, up, wire, daemon, held, disks,
                 bounds>>

CanMove == open /\ phase \in {"pick", "confirm"} /\ list # <<>>
Clamp(i) == IF i < 1 THEN 1 ELSE IF i > Len(list) THEN Len(list) ELSE i

\* Mutant: the time held on one disk counts for the next.
MoveHeld(delta) ==
  /\ CanMove
  /\ index' = Clamp(index + delta)
  /\ steady' = IF index' = index THEN steady ELSE 0
  /\ UNCHANGED <<open, phase, list, hold, asked, up, wire, daemon, cross, held,
                 disks, bounds>>

\* _move.
Move(delta) ==
  /\ CanMove
  /\ index' = Clamp(index + delta)
  /\ hold' = 0
  /\ steady' = IF index' = index THEN steady ELSE 0
  /\ UNCHANGED <<open, phase, list, asked, up, wire, daemon, cross, held, disks,
                 bounds>>

Plug(d) ==
  /\ MoreEvents
  /\ plugs' = plugs + 1
  /\ d # clone
  /\ disks' = IF d \in disks THEN disks \ {d} ELSE disks \union {d}
  /\ UNCHANGED <<screen, wire, daemon, user, opens, clones, deaths>>

-------------------------------------------------------------------------------
\* The screen's frames and callbacks.

\* _process, when the disk in focus can be installed to and Cross is down; with
\* _begin_install once the hold is complete.
HoldOn ==
  /\ Polling /\ cross
  /\ steady' = IF steady < HoldFrames THEN steady + 1 ELSE steady
  /\ held' = IF steady' = HoldFrames THEN held \union {Focus} ELSE held
  /\ IF hold + 1 < HoldFrames
     THEN /\ hold' = hold + 1
          /\ UNCHANGED <<phase, asked, toDaemon>>
     ELSE IF up
     THEN /\ Len(asked) < MaxAsked
          /\ hold' = HoldFrames
          /\ phase' = "confirm"
          /\ Send(Ask("token", Focus))
     ELSE /\ Fail
          /\ UNCHANGED <<asked, toDaemon>>
  /\ UNCHANGED <<open, list, index, up, toMenu, daemon, cross, disks, bounds>>

\* _process, with Cross up.
HoldOff ==
  /\ Polling /\ ~ cross
  /\ hold > 0
  /\ hold' = 0
  /\ UNCHANGED <<open, phase, list, index, asked, up, wire, daemon, user, disks,
                 bounds>>

FirstEligible(ds) ==
  LET good == {i \in DOMAIN ds : ds[i] \in Eligible} IN
  IF good = {} THEN 1 ELSE CHOOSE i \in good : \A j \in good : i =< j

\* What _on_targets does with a good answer.
Listed(ds) ==
  /\ list' = ds
  /\ index' = FirstEligible(ds)
  /\ steady' = IF ds # <<>> /\ ds[FirstEligible(ds)] = Focus THEN steady ELSE 0

\* The callback of the oldest request.  None of them looks at _open or _phase.
HearReply ==
  /\ up /\ toMenu # <<>> /\ Head(toMenu).kind = "reply"
  /\ toMenu' = Tail(toMenu)
  /\ LET r == Head(asked)
         ok == Head(toMenu).ok
     IN
     /\ CASE r.cmd = "targets" /\ ok ->
               Listed(Head(toMenu).list) /\ UNCHANGED <<phase, hold>>
          [] r.cmd = "start" /\ ok ->
               phase' = "working" /\ UNCHANGED <<hold, list, index, steady>>
          [] r.cmd # "targets" /\ ~ ok ->
               Fail /\ UNCHANGED <<list, index, steady>>
          [] OTHER -> UNCHANGED <<phase, hold, list, index, steady>>
     /\ IF r.cmd = "token" /\ ok
        THEN /\ asked' = Append(Tail(asked), Ask("start", r.dev))
             /\ toDaemon' = Append(toDaemon, Ask("start", r.dev))
        ELSE asked' = Tail(asked) /\ UNCHANGED toDaemon
  /\ UNCHANGED <<open, up, daemon, cross, held, disks, bounds>>

\* Mutant: install.done is taken for a success.
HearEventBlind ==
  /\ up /\ toMenu # <<>> /\ Head(toMenu).kind # "reply"
  /\ toMenu' = Tail(toMenu)
  /\ phase' = IF ~ open THEN phase
              ELSE IF Head(toMenu).kind = "done" THEN "done" ELSE "working"
  /\ UNCHANGED <<open, list, index, hold, asked, up, toDaemon, daemon, user, disks,
                 bounds>>

\* Mutant: only progress is handled.
HearEventDeaf ==
  /\ up /\ toMenu # <<>> /\ Head(toMenu).kind # "reply"
  /\ toMenu' = Tail(toMenu)
  /\ phase' = IF open THEN "working" ELSE phase
  /\ UNCHANGED <<open, list, index, hold, asked, up, toDaemon, daemon, user, disks,
                 bounds>>

\* _on_event.
HearEvent ==
  /\ up /\ toMenu # <<>> /\ Head(toMenu).kind # "reply"
  /\ toMenu' = Tail(toMenu)
  /\ IF ~ open THEN UNCHANGED <<phase, hold>>
     ELSE IF Head(toMenu).kind = "progress" THEN phase' = "working" /\ UNCHANGED hold
     ELSE IF Head(toMenu).ok THEN phase' = "done" /\ UNCHANGED hold
     ELSE Fail
  /\ UNCHANGED <<open, list, index, asked, up, toDaemon, daemon, user, disks, bounds>>

-------------------------------------------------------------------------------
\* The daemon.

Serving(cmd) == toDaemon # <<>> /\ Head(toDaemon).cmd = cmd
Serve(answer) == toDaemon' = Tail(toDaemon) /\ toMenu' = Append(toMenu, answer)

\* list_targets(), when the disks of ds are there.
Listing(ds) == SelectSeq(Order, LAMBDA d : d \in ds)

\* install.targets and install.confirm_token.
ServeTargets ==
  /\ Serving("targets")
  /\ Serve(Answer(TRUE, Listing(disks)))
  /\ UNCHANGED <<screen, daemon, user, disks, bounds>>

ServeToken ==
  /\ Serving("token")
  /\ Serve(Answer(TRUE, <<>>))
  /\ UNCHANGED <<screen, daemon, user, disks, bounds>>

\* install.start fails: one is running, the disk is gone or too small.
RefuseStart ==
  /\ Serving("start")
  /\ Serve(Answer(FALSE, <<>>))
  /\ UNCHANGED <<screen, daemon, user, disks, bounds>>

ServeStart ==
  /\ Serving("start")
  /\ clone = None
  /\ Head(toDaemon).dev \in disks
  /\ clones < MaxClones
  /\ clones' = clones + 1
  /\ clone' = Head(toDaemon).dev
  /\ Serve(Answer(TRUE, <<>>))
  /\ UNCHANGED <<screen, last, user, disks, opens, plugs, deaths>>

Emit(e) == toMenu' = IF up THEN Append(toMenu, e) ELSE toMenu

\* One progress line under way at a time: more change nothing.
CloneProgress ==
  /\ clone # None
  /\ Progress \notin ToSet(toMenu)
  /\ Emit(Progress)
  /\ UNCHANGED <<screen, toDaemon, daemon, user, disks, bounds>>

\* At any time, with requests under way or not.
CloneEnds(ok) ==
  /\ clone # None
  /\ clone' = None
  /\ last' = IF ok THEN "ok" ELSE "failed"
  /\ Emit(Done(ok))
  /\ UNCHANGED <<screen, toDaemon, user, disks, bounds>>

\* The daemon dies, dd with it; the menu sees the connection go and every callback
\* fails: those of the install requests call _fail.
DaemonDies ==
  /\ MoreEvents
  /\ deaths' = deaths + 1
  /\ clone' = None
  /\ last' = IF clone # None THEN "failed" ELSE last
  /\ toDaemon' = <<>> /\ toMenu' = <<>> /\ asked' = <<>>
  /\ up' = FALSE
  /\ IF \E i \in DOMAIN asked : asked[i].cmd # "targets"
     THEN Fail ELSE UNCHANGED <<phase, hold>>
  /\ UNCHANGED <<open, list, index, user, disks, opens, plugs, clones>>

Reconnect ==
  /\ ~ up
  /\ up' = TRUE
  /\ UNCHANGED <<open, phase, list, index, hold, asked, wire, daemon, user, disks,
                 bounds>>

Menu == HearReply \/ HearEvent
Daemon == ServeTargets \/ ServeToken \/ RefuseStart \/ ServeStart

Next ==
  \/ Open \/ Close \/ Cross \/ Move(1) \/ Move(-1)
  \/ \E d \in Devices : Plug(d)
  \/ HoldOn \/ HoldOff
  \/ Menu
  \/ Daemon
  \/ CloneProgress
  \/ \E ok \in BOOLEAN : CloneEnds(ok)
  \/ DaemonDies \/ Reconnect

Spec == Init /\ [][Next]_vars

-------------------------------------------------------------------------------
\* "holding Cross for three seconds": no disk is erased that the user did not
\* hold Cross on for the whole time.  (It takes a list that is loaded once: one
\* that arrives late, asked for when the screen was opened before, moves the focus
\* under a hold that goes on.)
HeldThrough == clone # None /\ opens = 1 => clone \in held

\* "Installed" is shown only when it is: the last install succeeded, and none
\* runs that powering off would cut short (unless the answer to a hold completed
\* just before the end is still on its way).
Starting == \E i \in DOMAIN asked : asked[i].cmd = "start"
DoneIsTrue == open /\ phase = "done" /\ ~ Starting => clone = None /\ last = "ok"

\* "Do not power off" is on the screen, which then cannot be left, only while
\* there is something to wait for: a clone runs, or the event that ends the wait
\* is on its way.  As long as the daemon lives: one that dies sends none.
WorkingIsTrue ==
  open /\ phase = "working" /\ deaths = 0 =>
    clone # None \/ \E i \in DOMAIN toMenu : toMenu[i].kind = "done"

\* What this module takes for the installer keeps the promise that the installer
\* makes (DiskInstaller!ImplementsOneInstall).
Service == INSTANCE OneInstall WITH Targets <- Devices, NoTarget <- None,
                                    writing <- clone
ServesOneInstall == Service!Spec
===============================================================================
