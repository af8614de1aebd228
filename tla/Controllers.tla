------------------------------ MODULE Controllers ------------------------------
(***************************************************************************)
(* The PS button: InputWatcher (inputs.py), and who makes it look at the   *)
(* machine again: the handler of controller.rescan, hardware_loop and a    *)
(* new start of the daemon (__main__.py).                                  *)
(*                                                                         *)
(* Each watcher has a queue of its own in the kernel.  rescan() has no     *)
(* await, so on the daemon's one asyncio loop it is one step; handlers     *)
(* that read the disk keep that loop busy: storage.usage walks /games.     *)
(*                                                                         *)
(* Time is a clock that ticks every LONG_PRESS_S.  It cannot tick between  *)
(* an event and its reading unless the loop is busy.                       *)
(***************************************************************************)
EXTENDS Integers, Sequences

CONSTANTS
  Pads,         \* gamepads with a PS button
  MaxPresses,   \* bound: presses of the PS button
  MaxStalls,    \* bound: ticks of the clock while the loop is busy
  MaxPulls,     \* bound: gamepads unplugged, or out of range
  MaxDeaths     \* bound: restarts of the daemon

ASSUME ControllersAssumption == {MaxPresses, MaxStalls, MaxPulls, MaxDeaths} \subseteq Nat

Presses == 1 .. MaxPresses

VARIABLES
  plugged,  \* the gamepads that evdev.list_devices() lists
  tasks,    \* tasks[p]: the tasks in _tasks that watch p, each with the events it has
            \* not read and a timer: "up" when pressed_at is 0, or else what
            \* time.monotonic() - pressed_at has come to, "short" or "long"
  held,     \* held[p]: "up", or for how long the button has been down
  press,    \* press[p]: which press that is
  length,   \* length[i]: how long press i was held, when it has ended
  told,     \* told[i]: the kinds of input.ps_button emitted for press i
  busy,     \* a handler is reading the disk
  stalls, pulls, deaths,
  \* What the properties excuse:
  heard,    \* the gamepads the last rescan() could open, and that are there since
  late,     \* the presses an event of which was unread when the clock ticked
  lost      \* the presses during which their gamepad was not one of "heard", or
            \* rescan() or a restart came

world == <<plugged, held, press, length, pulls>>
excuses == <<heard, late, lost>>
vars == <<world, tasks, told, busy, stalls, deaths, excuses>>

\* The presses of p that its watchers have an unread event of.
Unread(p) ==
  {i \in Presses : \E k \in DOMAIN tasks[p] : \E j \in DOMAIN tasks[p][k].queue :
                     tasks[p][k].queue[j].press = i}

UnderWay(p) == Unread(p) \union (IF held[p] = "up" THEN {} ELSE {press[p]})

-------------------------------------------------------------------------------
NewTask == [timer |-> "up", queue |-> <<>>]

\* Mutant: the old tasks go on.
RescannedBeside(seen) ==
  [p \in Pads |-> IF p \in seen THEN Append(tasks[p], NewTask) ELSE tasks[p]]

\* Mutant: the old tasks are cancelled, and only what is new is watched.
RescannedNew(seen) ==
  [p \in Pads |-> IF p \in seen /\ tasks[p] = <<>> THEN <<NewTask>> ELSE <<>>]

\* InputWatcher.rescan(): the old tasks are cancelled, what they had not read is
\* lost; each gamepad that can be opened gets a new one.  A press under way is unknown
\* to it.
Rescanned(seen) == [p \in Pads |-> IF p \in seen THEN <<NewTask>> ELSE <<>>]

LookAgain ==
  \E seen \in SUBSET plugged :
    /\ tasks' = Rescanned(seen)
    /\ heard' = seen
    /\ lost' = lost \union UNION {UnderWay(p) : p \in Pads}
    /\ UNCHANGED late

Init ==
  /\ plugged \in SUBSET Pads
  /\ heard \in SUBSET plugged
  /\ tasks = [p \in Pads |-> IF p \in heard THEN <<NewTask>> ELSE <<>>]
  /\ held = [p \in Pads |-> "up"]
  /\ press = [p \in Pads |-> 0]
  /\ length = [i \in Presses |-> "none"]
  /\ told = [i \in Presses |-> <<>>]
  /\ busy = FALSE
  /\ stalls = 0 /\ pulls = 0 /\ deaths = 0
  /\ late = {} /\ lost = {}

-------------------------------------------------------------------------------
\* controller.rescan, or hardware_loop when its count of the controllers has changed.
Rescan ==
  /\ ~ busy
  /\ LookAgain
  /\ UNCHANGED <<world, told, busy, stalls, deaths>>

\* systemd restarts the daemon.
Restart ==
  /\ deaths < MaxDeaths
  /\ deaths' = deaths + 1
  /\ LookAgain
  /\ busy' = FALSE
  /\ UNCHANGED <<world, told, stalls>>

\* _watch(): one event of the PS button.
Read(p, k) ==
  /\ ~ busy
  /\ tasks[p][k].queue # <<>>
  /\ LET e == Head(tasks[p][k].queue)
         timer == tasks[p][k].timer
     IN /\ tasks' = [tasks EXCEPT ![p][k] = [timer |-> IF e.down THEN "short" ELSE "up",
                                             queue |-> Tail(@.queue)]]
        /\ told' = IF e.down \/ timer = "up" THEN told
                   ELSE [told EXCEPT ![e.press] = Append(@, timer)]
  /\ UNCHANGED <<world, busy, stalls, deaths, excuses>>

\* A handler that reads the disk, and its end.
Block ==
  /\ ~ busy
  /\ busy' = TRUE
  /\ UNCHANGED <<world, tasks, told, stalls, deaths, excuses>>

Unblock ==
  /\ busy
  /\ busy' = FALSE
  /\ UNCHANGED <<world, tasks, told, stalls, deaths, excuses>>

-------------------------------------------------------------------------------
\* Nobody watches a gamepad that comes: rescan() has run.
Plug(p) ==
  /\ p \notin plugged
  /\ plugged' = plugged \union {p}
  /\ UNCHANGED <<held, press, length, pulls, tasks, told, busy, stalls, deaths, excuses>>

\* The watcher ends with an OSError; no press ends.
Unplug(p) ==
  /\ p \in plugged
  /\ pulls < MaxPulls
  /\ pulls' = pulls + 1
  /\ plugged' = plugged \ {p}
  /\ tasks' = [tasks EXCEPT ![p] = <<>>]
  /\ held' = [held EXCEPT ![p] = "up"]
  /\ heard' = heard \ {p}
  /\ lost' = lost \union UnderWay(p)
  /\ UNCHANGED <<press, length, told, busy, stalls, deaths, late>>

\* The kernel gives each event to whoever has the device open.
Deliver(p, down) ==
  tasks' = [tasks EXCEPT ![p] = [k \in DOMAIN @ |->
              [timer |-> @[k].timer,
               queue |-> Append(@[k].queue, [down |-> down, press |-> press'[p]])]]]

Down(p) ==
  /\ p \in plugged /\ held[p] = "up"
  /\ \E i \in Presses :
       /\ \A j \in Presses : j < i <=> \E q \in Pads : j <= press[q]
       /\ press' = [press EXCEPT ![p] = i]
       /\ lost' = IF p \in heard THEN lost ELSE lost \union {i}
  /\ held' = [held EXCEPT ![p] = "short"]
  /\ Deliver(p, TRUE)
  /\ UNCHANGED <<plugged, length, pulls, told, busy, stalls, deaths, heard, late>>

Up(p) ==
  /\ held[p] # "up"
  /\ held' = [held EXCEPT ![p] = "up"]
  /\ length' = [length EXCEPT ![press[p]] = held[p]]
  /\ UNCHANGED press
  /\ Deliver(p, FALSE)
  /\ UNCHANGED <<plugged, pulls, told, busy, stalls, deaths, excuses>>

Aged(t) == IF t = "short" THEN "long" ELSE t

\* LONG_PRESS_S pass.
Tick ==
  /\ \/ ~ busy /\ \A p \in Pads : \A k \in DOMAIN tasks[p] : tasks[p][k].queue = <<>>
     \/ busy /\ stalls < MaxStalls
  /\ stalls' = IF busy THEN stalls + 1 ELSE stalls
  /\ held' = [p \in Pads |-> Aged(held[p])]
  /\ tasks' = [p \in Pads |-> [k \in DOMAIN tasks[p] |-> [tasks[p][k] EXCEPT !.timer = Aged(@)]]]
  /\ late' = late \union UNION {Unread(p) : p \in Pads}
  /\ UNCHANGED <<plugged, press, length, pulls, told, busy, deaths, heard, lost>>

Next ==
  \/ Rescan \/ Restart \/ Block \/ Unblock
  \/ \E p \in Pads : \/ Plug(p) \/ Unplug(p) \/ Down(p) \/ Up(p)
                     \/ \E k \in DOMAIN tasks[p] : Read(p, k)
  \/ Tick

Spec == Init /\ [][Next]_vars

-------------------------------------------------------------------------------
\* inputs.py:8, "Short press -> Control Center. Long press (>0.8s) -> power menu":
\* a press is reported once at most, when it has ended, and as what it was, whatever
\* is plugged, rescanned or restarted meanwhile; except that one whose begin or end had
\* to wait for a busy loop may be misjudged: the time is measured when the events are
\* read.  The presses after it are judged rightly again.
PressTrue ==
  \A i \in Presses : told[i] # <<>> =>
    /\ Len(told[i]) = 1
    /\ length[i] # "none"
    /\ told[i][1] = length[i] \/ i \in late

\* A press that has ended and whose events are read was reported, unless its gamepad was
\* not there or could not be opened at the last look, or the daemon looked again, or went
\* down, in the middle of that very press: no other press is swallowed.
PressHeard ==
  \A i \in Presses :
    length[i] # "none" /\ told[i] = <<>> =>
      i \in lost \/ \E p \in Pads : i \in Unread(p)
===============================================================================
