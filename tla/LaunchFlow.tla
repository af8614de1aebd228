------------------------------ MODULE LaunchFlow ------------------------------
(***************************************************************************)
(* A launch seen from the couch: the home screen (menu/screens/home.gd),   *)
(* the daemon's session and library behind it (daemon/pentad/session.py,   *)
(* titles.py, __main__.py), and the connection between them.  The menu     *)
(* covers itself with a veil and stops listening while a title runs, and   *)
(* comes back on title.exited.                                             *)
(*                                                                         *)
(* One connection, so requests are served one after the other (TitleSession*)
(* has the case of several) and answered in order (Ipc).  A daemon that    *)
(* dies takes the title with it and is restarted.                          *)
(***************************************************************************)
EXTENDS Integers, Sequences, FiniteSets

CONSTANTS
  Uids,        \* titles that may be installed
  Providers,   \* library providers
  ProviderOf,  \* ProviderOf[u]: the provider that finds u
  None,
  MaxPlays,    \* bound: launches that succeed
  MaxAsked,    \* bound: requests not answered when a card is confirmed
  MaxDeaths,   \* bound: deaths of the daemon
  Overlays     \* whether the Control Center is used: TRUE, FALSE or both

ASSUME FlowAssumption ==
  /\ ProviderOf \in [Uids -> Providers]
  /\ None \notin Uids
  /\ {MaxPlays, MaxAsked, MaxDeaths} \subseteq Nat
  /\ Overlays \subseteq BOOLEAN

VARIABLES
  \* home.gd
  veil,       \* _launch_veil is opaque
  consumed,   \* Router._consumed
  running,    \* _running_uid
  shown,      \* uids of the cards
  control,    \* the Control Center is open
  up,         \* Ipc._connected
  asked,      \* requests not yet answered, oldest first
  \* the wire
  toDaemon, toMenu,
  \* pentad
  handler,    \* the uid whose title.launch is suspended, or None
  proc,       \* session._uid (None exactly when _proc is)
  alive,      \* the title whose process lives
  known,      \* library._titles: uid to playtime
  plays, deaths,
  \* the world
  disk,       \* what is installed
  broken,     \* providers whose scan raises
  overlay     \* the user opens the Control Center now and then

menu == <<veil, consumed, running, shown, control, up, asked>>
world == <<disk, broken, overlay>>
vars == <<menu, toDaemon, toMenu, handler, proc, alive, known, plays,
          deaths, world>>

\* Mutant: one try around the loop over the providers.
ScanOrNothing == [u \in {v \in disk : broken = {}} |-> 0]

\* What the scan of provider p finds.
Found(p) == {u \in disk : ProviderOf[u] = p}

\* Library.refresh: fresh titles, without playtime, from the providers that work.
Scan == [u \in UNION {Found(p) : p \in Providers \ broken} |-> 0]

Ask(cmd, u) == [cmd |-> cmd, uid |-> u]
Answer(ok, list) == [kind |-> "reply", ok |-> ok, uid |-> None, list |-> list]
Exited(u) == [kind |-> "exited", ok |-> TRUE, uid |-> u, list |-> {}]

Init ==
  /\ veil = FALSE /\ consumed = FALSE /\ running = None /\ control = FALSE
  /\ up = FALSE /\ asked = <<>> /\ toDaemon = <<>> /\ toMenu = <<>>
  /\ handler = None /\ proc = None /\ alive = None
  /\ plays = 0 /\ deaths = 0
  /\ disk \in SUBSET Uids /\ broken = {}
  /\ overlay \in Overlays
  /\ known = Scan
  /\ shown = {}

Request(r) ==
  /\ asked' = Append(asked, r)
  /\ toDaemon' = Append(toDaemon, r)

-------------------------------------------------------------------------------
\* The menu.

\* The connection comes up: library.list.
Connect ==
  /\ ~ up
  /\ up' = TRUE
  /\ asked' = <<Ask("list", None)>>
  /\ toDaemon' = <<Ask("list", None)>>
  /\ toMenu' = <<>>
  /\ UNCHANGED <<veil, consumed, running, shown, control, handler, proc, alive,
                 known, plays, deaths, world>>

\* _restore_from_launch, after _running_uid is cleared.
Restore ==
  /\ running' = None
  /\ consumed' = FALSE
  /\ veil' = FALSE

\* Mutant: the router is not told.
ConfirmListening(u) ==
  /\ up
  /\ ~ consumed
  /\ u \in shown
  /\ Len(asked) < MaxAsked
  /\ veil' = TRUE
  /\ running' = u
  /\ Request(Ask("launch", u))
  /\ UNCHANGED <<consumed, shown, control, up, toMenu, handler, proc, alive,
                 known, plays, deaths, world>>

\* _on_confirm on a card.
Confirm(u) ==
  /\ up
  /\ ~ consumed
  /\ u \in shown
  /\ Len(asked) < MaxAsked
  /\ consumed' = TRUE
  /\ veil' = TRUE
  /\ running' = u
  /\ Request(Ask("launch", u))
  /\ UNCHANGED <<shown, control, up, toMenu, handler, proc, alive, known,
                 plays, deaths, world>>

\* Without a connection the callback of the launch fails at once, and restores the
\* screen, be it from the veil that a daemon's death left.
ConfirmUnconnected ==
  /\ ~ up
  /\ ~ consumed
  /\ shown # {}
  /\ Restore
  /\ UNCHANGED <<shown, control, up, asked, toDaemon, toMenu, handler, proc, alive,
                 known, plays, deaths, world>>

\* Mutant: the failed launch leaves the veil where it is.
HearReplyNoRestore ==
  /\ up /\ toMenu # <<>> /\ Head(toMenu).kind = "reply"
  /\ toMenu' = Tail(toMenu)
  /\ asked' = Tail(asked)
  /\ shown' = IF Head(asked).cmd # "launch" THEN Head(toMenu).list ELSE shown
  /\ UNCHANGED <<veil, consumed, running, control, up, toDaemon, handler, proc,
                 alive, known, plays, deaths, world>>

\* The callback of title.launch.
LaunchAnswered(ok) == IF ok THEN UNCHANGED <<veil, consumed, running>> ELSE Restore

\* The callback of the oldest request: a launch, or a list for the cards.
HearReply ==
  /\ up /\ toMenu # <<>> /\ Head(toMenu).kind = "reply"
  /\ toMenu' = Tail(toMenu)
  /\ asked' = Tail(asked)
  /\ IF Head(asked).cmd = "launch"
     THEN LaunchAnswered(Head(toMenu).ok) /\ UNCHANGED shown
     ELSE shown' = Head(toMenu).list /\ UNCHANGED <<veil, consumed, running>>
  /\ UNCHANGED <<control, up, toDaemon, handler, proc, alive, known, plays, deaths, world>>

\* _on_daemon_event("title.exited").
HearExited ==
  /\ up /\ toMenu # <<>> /\ Head(toMenu).kind = "exited"
  /\ toMenu' = Tail(toMenu)
  /\ Restore
  /\ Request(Ask("refresh", None))
  /\ UNCHANGED <<shown, control, up, handler, proc, alive, known, plays,
                 deaths, world>>

\* The PS button, which the daemon sees under a running title, too.
OpenControl ==
  /\ overlay
  /\ ~ control
  /\ control' = TRUE
  /\ consumed' = TRUE
  /\ UNCHANGED <<veil, running, shown, up, asked, toDaemon, toMenu, handler, proc,
                 alive, known, plays, deaths, world>>

CloseControl ==
  /\ control
  /\ control' = FALSE
  /\ consumed' = FALSE
  /\ UNCHANGED <<veil, running, shown, up, asked, toDaemon, toMenu, handler, proc,
                 alive, known, plays, deaths, world>>

-------------------------------------------------------------------------------
\* The daemon.

Serving(cmd) == handler = None /\ toDaemon # <<>> /\ Head(toDaemon).cmd = cmd

Serve(answer) ==
  /\ toDaemon' = Tail(toDaemon)
  /\ toMenu' = Append(toMenu, answer)

\* title.launch: an unknown uid, a title already running, a failing exec.
RefuseLaunch ==
  /\ Serving("launch")
  /\ Serve(Answer(FALSE, {}))
  /\ UNCHANGED <<menu, handler, proc, alive, known, plays, deaths, world>>

StartLaunch ==
  /\ Serving("launch")
  /\ Head(toDaemon).uid \in DOMAIN known
  /\ proc = None
  /\ plays < MaxPlays
  /\ plays' = plays + 1
  /\ handler' = Head(toDaemon).uid
  /\ alive' = handler'
  /\ UNCHANGED <<menu, toDaemon, toMenu, proc, known, deaths, world>>

FinishLaunch ==
  /\ handler # None
  /\ proc' = handler
  /\ handler' = None
  /\ Serve(Answer(TRUE, {}))
  /\ UNCHANGED <<menu, alive, known, plays, deaths, world>>

List ==
  /\ Serving("list")
  /\ Serve(Answer(TRUE, DOMAIN known))
  /\ UNCHANGED <<menu, handler, proc, alive, known, plays, deaths, world>>

Refresh ==
  /\ Serving("refresh")
  /\ known' = Scan
  /\ Serve(Answer(TRUE, DOMAIN known'))
  /\ UNCHANGED <<menu, handler, proc, alive, plays, deaths, world>>

TitleExits ==
  /\ alive # None
  /\ alive' = None
  /\ UNCHANGED <<menu, toDaemon, toMenu, handler, proc, known, plays,
                 deaths, world>>

Touch(u) == [v \in DOMAIN known |-> IF v = u THEN known[v] + 1 ELSE known[v]]

\* _reap and emit_tracked: Library.touch, then the event.
Reap ==
  /\ proc # None
  /\ alive = None
  /\ known' = Touch(proc)
  /\ toMenu' = IF up THEN Append(toMenu, Exited(proc)) ELSE toMenu
  /\ proc' = None
  /\ UNCHANGED <<menu, toDaemon, handler, alive, plays, deaths, world>>

\* The daemon dies, the title with it, and the menu sees the connection go: every
\* callback fails, and a failed launch restores the screen.  One step: what the
\* menu still reads from the dead connection it might have read before.
DaemonDies ==
  /\ deaths < MaxDeaths
  /\ deaths' = deaths + 1
  /\ handler' = None /\ proc' = None /\ alive' = None
  /\ known' = Scan
  /\ toDaemon' = <<>> /\ toMenu' = <<>> /\ asked' = <<>>
  /\ up' = FALSE
  /\ IF \E i \in DOMAIN asked : asked[i].cmd = "launch"
     THEN Restore ELSE UNCHANGED <<running, consumed, veil>>
  /\ UNCHANGED <<shown, control, plays, world>>

\* Titles are installed and removed (by Steam, mostly), drives come and go.  At
\* most one provider fails at a time.
WorldChanges ==
  /\ \/ \E u \in Uids : disk' \in {disk \union {u}, disk \ {u}}
        /\ UNCHANGED broken
     \/ broken' \in {{}} \union {{p} : p \in Providers} /\ UNCHANGED disk
  /\ UNCHANGED <<overlay, menu, toDaemon, toMenu, handler, proc, alive, known, plays, deaths>>

Daemon == RefuseLaunch \/ StartLaunch \/ FinishLaunch \/ List \/ Refresh \/ Reap
Menu == Connect \/ HearReply \/ HearExited

Next ==
  \/ Menu
  \/ Daemon
  \/ \E u \in Uids : Confirm(u)
  \/ ConfirmUnconnected
  \/ OpenControl
  \/ CloseControl
  \/ TitleExits
  \/ DaemonDies
  \/ WorldChanges

Spec == Init /\ [][Next]_vars /\ WF_vars(Menu) /\ WF_vars(Daemon) /\ WF_vars(Reap)

-------------------------------------------------------------------------------
Launching == \E i \in DOMAIN asked : asked[i].cmd = "launch"
ExitOnItsWay == \E i \in DOMAIN toMenu : toMenu[i].kind = "exited"

\* As long as the daemon that launched it lives, the title the menu takes for
\* running is the one the daemon runs, or its exit is on its way, or its launch
\* has not been answered.
RunningAgrees ==
  running # None /\ deaths = 0 => running = proc \/ Launching \/ ExitOnItsWay

\* While a title runs the home screen is covered and does not listen: what is
\* pressed in a game is meant for the game.  (Dismissing the Control Center over
\* a title breaks it, so this is about users who do not open it.)  It holds
\* across deaths of the daemon.
CoveredWhilePlaying ==
  proc # None /\ ~ Launching /\ ~ overlay => veil /\ consumed /\ running = proc

\* However a title ends, the screen comes back: once nothing runs and nothing is
\* being launched the veil lifts.
VeilLifts ==
  (veil /\ alive = None /\ handler = None) ~> (~ veil \/ alive # None)

\* The same as long as the daemon does not die.
VeilLiftsWhileUp ==
  (veil /\ alive = None /\ handler = None)
    ~> (~ veil \/ alive # None \/ deaths > 0)

\* What was installed while a title ran has a card once the menu is back, whatever
\* happens to the providers of other titles.
InstalledShowsUp ==
  \A u \in Uids :
    (ExitOnItsWay /\ u \in disk) ~>
      (u \in shown \/ u \notin disk \/ ProviderOf[u] \in broken \/ ~ up)

\* A title holds the console from its start to its reaping; see OneTitle.
Holder == IF handler # None THEN handler ELSE proc

Service == INSTANCE OneTitle WITH Titles <- Uids, NoTitle <- None,
                                  claim <- Holder, playing <- alive, shown <- proc

\* What this module takes for the daemon keeps OneTitle's promise, as the session
\* layer itself does (TitleSession!ImplementsOneTitle).
ServesOneTitle == Service!Spec
===============================================================================
