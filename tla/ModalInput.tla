------------------------------ MODULE ModalInput -------------------------------
(***************************************************************************)
(* Who gets the next button: the router (menu/core/input_router.gd), the   *)
(* home screen and the eight overlays above it (menu/screens).  Overlays   *)
(* read buttons themselves, the topmost in the tree first; what none of    *)
(* them handles reaches the router, which hands it to the home screen      *)
(* unless its one flag, _consumed, says that a modal owns the input.       *)
(*                                                                         *)
(* open() sets the flag.  close() fades the overlay out over some frames   *)
(* and only then clears it, so that a close() of one overlay ends after    *)
(* the open() of another.  The PS button arrives twice, from Godot and     *)
(* from the daemon (daemon/pentad/inputs.py), in the middle of anything.   *)
(***************************************************************************)
EXTENDS Integers, Sequences

CONSTANTS
  Rooms,      \* screens behind the icons: of "library", "store", "settings", "profile"
  Buttons,    \* of "south" and "east"
  Kinds,      \* how long the PS button is pressed: of "short" and "long"
  Busy,       \* values of busy to look at: TRUE, FALSE or both
  MaxFades    \* bound: fades at the same time

ASSUME ModalAssumption ==
  /\ Rooms \subseteq {"library", "store", "settings", "profile"}
  /\ Buttons \subseteq {"south", "east"}
  /\ Kinds \subseteq {"short", "long"}
  /\ Busy \subseteq BOOLEAN
  /\ MaxFades \in Nat \ {0}

\* From the top of the tree down: the order in which they see a button.
Top == <<"network", "installer", "profile", "store", "settings", "library",
         "power", "control">>
Overlays == {Top[i] : i \in 1 .. 8}
Above == [o \in Overlays |->
            {Top[i] : i \in {i \in 1 .. 8 : \E j \in i + 1 .. 8 : Top[j] = o}}]

VARIABLES
  open,        \* overlays with _open
  visible,     \* overlays with visible
  fades,       \* close() calls waiting for their tween, oldest first
  consumed,    \* Router._consumed
  swapped,     \* not Router.confirm_is_south
  installing,  \* the install screen's _phase; CONFIRM takes what PICK takes
  install,     \* "asked": an install.start has not been answered; "runs": dd runs,
               \* whether or not it was asked for again; or "none"
  connecting,  \* the network screen is in CONNECTING
  armed,       \* the power menu's _confirming
  veil,        \* home's _running_uid is not empty
  asked,       \* home's title.launch has not been answered
  closing,     \* the Control Center's title.close has not been answered
  runs,        \* the daemon runs a title
  ps, events,  \* the PS button, and the daemon's events about it
  busy         \* the daemon, too, reports the PS button, and Settings starts Steam

modals == <<open, visible, fades, consumed, installing, armed>>
title == <<veil, asked, runs>>
button == <<ps, events>>
rest == <<swapped, connecting, closing, busy, install>>
vars == <<modals, title, button, rest>>

Init ==
  /\ open = {} /\ visible = {} /\ fades = <<>> /\ consumed = FALSE
  /\ swapped = FALSE
  /\ installing = "pick" /\ install = "none"
  /\ connecting = FALSE
  /\ armed = FALSE
  /\ veil = FALSE /\ asked = FALSE /\ closing = FALSE /\ runs = FALSE
  /\ ps = "up" /\ events = <<>>
  /\ busy \in Busy

-------------------------------------------------------------------------------
\* open(): nothing if it is open.
OpenScreen(o) ==
  IF o \in open THEN UNCHANGED modals ELSE
  /\ open' = open \union {o}
  /\ visible' = visible \union {o}
  /\ consumed' = TRUE
  /\ installing' = IF o = "installer" THEN "pick" ELSE installing
  /\ armed' = (armed /\ o # "power")
  /\ UNCHANGED fades

\* close() up to its await; next is what its caller does afterwards.  The
\* install screen does not close while it says that dd runs.
CloseScreen(o, next) ==
  IF o \notin open \/ (o = "installer" /\ installing = "working")
  THEN UNCHANGED modals ELSE
  /\ Len(fades) < MaxFades
  /\ open' = open \ {o}
  /\ fades' = Append(fades, [of |-> o, next |-> next])
  /\ UNCHANGED <<visible, consumed, installing, armed>>

\* home.gd _on_confirm on a card; one launch is unanswered at a time.
Launch ==
  /\ ~ asked
  /\ veil' = TRUE
  /\ asked' = TRUE
  /\ consumed' = TRUE
  /\ UNCHANGED <<open, visible, installing, armed, runs>>

\* _on_confirm: a card, an icon, or an empty row.
HomeConfirm ==
  \/ Launch /\ UNCHANGED fades
  \/ \E r \in Rooms : OpenScreen(r) /\ UNCHANGED title
  \/ UNCHANGED <<modals, title>>

\* Mutant: the flag is left to the next open().
FadeEndsKept ==
  /\ fades # <<>>
  /\ fades' = Tail(fades)
  /\ visible' = visible \ {Head(fades).of}
  /\ IF Head(fades).next \in Overlays \ open
     THEN /\ open' = open \union {Head(fades).next}
          /\ consumed' = TRUE
     ELSE UNCHANGED <<open, consumed>>
  /\ UNCHANGED <<installing, armed, title, button, rest>>

\* The rest of close(), and of the handler that waited for it: the power menu
\* after the Control Center, the network and install screens after Settings, a
\* launch (or, if the title is gone from the list, the icon in focus) after the
\* library.
FadeEnds ==
  /\ fades # <<>>
  /\ LET f == Head(fades)
         o == f.next
     IN
     /\ fades' = Tail(fades)
     /\ \/ /\ o = "home" \/ o \in open \/ (o = "launch" /\ "library" \in open)
           /\ visible' = visible \ {f.of}
           /\ consumed' = FALSE
           /\ UNCHANGED <<open, installing, armed, title>>
        \/ /\ o \in Overlays \ open
           /\ open' = open \union {o}
           /\ visible' = (visible \ {f.of}) \union {o}
           /\ consumed' = TRUE
           /\ installing' = IF o = "installer" THEN "pick" ELSE installing
           /\ armed' = (armed /\ o # "power")
           /\ UNCHANGED title
        \/ /\ o = "launch"
           /\ ~ asked
           /\ veil' = TRUE /\ asked' = TRUE
           /\ visible' = visible \ {f.of}
           /\ consumed' = TRUE
           /\ UNCHANGED <<open, installing, armed, runs>>
        \/ /\ o = "launch"
           /\ "library" \notin open
           /\ open' = open \union {"library"}
           /\ visible' = (visible \ {f.of}) \union {"library"}
           /\ consumed' = TRUE
           /\ UNCHANGED <<installing, armed, title>>
  /\ UNCHANGED <<button, rest>>

-------------------------------------------------------------------------------
\* Buttons.

Handles(o, b) ==
  CASE o = "installer" -> installing = "done" \/ (installing = "pick" /\ b = "east")
    [] o = "network" -> ~ connecting
    [] OTHER -> TRUE

Takes(o, b) ==
  /\ o \in open /\ Handles(o, b)
  /\ \A p \in Above[o] \intersect open : ~ Handles(p, b)

\* The Control Center: Circle closes it; its tiles lead to the power menu, or ask
\* the daemon to close the title that _game_running says there is: it was asked for
\* when the overlay opened, and may be wrong by now.
ControlCenter(b) ==
  /\ \/ /\ \/ b = "east" /\ CloseScreen("control", "home")
           \/ b = "south" /\ CloseScreen("control", "power")
        /\ UNCHANGED closing
     \/ b = "south" /\ closing' = TRUE /\ UNCHANGED modals
  /\ UNCHANGED <<title, button, swapped, connecting, busy, install>>

\* The power menu: the first Cross arms, the next ones send a command, of which
\* nothing comes back but a failure; Circle disarms, or closes.
PowerMenu(b) ==
  /\ \/ /\ b = "south" \/ armed
        /\ armed' = (b = "south")
        /\ UNCHANGED <<open, visible, fades, consumed, installing>>
     \/ b = "east" /\ ~ armed /\ CloseScreen("power", "home")
  /\ UNCHANGED <<title, button, rest>>

\* Mutant: the handler of the card does not wait for the fade.
LibraryHasty(b) ==
  /\ b = "south" /\ ~ asked
  /\ Len(fades) < MaxFades
  /\ open' = open \ {"library"}
  /\ fades' = Append(fades, [of |-> "library", next |-> "home"])
  /\ veil' = TRUE /\ asked' = TRUE
  /\ consumed' = TRUE
  /\ UNCHANGED <<visible, installing, armed, runs, button, rest>>

\* A card of the library is launched.
LibraryScreen(b) ==
  /\ b = "south"
  /\ CloseScreen("library", "launch")
  /\ UNCHANGED <<title, button, rest>>

\* Circle closes the library, the store and the profile, which Cross closes as well.
\* In a library without cards Cross does nothing, in the store it opens a page of Steam.
PlainScreen(o, b) ==
  /\ IF b = "east" \/ o = "profile" THEN CloseScreen(o, "home") ELSE UNCHANGED modals
  /\ UNCHANGED <<title, button, rest>>

\* Mutant: the handler of the row does not wait for the fade.
SettingsHasty(b) ==
  /\ UNCHANGED <<button, connecting, closing, busy, install>>
  /\ \/ \E o \in {"network", "installer"} :
          /\ b = "south"
          /\ Len(fades) < MaxFades
          /\ open' = (open \ {"settings"}) \union {o}
          /\ visible' = visible \union {o}
          /\ fades' = Append(fades, [of |-> "settings", next |-> "home"])
          /\ consumed' = TRUE
          /\ installing' = "pick"
          /\ UNCHANGED <<armed, title, swapped>>
     \/ b = "east" /\ CloseScreen("settings", "home") /\ UNCHANGED <<title, swapped>>

\* Settings: its rows lead to two other screens, swap Cross and Circle, or start
\* Steam.
SettingsScreen(b) ==
  /\ UNCHANGED <<button, connecting, closing, busy, install>>
  /\ \/ /\ \/ b = "east" /\ CloseScreen("settings", "home")
           \/ \E o \in {"network", "installer"} : b = "south" /\ CloseScreen("settings", o)
        /\ UNCHANGED <<title, swapped>>
     \/ b = "south" /\ swapped' = ~ swapped /\ UNCHANGED <<modals, title>>
     \/ /\ b = "south" /\ busy /\ ~ runs
        /\ runs' = TRUE
        /\ UNCHANGED <<modals, veil, asked, swapped>>

\* The install screen: what it handles closes it (Handles).
InstallScreen == CloseScreen("installer", "home") /\ UNCHANGED <<title, button, rest>>

\* The network screen: Circle closes it or is the keyboard's backspace, Cross
\* leads to an attempt to connect.
NetworkScreen(b) ==
  /\ \/ b = "east" /\ UNCHANGED connecting
        /\ (CloseScreen("network", "home") \/ UNCHANGED modals)
     \/ b = "south" /\ connecting' = TRUE /\ UNCHANGED modals
  /\ UNCHANGED <<title, button, swapped, closing, busy, install>>

\* Cross or Circle goes down: the topmost overlay that handles it, else the router.
Press(b) ==
  \/ Takes("control", b) /\ ControlCenter(b)
  \/ Takes("power", b) /\ PowerMenu(b)
  \/ Takes("library", b) /\ LibraryScreen(b)
  \/ \E o \in {"library", "store", "profile"} : Takes(o, b) /\ PlainScreen(o, b)
  \/ Takes("settings", b) /\ SettingsScreen(b)
  \/ Takes("installer", b) /\ InstallScreen
  \/ Takes("network", b) /\ NetworkScreen(b)
  \/ /\ \A o \in Overlays : ~ Takes(o, b)
     /\ ~ consumed
     /\ b = "south" <=> ~ swapped
     /\ HomeConfirm
     /\ UNCHANGED <<button, rest>>

\* home.gd _on_ps.
OnPs ==
  IF "power" \in visible THEN CloseScreen("power", "home")
  ELSE IF "control" \in open THEN CloseScreen("control", "home")
  ELSE OpenScreen("control")

\* The PS button goes down: the Control Center's, else the router's.
PsDown ==
  /\ ps = "up" /\ events = <<>>
  /\ ps' = "down"
  /\ IF "control" \in open THEN CloseScreen("control", "home")
     ELSE IF ~ consumed THEN OnPs
     ELSE UNCHANGED modals
  /\ UNCHANGED <<events, title, rest>>

\* It goes up, and the daemon knows how long it was down.
PsUp ==
  /\ ps = "down"
  /\ ps' = "up"
  /\ \E kind \in Kinds : events' = IF busy THEN <<kind>> ELSE <<>>
  /\ UNCHANGED <<modals, title, rest>>

\* home.gd _on_daemon_event("input.ps_button").
HearPs ==
  /\ events # <<>>
  /\ events' = Tail(events)
  /\ IF Head(events) = "long" THEN OpenScreen("power") ELSE OnPs
  /\ UNCHANGED <<ps, title, rest>>

-------------------------------------------------------------------------------
\* What the overlays wait for.

\* Three seconds of Cross: the daemon is asked, and asked again each frame that
\* Cross stays down (InstallFlow has the order of the answers).
Held ==
  /\ "installer" \in open /\ installing = "pick"
  /\ install' = IF install = "none" THEN "asked" ELSE install
  /\ UNCHANGED <<modals, title, button, swapped, connecting, closing, busy>>

Installing(phase) ==
  /\ installing' = phase
  /\ UNCHANGED <<open, visible, fades, consumed, armed, title, button, swapped,
                 connecting, closing, busy>>

\* install.start is answered: dd runs, or _fail.  The screen may be closed by now,
\* which no callback looks at.
InstallStarts ==
  /\ install = "asked"
  /\ install' = "runs"
  /\ Installing("working")

InstallRefused ==
  /\ install # "none"
  /\ install' = install \/ (install = "asked" /\ install' = "none")
  /\ Installing("pick")

\* install.progress and install.done, which a closed screen does not hear.
InstallProgress ==
  /\ install = "runs" /\ "installer" \in open
  /\ UNCHANGED install
  /\ Installing("working")

InstallEnds ==
  /\ install = "runs"
  /\ install' \in {"none", "asked"}
  /\ \E phase \in {"done", "pick"} :
       Installing(IF "installer" \in open THEN phase ELSE installing)

Connected ==
  /\ connecting
  /\ connecting' = FALSE
  /\ UNCHANGED <<modals, title, button, swapped, closing, busy, install>>

\* The daemon could not suspend, restart or power off, when it was told to just
\* now or before the menu was closed.
PowerFails ==
  /\ armed
  /\ armed' = FALSE
  /\ UNCHANGED <<open, visible, fades, consumed, installing, title, button, rest>>

\* title.close is answered.
Closed ==
  /\ closing
  /\ closing' = FALSE
  /\ CloseScreen("control", "home")
  /\ UNCHANGED <<title, button, swapped, connecting, busy, install>>

\* title.launch is answered: started, or an error and _restore_from_launch.
Launched ==
  /\ asked /\ asked' = FALSE
  /\ \/ ~ runs /\ runs' = TRUE /\ UNCHANGED <<veil, consumed>>
     \/ veil' = FALSE /\ consumed' = FALSE /\ UNCHANGED runs
  /\ UNCHANGED <<open, visible, fades, installing, armed, button, rest>>

\* title.exited: _restore_from_launch, whoever had started it.
Exited ==
  /\ runs /\ runs' = FALSE
  /\ veil' = FALSE
  /\ consumed' = FALSE
  /\ UNCHANGED <<open, visible, fades, installing, armed, asked, button, rest>>

Next ==
  \/ \E b \in Buttons : Press(b)
  \/ PsDown \/ PsUp \/ HearPs
  \/ FadeEnds
  \/ Held \/ InstallStarts \/ InstallRefused \/ InstallProgress \/ InstallEnds
  \/ Connected \/ PowerFails \/ Closed
  \/ Launched \/ Exited

\* Tweens end; nothing is asked of the user.
Spec == Init /\ [][Next]_vars /\ WF_vars(FadeEnds)

-------------------------------------------------------------------------------
\* The input never goes dead: while the router is off, an overlay takes the
\* buttons, one is about to give them back, or a title is on the screen.
NeverDead == consumed => open # {} \/ fades # <<>> \/ veil

\* The next two hold as long as the PS button comes from Godot alone and nothing
\* but the home screen starts a title.  (An overlay that opens or a title that
\* exits while another overlay is open breaks them: the router has one flag.)

\* "true while a modal owns input": one overlay at a time, also in the hand-offs
\* between them; it can be seen, and the home screen under it is inert.
ModalOwnsInput ==
  ~ busy => \A o \in open : open = {o} /\ o \in visible /\ consumed

\* Under the veil of a game the home screen, from which a second one would start,
\* is inert: no overlay is open, none opens, and no fade that began before the game
\* was started gives the input back when it ends.
TitleOwnsInput == ~ busy /\ veil => open = {} /\ fades = <<>> /\ consumed
===============================================================================
