--------------------------- MODULE Screens_proofs ---------------------------
(***************************************************************************)
(* Proofs about the menu's screens: who has the input (ModalInput), what   *)
(* the Wi-Fi screen does with a password (NetworkFlow), and what a picture *)
(* on a card costs (ArtCache), for any buttons, rooms, networks, pictures, *)
(* and number of fades, of slots and of requests on their way.             *)
(*                                                                         *)
(* NeverDead is inductive once it is known that fades is a sequence:       *)
(* whoever turns the router off leaves an overlay open or the veil drawn,  *)
(* whoever closes an overlay leaves a fade, and whoever ends a fade or     *)
(* lifts the veil turns the router on.                                     *)
(*                                                                         *)
(* With a daemon that reports no PS button, ModalOwnsInput and             *)
(* TitleOwnsInput follow from OneOwner: the home screen, one overlay, one  *)
(* fade or one title has the input, and a step passes it on.               *)
(*                                                                         *)
(* A password goes to its own network because the list stands still while  *)
(* it is typed (ForOne): a user who waits has no scan on its way then.     *)
(*                                                                         *)
(* The pump takes requests until one more would not fit, so that it leaves *)
(* a slot free only with an empty queue (Pumping); a picture that nobody   *)
(* has asked for is not in what it takes.                                  *)
(***************************************************************************)
EXTENDS ModalInput, NetworkFlow, ArtCache, FiniteSetTheorems, WellFoundedInduction, TLAPS

Fade == [of : Overlays, next : Overlays \union {"home", "launch"}]

Alive == fades \in Seq(Fade) /\ NeverDead

\* close(), whoever calls it, leaves a fade.
LEMMA ClosingFades ==
  ASSUME Alive, NEW o \in Overlays, NEW next \in Overlays \union {"home", "launch"},
         CloseScreen(o, next)
  PROVE  /\ fades' \in Seq(Fade)
         /\ consumed' => open' # {} \/ fades' # <<>> \/ veil
<1>1. CASE UNCHANGED modals
  BY <1>1 DEF modals, Alive, NeverDead
<1>2. CASE fades' = Append(fades, [of |-> o, next |-> next])
  BY <1>2 DEF Alive, Fade
<1> QED
  BY <1>1, <1>2 DEF CloseScreen

\* open() leaves an overlay open.
LEMMA OpeningOpens ==
  ASSUME Alive, NEW o \in Overlays, OpenScreen(o)
  PROVE  fades' \in Seq(Fade) /\ open' # {}
BY DEF OpenScreen, Alive, modals

LEMMA OverlayNames ==
  {"network", "installer", "profile", "store", "settings", "library", "power", "control"}
    \subseteq Overlays
<1>1. \A i \in 1 .. 8 : Top[i] \in Overlays
  BY DEF Overlays
<1> QED
  BY <1>1 DEF Top

LEMMA AliveStep == Alive /\ [Next]_vars => Alive'
<1> SUFFICES ASSUME Alive, [Next]_vars PROVE Alive'
  OBVIOUS
<1> USE OverlayNames
<1> DEFINE Kept == UNCHANGED <<veil>>
<1>1. ASSUME NEW o \in Overlays, NEW next \in Overlays \union {"home", "launch"},
             CloseScreen(o, next), Kept
      PROVE Alive'
  BY <1>1, ClosingFades DEF Alive, NeverDead
<1>2. ASSUME NEW o \in Overlays, OpenScreen(o) PROVE Alive'
  BY <1>2, OpeningOpens DEF Alive, NeverDead
<1>3. ASSUME UNCHANGED <<modals, veil>> PROVE Alive'
  BY <1>3 DEF Alive, NeverDead, modals
<1>4. ASSUME UNCHANGED <<open, fades, consumed, veil>> PROVE Alive'
  BY <1>4 DEF Alive, NeverDead
<1>5. ASSUME NEW b \in Buttons, Press(b) PROVE Alive'
  <2>1. CASE ControlCenter(b)
    BY <2>1, <1>1, <1>3 DEF ControlCenter, title
  <2>2. CASE PowerMenu(b)
    BY <2>2, <1>1, <1>4 DEF PowerMenu, title
  <2>3. CASE LibraryScreen(b)
    BY <2>3, <1>1 DEF LibraryScreen, title
  <2>4. CASE \E o \in {"library", "store", "profile"} : PlainScreen(o, b)
    BY <2>4, <1>1, <1>3 DEF PlainScreen, title
  <2>5. CASE SettingsScreen(b)
    <3>1. CASE \E o \in {"network", "installer"} : CloseScreen("settings", o) /\ UNCHANGED title
      BY <3>1, <1>1 DEF title
    <3>2. CASE CloseScreen("settings", "home") /\ UNCHANGED title
      BY <3>2, <1>1 DEF title
    <3>3. CASE UNCHANGED <<modals, veil>>
      BY <3>3, <1>3
    <3> QED
      BY <2>5, <3>1, <3>2, <3>3 DEF SettingsScreen, title
  <2>6. CASE InstallScreen
    BY <2>6, <1>1 DEF InstallScreen, title
  <2>7. CASE NetworkScreen(b)
    BY <2>7, <1>1, <1>3 DEF NetworkScreen, title
  <2>8. CASE HomeConfirm
    <3>1. CASE Launch /\ UNCHANGED fades
      BY <3>1 DEF Launch, Alive, NeverDead
    <3>2. CASE \E r \in Rooms : OpenScreen(r)
      BY <3>2, <1>2, ModalAssumption
    <3>3. CASE UNCHANGED <<modals, title>>
      BY <3>3, <1>3 DEF title
    <3> QED
      BY <2>8, <3>1, <3>2, <3>3 DEF HomeConfirm
  <2> QED
    BY <1>5, <2>1, <2>2, <2>3, <2>4, <2>5, <2>6, <2>7, <2>8 DEF Press
<1>6. ASSUME OnPs, Kept PROVE Alive'
  BY <1>6, <1>1, <1>2 DEF OnPs
<1>7. CASE PsDown
  BY <1>7, <1>1, <1>3, <1>6 DEF PsDown, title
<1>8. CASE PsUp
  BY <1>8, <1>3 DEF PsUp, title
<1>9. CASE HearPs
  BY <1>9, <1>2, <1>6 DEF HearPs, title
<1>10. CASE FadeEnds
  <2>1. fades' = Tail(fades) /\ fades # <<>>
    BY <1>10 DEF FadeEnds
  <2>2. fades' \in Seq(Fade)
    BY <2>1 DEF Alive
  <2>3. ~ consumed' \/ open' # {} \/ veil'
    BY <1>10 DEF FadeEnds
  <2> QED
    BY <2>2, <2>3 DEF Alive, NeverDead
<1>11. CASE Held \/ InstallStarts \/ InstallRefused \/ InstallProgress \/ InstallEnds
            \/ PowerFails
  BY <1>11, <1>4 DEF Held, InstallStarts, InstallRefused, InstallProgress, InstallEnds,
                     Installing, PowerFails, title, modals
<1>12. CASE Connected
  BY <1>12, <1>3 DEF Connected, title
<1>13. CASE Closed
  BY <1>13, <1>1 DEF Closed, title
<1>14. CASE Launched
  BY <1>14 DEF Launched, Alive, NeverDead
<1>15. CASE Exited
  BY <1>15 DEF Exited, Alive, NeverDead
<1>16. CASE UNCHANGED vars
  BY <1>16, <1>3 DEF vars, title
<1> QED
  BY <1>5, <1>7, <1>8, <1>9, <1>10, <1>11, <1>12, <1>13, <1>14, <1>15, <1>16 DEF Next

\* The input never goes dead, in whatever order buttons, fades, events and
\* answers come.
THEOREM NeverGoesDead == Spec => []NeverDead
<1>1. Init => Alive
  BY DEF Init, Alive, NeverDead
<1>2. Alive => NeverDead
  BY DEF Alive
<1> QED
  BY <1>1, <1>2, AliveStep, PTL DEF Spec

-------------------------------------------------------------------------------
\* While the daemon reports no PS button, exactly one of four has the input: the home
\* screen, an overlay, a fade that will pass it on, or a title that starts or runs.
AtHome == open = {} /\ fades = <<>> /\ ~ consumed /\ ~ asked /\ ~ runs /\ ~ veil

InModal ==
  /\ \E o \in Overlays : open = {o} /\ o \in visible
  /\ fades = <<>> /\ consumed /\ ~ asked /\ ~ runs /\ ~ veil

InFade ==
  /\ open = {} /\ (\E f \in Fade : fades = <<f>>) /\ consumed
  /\ ~ asked /\ ~ runs /\ ~ veil

InTitle ==
  /\ open = {} /\ fades = <<>> /\ consumed
  /\ (asked /\ ~ runs) \/ (~ asked /\ runs)

OneOwner == ~ busy => events = <<>> /\ (AtHome \/ InModal \/ InFade \/ InTitle)

\* close() in an overlay leads to its fade; elsewhere it does nothing.
LEMMA CloseHandsOver ==
  ASSUME OneOwner, NEW o \in Overlays, NEW next \in Overlays \union {"home", "launch"},
         CloseScreen(o, next), UNCHANGED <<title, events, busy>>
  PROVE  OneOwner'
<1> SUFFICES ASSUME ~ busy PROVE (AtHome \/ InModal \/ InFade \/ InTitle)'
  BY DEF OneOwner
<1>1. CASE UNCHANGED modals
  BY <1>1 DEF modals, title, OneOwner, AtHome, InModal, InFade, InTitle
<1>2. CASE /\ o \in open /\ open' = open \ {o}
           /\ fades' = Append(fades, [of |-> o, next |-> next])
           /\ UNCHANGED <<visible, consumed, installing, armed>>
  <2>1. InModal /\ open = {o}
    BY <1>2 DEF OneOwner, AtHome, InModal, InFade, InTitle
  <2>2. fades' = <<[of |-> o, next |-> next]>> /\ [of |-> o, next |-> next] \in Fade
    BY <1>2, <2>1 DEF InModal, Fade
  <2> QED
    BY <1>2, <2>1, <2>2 DEF InFade, InModal, title
<1> QED
  BY <1>1, <1>2 DEF CloseScreen

\* open() on the home screen leads to an overlay.
LEMMA OpenTakesOver ==
  ASSUME OneOwner, AtHome, NEW o \in Overlays, OpenScreen(o),
         UNCHANGED <<title, events, busy>>
  PROVE  OneOwner'
<1>1. open' = {o} /\ o \in visible' /\ consumed' = TRUE /\ fades' = <<>>
  BY DEF OpenScreen, AtHome
<1> QED
  BY <1>1 DEF OneOwner, InModal, AtHome, title

\* Outside a modal the router is all that counts.
LEMMA NothingElse ==
  ASSUME OneOwner,
         UNCHANGED <<open, visible, fades, consumed, veil, asked, runs, events, busy>>
  PROVE  OneOwner'
BY DEF OneOwner, AtHome, InModal, InFade, InTitle

\* Nothing makes the daemon report the PS button that did not.
LEMMA BusyStays == [Next]_vars => busy' = busy
<1> SUFFICES ASSUME [Next]_vars PROVE busy' = busy
  OBVIOUS
<1>1. ASSUME NEW b \in Buttons, Press(b) PROVE busy' = busy
  BY <1>1 DEF Press, ControlCenter, PowerMenu, LibraryScreen, PlainScreen, SettingsScreen,
              InstallScreen, NetworkScreen, rest
<1>2. CASE PsDown \/ PsUp \/ HearPs \/ FadeEnds
  BY <1>2 DEF PsDown, PsUp, HearPs, FadeEnds, rest
<1>3. CASE Held \/ InstallStarts \/ InstallRefused \/ InstallProgress \/ InstallEnds
  BY <1>3 DEF Held, InstallStarts, InstallRefused, InstallProgress, InstallEnds, Installing, rest
<1>5. CASE Connected \/ PowerFails \/ Closed
  BY <1>5 DEF Connected, PowerFails, Closed, rest
<1>4. CASE Launched \/ Exited \/ UNCHANGED vars
  BY <1>4 DEF Launched, Exited, rest, vars
<1> QED
  BY <1>1, <1>2, <1>3, <1>4, <1>5 DEF Next

LEMMA OwnerStep == OneOwner /\ [Next]_vars => OneOwner'
<1> SUFFICES ASSUME OneOwner, [Next]_vars, ~ busy PROVE OneOwner'
  BY BusyStays DEF OneOwner
<1> USE OverlayNames
<1> DEFINE Still == UNCHANGED <<title, events, busy>>
<1>1. ASSUME NEW o \in Overlays, NEW next \in Overlays \union {"home", "launch"},
             CloseScreen(o, next), Still
      PROVE OneOwner'
  BY <1>1, CloseHandsOver
<1>2. ASSUME UNCHANGED modals, Still PROVE OneOwner'
  BY <1>2, NothingElse DEF modals, title
<1>3. ASSUME NEW b \in Buttons, Press(b) PROVE OneOwner'
  <2>1. CASE ControlCenter(b)
    BY <2>1, <1>1, <1>2 DEF ControlCenter, title, button
  <2>2. CASE PowerMenu(b)
    <3>1. CASE CloseScreen("power", "home") /\ Still
      BY <3>1, <1>1
    <3>2. CASE UNCHANGED <<open, visible, fades, consumed>> /\ Still
      BY <3>2, NothingElse DEF title
    <3> QED
      BY <2>2, <3>1, <3>2 DEF PowerMenu, title, button, rest
  <2>3. CASE LibraryScreen(b)
    BY <2>3, <1>1 DEF LibraryScreen, title, button, rest
  <2>4. CASE \E o \in {"library", "store", "profile"} : PlainScreen(o, b)
    BY <2>4, <1>1, <1>2 DEF PlainScreen, title, button, rest
  <2>5. CASE SettingsScreen(b)
    <3>1. CASE \E o \in {"network", "installer", "home"} : CloseScreen("settings", o) /\ Still
      BY <3>1, <1>1
    <3>2. CASE UNCHANGED modals /\ Still
      BY <3>2, <1>2
    <3> QED
      BY <2>5, <3>1, <3>2 DEF SettingsScreen, title, button
  <2>6. CASE InstallScreen
    BY <2>6, <1>1 DEF InstallScreen, title, button, rest
  <2>7. CASE NetworkScreen(b)
    BY <2>7, <1>1, <1>2 DEF NetworkScreen, title, button
  <2>8. CASE ~ consumed /\ HomeConfirm /\ UNCHANGED <<button, rest>>
    <3>1. AtHome
      BY <2>8 DEF OneOwner, AtHome, InModal, InFade, InTitle
    <3>2. CASE Launch /\ UNCHANGED fades
      <4>1. open' = {} /\ fades' = <<>> /\ consumed' /\ asked' /\ ~ runs'
        BY <3>1, <3>2 DEF Launch, AtHome
      <4>2. events' = events
        BY <2>8 DEF button
      <4>3. InTitle'
        BY <4>1 DEF InTitle
      <4> QED
        BY <4>2, <4>3 DEF OneOwner
    <3>3. CASE \E r \in Rooms : OpenScreen(r) /\ UNCHANGED title
      BY <2>8, <3>1, <3>3, OpenTakesOver, ModalAssumption DEF button, rest
    <3>4. CASE UNCHANGED <<modals, title>>
      BY <2>8, <3>4, <1>2 DEF button, rest
    <3> QED
      BY <2>8, <3>2, <3>3, <3>4 DEF HomeConfirm
  <2> QED
    BY <1>3, <2>1, <2>2, <2>3, <2>4, <2>5, <2>6, <2>7, <2>8 DEF Press
<1>4. CASE PsDown
  <2>1. Still
    BY <1>4 DEF PsDown, rest
  <2>2. CASE CloseScreen("control", "home")
    BY <2>1, <2>2, <1>1
  <2>3. CASE "control" \notin open /\ ~ consumed /\ OnPs
    <3>1. AtHome
      BY <2>3 DEF OneOwner, AtHome, InModal, InFade, InTitle
    <3>2. CASE CloseScreen("power", "home")
      BY <2>1, <3>2, <1>1
    <3>3. CASE OpenScreen("control")
      BY <2>1, <3>1, <3>3, OpenTakesOver
    <3> QED
      BY <2>3, <3>2, <3>3 DEF OnPs
  <2>4. CASE UNCHANGED modals
    BY <2>1, <2>4, <1>2
  <2> QED
    BY <1>4, <2>2, <2>3, <2>4 DEF PsDown
<1>5. CASE PsUp
  BY <1>5 DEF PsUp, modals, title, rest, OneOwner, AtHome, InModal, InFade, InTitle
<1>6. CASE HearPs
  BY <1>6 DEF HearPs, OneOwner
<1>7. CASE FadeEnds
  <2>1. open = {} /\ ~ asked /\ ~ runs /\ ~ veil /\ UNCHANGED <<events, busy>> /\ events = <<>>
    BY <1>7 DEF FadeEnds, button, rest, OneOwner, AtHome, InModal, InFade, InTitle
  <2>2. PICK f \in Fade : fades = <<f>>
    BY <1>7 DEF FadeEnds, OneOwner, AtHome, InModal, InFade, InTitle
  <2>3. fades' = <<>> /\ Head(fades) = f
    BY <1>7, <2>2 DEF FadeEnds
  <2>4. CASE consumed' = FALSE /\ UNCHANGED <<open, title>>
    BY <2>1, <2>3, <2>4 DEF OneOwner, AtHome, title
  <2>5. CASE /\ f.next \in Overlays
             /\ open' = open \union {f.next} /\ f.next \in visible'
             /\ consumed' = TRUE /\ UNCHANGED title
    BY <2>1, <2>3, <2>5 DEF OneOwner, InModal, title
  <2>6. CASE asked' = TRUE /\ consumed' = TRUE /\ UNCHANGED <<open, runs>>
    <3>1. open' = {} /\ fades' = <<>> /\ consumed' /\ asked' /\ ~ runs' /\ events' = <<>>
      BY <2>1, <2>3, <2>6
    <3>2. InTitle'
      BY <3>1 DEF InTitle
    <3> QED
      BY <2>1, <3>2 DEF OneOwner
  <2>7. CASE /\ open' = open \union {"library"} /\ "library" \in visible'
             /\ consumed' = TRUE /\ UNCHANGED title
    BY <2>1, <2>3, <2>7 DEF OneOwner, InModal, title
  <2> QED
    BY <1>7, <2>3, <2>4, <2>5, <2>6, <2>7 DEF FadeEnds
<1>8. CASE Held \/ InstallStarts \/ InstallRefused \/ InstallProgress \/ InstallEnds
           \/ PowerFails
  BY <1>8, NothingElse DEF Held, InstallStarts, InstallRefused, InstallProgress, InstallEnds,
       Installing, PowerFails, modals, title, button, rest
<1>9. CASE Connected
  BY <1>9, <1>2 DEF Connected, title, button
<1>10. CASE Closed
  BY <1>10, <1>1 DEF Closed, title, button
<1>11. CASE Launched
  <2>1. InTitle /\ ~ runs
    BY <1>11 DEF Launched, OneOwner, AtHome, InModal, InFade, InTitle
  <2>2. UNCHANGED <<open, fades>> /\ ~ asked' /\ events' = <<>>
    BY <1>11 DEF Launched, button, OneOwner
  <2>3. CASE runs' /\ UNCHANGED consumed
    <3>1. InTitle'
      BY <2>1, <2>2, <2>3 DEF InTitle
    <3> QED
      BY <2>2, <3>1 DEF OneOwner
  <2>4. CASE ~ consumed' /\ ~ veil' /\ UNCHANGED runs
    <3>1. AtHome'
      BY <2>1, <2>2, <2>4 DEF AtHome, InTitle
    <3> QED
      BY <2>2, <3>1 DEF OneOwner
  <2> QED
    BY <1>11, <2>3, <2>4 DEF Launched
<1>12. CASE Exited
  BY <1>12 DEF Exited, button, rest, OneOwner, AtHome, InModal, InFade, InTitle
<1>13. CASE UNCHANGED vars
  BY <1>13, <1>2 DEF vars, title, button, rest
<1> QED
  BY <1>3, <1>4, <1>5, <1>6, <1>7, <1>8, <1>9, <1>10, <1>11, <1>12, <1>13 DEF Next

LEMMA OwnerInit == Init => OneOwner
BY DEF Init, OneOwner, AtHome

\* With a quiet daemon one overlay at a time owns the input, also in the hand-offs
\* between them, and the home screen under it is inert.
THEOREM ModalOwnsTheInput == Spec => []ModalOwnsInput
<1>1. OneOwner => ModalOwnsInput
  BY DEF OneOwner, ModalOwnsInput, AtHome, InModal, InFade, InTitle
<1> QED
  BY <1>1, OwnerInit, OwnerStep, PTL DEF Spec

\* With a quiet daemon nothing shares the input with a game: no overlay is open over its
\* veil, and no fade gives the input back to the home screen under it.
THEOREM TitleOwnsTheInput == Spec => []TitleOwnsInput
<1>1. OneOwner => TitleOwnsInput
  BY DEF OneOwner, TitleOwnsInput, AtHome, InModal, InFade, InTitle
<1> QED
  BY <1>1, OwnerInit, OwnerStep, PTL DEF Spec

-------------------------------------------------------------------------------
\* The Wi-Fi screen.

Lists == {<<>>} \union Signals
Requests ==
  {Scan} \union [cmd : {"connect"}, ssid : Nets, typed : Nets \union {None}]
Replies == [ok : BOOLEAN, list : Lists, known : SUBSET Nets]

OnTheWire ==
  /\ sent \in Seq(Requests) /\ answers \in Seq(Replies)
  /\ Len(answers) =< Len(sent)
  /\ list \in Lists /\ air \in Signals /\ saved \subseteq Nets
  /\ {typed, prompt} \subseteq Nets \union {None}

\* A password is there for a screen that is open.
Typing ==
  /\ phase \in {"password", "connecting"} => shown
  /\ PasswordForgotten

\* With a user who waits for scans, the row in focus is the one the password is for, and
\* what is on its way is for the network that it was typed for.
ForOne ==
  patient =>
    /\ phase = "password" =>
         /\ index \in DOMAIN list => list[index] = prompt
         /\ typed \in {None, prompt}
         /\ \A i \in 1 .. Len(sent) : sent[i] # Scan
    /\ \A i \in 1 .. Len(sent) :
         sent[i] = Scan \/ sent[i].typed \in {None, sent[i].ssid}

NetworkInv == OnTheWire /\ Typing /\ ForOne /\ OnlyItsNetwork

LEMMA RowsAreNets == \A l \in Lists : \A i \in DOMAIN l : l[i] \in Nets
<1> SUFFICES ASSUME NEW l \in Lists, NEW i \in DOMAIN l PROVE l[i] \in Nets
  OBVIOUS
<1>1. CASE l = <<>>
  BY <1>1
<1>2. CASE l \in Signals
  <2>1. PICK S \in SUBSET Nets : l \in SetToSeqs(S)
    BY <1>2 DEF Signals
  <2>2. PICK D : l \in [D -> S]
    BY <2>1 DEF SetToSeqs
  <2> QED
    BY <2>2
<1> QED
  BY <1>1, <1>2 DEF Lists

LEMMA NetworkStarts == NetworkInit => NetworkInv
<1> SUFFICES ASSUME NetworkInit PROVE NetworkInv
  OBVIOUS
<1>1. sent = <<>> /\ answers = <<>> /\ list = <<>> /\ air \in Signals /\ saved = {}
      /\ typed = None /\ prompt = None /\ phase = "list" /\ tried.typed = None
  BY DEF NetworkInit
<1>2. OnTheWire
  BY <1>1 DEF OnTheWire, Lists
<1>3. Typing /\ ForOne /\ OnlyItsNetwork
  BY <1>1 DEF Typing, PasswordForgotten, ForOne, OnlyItsNetwork
<1> QED
  BY <1>2, <1>3 DEF NetworkInv

\* What a request at the end, and an answer that is heard, leave on the wire.
LEMMA OneMore ==
  ASSUME OnTheWire, NEW r \in Requests, sent' = Append(sent, r)
  PROVE  /\ sent' \in Seq(Requests) /\ Len(sent') = Len(sent) + 1
         /\ Len(sent) \in Nat /\ Len(answers) \in Nat
         /\ \A i \in 1 .. Len(sent') :
              sent'[i] = r \/ (i \in 1 .. Len(sent) /\ sent'[i] = sent[i])
BY DEF OnTheWire

LEMMA OneLess ==
  ASSUME OnTheWire, answers # <<>>, sent' = Tail(sent), answers' = Tail(answers)
  PROVE  /\ sent' \in Seq(Requests) /\ answers' \in Seq(Replies) /\ Len(answers') =< Len(sent')
         /\ Head(answers) \in Replies /\ Head(sent) \in Requests
         /\ Head(sent) = sent[1] /\ 1 \in 1 .. Len(sent)
         /\ \A i \in 1 .. Len(sent') : i + 1 \in 1 .. Len(sent) /\ sent'[i] = sent[i + 1]
<1>1. Len(answers) \in Nat \ {0} /\ Len(sent) \in Nat /\ Len(answers) =< Len(sent)
      /\ sent \in Seq(Requests) /\ answers \in Seq(Replies)
  BY DEF OnTheWire
<1>2. sent # <<>> /\ Len(sent) \in Nat \ {0}
  BY <1>1
<1>3. Len(sent') = Len(sent) - 1 /\ Len(answers') = Len(answers) - 1
  BY <1>1, <1>2
<1>4. sent' \in Seq(Requests) /\ answers' \in Seq(Replies)
      /\ Head(answers) \in Replies /\ Head(sent) \in Requests /\ Head(sent) = sent[1]
  BY <1>1, <1>2
<1>5. \A i \in 1 .. Len(sent') : i + 1 \in 1 .. Len(sent) /\ sent'[i] = sent[i + 1]
  BY <1>1, <1>2, <1>3
<1> QED
  BY <1>1, <1>2, <1>3, <1>4, <1>5

LEMMA Forms ==
  /\ Scan \in Requests /\ Scan.cmd = "scan"
  /\ \A n \in Nets, p \in Nets \union {None} :
       /\ Join(n, p) \in Requests
       /\ Join(n, p).ssid = n /\ Join(n, p).typed = p
  /\ \A r \in Requests : /\ r = Scan <=> r.cmd = "scan"
                         /\ r # Scan => r.cmd = "connect" /\ r.ssid \in Nets
  /\ \A ok \in BOOLEAN, l \in Lists, ks \in SUBSET Nets : Answer(ok, l, ks) \in Replies
  /\ Failed \in Replies
BY DEF Scan, Requests, Join, Replies, Answer, Failed, Lists

\* _connect, with the password for that network or without one.
LEMMA Joining ==
  ASSUME NetworkInv, NEW n \in Nets, patient => typed \in {None, n},
         Connect(n), shown' = shown, shown,
         UNCHANGED <<list, index, answers, daemon>>, prompt' \in Nets \union {None}
  PROVE  NetworkInv'
<1>1. UNCHANGED <<air, saved, tried, patient>>
  BY DEF daemon
<1>2. CASE up
  <2> DEFINE r == Join(n, typed)
  <2>1. phase' = "connecting" /\ sent' = Append(sent, r) /\ typed' = typed
    BY <1>2 DEF Connect
  <2>2. r \in Requests /\ r.ssid = n /\ r.typed = typed
    BY Forms DEF NetworkInv, OnTheWire
  <2> HIDE DEF r
  <2>3. /\ sent' \in Seq(Requests) /\ Len(sent') = Len(sent) + 1
        /\ Len(sent) \in Nat /\ Len(answers) \in Nat
        /\ \A i \in 1 .. Len(sent') :
             sent'[i] = r \/ (i \in 1 .. Len(sent) /\ sent'[i] = sent[i])
    BY <2>1, <2>2, OneMore DEF NetworkInv
  <2>4. OnTheWire'
    BY <1>1, <2>1, <2>3 DEF NetworkInv, OnTheWire
  <2>5. Typing'
    BY <2>1 DEF Typing, PasswordForgotten
  <2>6. ASSUME patient, NEW i \in 1 .. Len(sent')
        PROVE  sent'[i] = Scan \/ sent'[i].typed \in {None, sent'[i].ssid}
    BY <2>2, <2>3, <2>6 DEF NetworkInv, ForOne
  <2>7. ForOne'
    BY <1>1, <2>1, <2>6 DEF ForOne
  <2> QED
    BY <1>1, <2>4, <2>5, <2>7 DEF NetworkInv, OnlyItsNetwork
<1>3. CASE ~ up
  <2>1. phase' = "list" /\ typed' = None /\ sent' = sent
    BY <1>3 DEF Connect
  <2> QED
    BY <1>1, <2>1 DEF NetworkInv, OnTheWire, Typing, PasswordForgotten, ForOne,
       OnlyItsNetwork
<1> QED
  BY <1>2, <1>3

LEMMA NetworkStep == NetworkInv /\ [NetworkNext]_networkVars => NetworkInv'
<1> SUFFICES ASSUME NetworkInv, [NetworkNext]_networkVars PROVE NetworkInv'
  OBVIOUS
<1> USE DEF NetworkInv
<1>1. CASE Open
  <2>1. /\ shown' /\ phase' = "list" /\ typed' = None
        /\ UNCHANGED <<list, prompt, answers, air, saved, tried, patient>>
        /\ sent' = Append(sent, Scan) \/ sent' = sent
    BY <1>1 DEF Open, daemon
  <2>2. CASE sent' = sent
    BY <2>1, <2>2 DEF OnTheWire, Typing, PasswordForgotten, ForOne,
       OnlyItsNetwork
  <2>3. CASE sent' = Append(sent, Scan)
    <3>1. /\ sent' \in Seq(Requests) /\ Len(sent') = Len(sent) + 1
          /\ Len(sent) \in Nat /\ Len(answers) \in Nat
          /\ \A i \in 1 .. Len(sent') :
               sent'[i] = Scan \/ (i \in 1 .. Len(sent) /\ sent'[i] = sent[i])
      BY <2>3, Forms, OneMore
    <3>2. OnTheWire'
      BY <2>1, <3>1 DEF OnTheWire
    <3>3. Typing' /\ ForOne'
      BY <2>1, <3>1 DEF Typing, PasswordForgotten, ForOne
    <3> QED
      BY <2>1, <3>2, <3>3 DEF OnlyItsNetwork
  <2> QED
    BY <2>1, <2>2, <2>3
<1>2. CASE Close \/ Move(1) \/ Move(-1)
  <2>1. /\ phase = "list"
        /\ UNCHANGED <<phase, list, prompt, typed, sent, answers, air, saved, tried, patient>>
    BY <1>2 DEF Close, Move, wire, daemon
  <2> QED
    BY <2>1 DEF OnTheWire, Typing, PasswordForgotten, ForOne, OnlyItsNetwork
<1>3. CASE Choose
  <2>1. /\ shown /\ shown' = shown /\ phase = "list"
        /\ index \in DOMAIN list /\ ~ Hurried
        /\ UNCHANGED <<list, index, answers, daemon>>
    BY <1>3 DEF Choose
  <2>2. PICK n : n = list[index]
    OBVIOUS
  <2>3. n \in Nets /\ typed = None
    BY <2>1, <2>2, RowsAreNets DEF OnTheWire, Typing, PasswordForgotten
  <2>4. CASE Connect(n) /\ UNCHANGED prompt
    BY <2>1, <2>3, <2>4, Joining DEF OnTheWire
  <2>5. CASE phase' = "password" /\ typed' = None /\ prompt' = n /\ UNCHANGED sent
    <3>1. UNCHANGED <<air, saved, tried, patient>>
      BY <2>1 DEF daemon
    <3>2. patient => \A i \in 1 .. Len(sent) : sent[i] # Scan
      <4>1. ToSet(sent) = {sent[i] : i \in 1 .. Len(sent)}
        BY DEF ToSet, OnTheWire
      <4> QED
        BY <2>1, <4>1 DEF Hurried
    <3>3. OnTheWire'
      BY <2>1, <2>3, <2>5, <3>1 DEF OnTheWire
    <3>4. Typing' /\ ForOne'
      BY <2>1, <2>2, <2>5, <3>1, <3>2 DEF Typing, PasswordForgotten, ForOne
    <3> QED
      BY <3>1, <3>3, <3>4 DEF OnlyItsNetwork
  <2> QED
    BY <1>3, <2>2, <2>4, <2>5 DEF Choose
<1>4. CASE Type \/ Erase
  <2>1. /\ shown /\ shown' /\ phase = "password" /\ phase' \in {"list", "password"}
        /\ typed' \in {None, prompt} /\ (phase' = "list" => typed' = None)
        /\ UNCHANGED <<list, index, prompt, sent, answers, air, saved, tried, patient>>
    BY <1>4 DEF Type, Erase, wire, daemon
  <2> QED
    BY <2>1 DEF OnTheWire, Typing, PasswordForgotten, ForOne, OnlyItsNetwork
<1>5. CASE Submit
  <2>1. /\ shown /\ shown' = shown /\ phase = "password"
        /\ index \in DOMAIN list /\ Connect(list[index])
        /\ UNCHANGED <<list, index, prompt, answers, daemon>>
    BY <1>5 DEF Submit
  <2>2. PICK n : n = list[index]
    OBVIOUS
  <2>3. n \in Nets /\ (patient => typed \in {None, n})
    BY <2>1, <2>2, RowsAreNets DEF OnTheWire, ForOne
  <2> QED
    BY <2>1, <2>2, <2>3, Joining DEF OnTheWire
<1>6. CASE Hear
  <2>1. /\ answers # <<>> /\ sent' = Tail(sent) /\ answers' = Tail(answers)
        /\ UNCHANGED <<shown, index, prompt, air, saved, tried, patient>>
    BY <1>6 DEF Hear, daemon
  <2>2. /\ sent' \in Seq(Requests) /\ answers' \in Seq(Replies) /\ Len(answers') =< Len(sent')
        /\ Head(answers) \in Replies /\ Head(sent) \in Requests
        /\ Head(sent) = sent[1] /\ 1 \in 1 .. Len(sent)
        /\ \A i \in 1 .. Len(sent') : i + 1 \in 1 .. Len(sent) /\ sent'[i] = sent[i + 1]
    BY <2>1, OneLess
  <2>3. CASE Head(sent).cmd = "scan"
    <3>1. UNCHANGED <<phase, typed>> /\ list' \in {list, Head(answers).list}
      BY <1>6, <2>3 DEF Hear, Scanned
    <3>2. list' \in Lists
      BY <2>2, <3>1 DEF OnTheWire, Replies
    <3>3. sent[1] = Scan
      BY <2>2, <2>3, Forms
    <3>4. patient => phase # "password"
      BY <2>2, <3>3 DEF ForOne
    <3>5. OnTheWire' /\ Typing'
      BY <2>1, <2>2, <3>1, <3>2 DEF OnTheWire, Typing, PasswordForgotten
    <3>6. ForOne'
      BY <2>1, <2>2, <3>1, <3>4 DEF ForOne
    <3> QED
      BY <2>1, <3>5, <3>6 DEF OnlyItsNetwork
  <2>4. CASE Head(sent).cmd # "scan"
    <3>1. typed' = None /\ (phase' = "list" \/ (phase' = phase /\ ~ shown)) /\ list' = list
      BY <1>6, <2>4 DEF Hear, Joined
    <3>2. phase' \notin {"password", "connecting"}
      BY <3>1 DEF Typing
    <3>3. OnTheWire' /\ Typing'
      BY <2>1, <2>2, <3>1, <3>2 DEF OnTheWire, Typing, PasswordForgotten
    <3>4. ForOne'
      BY <2>1, <2>2, <3>2 DEF ForOne
    <3> QED
      BY <2>1, <3>3, <3>4 DEF OnlyItsNetwork
  <2> QED
    BY <2>3, <2>4
<1>7. CASE ServeScan
  <2>1. UNCHANGED <<shown, phase, list, index, prompt, typed, sent, air, saved, tried, patient>>
        /\ Len(answers) < Len(sent)
    BY <1>7 DEF ServeScan, Serving, screen, daemon
  <2>2. PICK a \in Replies : answers' = Append(answers, a)
    <3>1. Answer(TRUE, air, saved) \in Replies /\ Failed \in Replies
      BY Forms DEF OnTheWire, Lists
    <3> QED
      BY <1>7, <3>1 DEF ServeScan, Serve
  <2>3. answers' \in Seq(Replies) /\ Len(answers') =< Len(sent)
    BY <2>1, <2>2 DEF OnTheWire
  <2> QED
    BY <2>1, <2>3 DEF OnTheWire, Typing, PasswordForgotten, ForOne,
       OnlyItsNetwork
<1>8. CASE ServeConnect
  <2>1. UNCHANGED <<shown, phase, list, index, prompt, typed, sent, air, patient>>
        /\ Serving("connect")
    BY <1>8 DEF ServeConnect, screen
  <2>2. PICK k : k = Len(answers) + 1
    OBVIOUS
  <2>3. k \in 1 .. Len(sent) /\ sent[k].cmd = "connect" /\ Len(answers) < Len(sent)
    BY <2>1, <2>2 DEF Serving, OnTheWire
  <2>4. sent[k] \in Requests /\ sent[k] # Scan
    BY <2>3, Forms DEF OnTheWire
  <2>5. /\ tried' = [ssid |-> sent[k].ssid, typed |-> sent[k].typed]
        /\ saved' = saved \/ saved' = saved \union {sent[k].ssid}
    BY <1>8, <2>2 DEF ServeConnect
  <2>6. PICK a \in Replies : answers' = Append(answers, a)
    <3>1. Answer(TRUE, <<>>, {}) \in Replies /\ Failed \in Replies
      BY Forms DEF Lists
    <3> QED
      BY <1>8, <3>1 DEF ServeConnect, Serve
  <2>7. answers' \in Seq(Replies) /\ Len(answers') =< Len(sent)
    BY <2>3, <2>6 DEF OnTheWire
  <2>8. saved' \subseteq Nets
    BY <2>4, <2>5, Forms DEF OnTheWire
  <2>9. OnTheWire'
    BY <2>1, <2>7, <2>8 DEF OnTheWire
  <2>10. OnlyItsNetwork'
    BY <2>1, <2>3, <2>4, <2>5 DEF OnlyItsNetwork, ForOne
  <2> QED
    BY <2>1, <2>9, <2>10 DEF Typing, PasswordForgotten, ForOne
<1>9. CASE AirChanges \/ Reconnect
  <2>1. UNCHANGED <<shown, phase, list, index, prompt, typed, sent, answers, saved, tried, patient>>
        /\ air' \in Signals
    BY <1>9 DEF AirChanges, Reconnect, screen, wire,
       daemon, OnTheWire
  <2> QED
    BY <2>1 DEF OnTheWire, Typing, PasswordForgotten, ForOne, OnlyItsNetwork
<1>10. CASE DaemonDies
  <2>1. /\ sent' = <<>> /\ answers' = <<>>
        /\ UNCHANGED <<shown, list, index, prompt, air, saved, tried, patient>>
        /\ \/ UNCHANGED <<phase, typed>>
           \/ typed' = None /\ (phase' = "list" \/ (phase' = phase /\ ~ shown))
    BY <1>10 DEF DaemonDies, Joined, daemon
  <2> QED
    BY <2>1 DEF OnTheWire, Typing, PasswordForgotten, ForOne, OnlyItsNetwork
<1>11. CASE UNCHANGED networkVars
  BY <1>11 DEF networkVars, screen, wire, daemon, OnTheWire,
     Typing, PasswordForgotten, ForOne, OnlyItsNetwork
<1> QED
  BY <1>1, <1>2, <1>3, <1>4, <1>5, <1>6, <1>7, <1>8, <1>9, <1>10, <1>11 DEF NetworkNext

\* A password goes to the network that it was typed for, if the user waits for scans.
THEOREM SentToItsOwn == NetworkSpec => []OnlyItsNetwork
<1>1. NetworkInv => OnlyItsNetwork
  BY DEF NetworkInv
<1> QED
  BY <1>1, NetworkStarts, NetworkStep, PTL DEF NetworkSpec

\* A password is kept for nothing but the keyboard and the attempt to connect.
THEOREM NotKept == NetworkSpec => []PasswordForgotten
<1>1. NetworkInv => PasswordForgotten
  BY DEF NetworkInv, Typing
<1> QED
  BY <1>1, NetworkStarts, NetworkStep, PTL DEF NetworkSpec
-------------------------------------------------------------------------------
\* Cover art.

\* The first n requests of q that take a slot.
Slotted(q, n) == {i \in 1 .. n : q[i] \notin Unreachable}

\* n requests are taken out only if there is a slot for the last of them.
Fits(q, began, n) == n = 0 \/ began + Cardinality(Slotted(q, n - 1)) < MaxParallel

LEMMA Greatest ==
  ASSUME NEW l \in Nat, NEW S \in SUBSET (0 .. l), S # {}
  PROVE  Max(S) \in S /\ \A n \in S : n =< Max(S)
<1> DEFINE T == {l - n : n \in S}
<1>1. T \subseteq Nat /\ T # {}
  <2>1. \A n \in S : n \in Nat /\ n =< l /\ l - n \in Nat
    OBVIOUS
  <2>2. PICK n : n \in S
    OBVIOUS
  <2>3. l - n \in T
    BY <2>2
  <2> QED
    BY <2>1, <2>3
<1>2. PICK t \in T : \A u \in T : ~ (<<u, t>> \in OpToRel(<, Nat))
  BY <1>1, NatLessThanWellFounded, WFMin
<1>3. \A u \in T : ~ (u < t)
  BY <1>1, <1>2 DEF OpToRel
<1>4. PICK m \in S : t = l - m
  BY <1>2
<1>5. \A n \in S : m >= n
  <2> SUFFICES ASSUME NEW n \in S PROVE m >= n
    OBVIOUS
  <2>1. l - n \in T
    OBVIOUS
  <2>2. ~ (l - n < l - m)
    BY <1>3, <1>4, <2>1
  <2> QED
    BY <2>2
<1>6. Max(S) \in S /\ \A n \in S : Max(S) >= n
  BY <1>4, <1>5 DEF Max
<1> QED
  BY <1>6

LEMMA SlotCount ==
  ASSUME NEW q, NEW n \in Nat
  PROVE  IsFiniteSet(Slotted(q, n)) /\ Cardinality(Slotted(q, n)) \in Nat
<1>1. IsFiniteSet(1 .. n)
  BY FS_Interval
<1>2. Slotted(q, n) \in SUBSET (1 .. n)
  BY DEF Slotted
<1> QED
  BY <1>1, <1>2, FS_Subset, FS_CardinalityType

LEMMA OneSlot ==
  ASSUME NEW q, NEW n \in Nat \ {0}
  PROVE  Cardinality(Slotted(q, n)) =< Cardinality(Slotted(q, n - 1)) + 1
<1>1. n - 1 \in Nat /\ n \notin Slotted(q, n - 1)
  BY DEF Slotted
<1>2. Slotted(q, n) = Slotted(q, n - 1) \/ Slotted(q, n) = Slotted(q, n - 1) \union {n}
  BY DEF Slotted
<1>3. IsFiniteSet(Slotted(q, n - 1)) /\ Cardinality(Slotted(q, n - 1)) \in Nat
  BY <1>1, SlotCount
<1>4. CASE Slotted(q, n) = Slotted(q, n - 1)
  BY <1>3, <1>4
<1>5. CASE Slotted(q, n) = Slotted(q, n - 1) \union {n}
  <2>1. Cardinality(Slotted(q, n)) = Cardinality(Slotted(q, n - 1)) + 1
    BY <1>1, <1>3, <1>5, FS_AddElement
  <2> QED
    BY <1>3, <2>1
<1> QED
  BY <1>2, <1>4, <1>5

\* more counts one download of k more than js.
OneOn(js, more, k) ==
  more[k] = js[k] + 1 /\ \A m \in Keys \ {k} : more[m] = js[m]

LEMMA DownloadMore ==
  ASSUME NEW js \in [Keys -> Nat], NEW k \in Keys, NEW more \in [Keys -> Nat],
         IsFiniteSet(Downloads(js)), OneOn(js, more, k)
  PROVE  /\ IsFiniteSet(Downloads(more))
         /\ Cardinality(Downloads(more)) = Cardinality(Downloads(js)) + 1
<1> DEFINE last == <<k, js[k] + 1>>
<1>1. last \notin Downloads(js)
  BY DEF Downloads
<1>2. Downloads(more) = Downloads(js) \union {last}
  <2>1. \A m \in Keys : {m} \X (1 .. more[m]) =
           IF m = k THEN ({m} \X (1 .. js[m])) \union {last} ELSE {m} \X (1 .. js[m])
    BY DEF OneOn
  <2> HIDE DEF last
  <2> QED
    BY <2>1 DEF Downloads
<1> HIDE DEF last
<1>3. /\ IsFiniteSet(Downloads(js) \union {last})
      /\ Cardinality(Downloads(js) \union {last}) = Cardinality(Downloads(js)) + 1
  BY <1>1, FS_AddElement
<1> QED
  BY <1>2, <1>3

LEMMA DownloadLess ==
  ASSUME NEW js \in [Keys -> Nat], NEW k \in Keys, NEW less \in [Keys -> Nat],
         IsFiniteSet(Downloads(js)), OneOn(less, js, k)
  PROVE  /\ IsFiniteSet(Downloads(less))
         /\ Cardinality(Downloads(less)) = Cardinality(Downloads(js)) - 1
<1>2. Downloads(less) \in SUBSET Downloads(js)
  <2>1. \A m \in Keys : 1 .. less[m] \subseteq 1 .. js[m]
    BY DEF OneOn
  <2> QED
    BY <2>1 DEF Downloads
<1>3. IsFiniteSet(Downloads(less)) /\ Cardinality(Downloads(less)) \in Nat
  BY <1>2, FS_Subset, FS_CardinalityType
<1>4. Cardinality(Downloads(js)) = Cardinality(Downloads(less)) + 1
  BY <1>3, DownloadMore
<1>5. Cardinality(Downloads(less)) = Cardinality(Downloads(js)) - 1
  BY <1>3, <1>4
<1> QED
  BY <1>3, <1>5

\* The requests for k among the first n of q, as _pump starts them.
Begun(q, n, k) == IF k \in Unreachable THEN {} ELSE {i \in 1 .. n : q[i] = k}

\* The downloads once the first n of q have been taken out.
After(q, n, js) == [k \in Keys |-> js[k] + Cardinality(Begun(q, n, k))]

LEMMA BegunCount ==
  ASSUME NEW q, NEW n \in Nat, NEW k
  PROVE  IsFiniteSet(Begun(q, n, k)) /\ Cardinality(Begun(q, n, k)) \in Nat
<1>1. IsFiniteSet(1 .. n)
  BY FS_Interval
<1>2. Begun(q, n, k) \in SUBSET (1 .. n)
  BY DEF Begun
<1> QED
  BY <1>1, <1>2, FS_Subset, FS_CardinalityType

LEMMA BegunSlotted ==
  ASSUME NEW q \in Seq(Keys), NEW n \in 0 .. Len(q)
  PROVE  UNION {Begun(q, n, k) : k \in Keys} = Slotted(q, n)
<1>1. ASSUME NEW i \in Slotted(q, n) PROVE i \in UNION {Begun(q, n, k) : k \in Keys}
  <2>1. i \in 1 .. n /\ q[i] \in Keys /\ q[i] \notin Unreachable
    BY <1>1 DEF Slotted
  <2>2. i \in Begun(q, n, q[i])
    BY <2>1 DEF Begun
  <2> QED
    BY <2>1, <2>2
<1>2. ASSUME NEW k \in Keys, NEW i \in Begun(q, n, k) PROVE i \in Slotted(q, n)
  BY <1>2 DEF Slotted, Begun
<1> QED
  BY <1>1, <1>2

LEMMA AfterType ==
  ASSUME NEW q, NEW n \in Nat, NEW js \in [Keys -> Nat]
  PROVE  After(q, n, js) \in [Keys -> Nat]
<1>1. \A k \in Keys : js[k] \in Nat /\ Cardinality(Begun(q, n, k)) \in Nat
  BY BegunCount
<1>2. \A k \in Keys : js[k] + Cardinality(Begun(q, n, k)) \in Nat
  BY <1>1
<1> QED
  BY <1>2 DEF After

\* Taking one request more out starts one download, of the picture it is for, or none.
LEMMA TakeOne ==
  ASSUME NEW q \in Seq(Keys), NEW js \in [Keys -> Nat], NEW n \in 0 .. Len(q) - 1
  PROVE  \/ /\ After(q, n + 1, js) = After(q, n, js)
            /\ Slotted(q, n + 1) = Slotted(q, n)
         \/ /\ q[n + 1] \in Keys
            /\ OneOn(After(q, n, js), After(q, n + 1, js), q[n + 1])
            /\ Slotted(q, n + 1) = Slotted(q, n) \union {n + 1}
<1> DEFINE x == q[n + 1]
<1>1. n \in Nat /\ n + 1 \in 1 .. Len(q) /\ x \in Keys /\ 1 .. n + 1 = (1 .. n) \union {n + 1}
  OBVIOUS
<1>2. CASE x \in Unreachable
  <2>1. Slotted(q, n + 1) = Slotted(q, n)
    BY <1>1, <1>2 DEF Slotted
  <2>2. \A k \in Keys : Begun(q, n + 1, k) = Begun(q, n, k)
    BY <1>1, <1>2 DEF Begun
  <2> QED
    BY <2>1, <2>2 DEF After
<1>3. CASE x \notin Unreachable
  <2>1. Slotted(q, n + 1) = Slotted(q, n) \union {n + 1}
    BY <1>1, <1>3 DEF Slotted
  <2>2. \A k \in Keys \ {x} : Begun(q, n + 1, k) = Begun(q, n, k)
    BY <1>1 DEF Begun
  <2>3. Begun(q, n + 1, x) = Begun(q, n, x) \union {n + 1} /\ n + 1 \notin Begun(q, n, x)
    BY <1>1, <1>3 DEF Begun
  <2>4. Cardinality(Begun(q, n + 1, x)) = Cardinality(Begun(q, n, x)) + 1
    BY <1>1, <2>3, BegunCount, FS_AddElement
  <2>5. Cardinality(Begun(q, n, x)) \in Nat
    BY <1>1, BegunCount
  <2>6. After(q, n + 1, js)[x] = After(q, n, js)[x] + 1
    BY <1>1, <2>4, <2>5 DEF After
  <2>7. \A k \in Keys \ {x} : After(q, n + 1, js)[k] = After(q, n, js)[k]
    BY <2>2 DEF After
  <2> QED
    BY <1>1, <2>1, <2>6, <2>7 DEF OneOn
<1> QED
  BY <1>2, <1>3

\* As many downloads are started as requests that take a slot are taken out.
Tallied(q, js, n) ==
  /\ IsFiniteSet(Downloads(After(q, n, js)))
  /\ Cardinality(Downloads(After(q, n, js))) =
       Cardinality(Downloads(js)) + Cardinality(Slotted(q, n))

LEMMA TallyOne ==
  ASSUME NEW q \in Seq(Keys), NEW js \in [Keys -> Nat], IsFiniteSet(Downloads(js)),
         NEW n \in 0 .. Len(q) - 1, Tallied(q, js, n)
  PROVE  Tallied(q, js, n + 1)
<1>1. n \in Nat /\ n + 1 \in Nat /\ n + 1 \notin Slotted(q, n)
  BY DEF Slotted
<1>2. After(q, n, js) \in [Keys -> Nat] /\ After(q, n + 1, js) \in [Keys -> Nat]
  BY <1>1, AfterType
<1>3. IsFiniteSet(Slotted(q, n)) /\ Cardinality(Slotted(q, n)) \in Nat
  BY <1>1, SlotCount
<1>4. Cardinality(Downloads(js)) \in Nat
  BY FS_CardinalityType
<1>5. CASE /\ After(q, n + 1, js) = After(q, n, js)
           /\ Slotted(q, n + 1) = Slotted(q, n)
  BY <1>5 DEF Tallied
<1>6. CASE /\ q[n + 1] \in Keys
           /\ OneOn(After(q, n, js), After(q, n + 1, js), q[n + 1])
           /\ Slotted(q, n + 1) = Slotted(q, n) \union {n + 1}
  <2>1. Cardinality(Slotted(q, n + 1)) = Cardinality(Slotted(q, n)) + 1
    BY <1>1, <1>3, <1>6, FS_AddElement
  <2>2. IsFiniteSet(Downloads(After(q, n, js)))
    BY DEF Tallied
  <2>3. /\ IsFiniteSet(Downloads(After(q, n + 1, js)))
        /\ Cardinality(Downloads(After(q, n + 1, js))) =
             Cardinality(Downloads(After(q, n, js))) + 1
    BY <1>2, <1>6, <2>2, DownloadMore
  <2> QED
    BY <1>3, <1>4, <2>1, <2>3 DEF Tallied
<1> QED
  BY <1>5, <1>6, TakeOne

\* The least n for which the tally is wrong would follow one for which it is right.
LEMMA AllTallied ==
  ASSUME NEW q \in Seq(Keys), NEW js \in [Keys -> Nat], IsFiniteSet(Downloads(js)),
         NEW n \in 0 .. Len(q)
  PROVE  Tallied(q, js, n)
<1> DEFINE Wrong == {m \in 0 .. Len(q) : ~ Tallied(q, js, m)}
<1> SUFFICES ASSUME Wrong # {} PROVE FALSE
  OBVIOUS
<1>1. Len(q) \in Nat /\ Wrong \subseteq Nat
  OBVIOUS
<1>2. PICK m \in Wrong : \A l \in Wrong : ~ (<<l, m>> \in OpToRel(<, Nat))
  BY <1>1, NatLessThanWellFounded, WFMin
<1>3. \A l \in Wrong : ~ (l < m)
  BY <1>1, <1>2 DEF OpToRel
<1>4. m # 0
  <2>1. After(q, 0, js) = js /\ Slotted(q, 0) = {}
    <3>1. Slotted(q, 0) = {} /\ \A k \in Keys : Begun(q, 0, k) = {}
      BY DEF Slotted, Begun
    <3>2. \A k \in Keys : Cardinality(Begun(q, 0, k)) = 0
      BY <3>1, FS_EmptySet
    <3>3. \A k \in Keys : js[k] + Cardinality(Begun(q, 0, k)) = js[k]
      BY <3>2
    <3> QED
      BY <3>1, <3>3 DEF After
  <2>2. Cardinality(Slotted(q, 0)) = 0 /\ Cardinality(Downloads(js)) \in Nat
    BY <2>1, FS_EmptySet, FS_CardinalityType
  <2>3. Tallied(q, js, 0)
    BY <2>1, <2>2 DEF Tallied
  <2> QED
    BY <2>3
<1>5. m - 1 \in 0 .. Len(q) - 1 /\ m - 1 < m /\ (m - 1) + 1 = m
  BY <1>1, <1>4
<1>6. Tallied(q, js, m - 1)
  <2>1. m - 1 \notin Wrong
    BY <1>3, <1>5
  <2> QED
    BY <1>1, <1>5, <2>1
<1>7. Tallied(q, js, m)
  <2>1. Tallied(q, js, (m - 1) + 1)
    BY <1>5, <1>6, TallyOne
  <2> QED
    BY <1>5, <2>1
<1> QED
  BY <1>7

LEMMA TakenFits ==
  ASSUME NEW q \in Seq(Keys), NEW began \in Int
  PROVE  /\ Taken(q, began) \in 0 .. Len(q) /\ Fits(q, began, Taken(q, began))
         /\ \A n \in 0 .. Len(q) : Fits(q, began, n) => n =< Taken(q, began)
<1> DEFINE S == {n \in 0 .. Len(q) : Fits(q, began, n)}
<1>1. Taken(q, began) = Max(S)
  BY DEF Taken, Fits, Slotted
<1>2. Len(q) \in Nat /\ S \in SUBSET (0 .. Len(q)) /\ 0 \in S
  BY DEF Fits
<1>3. Max(S) \in S /\ \A n \in S : n =< Max(S)
  BY <1>2, Greatest
<1> QED
  BY <1>1, <1>3

\* What the pump makes of a queue q and the jobs js.
PumpedFrom(q, js) ==
  /\ queue' \in Seq(Keys) /\ active' \in Int /\ jobs' \in [Keys -> Nat]
  /\ SlotsFull'
  /\ \A k \in Keys : (\A i \in DOMAIN q : q[i] # k) => ~ Queued(k)' /\ jobs'[k] = js[k]

LEMMA Pumped ==
  ASSUME NEW q \in Seq(Keys), NEW began \in Int, began =< MaxParallel,
         NEW js \in [Keys -> Nat], NEW bad, Pump(q, began, js, bad)
  PROVE  PumpedFrom(q, js)
<1> DEFINE n == Taken(q, began)
           c == Cardinality(Slotted(q, n))
<1>0. MaxParallel \in Nat \ {0}
  BY ArtAssumption DEF ArtAssumption
<1>1. /\ queue' = SubSeq(q, n + 1, Len(q))
      /\ jobs' = After(q, n, js)
      /\ active' = began + Cardinality(UNION {Begun(q, n, k) : k \in Keys})
  BY DEF Pump, After, Begun
<1>2. /\ n \in 0 .. Len(q) /\ Fits(q, began, n)
      /\ \A m \in 0 .. Len(q) : Fits(q, began, m) => m =< n
  BY TakenFits
<1> HIDE DEF n
<1>5. c \in Nat /\ active' = began + c
  <2>1. n \in Nat
    BY <1>2
  <2> QED
    BY <1>1, <1>2, <2>1, BegunSlotted, SlotCount
<1>6. began + c =< MaxParallel
  <2>1. CASE n = 0
    <3>1. Slotted(q, n) = {}
      BY <2>1 DEF Slotted
    <3>2. c = 0
      BY <3>1, FS_EmptySet
    <3> QED
      BY <3>2
  <2>2. CASE n # 0
    <3>1. n \in Nat \ {0} /\ n - 1 \in Nat
      BY <1>2, <2>2
    <3>2. c =< Cardinality(Slotted(q, n - 1)) + 1 /\ Cardinality(Slotted(q, n - 1)) \in Nat
      BY <3>1, OneSlot, SlotCount
    <3>3. began + Cardinality(Slotted(q, n - 1)) < MaxParallel
      BY <1>2, <2>2 DEF Fits
    <3> HIDE DEF c
    <3> QED
      BY <1>0, <1>5, <3>2, <3>3
  <2> QED
    BY <2>1, <2>2
<1>7. queue' # <<>> => began + c = MaxParallel
  <2> SUFFICES ASSUME queue' # <<>> PROVE began + c = MaxParallel
    OBVIOUS
  <2>1. n < Len(q)
    <3>1. n # Len(q)
      BY <1>1
    <3> QED
      BY <1>2, <3>1
  <2>2. n + 1 \in 0 .. Len(q) /\ ~ (n + 1 =< n) /\ (n + 1) - 1 = n /\ n + 1 # 0
    BY <1>2, <2>1
  <2>3. ~ Fits(q, began, n + 1)
    BY <1>2, <2>2
  <2>4. ~ (began + c < MaxParallel)
    BY <2>2, <2>3 DEF Fits
  <2> HIDE DEF c
  <2> QED
    BY <1>0, <1>5, <1>6, <2>4
<1>8. queue' \in Seq(Keys)
  BY <1>1, <1>2
<1>9. ASSUME NEW k \in Keys, \A i \in DOMAIN q : q[i] # k
      PROVE  ~ Queued(k)' /\ jobs'[k] = js[k]
  <2>1. Begun(q, n, k) = {}
    BY <1>2, <1>9 DEF Begun
  <2>2. Cardinality(Begun(q, n, k)) = 0
    BY <2>1, FS_EmptySet
  <2>3. \A i \in DOMAIN queue' : \E j \in DOMAIN q : queue'[i] = q[j]
    <3> SUFFICES ASSUME NEW i \in DOMAIN queue' PROVE \E j \in DOMAIN q : queue'[i] = q[j]
      OBVIOUS
    <3>0. n \in Nat /\ n =< Len(q) /\ Len(q) \in Nat
      BY <1>2
    <3>1. i \in 1 .. Len(q) - n /\ queue'[i] = q[n + i]
      <4>1. queue' = SubSeq(q, n + 1, Len(q)) /\ q \in Seq(Keys)
        BY <1>1
      <4> QED
        BY <3>0, <4>1
    <3>2. n + i \in DOMAIN q
      BY <3>0, <3>1
    <3> QED
      BY <3>1, <3>2
  <2>4. ~ Queued(k)'
    BY <1>9, <2>3 DEF Queued
  <2>5. jobs'[k] = js[k] + Cardinality(Begun(q, n, k))
    BY <1>1 DEF After
  <2>6. js[k] \in Nat
    OBVIOUS
  <2> QED
    BY <2>2, <2>4, <2>5, <2>6
<1>10. jobs' \in [Keys -> Nat]
  BY <1>1, <1>2, AfterType
<1> HIDE DEF c
<1>11. active' \in Int /\ SlotsFull'
  BY <1>5, <1>6, <1>7 DEF SlotsFull
<1> QED
  BY <1>8, <1>9, <1>10, <1>11 DEF PumpedFrom

\* The slots taken are the downloads under way.
InSlots == IsFiniteSet(Downloads(jobs)) /\ active = Cardinality(Downloads(jobs))

LEMMA PumpCounts ==
  ASSUME NEW q \in Seq(Keys), NEW began \in Int, NEW js \in [Keys -> Nat], NEW bad,
         IsFiniteSet(Downloads(js)), began = Cardinality(Downloads(js)),
         Pump(q, began, js, bad)
  PROVE  InSlots'
<1> DEFINE n == Taken(q, began)
<1>1. /\ jobs' = After(q, n, js)
      /\ active' = began + Cardinality(UNION {Begun(q, n, k) : k \in Keys})
  BY DEF Pump, After, Begun
<1>2. n \in 0 .. Len(q)
  BY TakenFits
<1> HIDE DEF n
<1>3. active' = Cardinality(Downloads(js)) + Cardinality(Slotted(q, n))
  BY <1>1, <1>2, BegunSlotted
<1>4. Tallied(q, js, n)
  BY <1>2, AllTallied
<1> QED
  BY <1>1, <1>3, <1>4 DEF Tallied, InSlots, Downloads

\* A step of the pump is given what is queued, and perhaps one request more.
Pumping ==
  /\ queue \in Seq(Keys) /\ active \in Int /\ jobs \in [Keys -> Nat] /\ DOMAIN file = Keys
  /\ SlotsFull

\* What a step does to a picture that is on disk and that nobody has asked for.
Stays(k) == file[k] = "good" /\ ~ Pending(k) => file'[k] = "good" /\ ~ Pending(k)'

LEMMA JobEnds ==
  ASSUME Pumping, NEW k \in Keys, jobs[k] > 0, NEW bad, Pump(queue, active - 1, Ended(k), bad),
         DOMAIN file' = Keys
  PROVE  Pumping' /\ \A m \in Keys : ~ Pending(m) => ~ Pending(m)'
<1>1. Ended(k) \in [Keys -> Nat] /\ \A m \in Keys \ {k} : Ended(k)[m] = jobs[m]
  BY DEF Pumping, Ended
<1>2. active - 1 \in Int /\ active - 1 =< MaxParallel /\ queue \in Seq(Keys)
  BY ArtAssumption DEF ArtAssumption, Pumping, SlotsFull
<1>3. /\ Pumping'
      /\ \A m \in Keys : (\A i \in DOMAIN queue : queue[i] # m) =>
           ~ Queued(m)' /\ jobs'[m] = Ended(k)[m]
  <2>1. PumpedFrom(queue, Ended(k))
    BY <1>1, <1>2, Pumped
  <2> QED
    BY <2>1 DEF Pumping, PumpedFrom
<1>4. ASSUME NEW m \in Keys, ~ Pending(m) PROVE ~ Pending(m)'
  <2>1. m # k /\ ~ Queued(m) /\ ~ (jobs[m] > 0)
    BY <1>4 DEF Pending
  <2>2. ~ Queued(m)' /\ jobs'[m] = jobs[m]
    BY <1>1, <1>3, <2>1 DEF Queued
  <2> QED
    BY <2>1, <2>2 DEF Pending
<1> QED
  BY <1>3, <1>4

LEMMA PumpingStep ==
  Pumping /\ [ArtNext]_artVars => Pumping' /\ (ArtNext => \A k \in Keys : Stays(k))
<1> SUFFICES ASSUME Pumping, [ArtNext]_artVars
             PROVE  Pumping' /\ (ArtNext => \A k \in Keys : Stays(k))
  OBVIOUS
<1>1. ASSUME NEW k \in Keys, Get(k) PROVE Pumping' /\ \A m \in Keys : Stays(m)
  <2>1. file' = file
    BY <1>1 DEF Get
  <2>2. CASE UNCHANGED <<queue, jobs, active>>
    <3>1. \A m \in Keys : Pending(m)' <=> Pending(m)
      BY <2>2 DEF Pending, Queued
    <3> QED
      BY <2>1, <2>2, <3>1 DEF Pumping, SlotsFull, Stays
  <2>3. CASE file[k] # "good" /\ Pump(Append(queue, k), active, jobs, failed)
    <3>1. Append(queue, k) \in Seq(Keys) /\ active =< MaxParallel
      BY DEF Pumping, SlotsFull
    <3> DEFINE q == Append(queue, k)
    <3>2. active \in Int /\ jobs \in [Keys -> Nat] /\ DOMAIN file' = Keys
      BY <2>1 DEF Pumping
    <3> HIDE DEF q
    <3>3. PumpedFrom(q, jobs)
      <4>1. q \in Seq(Keys) /\ Pump(q, active, jobs, failed)
        BY <2>3, <3>1 DEF q
      <4> QED
        BY <3>1, <3>2, <4>1, Pumped
    <3>4. /\ Pumping'
          /\ \A m \in Keys : (\A i \in DOMAIN Append(queue, k) : Append(queue, k)[i] # m) =>
               ~ Queued(m)' /\ jobs'[m] = jobs[m]
      BY <3>2, <3>3 DEF Pumping, PumpedFrom, q
    <3>5. ASSUME NEW m \in Keys, file[m] = "good", ~ Pending(m) PROVE ~ Pending(m)'
      <4>1. m # k /\ ~ (jobs[m] > 0) /\ \A i \in DOMAIN queue : queue[i] # m
        BY <2>3, <3>5 DEF Pending, Queued
      <4>2. \A i \in DOMAIN Append(queue, k) : Append(queue, k)[i] # m
        BY <4>1 DEF Pumping
      <4> QED
        BY <3>4, <4>1, <4>2 DEF Pending
    <3> QED
      BY <2>1, <3>4, <3>5 DEF Stays
  <2> QED
    BY <1>1, <2>2, <2>3 DEF Get
<1>2. ASSUME NEW k \in Keys, Miss(k) PROVE Pumping' /\ \A m \in Keys : Stays(m)
  BY <1>2, JobEnds DEF Miss, Stays, Pumping
<1>3. ASSUME NEW k \in Keys, Got(k) PROVE Pumping' /\ \A m \in Keys : Stays(m)
  <2>1. PICK bad : Pump(queue, active - 1, Ended(k), bad)
    BY <1>3 DEF Got
  <2>2. jobs[k] > 0 /\ DOMAIN file' = Keys /\ \A m \in Keys \ {k} : file'[m] = file[m]
    BY <1>3 DEF Got, Pumping
  <2>3. Pumping' /\ \A m \in Keys : ~ Pending(m) => m # k /\ ~ Pending(m)'
    BY <2>1, <2>2, JobEnds DEF Pending
  <2> QED
    BY <2>2, <2>3 DEF Stays
<1>4. CASE Restart
  <2>1. /\ queue' = <<>> /\ active' = 0 /\ jobs' = [k \in Keys |-> 0]
        /\ DOMAIN file' = Keys /\ \A m \in Keys : jobs[m] > 0 \/ file'[m] = file[m]
    BY <1>4 DEF Restart, Pumping
  <2>2. Pumping' /\ \A m \in Keys : ~ Pending(m)'
    BY <2>1, ArtAssumption DEF ArtAssumption, Pumping, SlotsFull, Pending, Queued
  <2> QED
    BY <2>1, <2>2 DEF Stays, Pending
<1>5. CASE UNCHANGED artVars
  BY <1>5 DEF artVars, ram, Pumping, SlotsFull, Stays, Pending, Queued
<1> QED
  BY <1>1, <1>2, <1>3, <1>4, <1>5 DEF ArtNext

LEMMA PumpingInit == ArtInit => Pumping
BY ArtAssumption DEF ArtAssumption, ArtInit, Pumping, SlotsFull

LEMMA SlotsStep == Pumping /\ InSlots /\ [ArtNext]_artVars => InSlots'
<1> SUFFICES ASSUME Pumping, InSlots, [ArtNext]_artVars PROVE InSlots'
  OBVIOUS
<1>1. queue \in Seq(Keys) /\ jobs \in [Keys -> Nat] /\ active \in Int
  BY DEF Pumping
<1>2. IsFiniteSet(Downloads(jobs)) /\ active = Cardinality(Downloads(jobs))
  BY DEF InSlots
<1>3. ASSUME NEW k \in Keys, Pump(Append(queue, k), active, jobs, failed) PROVE InSlots'
  <2>1. Append(queue, k) \in Seq(Keys)
    BY <1>1
  <2> QED
    BY <1>1, <1>2, <1>3, <2>1, PumpCounts
<1>4. ASSUME NEW k \in Keys, NEW bad, jobs[k] > 0, Pump(queue, active - 1, Ended(k), bad)
      PROVE  InSlots'
  <2>1. Ended(k) \in [Keys -> Nat] /\ OneOn(Ended(k), jobs, k)
    BY <1>1, <1>4 DEF Ended, OneOn
  <2>2. /\ IsFiniteSet(Downloads(Ended(k)))
        /\ Cardinality(Downloads(Ended(k))) = Cardinality(Downloads(jobs)) - 1
    BY <1>1, <1>2, <2>1, DownloadLess
  <2>3. active - 1 \in Int /\ active - 1 = Cardinality(Downloads(Ended(k)))
    BY <1>1, <1>2, <2>2
  <2> QED
    BY <1>1, <1>4, <2>1, <2>2, <2>3, PumpCounts
<1>5. CASE Restart
  <2>1. jobs' = [k \in Keys |-> 0] /\ active' = 0
    BY <1>5 DEF Restart
  <2>2. Downloads(jobs)' = {}
    BY <2>1 DEF Downloads
  <2> QED
    BY <2>1, <2>2, FS_EmptySet DEF InSlots
<1>6. CASE UNCHANGED <<jobs, active>>
  BY <1>6 DEF InSlots, Downloads
<1>7. ASSUME NEW k \in Keys, Get(k) PROVE InSlots'
  BY <1>3, <1>6, <1>7 DEF Get
<1>8. ASSUME NEW k \in Keys, Miss(k) \/ Got(k) PROVE InSlots'
  BY <1>4, <1>8 DEF Miss, Got
<1> QED
  BY <1>5, <1>6, <1>7, <1>8 DEF ArtNext, artVars, ram

Pictures ==
  /\ memory \subseteq Keys /\ failed \subseteq Keys /\ waiting \subseteq Keys
  /\ file \in [Keys -> {"none", "good", "bad"}]

LEMMA PicturesStep == Pictures /\ [ArtNext]_artVars => Pictures'
<1> SUFFICES ASSUME Pictures, [ArtNext]_artVars PROVE Pictures'
  OBVIOUS
<1> USE DEF Pictures
<1>1. ASSUME NEW q, NEW began, NEW js, NEW bad \in SUBSET Keys, Pump(q, began, js, bad)
      PROVE  failed' \subseteq Keys
  BY <1>1, ArtAssumption DEF ArtAssumption, Pump
<1>2. ASSUME NEW k \in Keys, Get(k) PROVE Pictures'
  <2>1. failed' = failed \/ Pump(Append(queue, k), active, jobs, failed)
    BY <1>2 DEF Get
  <2>2. failed' \subseteq Keys
    BY <1>1, <2>1
  <2> QED
    BY <1>2, <2>2 DEF Get
<1>3. ASSUME NEW k \in Keys, Miss(k) \/ Got(k) PROVE Pictures'
  <2>1. \E bad \in {failed, failed \union {k}} : Pump(queue, active - 1, Ended(k), bad)
    BY <1>3 DEF Miss, Got
  <2>2. failed' \subseteq Keys
    BY <1>1, <2>1
  <2>3. memory' \subseteq Keys /\ waiting' \subseteq Keys
    BY <1>3 DEF Miss, Got
  <2>4. file' \in [Keys -> {"none", "good", "bad"}]
    BY <1>3 DEF Miss, Got
  <2> QED
    BY <2>2, <2>3, <2>4
<1>4. CASE Restart
  BY <1>4 DEF Restart
<1>5. CASE UNCHANGED artVars
  BY <1>5 DEF artVars, ram
<1> QED
  BY <1>2, <1>3, <1>4, <1>5 DEF ArtNext

\* _active is the number of downloads under way, which is never more than the slots there
\* are, and none of these is free while a request is queued.
THEOREM SlotsAreFull == ArtSpec => []ArtTypeOK
<1>1. ArtInit => Pictures /\ InSlots
  <2>1. ArtInit => Downloads(jobs) = {}
    BY DEF ArtInit, Downloads
  <2> QED
    BY <2>1, FS_EmptySet DEF ArtInit, Pictures, InSlots
<1>2. Pictures /\ Pumping /\ InSlots => ArtTypeOK
  BY DEF Pictures, Pumping, InSlots, ArtTypeOK
<1> QED
  BY <1>1, <1>2, PumpingInit, PumpingStep, SlotsStep, PicturesStep, PTL DEF ArtSpec

\* "fetch once, cache forever".
THEOREM FetchedOnce == ArtSpec => CachedForever
<1>1. Pumping /\ [ArtNext]_artVars =>
        [\A k \in Keys : file[k] = "good" /\ ~ Pending(k) =>
           file'[k] = "good" /\ ~ Pending(k)']_artVars
  BY PumpingStep DEF Stays
<1> QED
  BY <1>1, PumpingInit, PumpingStep, PTL DEF ArtSpec, CachedForever
===============================================================================
