------------------------------ MODULE NetworkFlow ------------------------------
(***************************************************************************)
(* The Wi-Fi screen (menu/screens/network.gd) against the daemon's network *)
(* service (daemon/pentad/network.py), over the menu's one connection:     *)
(* requests are served in turn and answered in order (Ipc).                *)
(*                                                                         *)
(* A password is typed for the network in focus and sent to the network    *)
(* whose row has that number when R1 is pressed.  What was typed is        *)
(* abstracted to the network the screen asked it for.                      *)
(***************************************************************************)
EXTENDS Integers, Sequences, SequencesExt

CONSTANTS
  Nets,       \* SSIDs
  Secure,     \* those that want a password
  None,
  MaxSent     \* bound: requests not answered when the screen opens

ASSUME NetworkAssumption ==
  /\ Secure \subseteq Nets
  /\ None \notin Nets
  /\ MaxSent \in Nat

VARIABLES
  shown,     \* _open
  phase,     \* _phase
  list,      \* the SSIDs of _networks
  known,     \* those of them with a saved password, by the last scan
  rows,      \* the rows are visible
  index,     \* _index, from 1
  prompt,    \* the network in "Password for %s"
  typed,     \* _password: the network it was typed for, None when empty
  up,        \* Ipc._connected
  sent,      \* requests not answered, oldest first
  answers,   \* the answers on their way to the first of them
  air,       \* the networks nmcli sees, the strongest first
  saved,     \* NetworkManager's connections
  tried,     \* the last nmcli device wifi connect: network and password
  patient    \* the user chooses only when the scan has been answered

screen == <<shown, phase, list, known, rows, index, prompt, typed>>
wire == <<up, sent, answers>>
daemon == <<air, saved, tried, patient>>
networkVars == <<screen, wire, daemon>>

Signals == UNION {SetToSeqs(S) : S \in SUBSET Nets}

Scan == [cmd |-> "scan", ssid |-> None, typed |-> None]
Join(n, p) == [cmd |-> "connect", ssid |-> n, typed |-> p]
Answer(ok, ns, ks) == [ok |-> ok, list |-> ns, known |-> ks]
Failed == Answer(FALSE, <<>>, {})

NetworkInit ==
  /\ shown = FALSE /\ phase = "list" /\ list = <<>> /\ known = {} /\ rows = TRUE
  /\ index = 1 /\ prompt = None /\ typed = None
  /\ up = TRUE /\ sent = <<>> /\ answers = <<>>
  /\ air \in Signals /\ saved = {}
  /\ tried = [ssid |-> None, typed |-> None]
  /\ patient \in BOOLEAN

-------------------------------------------------------------------------------
\* The user.

\* open(): asks for a scan; the last one's rows are still there.
Open ==
  /\ ~ shown
  /\ Len(sent) < MaxSent
  /\ shown' = TRUE
  /\ phase' = "list"
  /\ index' = 1
  /\ typed' = None
  /\ sent' = IF up THEN Append(sent, Scan) ELSE sent
  /\ UNCHANGED <<list, known, rows, prompt, up, answers, daemon>>

Close ==
  /\ shown /\ phase = "list"
  /\ shown' = FALSE
  /\ UNCHANGED <<phase, list, known, rows, index, prompt, typed, wire, daemon>>

\* Mutant: the D-pad moves in the list behind the keyboard, too.
MoveTyping(delta) ==
  /\ shown /\ phase # "connecting" /\ list # <<>>
  /\ index' = IF index + delta < 1 THEN 1
              ELSE IF index + delta > Len(list) THEN Len(list) ELSE index + delta
  /\ UNCHANGED <<shown, phase, list, known, rows, prompt, typed, wire, daemon>>

Move(delta) ==
  /\ shown /\ phase = "list" /\ list # <<>>
  /\ index' = IF index + delta < 1 THEN 1
              ELSE IF index + delta > Len(list) THEN Len(list) ELSE index + delta
  /\ UNCHANGED <<shown, phase, list, known, rows, prompt, typed, wire, daemon>>

\* _connect.  Without a connection its callback fails at once.
Connect(n) ==
  IF up
  THEN /\ phase' = "connecting"
       /\ sent' = Append(sent, Join(n, typed))
       /\ UNCHANGED <<typed, rows>>
  ELSE phase' = "list" /\ typed' = None /\ rows' = TRUE /\ UNCHANGED sent

Hurried == patient /\ Scan \in ToSet(sent)

\* _choose: Cross on a row.
Choose ==
  /\ shown /\ phase = "list" /\ index \in DOMAIN list /\ ~ Hurried
  /\ LET n == list[index] IN
     IF n \notin Secure \/ n \in known
     THEN Connect(n) /\ UNCHANGED prompt
     ELSE /\ phase' = "password"
          /\ typed' = None
          /\ rows' = FALSE
          /\ prompt' = n
          /\ UNCHANGED sent
  /\ UNCHANGED <<shown, list, known, index, up, answers, daemon>>

Type ==
  /\ shown /\ phase = "password"
  /\ typed' = prompt
  /\ UNCHANGED <<shown, phase, list, known, rows, index, prompt, wire, daemon>>

\* Circle: deletes a character, perhaps the last one, or leaves.
Erase ==
  /\ shown /\ phase = "password"
  /\ IF typed = None
     THEN phase' = "list" /\ UNCHANGED typed
     ELSE typed' = None /\ UNCHANGED phase
  /\ UNCHANGED <<shown, list, known, rows, index, prompt, wire, daemon>>

\* R1.  A row number that the list no longer has is an error, and nothing more.
Submit ==
  /\ shown /\ phase = "password" /\ index \in DOMAIN list
  /\ Connect(list[index])
  /\ UNCHANGED <<shown, list, known, index, prompt, up, answers, daemon>>

-------------------------------------------------------------------------------
\* The callbacks.

\* _on_scan, on a good answer: the rows are built anew, whatever the phase.
Scanned(a) ==
  IF shown /\ a.ok
  THEN list' = a.list /\ known' = a.known /\ rows' = TRUE
  ELSE UNCHANGED <<list, known, rows>>

\* Mutant: the callback returns first when the screen was closed or it failed.
JoinedLate(a) ==
  IF shown /\ a.ok
  THEN typed' = None /\ phase' = "list" /\ rows' = TRUE
  ELSE UNCHANGED <<typed, phase, rows>>

\* Mutant: the password is kept for another try.
JoinedKept(a) ==
  /\ IF shown THEN phase' = "list" /\ rows' = TRUE ELSE UNCHANGED <<phase, rows>>
  /\ UNCHANGED typed

\* _connect's callback.
Joined(a) ==
  /\ typed' = None
  /\ IF shown THEN phase' = "list" /\ rows' = TRUE ELSE UNCHANGED <<phase, rows>>

Hear ==
  /\ up /\ answers # <<>>
  /\ sent' = Tail(sent)
  /\ answers' = Tail(answers)
  /\ IF Head(sent).cmd = "scan"
     THEN Scanned(Head(answers)) /\ UNCHANGED <<phase, typed>>
     ELSE Joined(Head(answers)) /\ UNCHANGED <<list, known>>
  /\ UNCHANGED <<shown, index, prompt, up, daemon>>

-------------------------------------------------------------------------------
\* The daemon and NetworkManager.

Serving(cmd) == Len(answers) < Len(sent) /\ sent[Len(answers) + 1].cmd = cmd
Serve(a) == answers' = Append(answers, a)

ServeScan ==
  /\ Serving("scan")
  /\ Serve(Answer(TRUE, air, saved)) \/ Serve(Failed)
  /\ UNCHANGED <<screen, up, sent, daemon>>

\* The password may be wrong, or the network out of reach; or nmcli times out.
ServeConnect ==
  /\ Serving("connect")
  /\ LET r == sent[Len(answers) + 1] IN
     /\ tried' = [ssid |-> r.ssid, typed |-> r.typed]
     /\ \/ Serve(Failed) /\ UNCHANGED saved
        \/ /\ Serve(Answer(TRUE, <<>>, {}))
           /\ r.ssid \in ToSet(air)
           /\ saved' = saved \union {r.ssid}
  /\ UNCHANGED <<screen, up, sent, air, patient>>

\* The console is moved, a microwave runs.
AirChanges ==
  /\ air' \in Signals \ {air}
  /\ UNCHANGED <<screen, wire, saved, tried, patient>>

\* Every callback fails: _on_scan says so, _connect's goes back to the list.
DaemonDies ==
  /\ up
  /\ up' = FALSE
  /\ sent' = <<>> /\ answers' = <<>>
  /\ IF \E i \in DOMAIN sent : sent[i].cmd = "connect"
     THEN Joined(Failed) ELSE UNCHANGED <<typed, phase, rows>>
  /\ UNCHANGED <<shown, list, known, index, prompt, daemon>>

Reconnect ==
  /\ ~ up /\ up' = TRUE
  /\ UNCHANGED <<screen, sent, answers, daemon>>

NetworkNext ==
  \/ Open \/ Close \/ Move(1) \/ Move(-1) \/ Choose \/ Type \/ Erase \/ Submit
  \/ Hear \/ ServeScan \/ ServeConnect
  \/ AirChanges \/ DaemonDies \/ Reconnect

\* The menu's frames run, and nmcli returns or is timed out.
NetworkFairness == WF_networkVars(Hear) /\ WF_networkVars(ServeScan \/ ServeConnect)

NetworkSpec == NetworkInit /\ [][NetworkNext]_networkVars /\ NetworkFairness

-------------------------------------------------------------------------------
\* A password is sent to the network it was asked for and typed for, as long as
\* the user chooses from a list that no scan is about to replace.  (One that is
\* answered while the password is typed changes the row it is sent to.)
OnlyItsNetwork == patient /\ tried.typed # None => tried.typed = tried.ssid

\* "never keep it around": a password is gone as soon as it was used, however
\* that ended, and when the screen closes.
PasswordForgotten == typed # None => shown /\ phase \in {"password", "connecting"}

\* The screen that takes no buttons while it connects takes them again, also
\* when the daemon dies meanwhile.
ConnectingEnds == phase = "connecting" ~> phase # "connecting"
===============================================================================
