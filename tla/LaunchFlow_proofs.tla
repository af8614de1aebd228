--------------------------- MODULE LaunchFlow_proofs ---------------------------
(***************************************************************************)
(* Proofs about LaunchFlow, for any titles and providers, and any number   *)
(* of launches, requests on their way and deaths of the daemon.            *)
(*                                                                         *)
(* The menu hears of two things on one connection: the answers to what it  *)
(* asked, which it tells apart by their order alone, and the ends of       *)
(* titles.  So the invariant says which answer belongs to which request    *)
(* (Pairs), and what is still to come after each answer (Launched): a      *)
(* launch that is answered "ok" runs, or its end is announced later on.    *)
(*                                                                         *)
(* Without the Control Center there is one launch at a time, from the      *)
(* press of the button until the screen comes back (Couch).                *)
(***************************************************************************)
EXTENDS LaunchFlow, TLAPS

Asks == [cmd : {"list", "refresh"}, uid : {None}] \union [cmd : {"launch"}, uid : Uids]
Messages ==
  [kind : {"reply", "exited"}, ok : BOOLEAN, uid : Uids \union {None}, list : SUBSET Uids]

Typed ==
  /\ asked \in Seq(Asks) /\ toDaemon \in Seq(Asks) /\ toMenu \in Seq(Messages)
  /\ proc \in Uids \union {None}
  /\ DOMAIN known \subseteq Uids /\ disk \subseteq Uids
  /\ deaths \in Nat

-------------------------------------------------------------------------------
\* The message at i is of kind k; the request at i is a launch.
Is(k, i) == i \in 1 .. Len(toMenu) /\ toMenu[i].kind = k
Launch(i) == i \in 1 .. Len(asked) /\ asked[i].cmd = "launch"

Replies == Len(asked) - Len(toDaemon)

\* f[k] is where the answer to the k-th request is.
Pairs(f) ==
  /\ Replies \in Nat
  /\ \A i \in 1 .. Len(toDaemon) : toDaemon[i] = asked[Replies + i]
  /\ \A k \in 1 .. Replies : Is("reply", f[k])
  /\ \A k, l \in 1 .. Replies : k < l => f[k] < f[l]
  /\ \A i : Is("reply", i) => \E k \in 1 .. Replies : i = f[k]

\* A title whose launch succeeded runs, or its end is announced after that answer.
Launched(f) ==
  \A k \in 1 .. Replies : Launch(k) /\ toMenu[f[k]].ok =>
    proc = asked[k].uid \/ \E j : Is("exited", j) /\ f[k] < j

\* With one launch at a time: nothing runs, and no end is announced, if it failed;
\* and an end is announced after the answer to it.
Ending(f) ==
  ~ overlay =>
    \A k \in 1 .. Replies : Launch(k) =>
      /\ toMenu[f[k]].ok \/ proc = None
      /\ \A j : Is("exited", j) => toMenu[f[k]].ok /\ f[k] < j

Paired == \E f : Pairs(f) /\ Launched(f) /\ Ending(f)

\* What a suspended launch is serving; a connection that is down carries nothing.
Serves ==
  /\ handler # None => /\ toDaemon # <<>> /\ proc = None
                       /\ Head(toDaemon).cmd = "launch" /\ Head(toDaemon).uid = handler
  /\ ~ up => asked = <<>> /\ toDaemon = <<>> /\ toMenu = <<>> /\ proc = None

\* What the menu takes for running is what it last asked for.
LastAsked ==
  \A i : Launch(i) /\ (\A j : Launch(j) => j =< i) => running \in {None, asked[i].uid}

\* One launch at a time, and the screen is covered until it is over.
Couch ==
  ~ overlay =>
    /\ ~ control
    /\ ~ consumed => running = None /\ proc = None /\ ~ Launching /\ ~ ExitOnItsWay
    /\ consumed => veil /\ running # None
    /\ \A i : Launch(i) => asked[i].uid = running /\ \A j : Launch(j) => i = j
    /\ \A i : Launch(i) /\ Replies < i => proc = None /\ ~ ExitOnItsWay
    /\ proc # None => running = proc /\ ~ ExitOnItsWay
    /\ \A i, j : Is("exited", i) /\ Is("exited", j) => i = j

FlowInv == Typed /\ Paired /\ Serves /\ LastAsked /\ RunningAgrees /\ Couch

-------------------------------------------------------------------------------
\* Sequences.

LEMMA Heads ==
  ASSUME NEW S, NEW s \in Seq(S), s # <<>>
  PROVE  /\ Head(s) \in S /\ Head(s) = s[1] /\ Tail(s) \in Seq(S)
         /\ Len(s) \in Nat \ {0} /\ Len(Tail(s)) = Len(s) - 1
         /\ \A i \in 1 .. Len(s) - 1 : Tail(s)[i] = s[i + 1]
OBVIOUS

LEMMA Appended ==
  ASSUME NEW S, NEW s \in Seq(S), NEW x \in S
  PROVE  /\ Append(s, x) \in Seq(S) /\ Len(s) \in Nat /\ Len(Append(s, x)) = Len(s) + 1
         /\ \A i \in 1 .. Len(s) : Append(s, x)[i] = s[i]
         /\ Append(s, x)[Len(s) + 1] = x
OBVIOUS

-------------------------------------------------------------------------------
\* The types.

LEMMA Values ==
  /\ \A c \in {"list", "refresh"} : Ask(c, None) \in Asks /\ Ask(c, None).cmd = c
  /\ \A u \in Uids :
       Ask("launch", u) \in Asks /\ Ask("launch", u).cmd = "launch" /\ Ask("launch", u).uid = u
  /\ \A ok \in BOOLEAN, l \in SUBSET Uids :
       Answer(ok, l) \in Messages /\ Answer(ok, l).kind = "reply" /\ Answer(ok, l).ok = ok
  /\ \A u \in Uids : Exited(u) \in Messages /\ Exited(u).kind = "exited"
BY DEF Ask, Asks, Answer, Messages, Exited

LEMMA ScanFinds == disk \subseteq Uids => DOMAIN Scan \subseteq Uids
BY DEF Scan, Found

LEMMA FlowInit == Init => FlowInv
<1> SUFFICES ASSUME Init PROVE FlowInv
  OBVIOUS
<1>1. asked = <<>> /\ toDaemon = <<>> /\ toMenu = <<>> /\ proc = None /\ handler = None
      /\ running = None /\ disk \subseteq Uids /\ known = Scan /\ deaths = 0 /\ ~ consumed
      /\ ~ control
  BY DEF Init
<1>2. Typed
  BY <1>1, ScanFinds DEF Typed
<1>3. Paired
  <2>1. Pairs(<<>>) /\ Launched(<<>>) /\ Ending(<<>>)
    BY <1>1 DEF Pairs, Launched, Ending, Replies, Is
  <2> QED
    BY <2>1 DEF Paired
<1>4. Serves /\ LastAsked /\ RunningAgrees
  BY <1>1 DEF Serves, LastAsked, RunningAgrees, Launch
<1>5. Couch
  BY <1>1 DEF Couch, Launch, Launching, ExitOnItsWay, Is
<1> QED
  BY <1>2, <1>3, <1>4, <1>5 DEF FlowInv

-------------------------------------------------------------------------------
\* What a step does to the wire, and to what the daemon runs.

Quiet == UNCHANGED <<asked, toDaemon, toMenu, proc>>

Sent(r) == asked' = Append(asked, r) /\ toDaemon' = Append(toDaemon, r)

\* A request is sent.
Sending == \E r \in Asks : Sent(r) /\ UNCHANGED <<toMenu, proc>>

\* A request is answered.
Answering ==
  \E e \in Messages :
    /\ e.kind = "reply" /\ toDaemon # <<>> /\ Serve(e) /\ asked' = asked
    /\ \/ proc' = proc /\ (Head(toDaemon).cmd = "launch" => ~ e.ok)
       \/ proc = None /\ proc' = Head(toDaemon).uid /\ Head(toDaemon).cmd = "launch" /\ e.ok

LEMMA WireSteps ==
  ASSUME Typed, Serves, [Next]_vars
  PROVE  Quiet \/ Sending \/ Answering \/ HearReply \/ HearExited \/ Reap \/ DaemonDies
<1>1. CASE Connect
  <2> DEFINE r == Ask("list", None)
  <2>1. r \in Asks
    BY Values
  <2>2. asked = <<>> /\ toDaemon = <<>> /\ toMenu = <<>> /\ asked' = <<r>> /\ toDaemon' = <<r>>
        /\ toMenu' = <<>> /\ proc' = proc
    BY <1>1 DEF Connect, Serves
  <2> HIDE DEF r
  <2>3. Append(<<>>, r) = <<r>>
    OBVIOUS
  <2> QED
    BY <2>1, <2>2, <2>3 DEF Sending, Sent
<1>2. CASE RefuseLaunch
  <2>1. Serve(Answer(FALSE, {})) /\ toDaemon # <<>> /\ asked' = asked /\ proc' = proc
    BY <1>2 DEF RefuseLaunch, Serving, menu
  <2> QED
    BY <2>1, Values DEF Answering
<1>3. CASE FinishLaunch
  <2>1. Serve(Answer(TRUE, {})) /\ toDaemon # <<>> /\ asked' = asked
        /\ proc = None /\ proc' = Head(toDaemon).uid /\ Head(toDaemon).cmd = "launch"
    BY <1>3 DEF FinishLaunch, Serves, menu
  <2> QED
    BY <2>1, Values DEF Answering
<1>4. CASE List
  <2>1. Serve(Answer(TRUE, DOMAIN known)) /\ toDaemon # <<>> /\ asked' = asked /\ proc' = proc
        /\ Head(toDaemon).cmd # "launch"
    BY <1>4 DEF List, Serving, menu
  <2>2. DOMAIN known \in SUBSET Uids
    BY DEF Typed
  <2> QED
    BY <2>1, <2>2, Values DEF Answering
<1>5. CASE Refresh
  <2>1. Serve(Answer(TRUE, DOMAIN Scan)) /\ toDaemon # <<>> /\ asked' = asked /\ proc' = proc
        /\ Head(toDaemon).cmd # "launch"
    BY <1>5 DEF Refresh, Serving, menu
  <2>2. DOMAIN Scan \in SUBSET Uids
    BY ScanFinds DEF Typed
  <2> QED
    BY <2>1, <2>2, Values DEF Answering
<1>6. CASE StartLaunch
  BY <1>6 DEF StartLaunch, menu, Quiet
<1>7. CASE \E u \in Uids : Confirm(u)
  <2>1. PICK u \in Uids : Confirm(u)
    BY <1>7
  <2>2. Sent(Ask("launch", u)) /\ UNCHANGED <<toMenu, proc>>
    BY <2>1 DEF Confirm, Request, Sent
  <2> QED
    BY <2>2, Values DEF Sending
<1>8. CASE OpenControl \/ CloseControl \/ TitleExits \/ WorldChanges \/ ConfirmUnconnected
  BY <1>8 DEF OpenControl, CloseControl, TitleExits, WorldChanges, ConfirmUnconnected, menu, Quiet
<1>9. CASE UNCHANGED vars
  BY <1>9 DEF vars, menu, Quiet
<1> QED
  BY <1>1, <1>2, <1>3, <1>4, <1>5, <1>6, <1>7, <1>8, <1>9 DEF Next, Menu, Daemon

\* What a message at the end of those on their way changes.
LEMMA Emitted ==
  ASSUME Typed, NEW e \in Messages, toMenu' = Append(toMenu, e)
  PROVE  /\ Len(toMenu) \in Nat
         /\ \A k, i : Is(k, i)' <=> Is(k, i) \/ (i = Len(toMenu) + 1 /\ e.kind = k)
         /\ \A k, i : Is(k, i) => i \in 1 .. Len(toMenu) /\ toMenu'[i] = toMenu[i]
         /\ toMenu'[Len(toMenu) + 1] = e
<1>1. /\ Len(toMenu) \in Nat /\ Len(toMenu') = Len(toMenu) + 1
      /\ \A i \in 1 .. Len(toMenu) : toMenu'[i] = toMenu[i]
      /\ toMenu'[Len(toMenu) + 1] = e
  BY Appended DEF Typed
<1> QED
  BY <1>1 DEF Is

\* The messages after the first.
LEMMA Heard ==
  ASSUME Typed, toMenu # <<>>, toMenu' = Tail(toMenu)
  PROVE  /\ \A k, i : Is(k, i)' <=> i \in Nat \ {0} /\ Is(k, i + 1)
         /\ \A i \in Nat \ {0} : i + 1 \in 1 .. Len(toMenu) => toMenu'[i] = toMenu[i + 1]
         /\ Is(Head(toMenu).kind, 1) /\ toMenu[1] = Head(toMenu)
         /\ Len(toMenu) \in Nat \ {0}
<1>1. /\ Head(toMenu) = toMenu[1] /\ Len(toMenu) \in Nat \ {0} /\ Len(toMenu') = Len(toMenu) - 1
      /\ \A i \in 1 .. Len(toMenu) - 1 : toMenu'[i] = toMenu[i + 1]
  BY Heads DEF Typed
<1> QED
  BY <1>1 DEF Is

\* The first answer on its way is to the oldest request.
LEMMA FirstAnswer ==
  ASSUME Typed, NEW f, Pairs(f), toMenu # <<>>, Head(toMenu).kind = "reply"
  PROVE  /\ Replies \in Nat \ {0} /\ f[1] = 1
         /\ asked # <<>> /\ Len(toDaemon) =< Len(asked) - 1
<1>1. toMenu[1].kind = "reply" /\ 1 \in 1 .. Len(toMenu)
  BY Heads DEF Typed
<1>2. PICK k \in 1 .. Replies : f[k] = 1
  BY <1>1 DEF Pairs, Is
<1>3. Len(asked) \in Nat /\ Len(toDaemon) \in Nat /\ Replies \in Nat
  BY DEF Typed, Pairs
<1>4. f[1] \in 1 .. Len(toMenu) /\ Len(toMenu) \in Nat /\ (1 < k => f[1] < f[k])
  BY <1>2, <1>3 DEF Pairs, Is, Typed
<1>5. f[1] = 1
  BY <1>2, <1>3, <1>4
<1>6. Len(asked) >= Len(toDaemon) + 1
  BY <1>2, <1>3 DEF Replies
<1> QED
  BY <1>2, <1>3, <1>5, <1>6

\* A request at the end of those not answered.
LEMMA Requested ==
  ASSUME Typed, Replies \in Nat, NEW r \in Asks, Sent(r)
  PROVE  /\ asked' \in Seq(Asks) /\ toDaemon' \in Seq(Asks)
         /\ Replies' = Replies /\ Len(asked) \in Nat
         /\ \A k \in 1 .. Replies : asked'[k] = asked[k] /\ k \in 1 .. Len(asked)
         /\ \A i : Launch(i)' <=> Launch(i) \/ (i = Len(asked) + 1 /\ r.cmd = "launch")
         /\ \A i : Launch(i) => asked'[i] = asked[i]
         /\ asked'[Len(asked) + 1] = r
<1>1. asked \in Seq(Asks) /\ toDaemon \in Seq(Asks) /\ Len(asked) \in Nat /\ Len(toDaemon) \in Nat
  BY DEF Typed
<1>2. /\ Len(asked') = Len(asked) + 1 /\ Len(toDaemon') = Len(toDaemon) + 1
      /\ \A i \in 1 .. Len(asked) : asked'[i] = asked[i]
      /\ asked'[Len(asked) + 1] = r
      /\ asked' \in Seq(Asks) /\ toDaemon' \in Seq(Asks)
  BY <1>1, Appended DEF Sent
<1>3. Replies' = Replies
  BY <1>1, <1>2 DEF Replies
<1>4. \A k \in 1 .. Replies : k \in 1 .. Len(asked)
  BY <1>1 DEF Replies
<1>5. \A i : Launch(i)' <=> Launch(i) \/ (i = Len(asked) + 1 /\ r.cmd = "launch")
  BY <1>1, <1>2 DEF Launch
<1>6. \A i : Launch(i) => asked'[i] = asked[i]
  BY <1>2 DEF Launch
<1> QED
  BY <1>1, <1>2, <1>3, <1>4, <1>5, <1>6

\* What the daemon has still to serve are the requests after the answered ones.
LEMMA RequestedLast ==
  ASSUME Typed, NEW f, Pairs(f), NEW r \in Asks, Sent(r)
  PROVE  \A i \in 1 .. Len(toDaemon') : toDaemon'[i] = asked'[Replies + i]
<1>1. asked \in Seq(Asks) /\ toDaemon \in Seq(Asks) /\ Len(asked) \in Nat /\ Len(toDaemon) \in Nat
      /\ Replies \in Nat
  BY DEF Typed, Pairs
<1>2. /\ Len(asked') = Len(asked) + 1 /\ Len(toDaemon') = Len(toDaemon) + 1
      /\ \A i \in 1 .. Len(asked) : asked'[i] = asked[i]
      /\ \A i \in 1 .. Len(toDaemon) : toDaemon'[i] = toDaemon[i]
      /\ asked'[Len(asked) + 1] = r /\ toDaemon'[Len(toDaemon) + 1] = r
  BY <1>1, Appended DEF Sent
<1> SUFFICES ASSUME NEW i \in 1 .. Len(toDaemon') PROVE toDaemon'[i] = asked'[Replies + i]
  OBVIOUS
<1>3. CASE i = Len(toDaemon) + 1
  <2>1. Replies + i = Len(asked) + 1
    BY <1>1, <1>3 DEF Replies
  <2> QED
    BY <1>2, <1>3, <2>1
<1>4. CASE i # Len(toDaemon) + 1
  <2>1. i \in 1 .. Len(toDaemon) /\ Replies + i \in 1 .. Len(asked)
    BY <1>1, <1>2, <1>4 DEF Replies
  <2> QED
    BY <1>2, <2>1 DEF Pairs
<1> QED
  BY <1>3, <1>4

-------------------------------------------------------------------------------
\* The types, kept.

LEMMA WorldTyped ==
  ASSUME Typed, [Next]_vars
  PROVE  DOMAIN known' \subseteq Uids /\ disk' \subseteq Uids /\ deaths' \in Nat
<1>1. DOMAIN known \subseteq Uids /\ disk \subseteq Uids /\ deaths \in Nat
  BY DEF Typed
<1>2. CASE Refresh
  BY <1>1, <1>2, ScanFinds DEF Refresh, menu, world
<1>3. CASE Reap
  <2>1. DOMAIN Touch(proc) = DOMAIN known
    BY DEF Touch
  <2> QED
    BY <1>1, <1>3, <2>1 DEF Reap, menu, world
<1>4. CASE DaemonDies
  BY <1>1, <1>4, ScanFinds DEF DaemonDies, world
<1>5. CASE WorldChanges
  <2>1. disk' \subseteq Uids
    BY <1>1, <1>5 DEF WorldChanges
  <2> QED
    BY <1>1, <1>5, <2>1 DEF WorldChanges
<1>6. CASE Connect \/ HearReply \/ HearExited \/ RefuseLaunch \/ StartLaunch \/ FinishLaunch \/ List
  BY <1>1, <1>6 DEF Connect, HearReply, HearExited, RefuseLaunch, StartLaunch, FinishLaunch,
     List, world
<1>7. CASE \/ OpenControl \/ CloseControl \/ TitleExits \/ ConfirmUnconnected
           \/ \E u \in Uids : Confirm(u)
  BY <1>1, <1>7 DEF OpenControl, CloseControl, TitleExits, ConfirmUnconnected, Confirm, world
<1>8. CASE UNCHANGED vars
  BY <1>1, <1>8 DEF vars, world
<1> QED
  BY <1>2, <1>3, <1>4, <1>5, <1>6, <1>7, <1>8 DEF Next, Menu, Daemon

LEMMA TypedStep == ASSUME Typed, Paired, Serves, [Next]_vars PROVE Typed'
<1>1. asked \in Seq(Asks) /\ toDaemon \in Seq(Asks) /\ toMenu \in Seq(Messages)
      /\ proc \in Uids \union {None}
  BY DEF Typed
<1>2. PICK f : Pairs(f)
  BY DEF Paired
<1> SUFFICES asked' \in Seq(Asks) /\ toDaemon' \in Seq(Asks) /\ toMenu' \in Seq(Messages)
             /\ proc' \in Uids \union {None}
  BY WorldTyped DEF Typed
<1>3. CASE Quiet
  BY <1>1, <1>3 DEF Quiet
<1>4. CASE Sending
  BY <1>1, <1>4, Appended DEF Sending, Sent
<1>5. CASE Answering
  <2>1. PICK e \in Messages :
          toDaemon # <<>> /\ Serve(e) /\ asked' = asked /\ proc' \in {proc, Head(toDaemon).uid}
    BY <1>5 DEF Answering
  <2>2. Tail(toDaemon) \in Seq(Asks) /\ Head(toDaemon) \in Asks
    BY <1>1, <2>1, Heads
  <2>3. Head(toDaemon).uid \in Uids \union {None}
    BY <2>2 DEF Asks
  <2> QED
    BY <1>1, <2>1, <2>2, <2>3, Appended DEF Serve
<1>6. CASE HearReply
  <2>1. asked # <<>>
    BY <1>2, <1>6, FirstAnswer DEF HearReply
  <2> QED
    BY <1>1, <1>6, <2>1, Heads DEF HearReply
<1>7. CASE HearExited
  <2>1. Ask("refresh", None) \in Asks /\ Tail(toMenu) \in Seq(Messages)
    BY <1>1, <1>7, Values, Heads DEF HearExited
  <2> QED
    BY <1>1, <1>7, <2>1, Appended DEF HearExited, Request
<1>8. CASE Reap
  <2>1. Exited(proc) \in Messages
    BY <1>1, <1>8, Values DEF Reap
  <2> QED
    BY <1>1, <1>8, <2>1, Appended DEF Reap, menu
<1>9. CASE DaemonDies
  BY <1>9 DEF DaemonDies
<1> QED
  BY <1>3, <1>4, <1>5, <1>6, <1>7, <1>8, <1>9, WireSteps

\* Whether the user opens the Control Center does not change.
LEMMA SameUser == [Next]_vars => overlay' = overlay
<1> SUFFICES ASSUME [Next]_vars PROVE overlay' = overlay
  OBVIOUS
<1>1. CASE Menu \/ ConfirmUnconnected \/ \E u \in Uids : Confirm(u)
  BY <1>1 DEF Menu, Connect, HearReply, HearExited, ConfirmUnconnected, Confirm, world
<1>2. CASE Daemon
  BY <1>2 DEF Daemon, RefuseLaunch, StartLaunch, FinishLaunch, List, Refresh, Reap, world
<1>3. CASE OpenControl \/ CloseControl \/ TitleExits \/ DaemonDies \/ WorldChanges
  BY <1>3 DEF OpenControl, CloseControl, TitleExits, DaemonDies, WorldChanges, world
<1>4. CASE UNCHANGED vars
  BY <1>4 DEF vars, world
<1> QED
  BY <1>1, <1>2, <1>3, <1>4 DEF Next

-------------------------------------------------------------------------------
\* The answers on their way.

LEMMA SendPairs ==
  ASSUME Typed, NEW f, Pairs(f), Launched(f), Ending(f), Sending, overlay' = overlay
  PROVE  Pairs(f)' /\ Launched(f)' /\ Ending(f)'
<1>1. PICK r \in Asks : Sent(r) /\ UNCHANGED <<toMenu, proc>>
  BY DEF Sending
<1>2. Replies \in Nat
  BY DEF Pairs
<1>3. /\ Replies' = Replies /\ Len(asked) \in Nat
      /\ \A k \in 1 .. Replies : asked'[k] = asked[k] /\ k \in 1 .. Len(asked)
      /\ \A i : Launch(i)' <=> Launch(i) \/ (i = Len(asked) + 1 /\ r.cmd = "launch")
  BY <1>1, <1>2, Requested
<1>4. \A k \in 1 .. Replies : Launch(k)' <=> Launch(k)
  BY <1>3
<1>5. \A k, i : Is(k, i)' <=> Is(k, i)
  BY <1>1 DEF Is
<1>6. Pairs(f)'
  <2>1. \A i \in 1 .. Len(toDaemon') : toDaemon'[i] = asked'[Replies + i]
    BY <1>1, RequestedLast
  <2> QED
    BY <1>2, <1>3, <1>5, <2>1 DEF Pairs
<1>7. Launched(f)'
  BY <1>1, <1>3, <1>4, <1>5 DEF Launched
<1>8. Ending(f)'
  BY <1>1, <1>3, <1>4, <1>5 DEF Ending
<1> QED
  BY <1>6, <1>7, <1>8

\* What the daemon serves is the first request without an answer.
LEMMA Served ==
  ASSUME Typed, NEW f, Pairs(f), toDaemon # <<>>
  PROVE  /\ Replies \in Nat /\ Replies + 1 \in 1 .. Len(asked)
         /\ asked[Replies + 1] = Head(toDaemon) /\ Head(toDaemon) \in Asks
         /\ Head(toDaemon).cmd = "launch" => Launch(Replies + 1)
<1>1. /\ Head(toDaemon) = toDaemon[1] /\ Head(toDaemon) \in Asks /\ Len(toDaemon) \in Nat \ {0}
      /\ Len(asked) \in Nat /\ Replies \in Nat
  BY Heads DEF Typed, Pairs
<1>2. Replies + 1 \in 1 .. Len(asked)
  BY <1>1 DEF Replies
<1>3. asked[Replies + 1] = Head(toDaemon)
  <2>1. 1 \in 1 .. Len(toDaemon)
    BY <1>1
  <2> QED
    BY <1>1, <2>1 DEF Pairs
<1> QED
  BY <1>1, <1>2, <1>3 DEF Launch

LEMMA AnswerPairs ==
  ASSUME Typed, Couch, NEW f, Pairs(f), Launched(f), Ending(f), Answering, overlay' = overlay
  PROVE  Paired'
<1>1. PICK e \in Messages :
        /\ e.kind = "reply" /\ toDaemon # <<>> /\ Serve(e) /\ asked' = asked
        /\ \/ proc' = proc /\ (Head(toDaemon).cmd = "launch" => ~ e.ok)
           \/ proc = None /\ proc' = Head(toDaemon).uid /\ Head(toDaemon).cmd = "launch" /\ e.ok
  BY DEF Answering
<1>2. toMenu' = Append(toMenu, e) /\ toDaemon' = Tail(toDaemon)
  BY <1>1 DEF Serve
<1>0. PICK m, n : m = Len(toMenu) + 1 /\ n = Replies + 1
  OBVIOUS
<1>3. /\ Len(toMenu) \in Nat
      /\ \A k, i : Is(k, i)' <=> Is(k, i) \/ (i = m /\ e.kind = k)
      /\ \A k, i : Is(k, i) => i \in 1 .. Len(toMenu) /\ toMenu'[i] = toMenu[i]
      /\ toMenu'[m] = e
  BY <1>2, <1>0, Emitted
<1>4. /\ Len(toDaemon) \in Nat \ {0} /\ Len(toDaemon') = Len(toDaemon) - 1
      /\ \A i \in 1 .. Len(toDaemon') : toDaemon'[i] = toDaemon[i + 1]
      /\ Len(asked) \in Nat
  BY <1>1, <1>2, Heads DEF Typed
<1>5. /\ Replies \in Nat /\ n \in 1 .. Len(asked) /\ asked[n] = Head(toDaemon)
      /\ Head(toDaemon).cmd = "launch" => Launch(n)
  BY <1>0, <1>1, Served
<1>6. Replies' = n /\ n \in Nat \ {0}
  BY <1>0, <1>1, <1>4, <1>5 DEF Replies
<1>7. PICK g : g[n] = m /\ \A k \in 1 .. Replies : g[k] = f[k] /\ k \in 1 .. n /\ k < n
  <2> DEFINE h == [k \in 1 .. n |-> IF k = n THEN m ELSE f[k]]
  <2>1. h[n] = m /\ \A k \in 1 .. Replies : h[k] = f[k] /\ k \in 1 .. n /\ k < n
    BY <1>5, <1>6, <1>0
  <2> QED
    BY <2>1
<1>8. \A k \in 1 .. n : k = n \/ k \in 1 .. Replies
  BY <1>5, <1>0
<1>9. \A k \in 1 .. Replies : /\ g[k] = f[k] /\ f[k] \in 1 .. Len(toMenu) /\ f[k] < m
                              /\ toMenu'[f[k]] = toMenu[f[k]]
  BY <1>3, <1>7, <1>0 DEF Pairs
<1>10. Pairs(g)'
  <2>1. \A i \in 1 .. Len(toDaemon') : toDaemon'[i] = asked'[n + i]
    <3> SUFFICES ASSUME NEW i \in 1 .. Len(toDaemon') PROVE toDaemon'[i] = asked'[n + i]
      OBVIOUS
    <3>1. i + 1 \in 1 .. Len(toDaemon)
      BY <1>4
    <3>2. Replies + (i + 1) = n + i
      BY <1>4, <1>5, <1>0
    <3> QED
      BY <1>1, <1>4, <3>1, <3>2 DEF Pairs
  <2>2. \A k \in 1 .. n : Is("reply", g[k])'
    BY <1>1, <1>3, <1>7, <1>8 DEF Pairs
  <2>3. \A k, l \in 1 .. n : k < l => g[k] < g[l]
    <3> SUFFICES ASSUME NEW k \in 1 .. n, NEW l \in 1 .. n, k < l PROVE g[k] < g[l]
      OBVIOUS
    <3>1. k \in 1 .. Replies
      BY <1>5, <1>8
    <3>2. CASE l = n
      BY <1>7, <1>9, <3>1, <3>2
    <3>3. CASE l \in 1 .. Replies
      BY <1>7, <3>1, <3>3 DEF Pairs
    <3> QED
      BY <1>8, <3>2, <3>3
  <2>4. \A i : Is("reply", i)' => \E k \in 1 .. n : i = g[k]
    <3> SUFFICES ASSUME NEW i, Is("reply", i)' PROVE \E k \in 1 .. n : i = g[k]
      OBVIOUS
    <3>1. CASE i = m
      <4>1. n \in 1 .. n
        BY <1>6
      <4> QED
        BY <1>7, <3>1, <4>1
    <3>2. CASE Is("reply", i)
      <4>1. PICK k \in 1 .. Replies : i = f[k]
        BY <3>2 DEF Pairs
      <4> QED
        BY <1>7, <4>1
    <3> QED
      BY <1>3, <3>1, <3>2
  <2> QED
    BY <1>6, <2>1, <2>2, <2>3, <2>4 DEF Pairs
<1>11. \A k : Launch(k)' <=> Launch(k)
  BY <1>1 DEF Launch
<1>12. \A i : Is("exited", i)' <=> Is("exited", i)
  BY <1>1, <1>3
<1>13. Launched(g)'
  <2>1. ASSUME NEW k \in 1 .. n, Launch(k), toMenu'[g[k]].ok
        PROVE  proc' = asked[k].uid \/ \E j : Is("exited", j) /\ g[k] < j
    <3>1. CASE k = n
      <4>1. e.ok /\ Head(toDaemon).cmd = "launch"
        BY <1>3, <1>5, <1>7, <2>1, <3>1 DEF Launch
      <4> QED
        BY <1>1, <1>5, <3>1, <4>1
    <3>2. CASE k \in 1 .. Replies
      <4>1. proc = asked[k].uid \/ \E j : Is("exited", j) /\ g[k] < j
        BY <1>9, <2>1, <3>2 DEF Launched
      <4>2. asked[k].uid \in Uids
        <5>1. asked[k] \in Asks /\ asked[k].cmd = "launch"
          BY <2>1 DEF Launch, Typed
        <5> QED
          BY <5>1 DEF Asks
      <4>3. asked[k].uid # None
        BY <4>2, FlowAssumption
      <4> QED
        BY <1>1, <4>1, <4>3
    <3> QED
      BY <1>8, <3>1, <3>2
  <2> QED
    BY <1>1, <1>6, <1>11, <1>12, <2>1 DEF Launched
<1>14. Ending(g)'
  <2>1. ASSUME ~ overlay, NEW k \in 1 .. n, Launch(k)
        PROVE  /\ toMenu'[g[k]].ok \/ proc' = None
               /\ \A j : Is("exited", j) => toMenu'[g[k]].ok /\ g[k] < j
    <3>1. CASE k = n
      <4>1. Replies < n
        BY <1>0, <1>5
      <4>2. proc = None /\ ~ ExitOnItsWay
        BY <2>1, <3>1, <4>1 DEF Couch
      <4>3. \A j : ~ Is("exited", j)
        BY <4>2 DEF ExitOnItsWay, Is
      <4>4. Head(toDaemon).cmd = "launch"
        BY <1>5, <2>1, <3>1 DEF Launch
      <4>5. toMenu'[g[k]] = e
        BY <1>3, <1>7, <3>1
      <4> QED
        BY <1>1, <4>2, <4>3, <4>4, <4>5
    <3>2. CASE k \in 1 .. Replies
      <4>1. /\ toMenu[f[k]].ok \/ proc = None
            /\ \A j : Is("exited", j) => toMenu[f[k]].ok /\ f[k] < j
        BY <2>1, <3>2 DEF Ending
      <4>2. toMenu'[g[k]] = toMenu[f[k]] /\ g[k] = f[k]
        BY <1>9, <3>2
      <4>3. proc' = proc
        <5>1. Launch(n) => k = n
          BY <2>1 DEF Couch
        <5>2. k # n
          BY <1>7, <1>5, <3>2
        <5> QED
          BY <1>1, <1>5, <5>1, <5>2
      <4> QED
        BY <4>1, <4>2, <4>3
    <3> QED
      BY <1>8, <3>1, <3>2
  <2> QED
    BY <1>6, <1>11, <1>12, <2>1 DEF Ending
<1> QED
  BY <1>10, <1>13, <1>14 DEF Paired

\* A title ends: its end is announced after everything else.
LEMMA ReapPairs ==
  ASSUME Typed, Serves, NEW f, Pairs(f), Launched(f), Ending(f), Reap, overlay' = overlay
  PROVE  Paired'
<1>1. UNCHANGED <<asked, toDaemon>> /\ proc # None /\ proc' = None
  BY DEF Reap, menu
<1>2. toMenu' = Append(toMenu, Exited(proc))
  BY DEF Reap, Serves
<1>3. Exited(proc) \in Messages /\ Exited(proc).kind = "exited"
  BY <1>1, Values DEF Typed
<1>0. PICK m, e : m = Len(toMenu) + 1 /\ e = Exited(proc)
  OBVIOUS
<1>4. /\ Len(toMenu) \in Nat
      /\ \A k, i : Is(k, i)' <=> Is(k, i) \/ (i = m /\ "exited" = k)
      /\ \A k, i : Is(k, i) => i \in 1 .. Len(toMenu) /\ toMenu'[i] = toMenu[i]
  <2>1. e \in Messages /\ e.kind = "exited" /\ toMenu' = Append(toMenu, e)
    BY <1>0, <1>2, <1>3
  <2> QED
    BY <2>1, <1>0, Emitted
<1>5. Replies' = Replies
  BY <1>1 DEF Replies
<1>6. \A k : Launch(k)' <=> Launch(k)
  BY <1>1 DEF Launch
<1>7. \A k \in 1 .. Replies : /\ f[k] \in 1 .. Len(toMenu) /\ f[k] < m
                              /\ toMenu'[f[k]] = toMenu[f[k]]
  BY <1>4, <1>0 DEF Pairs
<1>8. Pairs(f)'
  BY <1>1, <1>4, <1>5 DEF Pairs
<1>9. Is("exited", m)'
  BY <1>4
<1>10. Launched(f)'
  BY <1>5, <1>7, <1>9 DEF Launched
<1>11. Ending(f)'
  <2>1. ASSUME ~ overlay, NEW k \in 1 .. Replies, Launch(k)
        PROVE  toMenu'[f[k]].ok /\ \A j : Is("exited", j)' => f[k] < j
    <3>1. toMenu[f[k]].ok /\ \A j : Is("exited", j) => f[k] < j
      BY <1>1, <2>1 DEF Ending
    <3> QED
      BY <1>4, <1>7, <3>1
  <2> QED
    BY <1>1, <1>5, <1>6, <2>1 DEF Ending
<1> QED
  BY <1>8, <1>10, <1>11 DEF Paired

\* The menu takes an answer.
LEMMA HeardReplyPairs ==
  ASSUME Typed, NEW f, Pairs(f), Launched(f), Ending(f), HearReply, overlay' = overlay
  PROVE  Paired'
<1>1. /\ toMenu # <<>> /\ toMenu' = Tail(toMenu) /\ Head(toMenu).kind = "reply"
      /\ asked' = Tail(asked) /\ toDaemon' = toDaemon /\ proc' = proc
  BY DEF HearReply
<1>2. /\ Replies \in Nat \ {0} /\ f[1] = 1 /\ asked # <<>>
  BY <1>1, FirstAnswer
<1>3. /\ \A k, i : Is(k, i)' <=> i \in Nat \ {0} /\ Is(k, i + 1)
      /\ \A i \in Nat \ {0} : i + 1 \in 1 .. Len(toMenu) => toMenu'[i] = toMenu[i + 1]
      /\ Len(toMenu) \in Nat
  BY <1>1, Heard
<1>4. /\ Len(asked) \in Nat \ {0} /\ Len(asked') = Len(asked) - 1
      /\ \A i \in 1 .. Len(asked) - 1 : asked'[i] = asked[i + 1]
      /\ Len(toDaemon) \in Nat
  BY <1>1, <1>2, Heads DEF Typed
<1>6. PICK n : n = Replies - 1
  OBVIOUS
<1>7. n \in Nat /\ Replies = n + 1 /\ n = Len(asked) - 1 - Len(toDaemon) /\ Replies' = n
  BY <1>1, <1>2, <1>4, <1>6 DEF Replies
<1>8. \A k \in 1 .. n : /\ k \in 1 .. Len(asked) - 1 /\ k + 1 \in 1 .. Replies
                        /\ asked'[k] = asked[k + 1] /\ (Launch(k)' <=> Launch(k + 1))
  <2> SUFFICES ASSUME NEW k \in 1 .. n
               PROVE  /\ k \in 1 .. Len(asked) - 1 /\ k + 1 \in 1 .. Replies
                      /\ asked'[k] = asked[k + 1] /\ (Launch(k)' <=> Launch(k + 1))
    OBVIOUS
  <2>1. k \in 1 .. Len(asked) - 1 /\ k + 1 \in 1 .. Replies
    BY <1>4, <1>7
  <2>2. asked'[k] = asked[k + 1]
    BY <1>4, <2>1
  <2>3. k \in 1 .. Len(asked') /\ k + 1 \in 1 .. Len(asked)
    BY <1>4, <2>1
  <2> QED
    BY <2>1, <2>2, <2>3 DEF Launch
<1>9. PICK g : \A k \in 1 .. n : g[k] = f[k + 1] - 1
  <2> DEFINE h == [k \in 1 .. n |-> f[k + 1] - 1]
  <2>1. \A k \in 1 .. n : h[k] = f[k + 1] - 1
    OBVIOUS
  <2> QED
    BY <2>1
<1>10. \A k \in 1 .. n :
         /\ Is("reply", f[k + 1]) /\ f[k + 1] \in 2 .. Len(toMenu)
         /\ g[k] \in Nat \ {0} /\ g[k] + 1 = f[k + 1] /\ toMenu'[g[k]] = toMenu[f[k + 1]]
  <2> SUFFICES ASSUME NEW k \in 1 .. n
               PROVE  /\ Is("reply", f[k + 1]) /\ f[k + 1] \in 2 .. Len(toMenu)
                      /\ g[k] \in Nat \ {0} /\ g[k] + 1 = f[k + 1]
                      /\ toMenu'[g[k]] = toMenu[f[k + 1]]
    OBVIOUS
  <2>1. k + 1 \in 1 .. Replies /\ 1 \in 1 .. Replies /\ 1 < k + 1
    BY <1>7
  <2>2. Is("reply", f[k + 1]) /\ f[k + 1] \in 1 .. Len(toMenu) /\ f[1] < f[k + 1]
    BY <2>1 DEF Pairs, Is
  <2>3. f[k + 1] \in 2 .. Len(toMenu) /\ g[k] \in Nat \ {0} /\ g[k] + 1 = f[k + 1]
    BY <1>2, <1>3, <1>9, <2>1, <2>2
  <2> QED
    BY <1>3, <2>2, <2>3
<1>11. \A i, k : Is("exited", i) /\ k \in Nat \ {0} /\ k + 1 < i => Is("exited", i - 1)' /\ k < i - 1
  <2> SUFFICES ASSUME NEW i, NEW k \in Nat \ {0}, Is("exited", i), k + 1 < i
               PROVE  Is("exited", i - 1)' /\ k < i - 1
    OBVIOUS
  <2>1. i \in Nat /\ i - 1 \in Nat \ {0} /\ (i - 1) + 1 = i
    BY <1>3 DEF Is
  <2> QED
    BY <1>3, <2>1
<1>12. Pairs(g)'
  <2>1. \A i \in 1 .. Len(toDaemon) : toDaemon[i] = asked'[n + i]
    <3> SUFFICES ASSUME NEW i \in 1 .. Len(toDaemon) PROVE toDaemon[i] = asked'[n + i]
      OBVIOUS
    <3>1. n + i \in 1 .. Len(asked) - 1 /\ (n + i) + 1 = Replies + i
      BY <1>4, <1>7
    <3> QED
      BY <1>4, <3>1 DEF Pairs
  <2>2. \A k \in 1 .. n : Is("reply", g[k])'
    BY <1>3, <1>10
  <2>3. ASSUME NEW k \in 1 .. n, NEW l \in 1 .. n, k < l PROVE g[k] < g[l]
    <3>1. f[k + 1] < f[l + 1]
      BY <1>7, <1>8, <2>3 DEF Pairs
    <3>2. /\ g[k] \in Nat /\ g[k] + 1 = f[k + 1]
          /\ g[l] \in Nat /\ g[l] + 1 = f[l + 1]
      BY <1>10
    <3> QED
      BY <3>1, <3>2
  <2>4. ASSUME NEW i, Is("reply", i)' PROVE \E k \in 1 .. n : i = g[k]
    <3>1. i \in Nat \ {0} /\ Is("reply", i + 1)
      BY <1>3, <2>4
    <3>2. PICK k \in 1 .. Replies : i + 1 = f[k]
      BY <3>1 DEF Pairs
    <3>3. k # 1
      BY <1>2, <3>1, <3>2
    <3>4. k - 1 \in 1 .. n /\ (k - 1) + 1 = k
      BY <1>7, <3>3
    <3>5. i = g[k - 1]
      BY <1>10, <3>1, <3>2, <3>4
    <3> QED
      BY <3>4, <3>5
  <2> QED
    BY <1>1, <1>7, <2>1, <2>2, <2>3, <2>4 DEF Pairs
<1>13. Launched(g)'
  <2>1. ASSUME NEW k \in 1 .. n, Launch(k)', toMenu'[g[k]].ok
        PROVE  proc' = asked'[k].uid \/ \E j : Is("exited", j)' /\ g[k] < j
    <3>1. proc = asked[k + 1].uid \/ \E j : Is("exited", j) /\ f[k + 1] < j
      BY <1>8, <1>10, <2>1 DEF Launched
    <3>2. CASE proc = asked[k + 1].uid
      BY <1>1, <1>8, <3>2
    <3>3. CASE \E j : Is("exited", j) /\ f[k + 1] < j
      <4>1. PICK j : Is("exited", j) /\ g[k] + 1 < j
        BY <1>10, <3>3
      <4>2. Is("exited", j - 1)' /\ g[k] < j - 1
        BY <1>10, <1>11, <4>1
      <4> QED
        BY <4>2
    <3> QED
      BY <3>1, <3>2, <3>3
  <2> QED
    BY <1>7, <2>1 DEF Launched
<1>14. Ending(g)'
  <2>1. ASSUME ~ overlay, NEW k \in 1 .. n, Launch(k)'
        PROVE  /\ toMenu'[g[k]].ok \/ proc' = None
               /\ \A j : Is("exited", j)' => toMenu'[g[k]].ok /\ g[k] < j
    <3>1. /\ toMenu[f[k + 1]].ok \/ proc = None
          /\ \A j : Is("exited", j) => toMenu[f[k + 1]].ok /\ f[k + 1] < j
      BY <1>8, <2>1 DEF Ending
    <3>2. ASSUME NEW j, Is("exited", j)' PROVE toMenu[f[k + 1]].ok /\ g[k] < j
      <4>1. j \in Nat \ {0} /\ Is("exited", j + 1)
        BY <1>3, <3>2
      <4>2. toMenu[f[k + 1]].ok /\ f[k + 1] < j + 1
        BY <3>1, <4>1
      <4> QED
        BY <1>10, <1>3, <4>1, <4>2
    <3> QED
      BY <1>1, <1>10, <3>1, <3>2
  <2> QED
    BY <1>7, <2>1 DEF Ending
<1> QED
  BY <1>12, <1>13, <1>14 DEF Paired

\* The menu hears that a title ended, and asks for the titles.
LEMMA HeardExitedPairs ==
  ASSUME Typed, NEW f, Pairs(f), Launched(f), Ending(f), HearExited, overlay' = overlay
  PROVE  Paired'
<1>1. /\ toMenu # <<>> /\ toMenu' = Tail(toMenu) /\ Head(toMenu).kind = "exited"
      /\ Sent(Ask("refresh", None)) /\ proc' = proc
  BY DEF HearExited, Request, Sent
<1>2. /\ \A k, i : Is(k, i)' <=> i \in Nat \ {0} /\ Is(k, i + 1)
      /\ \A i \in Nat \ {0} : i + 1 \in 1 .. Len(toMenu) => toMenu'[i] = toMenu[i + 1]
      /\ ~ Is("reply", 1) /\ Len(toMenu) \in Nat
  BY <1>1, Heard DEF Is
<1> DEFINE r == Ask("refresh", None)
<1>3. r \in Asks /\ r.cmd # "launch" /\ Sent(r)
  BY <1>1, Values
<1> HIDE DEF r
<1>4. Replies \in Nat
  BY DEF Pairs
<1>5. /\ Replies' = Replies
      /\ \A k \in 1 .. Replies : asked'[k] = asked[k]
      /\ \A k : Launch(k)' <=> Launch(k)
  BY <1>3, <1>4, Requested
<1>6. \A i \in 1 .. Len(toDaemon') : toDaemon'[i] = asked'[Replies + i]
  BY <1>3, RequestedLast
<1>7. PICK g : \A k \in 1 .. Replies : g[k] = f[k] - 1
  <2> DEFINE h == [k \in 1 .. Replies |-> f[k] - 1]
  <2>1. \A k \in 1 .. Replies : h[k] = f[k] - 1
    OBVIOUS
  <2> QED
    BY <2>1
<1>8. \A k \in 1 .. Replies :
        /\ Is("reply", f[k]) /\ f[k] \in 2 .. Len(toMenu)
        /\ g[k] \in Nat \ {0} /\ g[k] + 1 = f[k] /\ toMenu'[g[k]] = toMenu[f[k]]
  <2> SUFFICES ASSUME NEW k \in 1 .. Replies
               PROVE  /\ Is("reply", f[k]) /\ f[k] \in 2 .. Len(toMenu)
                      /\ g[k] \in Nat \ {0} /\ g[k] + 1 = f[k] /\ toMenu'[g[k]] = toMenu[f[k]]
    OBVIOUS
  <2>1. Is("reply", f[k]) /\ f[k] \in 1 .. Len(toMenu) /\ f[k] # 1
    BY <1>2 DEF Pairs, Is
  <2>2. f[k] \in 2 .. Len(toMenu) /\ g[k] \in Nat \ {0} /\ g[k] + 1 = f[k]
    BY <1>2, <1>7, <2>1
  <2> QED
    BY <1>2, <2>1, <2>2
<1>9. Pairs(g)'
  <2>1. \A k \in 1 .. Replies : Is("reply", g[k])'
    BY <1>2, <1>8
  <2>2. \A k, l \in 1 .. Replies : k < l => g[k] < g[l]
    BY <1>2, <1>8, SMTT(20) DEF Pairs
  <2>3. ASSUME NEW i, Is("reply", i)' PROVE \E k \in 1 .. Replies : i = g[k]
    <3>1. i \in Nat \ {0} /\ Is("reply", i + 1)
      BY <1>2, <2>3
    <3>2. PICK k \in 1 .. Replies : i + 1 = f[k]
      BY <3>1 DEF Pairs
    <3>3. i = g[k]
      BY <1>8, <3>1, <3>2
    <3> QED
      BY <3>3
  <2> QED
    BY <1>4, <1>5, <1>6, <2>1, <2>2, <2>3 DEF Pairs
<1>10. Launched(g)'
  <2>1. ASSUME NEW k \in 1 .. Replies, Launch(k), toMenu'[g[k]].ok
        PROVE  proc = asked[k].uid \/ \E j : Is("exited", j)' /\ g[k] < j
    <3>1. proc = asked[k].uid \/ \E j : Is("exited", j) /\ f[k] < j
      BY <1>8, <2>1 DEF Launched
    <3>2. ASSUME NEW j, Is("exited", j), f[k] < j PROVE Is("exited", j - 1)' /\ g[k] < j - 1
      <4>1. j \in Nat /\ g[k] \in Nat \ {0} /\ g[k] + 1 < j
        BY <1>2, <1>8, <3>2 DEF Is
      <4>2. j - 1 \in Nat \ {0} /\ (j - 1) + 1 = j /\ g[k] < j - 1
        BY <4>1
      <4> QED
        BY <1>2, <3>2, <4>2
    <3> QED
      BY <3>1, <3>2
  <2> QED
    BY <1>1, <1>5, <2>1 DEF Launched
<1>11. Ending(g)'
  <2>1. ASSUME ~ overlay, NEW k \in 1 .. Replies, Launch(k)
        PROVE  /\ toMenu'[g[k]].ok \/ proc = None
               /\ \A j : Is("exited", j)' => toMenu'[g[k]].ok /\ g[k] < j
    <3>1. /\ toMenu[f[k]].ok \/ proc = None
          /\ \A j : Is("exited", j) => toMenu[f[k]].ok /\ f[k] < j
      BY <2>1 DEF Ending
    <3>2. ASSUME NEW j, Is("exited", j)' PROVE toMenu[f[k]].ok /\ g[k] < j
      <4>1. j \in Nat \ {0} /\ Is("exited", j + 1)
        BY <1>2, <3>2
      <4>2. toMenu[f[k]].ok /\ f[k] < j + 1
        BY <3>1, <4>1
      <4> QED
        BY <1>8, <1>2, <4>1, <4>2
    <3> QED
      BY <1>8, <3>1, <3>2
  <2> QED
    BY <1>1, <1>5, <2>1 DEF Ending
<1> QED
  BY <1>9, <1>10, <1>11 DEF Paired

LEMMA PairedStep == ASSUME Typed, Paired, Serves, Couch, [Next]_vars PROVE Paired'
<1>0. overlay' = overlay
  BY SameUser
<1>1. PICK f : Pairs(f) /\ Launched(f) /\ Ending(f)
  BY DEF Paired
<1>2. CASE Quiet
  <2>1. Pairs(f)' /\ Launched(f)' /\ Ending(f)'
    BY <1>0, <1>1, <1>2 DEF Quiet, Pairs, Launched, Ending, Replies, Is, Launch
  <2> QED
    BY <2>1 DEF Paired
<1>3. CASE Sending
  BY <1>0, <1>1, <1>3, SendPairs DEF Paired
<1>4. CASE HearReply
  BY <1>0, <1>1, <1>4, HeardReplyPairs
<1>5. CASE HearExited
  BY <1>0, <1>1, <1>5, HeardExitedPairs
<1>6. CASE Answering
  BY <1>0, <1>1, <1>6, AnswerPairs
<1>7. CASE Reap
  BY <1>0, <1>1, <1>7, ReapPairs
<1>8. CASE DaemonDies
  <2>1. asked' = <<>> /\ toDaemon' = <<>> /\ toMenu' = <<>>
    BY <1>8 DEF DaemonDies
  <2>2. Pairs(f)' /\ Launched(f)' /\ Ending(f)'
    BY <2>1 DEF Pairs, Launched, Ending, Replies, Is
  <2> QED
    BY <2>2 DEF Paired
<1> QED
  BY <1>2, <1>3, <1>4, <1>5, <1>6, <1>7, <1>8, WireSteps

-------------------------------------------------------------------------------
\* What is being served.

LEMMA ServesStep == ASSUME Typed, Paired, Serves, [Next]_vars PROVE Serves'
<1>1. PICK f : Pairs(f)
  BY DEF Paired
<1>2. asked \in Seq(Asks) /\ toDaemon \in Seq(Asks) /\ toMenu \in Seq(Messages)
  BY DEF Typed
\* A step that leaves the handler alone, on a connection that is up.
<1> DEFINE Same == UNCHANGED <<handler, proc>> /\ up' /\ (toDaemon # <<>> => toDaemon' # <<>> /\ Head(toDaemon') = Head(toDaemon))
<1>3. Same => Serves'
  BY DEF Serves
<1>4. \A r \in Asks : toDaemon' = Append(toDaemon, r) /\ toDaemon # <<>> =>
        toDaemon' # <<>> /\ Head(toDaemon') = Head(toDaemon)
  <2> SUFFICES ASSUME NEW r \in Asks, toDaemon' = Append(toDaemon, r), toDaemon # <<>>
               PROVE  toDaemon' # <<>> /\ Head(toDaemon') = Head(toDaemon)
    OBVIOUS
  <2> QED
    BY <1>2
<1>5. CASE Connect
  BY <1>5 DEF Connect, Serves
<1>6. CASE HearReply
  BY <1>3, <1>6 DEF HearReply
<1>7. CASE HearExited
  <2>1. Ask("refresh", None) \in Asks
    BY Values
  <2> QED
    BY <1>3, <1>4, <1>7, <2>1 DEF HearExited, Request
<1>8. CASE \E u \in Uids : Confirm(u)
  <2>1. PICK u \in Uids : Confirm(u)
    BY <1>8
  <2>2. Ask("launch", u) \in Asks
    BY Values
  <2> QED
    BY <1>3, <1>4, <2>1, <2>2 DEF Confirm, Request
<1>9. CASE RefuseLaunch \/ List \/ Refresh
  <2>1. handler = None /\ handler' = None /\ up' = up /\ asked' = asked /\ toDaemon # <<>>
    BY <1>9 DEF RefuseLaunch, List, Refresh, Serving, menu
  <2>2. up
    BY <2>1 DEF Serves
  <2> QED
    BY <2>1, <2>2 DEF Serves
<1>10. CASE StartLaunch
  <2>1. /\ toDaemon # <<>> /\ Head(toDaemon).cmd = "launch" /\ proc = None
        /\ handler' = Head(toDaemon).uid
        /\ UNCHANGED <<up, asked, toDaemon, toMenu, proc>>
    BY <1>10 DEF StartLaunch, Serving, menu
  <2> QED
    BY <2>1 DEF Serves
<1>11. CASE FinishLaunch
  <2>1. handler # None /\ handler' = None /\ up' = up
    BY <1>11 DEF FinishLaunch, menu
  <2>2. up
    BY <2>1 DEF Serves
  <2> QED
    BY <2>1, <2>2 DEF Serves
<1>12. CASE Reap
  <2>1. proc # None /\ up' = up /\ proc' = None /\ UNCHANGED <<toDaemon, handler>>
    BY <1>12 DEF Reap, menu
  <2>2. up /\ handler = None
    BY <2>1 DEF Serves
  <2> QED
    BY <2>1, <2>2 DEF Serves
<1>13. CASE DaemonDies
  BY <1>13 DEF DaemonDies, Serves
<1>14. CASE OpenControl \/ CloseControl \/ TitleExits \/ WorldChanges \/ ConfirmUnconnected
  <2>1. UNCHANGED <<up, asked, toDaemon, toMenu, proc, handler>>
    BY <1>14 DEF OpenControl, CloseControl, TitleExits, WorldChanges, ConfirmUnconnected, menu
  <2> QED
    BY <2>1 DEF Serves
<1>15. CASE UNCHANGED vars
  BY <1>15 DEF vars, menu, Serves
<1> QED
  BY <1>5, <1>6, <1>7, <1>8, <1>9, <1>10, <1>11, <1>12, <1>13, <1>14, <1>15 DEF Next, Menu, Daemon

-------------------------------------------------------------------------------
\* What the menu takes for running.

LEMMA Names ==
  /\ (Launching <=> \E i : Launch(i)) /\ (Launching' <=> \E i : Launch(i)')
  /\ (ExitOnItsWay <=> \E i : Is("exited", i)) /\ (ExitOnItsWay' <=> \E i : Is("exited", i)')
<1>1. (Launching <=> \E i : Launch(i)) /\ (Launching' <=> \E i : Launch(i)')
  BY DEF Launching, Launch
<1>2. (ExitOnItsWay <=> \E i : Is("exited", i)) /\ (ExitOnItsWay' <=> \E i : Is("exited", i)')
  BY DEF ExitOnItsWay, Is
<1> QED
  BY <1>1, <1>2

\* The requests after the first.
LEMMA Answered ==
  ASSUME Typed, NEW f, Pairs(f), HearReply
  PROVE  /\ \A i : Launch(i)' <=> i \in Nat \ {0} /\ Launch(i + 1)
         /\ \A i : Launch(i)' => asked'[i] = asked[i + 1]
         /\ \A i : Launch(i) => i \in Nat \ {0}
         /\ Launch(1) <=> Head(asked).cmd = "launch"
         /\ Head(asked) = asked[1] /\ f[1] = 1 /\ Head(toMenu) = toMenu[1]
         /\ Replies \in Nat \ {0} /\ Replies' = Replies - 1
<1>1. asked # <<>> /\ f[1] = 1 /\ Replies \in Nat \ {0}
  BY FirstAnswer DEF HearReply
<1>2. /\ Head(asked) = asked[1] /\ Len(asked) \in Nat \ {0} /\ Len(asked') = Len(asked) - 1
      /\ \A i \in 1 .. Len(asked) - 1 : asked'[i] = asked[i + 1]
      /\ toDaemon' = toDaemon /\ Len(toDaemon) \in Nat
  BY <1>1, Heads DEF HearReply, Typed
<1>3. Head(toMenu) = toMenu[1]
  BY Heads DEF HearReply, Typed
<1>4. Replies' = Replies - 1
  BY <1>2 DEF Replies
<1>5. \A i : Launch(i)' <=> i \in Nat \ {0} /\ Launch(i + 1)
  <2> SUFFICES ASSUME NEW i PROVE Launch(i)' <=> i \in Nat \ {0} /\ Launch(i + 1)
    OBVIOUS
  <2>1. i \in 1 .. Len(asked) - 1 <=> i \in Nat \ {0} /\ i + 1 \in 1 .. Len(asked)
    BY <1>2
  <2> QED
    BY <1>2, <2>1 DEF Launch
<1>6. \A i : Launch(i)' => asked'[i] = asked[i + 1]
  BY <1>2 DEF Launch
<1>7. (\A i : Launch(i) => i \in Nat \ {0}) /\ (Launch(1) <=> Head(asked).cmd = "launch")
  BY <1>2 DEF Launch
<1> QED
  BY <1>1, <1>2, <1>3, <1>4, <1>5, <1>6, <1>7

LEMMA MenuSteps ==
  ASSUME [Next]_vars
  PROVE  \/ Connect \/ HearReply \/ HearExited \/ DaemonDies \/ Reap \/ ConfirmUnconnected
         \/ \E u \in Uids : Confirm(u)
         \/ UNCHANGED <<asked, running, deaths>>
<1>1. CASE RefuseLaunch \/ StartLaunch \/ FinishLaunch \/ List \/ Refresh
  BY <1>1 DEF RefuseLaunch, StartLaunch, FinishLaunch, List, Refresh, menu
<1>2. CASE OpenControl \/ CloseControl \/ TitleExits \/ WorldChanges
  BY <1>2 DEF OpenControl, CloseControl, TitleExits, WorldChanges, menu
<1>3. CASE UNCHANGED vars
  BY <1>3 DEF vars, menu
<1> QED
  BY <1>1, <1>2, <1>3 DEF Next, Menu, Daemon

LEMMA LastAskedStep == ASSUME Typed, Paired, LastAsked, [Next]_vars PROVE LastAsked'
<1>1. PICK f : Pairs(f)
  BY DEF Paired
<1> SUFFICES ASSUME NEW i, Launch(i)', \A j : Launch(j)' => j =< i
             PROVE  running' \in {None, asked'[i].uid}
  BY DEF LastAsked
<1>2. CASE Connect
  <2>1. asked' = <<Ask("list", None)>>
    BY <1>2 DEF Connect
  <2>2. i = 1 /\ asked'[i].cmd = "launch"
    BY <2>1 DEF Launch
  <2> QED
    BY <2>1, <2>2 DEF Ask
<1>3. CASE \E u \in Uids : Confirm(u)
  <2>1. PICK u \in Uids : Confirm(u)
    BY <1>3
  <2>2. Sent(Ask("launch", u)) /\ running' = u
    BY <2>1 DEF Confirm, Request, Sent
  <2> DEFINE r == Ask("launch", u)
  <2>3. r \in Asks /\ r.cmd = "launch" /\ r.uid = u /\ Sent(r) /\ Replies \in Nat
    BY <1>1, <2>2, Values DEF Pairs
  <2> HIDE DEF r
  <2>4. PICK n : n = Len(asked) + 1
    OBVIOUS
  <2>5. /\ Len(asked) \in Nat /\ asked'[n] = r
        /\ \A k : Launch(k)' <=> Launch(k) \/ k = n
    BY <2>3, <2>4, Requested
  <2>6. n =< i /\ (Launch(i) => i =< Len(asked))
    BY <2>5 DEF Launch
  <2>7. i = n
    BY <2>4, <2>5, <2>6 DEF Launch
  <2> QED
    BY <2>2, <2>3, <2>5, <2>7
<1>4. CASE HearReply
  <2>1. running' \in {None, running}
    BY <1>4 DEF HearReply, LaunchAnswered, Restore
  <2>2. /\ \A k : Launch(k)' <=> k \in Nat \ {0} /\ Launch(k + 1)
        /\ asked'[i] = asked[i + 1]
        /\ \A k : Launch(k) => k \in Nat \ {0}
    BY <1>1, <1>4, Answered
  <2>3. ASSUME NEW j, Launch(j) PROVE j =< i + 1
    <3>1. j \in Nat \ {0} /\ i \in Nat \ {0}
      BY <2>2, <2>3
    <3>2. CASE j = 1
      BY <3>1, <3>2
    <3>3. CASE j # 1
      <4>1. j - 1 \in Nat \ {0} /\ (j - 1) + 1 = j
        BY <3>1, <3>3
      <4>2. j - 1 =< i
        BY <2>2, <2>3, <4>1
      <4> QED
        BY <3>1, <4>2
    <3> QED
      BY <3>2, <3>3
  <2>4. running \in {None, asked[i + 1].uid}
    BY <2>2, <2>3 DEF LastAsked
  <2> QED
    BY <2>1, <2>2, <2>4
<1>5. CASE HearExited
  BY <1>5 DEF HearExited, Restore
<1>6. CASE DaemonDies
  BY <1>6 DEF DaemonDies, Launch
<1>7. CASE UNCHANGED <<asked, running, deaths>> \/ Reap
  BY <1>7 DEF LastAsked, Launch, Reap, menu
<1>8. CASE ConfirmUnconnected
  BY <1>8 DEF ConfirmUnconnected, Restore
<1> QED
  BY <1>2, <1>3, <1>4, <1>5, <1>6, <1>7, <1>8, MenuSteps


LEMMA AgreesStep ==
  ASSUME Typed, Paired, Serves, LastAsked, RunningAgrees, [Next]_vars
  PROVE  RunningAgrees'
<1>1. PICK f : Pairs(f) /\ Launched(f)
  BY DEF Paired
<1> SUFFICES ASSUME running' # None, deaths' = 0
             PROVE  running' = proc' \/ Launching' \/ ExitOnItsWay'
  BY DEF RunningAgrees
<1>2. CASE Connect
  <2>1. running' = running /\ deaths' = deaths /\ ~ up
    BY <1>2 DEF Connect
  <2>2. asked = <<>> /\ toMenu = <<>> /\ proc = None
    BY <2>1 DEF Serves
  <2> QED
    BY <2>1, <2>2 DEF RunningAgrees, Launching, ExitOnItsWay
<1>3. CASE \E u \in Uids : Confirm(u)
  <2>1. PICK u \in Uids : Sent(Ask("launch", u))
    BY <1>3 DEF Confirm, Request, Sent
  <2> DEFINE r == Ask("launch", u)
  <2>2. r \in Asks /\ r.cmd = "launch" /\ Sent(r) /\ Replies \in Nat
    BY <1>1, <2>1, Values DEF Pairs
  <2> HIDE DEF r
  <2>3. PICK n : n = Len(asked) + 1
    OBVIOUS
  <2>4. Launch(n)'
    BY <2>2, <2>3, Requested
  <2> QED
    BY <2>4, Names
<1>4. CASE HearReply
  <2>1. /\ \A k : Launch(k)' <=> k \in Nat \ {0} /\ Launch(k + 1)
        /\ \A k : Launch(k) => k \in Nat \ {0}
        /\ Launch(1) <=> Head(asked).cmd = "launch"
        /\ Head(asked) = asked[1] /\ f[1] = 1 /\ Head(toMenu) = toMenu[1]
        /\ Replies \in Nat \ {0}
    BY <1>1, <1>4, Answered
  <2>2. toMenu # <<>> /\ toMenu' = Tail(toMenu) /\ Head(toMenu).kind = "reply"
        /\ proc' = proc /\ deaths' = deaths
    BY <1>4 DEF HearReply
  <2>3. running' = running /\ (Launch(1) => Head(toMenu).ok)
    BY <1>4, <2>1 DEF HearReply, LaunchAnswered, Restore
  <2>4. \A k, i : Is(k, i)' <=> i \in Nat \ {0} /\ Is(k, i + 1)
    BY <2>2, Heard
  <2>5. ASSUME ExitOnItsWay PROVE ExitOnItsWay'
    <3>1. PICK i : Is("exited", i)
      BY <2>5, Names
    <3>2. i \in Nat \ {0} /\ i # 1
      BY <2>1, <2>2, <3>1 DEF Is, Typed
    <3>3. i - 1 \in Nat \ {0} /\ (i - 1) + 1 = i
      BY <3>2
    <3>4. Is("exited", i - 1)'
      BY <2>4, <3>1, <3>3
    <3> QED
      BY <3>4, Names
  <2>6. ASSUME ~ Launching', Launching PROVE running = proc \/ ExitOnItsWay
    <3>1. \A k : Launch(k) => k = 1
      <4> SUFFICES ASSUME NEW k, Launch(k), k # 1 PROVE FALSE
        OBVIOUS
      <4>1. k - 1 \in Nat \ {0} /\ (k - 1) + 1 = k
        BY <2>1
      <4>2. Launch(k - 1)'
        BY <2>1, <4>1
      <4> QED
        BY <2>6, <4>2, Names
    <3>2. Launch(1)
      BY <2>6, <3>1, Names
    <3>3. running = asked[1].uid
      BY <2>3, <3>1, <3>2 DEF LastAsked
    <3>4. proc = asked[1].uid \/ \E j : Is("exited", j)
      BY <1>1, <2>1, <2>3, <3>2 DEF Launched
    <3> QED
      BY <3>3, <3>4, Names
  <2> QED
    BY <2>2, <2>3, <2>5, <2>6 DEF RunningAgrees
<1>5. CASE HearExited
  BY <1>5 DEF HearExited, Restore
<1>6. CASE DaemonDies
  BY <1>6 DEF DaemonDies, Typed
<1>7. CASE Reap
  <2>1. toMenu' = Append(toMenu, Exited(proc)) /\ proc \in Uids
    BY <1>7 DEF Reap, Serves, Typed
  <2>2. PICK e \in Messages : e.kind = "exited" /\ toMenu' = Append(toMenu, e)
    BY <2>1, Values
  <2>3. PICK m : m = Len(toMenu) + 1
    OBVIOUS
  <2>4. Is("exited", m)'
    BY <2>2, <2>3, Emitted
  <2> QED
    BY <2>4, Names
<1>8. CASE UNCHANGED <<asked, running, deaths>>
  <2>1. Launching' <=> Launching
    BY <1>8 DEF Launching
  <2>2. CASE Quiet \/ Sending
    <3>1. toMenu' = toMenu /\ proc' = proc
      BY <2>2 DEF Quiet, Sending
    <3> QED
      BY <1>8, <2>1, <3>1 DEF RunningAgrees, ExitOnItsWay
  <2>3. CASE Answering
    <3>1. PICK e \in Messages :
            /\ toDaemon # <<>> /\ Serve(e)
            /\ proc' = proc \/ Head(toDaemon).cmd = "launch"
      BY <2>3 DEF Answering
    <3>2. Head(toDaemon).cmd = "launch" => Launching
      BY <1>1, <3>1, Served, Names
    <3>3. ExitOnItsWay => ExitOnItsWay'
      <4>1. \A i : Is("exited", i) => Is("exited", i)'
        BY <3>1, Emitted DEF Serve
      <4> QED
        BY <4>1, Names
    <3> QED
      BY <1>8, <2>1, <3>1, <3>2, <3>3 DEF RunningAgrees
  <2> QED
    BY <1>4, <1>5, <1>6, <1>7, <2>2, <2>3, WireSteps
<1>9. CASE ConfirmUnconnected
  BY <1>9 DEF ConfirmUnconnected, Restore
<1> QED
  BY <1>2, <1>3, <1>4, <1>5, <1>6, <1>7, <1>8, <1>9, MenuSteps

-------------------------------------------------------------------------------
\* One launch at a time.

LEMMA CouchStep ==
  ASSUME Typed, Paired, Serves, Couch, [Next]_vars
  PROVE  Couch'
<1>1. PICK f : Pairs(f) /\ Ending(f)
  BY DEF Paired
<1>2. overlay' = overlay
  BY SameUser
<1> SUFFICES ASSUME ~ overlay
             PROVE  Couch'
  BY <1>2 DEF Couch
<1>3. /\ ~ control
      /\ ~ consumed => running = None /\ proc = None /\ ~ Launching /\ ~ ExitOnItsWay
      /\ consumed => veil /\ running # None
      /\ \A i : Launch(i) => asked[i].uid = running /\ \A j : Launch(j) => i = j
      /\ \A i : Launch(i) /\ Replies < i => proc = None /\ ~ ExitOnItsWay
      /\ proc # None => running = proc /\ ~ ExitOnItsWay
      /\ \A i, j : Is("exited", i) /\ Is("exited", j) => i = j
  BY DEF Couch
\* A step after which nothing runs, is launched or has ended.
<1> DEFINE Nothing == ~ Launching' /\ ~ ExitOnItsWay' /\ proc' = None
<1>4. ASSUME Nothing, ~ control', ~ consumed' => running' = None, consumed' => veil' /\ running' # None
      PROVE  Couch'
  BY <1>4, Names DEF Couch
<1>5. CASE Connect
  <2>1. ~ up /\ asked' = <<Ask("list", None)>> /\ toMenu' = <<>>
        /\ UNCHANGED <<proc, control, consumed, veil, running>>
    BY <1>5 DEF Connect
  <2>2. ~ Launching'
    BY <2>1 DEF Launching, Ask
  <2>3. ~ ExitOnItsWay' /\ proc' = None
    BY <2>1 DEF ExitOnItsWay, Serves
  <2> QED
    BY <1>3, <1>4, <2>1, <2>2, <2>3
<1>6. CASE DaemonDies
  <2>1. asked' = <<>> /\ toMenu' = <<>> /\ proc' = None /\ control' = control
    BY <1>6 DEF DaemonDies
  <2>2. \/ running' = None /\ consumed' = FALSE
        \/ UNCHANGED <<running, consumed, veil>>
    BY <1>6 DEF DaemonDies, Restore
  <2>3. ~ Launching' /\ ~ ExitOnItsWay'
    BY <2>1 DEF Launching, ExitOnItsWay
  <2> QED
    BY <1>3, <1>4, <2>1, <2>2, <2>3
<1>7. CASE HearExited
  <2>1. /\ toMenu # <<>> /\ toMenu' = Tail(toMenu) /\ Head(toMenu).kind = "exited"
        /\ Sent(Ask("refresh", None)) /\ proc' = proc
        /\ running' = None /\ consumed' = FALSE /\ control' = control
    BY <1>7 DEF HearExited, Request, Sent, Restore
  <2>2. /\ \A k, i : Is(k, i)' <=> i \in Nat \ {0} /\ Is(k, i + 1)
        /\ Is("exited", 1) /\ Len(toMenu) \in Nat
    BY <2>1, Heard
  <2>3. ExitOnItsWay
    BY <2>2, Names
  <2>4. proc = None
    BY <1>3, <2>3
  <2>5. ~ ExitOnItsWay'
    <3> SUFFICES ASSUME NEW i, Is("exited", i)' PROVE FALSE
      BY Names
    <3>1. i \in Nat \ {0} /\ i + 1 = 1
      BY <1>3, <2>2
    <3> QED
      BY <3>1
  <2>6. ~ Launching
    <3> SUFFICES ASSUME NEW k, Launch(k) PROVE FALSE
      BY Names
    <3>1. k \in Nat \ {0} /\ Replies \in Nat
      BY <1>1 DEF Launch, Pairs
    <3>2. ~ (Replies < k)
      BY <1>3, <2>3
    <3>3. k \in 1 .. Replies
      BY <3>1, <3>2
    <3>4. f[k] < 1 /\ f[k] \in 1 .. Len(toMenu)
      BY <1>1, <2>2, <3>3 DEF Ending, Pairs, Is
    <3> QED
      BY <2>2, <3>4
  <2>7. ~ Launching'
    <3> DEFINE r == Ask("refresh", None)
    <3>1. r \in Asks /\ r.cmd # "launch" /\ Sent(r) /\ Replies \in Nat
      BY <1>1, <2>1, Values DEF Pairs
    <3> HIDE DEF r
    <3>2. \A i : Launch(i)' <=> Launch(i)
      BY <3>1, Requested
    <3> QED
      BY <2>6, <3>2, Names
  <2> QED
    BY <1>3, <1>4, <2>1, <2>4, <2>5, <2>7
<1>8. CASE \E u \in Uids : Confirm(u)
  <2>1. PICK u \in Uids : Confirm(u)
    BY <1>8
  <2>2. /\ ~ consumed /\ consumed' /\ veil' /\ running' = u /\ control' = control
        /\ Sent(Ask("launch", u)) /\ UNCHANGED <<toMenu, proc>> /\ u # None
    BY <2>1, FlowAssumption DEF Confirm, Request, Sent
  <2> DEFINE r == Ask("launch", u)
  <2>3. r \in Asks /\ r.cmd = "launch" /\ r.uid = u /\ Sent(r) /\ Replies \in Nat
    BY <1>1, <2>2, Values DEF Pairs
  <2> HIDE DEF r
  <2>4. PICK n : n = Len(asked) + 1
    OBVIOUS
  <2>5. /\ asked'[n] = r /\ \A i : Launch(i)' <=> Launch(i) \/ i = n
    BY <2>3, <2>4, Requested
  <2>6. ~ Launching /\ ~ ExitOnItsWay /\ proc = None
    BY <1>3, <2>2
  <2>7. \A i : Launch(i)' => i = n
    BY <2>5, <2>6, Names
  <2>8. ~ ExitOnItsWay' /\ proc' = None
    BY <2>2, <2>6 DEF ExitOnItsWay
  <2>9. \A i : Launch(i)' => asked'[i].uid = running' /\ \A j : Launch(j)' => i = j
    BY <2>2, <2>3, <2>5, <2>7
  <2>10. \A i : ~ Is("exited", i)'
    BY <2>8, Names
  <2> QED
    BY <1>3, <2>2, <2>8, <2>9, <2>10 DEF Couch
<1>9. CASE HearReply
  <2>1. /\ \A i : Launch(i)' <=> i \in Nat \ {0} /\ Launch(i + 1)
        /\ \A i : Launch(i)' => asked'[i] = asked[i + 1]
        /\ Launch(1) <=> Head(asked).cmd = "launch"
        /\ f[1] = 1 /\ Head(toMenu) = toMenu[1]
        /\ Replies \in Nat \ {0} /\ Replies' = Replies - 1
    BY <1>1, <1>9, Answered
  <2>2. /\ toMenu # <<>> /\ toMenu' = Tail(toMenu) /\ proc' = proc /\ control' = control
    BY <1>9 DEF HearReply
  <2>3. \A k, i : Is(k, i)' <=> i \in Nat \ {0} /\ Is(k, i + 1)
    BY <2>2, Heard
  <2>4. ExitOnItsWay' => ExitOnItsWay
    BY <2>3, Names
  <2>5. CASE Launch(1) /\ ~ Head(toMenu).ok
    <3>1. running' = None /\ consumed' = FALSE
      BY <1>9, <2>1, <2>5 DEF HearReply, LaunchAnswered, Restore
    <3>2. 1 \in 1 .. Replies
      BY <2>1
    <3>3. ~ ExitOnItsWay /\ proc = None
      BY <1>1, <2>1, <2>5, <3>2, Names DEF Ending
    <3>4. ~ Launching'
      <4> SUFFICES ASSUME NEW i, Launch(i)' PROVE FALSE
        BY Names
      <4>1. i \in Nat \ {0} /\ Launch(i + 1)
        BY <2>1
      <4>2. i + 1 = 1
        BY <1>3, <2>5, <4>1
      <4> QED
        BY <4>1, <4>2
    <3> QED
      BY <1>3, <1>4, <2>2, <2>4, <3>1, <3>3, <3>4
  <2>6. CASE ~ (Launch(1) /\ ~ Head(toMenu).ok)
    <3>1. UNCHANGED <<veil, consumed, running>>
      BY <1>9, <2>1, <2>6 DEF HearReply, LaunchAnswered
    <3>2. Launching' => Launching
      BY <2>1, Names
    <3>3. \A i : Launch(i)' => asked'[i].uid = running' /\ \A j : Launch(j)' => i = j
      <4> SUFFICES ASSUME NEW i, Launch(i)'
                   PROVE  asked'[i].uid = running' /\ \A j : Launch(j)' => i = j
        OBVIOUS
      <4>1. i \in Nat \ {0} /\ Launch(i + 1) /\ asked'[i] = asked[i + 1]
        BY <2>1
      <4>2. asked[i + 1].uid = running
        BY <1>3, <4>1
      <4>3. ASSUME NEW j, Launch(j)' PROVE i = j
        <5>1. j \in Nat \ {0} /\ Launch(j + 1)
          BY <2>1, <4>3
        <5>2. i + 1 = j + 1
          BY <1>3, <4>1, <5>1
        <5> QED
          BY <4>1, <5>1, <5>2
      <4> QED
        BY <3>1, <4>1, <4>2, <4>3
    <3>4. \A i : Launch(i)' /\ Replies' < i => proc' = None /\ ~ ExitOnItsWay'
      <4> SUFFICES ASSUME NEW i, Launch(i)', Replies' < i
                   PROVE  proc' = None /\ ~ ExitOnItsWay'
        OBVIOUS
      <4>1. i \in Nat \ {0} /\ Launch(i + 1)
        BY <2>1
      <4>2. Replies < i + 1
        BY <2>1, <4>1
      <4> QED
        BY <1>3, <2>2, <2>4, <4>1, <4>2
    <3>5. ASSUME NEW i, NEW j, Is("exited", i)', Is("exited", j)' PROVE i = j
      <4>1. i \in Nat \ {0} /\ j \in Nat \ {0} /\ Is("exited", i + 1) /\ Is("exited", j + 1)
        BY <2>3, <3>5
      <4>2. i + 1 = j + 1
        BY <1>3, <4>1
      <4> QED
        BY <4>1, <4>2
    <3> QED
      BY <1>3, <2>2, <2>4, <3>1, <3>2, <3>3, <3>4, <3>5 DEF Couch
  <2> QED
    BY <2>5, <2>6
<1>10. CASE Reap
  <2>1. /\ proc # None /\ proc' = None /\ toMenu' = Append(toMenu, Exited(proc))
        /\ UNCHANGED <<veil, consumed, running, control, asked, toDaemon>>
    BY <1>10 DEF Reap, menu, Serves
  <2>2. PICK e \in Messages : e.kind = "exited" /\ toMenu' = Append(toMenu, e)
    BY <2>1, Values DEF Typed
  <2>3. PICK m : m = Len(toMenu) + 1
    OBVIOUS
  <2>4. \A i : Is("exited", i)' <=> Is("exited", i) \/ i = m
    BY <2>2, <2>3, Emitted
  <2>5. consumed /\ ~ ExitOnItsWay
    BY <1>3, <2>1
  <2>6. \A i : Is("exited", i)' => i = m
    BY <2>4, <2>5, Names
  <2>7. \A i : (Launch(i)' <=> Launch(i)) /\ asked'[i] = asked[i]
    BY <2>1 DEF Launch
  <2>8. Replies' = Replies
    BY <2>1 DEF Replies
  <2>9. \A i : Launch(i)' => ~ (Replies' < i)
    BY <1>3, <2>1, <2>7, <2>8
  <2>10. \A i, j : Is("exited", i)' /\ Is("exited", j)' => i = j
    BY <2>6
  <2>11. \A i : Launch(i)' => asked'[i].uid = running' /\ \A j : Launch(j)' => i = j
    BY <1>3, <2>1, <2>7
  <2> QED
    BY <1>3, <2>1, <2>5, <2>9, <2>10, <2>11 DEF Couch
<1>11. CASE UNCHANGED <<veil, consumed, running, control, asked, toDaemon, toMenu, proc>>
  <2>1. \A i : Launch(i)' <=> Launch(i)
    BY <1>11 DEF Launch
  <2>2. \A k, i : Is(k, i)' <=> Is(k, i)
    BY <1>11 DEF Is
  <2>3. (Launching' <=> Launching) /\ (ExitOnItsWay' <=> ExitOnItsWay) /\ Replies' = Replies
    BY <1>11 DEF Launching, ExitOnItsWay, Replies
  <2> QED
    BY <1>3, <1>11, <2>1, <2>2, <2>3 DEF Couch
<1>12. CASE Answering /\ UNCHANGED <<veil, consumed, running, control>>
  <2>1. PICK e \in Messages :
          /\ e.kind = "reply" /\ toDaemon # <<>> /\ Serve(e) /\ asked' = asked
          /\ \/ proc' = proc
             \/ proc = None /\ proc' = Head(toDaemon).uid /\ Head(toDaemon).cmd = "launch"
    BY <1>12 DEF Answering
  <2>2. toMenu' = Append(toMenu, e) /\ toDaemon' = Tail(toDaemon)
    BY <2>1 DEF Serve
  <2>3. \A i : Is("exited", i)' <=> Is("exited", i)
    BY <2>1, <2>2, Emitted
  <2>4. PICK n : n = Replies + 1
    OBVIOUS
  <2>5. /\ Replies \in Nat /\ asked[n] = Head(toDaemon)
        /\ Head(toDaemon).cmd = "launch" => Launch(n)
    BY <1>1, <2>1, <2>4, Served
  <2>6. Replies' = n
    <3>1. Len(toDaemon') = Len(toDaemon) - 1 /\ Len(toDaemon) \in Nat /\ Len(asked) \in Nat
      BY <2>1, <2>2, Heads DEF Typed
    <3> QED
      BY <2>1, <2>4, <3>1 DEF Replies
  <2>7. \A i : (Launch(i)' <=> Launch(i)) /\ asked'[i] = asked[i]
    BY <2>1 DEF Launch
  <2>8. (Launching' <=> Launching) /\ (ExitOnItsWay' <=> ExitOnItsWay)
    BY <2>3, <2>7, Names
  <2>9. proc' = proc \/ (proc' = running /\ Launch(n) /\ consumed /\ ~ ExitOnItsWay)
    <3> SUFFICES ASSUME proc' # proc PROVE proc' = running /\ Launch(n) /\ consumed /\ ~ ExitOnItsWay
      OBVIOUS
    <3>1. proc' = asked[n].uid /\ Launch(n)
      BY <2>1, <2>5
    <3>2. Replies < n
      BY <2>4, <2>5
    <3>3. Launching
      BY <3>1, Names
    <3> QED
      BY <1>3, <3>1, <3>2, <3>3
  <2>10. \A i : Launch(i)' => asked'[i].uid = running' /\ \A j : Launch(j)' => i = j
    BY <1>3, <1>12, <2>7
  <2>11. ASSUME NEW i, Launch(i)', Replies' < i PROVE proc' = None /\ ~ ExitOnItsWay'
    <3>1. Launch(i) /\ i # n /\ Replies < i
      <4>1. i \in Nat
        BY <2>7, <2>11 DEF Launch
      <4> QED
        BY <2>4, <2>5, <2>6, <2>7, <2>11, <4>1
    <3>2. proc' = proc
      BY <1>3, <2>9, <3>1
    <3> QED
      BY <1>3, <2>8, <3>1, <3>2
  <2>12. \A i, j : Is("exited", i)' /\ Is("exited", j)' => i = j
    BY <1>3, <2>3
  <2>13. proc' # None => running' = proc' /\ ~ ExitOnItsWay' /\ consumed
    BY <1>3, <1>12, <2>8, <2>9
  <2> QED
    BY <1>3, <1>12, <2>8, <2>10, <2>11, <2>12, <2>13 DEF Couch
\* The rest happens without the menu.
<1>13. CASE UNCHANGED <<veil, consumed, running, control, asked>>
  <2>1. CASE Quiet
    BY <1>11, <1>13, <2>1 DEF Quiet
  <2>2. CASE Sending
    <3>1. PICK r \in Asks : asked' = Append(asked, r)
      BY <2>2 DEF Sending, Sent
    <3>2. Len(asked') = Len(asked) + 1 /\ Len(asked) \in Nat
      BY <3>1, Appended DEF Typed
    <3> QED
      BY <1>13, <3>2
  <2> QED
    BY <1>6, <1>7, <1>9, <1>10, <1>12, <1>13, <2>1, <2>2, WireSteps
<1>14. CASE Daemon \/ TitleExits \/ WorldChanges
  BY <1>10, <1>13, <1>14 DEF Daemon, RefuseLaunch, StartLaunch, FinishLaunch, List, Refresh,
     TitleExits, WorldChanges, menu
<1>15. CASE UNCHANGED vars
  BY <1>13, <1>15 DEF vars, menu
<1>16. ~ OpenControl /\ ~ CloseControl
  BY <1>3 DEF OpenControl, CloseControl
<1>17. CASE ConfirmUnconnected
  <2>1. /\ ~ up /\ ~ consumed /\ running' = None /\ consumed' = FALSE
        /\ UNCHANGED <<control, asked, toMenu, proc>>
    BY <1>17 DEF ConfirmUnconnected, Restore
  <2>2. ~ Launching' /\ ~ ExitOnItsWay' /\ proc' = None
    BY <1>3, <2>1 DEF Launching, ExitOnItsWay
  <2> QED
    BY <1>3, <1>4, <2>1, <2>2
<1> QED
  BY <1>5, <1>6, <1>7, <1>8, <1>9, <1>14, <1>15, <1>16, <1>17 DEF Next, Menu

-------------------------------------------------------------------------------
LEMMA FlowStep == FlowInv /\ [Next]_vars => FlowInv'
BY TypedStep, PairedStep, ServesStep, LastAskedStep, AgreesStep, CouchStep DEF FlowInv

LEMMA AlwaysFlow == Spec => []FlowInv
BY FlowInit, FlowStep, PTL DEF Spec

\* Across any number of launches and overlays: as long as the daemon lives, the title
\* that the menu takes for running runs, or its launch is not answered, or its end is
\* on its way.
THEOREM MenuAgrees == Spec => []RunningAgrees
<1>1. FlowInv => RunningAgrees
  BY DEF FlowInv
<1> QED
  BY <1>1, AlwaysFlow, PTL

\* While a title runs the screen behind it is covered and takes no input, unless the
\* Control Center is opened over it.
THEOREM CoveredMeanwhile == Spec => []CoveredWhilePlaying
<1>1. FlowInv => CoveredWhilePlaying
  BY DEF FlowInv, Couch, CoveredWhilePlaying
<1> QED
  BY <1>1, AlwaysFlow, PTL

-------------------------------------------------------------------------------
\* The daemon that the menu talks to, as an implementation of OneTitle: a title
\* holds the console from the fork to the event that tells of its end.

LEMMA ServiceStep == ASSUME Typed, Serves, [Next]_vars PROVE [Service!Next]_Service!vars
<1> USE FlowAssumption DEF FlowAssumption
<1> DEFINE Same == UNCHANGED <<handler, proc, alive>>
<1>1. CASE StartLaunch
  <2>1. /\ handler = None /\ proc = None /\ proc' = proc
        /\ handler' = Head(toDaemon).uid /\ alive' = handler' /\ handler' \in Uids
    BY <1>1 DEF StartLaunch, Serving, Typed
  <2>2. Holder = None /\ Holder' = handler'
    BY <2>1 DEF Holder
  <2>3. Service!Start(handler')
    BY <2>1, <2>2 DEF Service!Start
  <2> QED
    BY <2>1, <2>3 DEF Service!Next
<1>2. CASE FinishLaunch
  <2>1. handler # None /\ handler' = None /\ proc = None /\ proc' = handler /\ alive' = alive
    BY <1>2 DEF FinishLaunch, Serves
  <2>2. Holder = handler /\ Holder' = handler
    BY <2>1 DEF Holder
  <2> QED
    BY <2>1, <2>2 DEF Service!Next, Service!Announce
<1>3. CASE TitleExits
  <2>1. alive # None /\ alive' = None /\ UNCHANGED <<handler, proc>>
    BY <1>3 DEF TitleExits
  <2>2. Holder' = Holder
    BY <2>1 DEF Holder
  <2> QED
    BY <2>1, <2>2 DEF Service!Next, Service!Quit
<1>4. CASE Reap
  <2>1. /\ proc # None /\ proc' = None /\ alive = None /\ alive' = alive
        /\ handler' = handler /\ handler = None
    BY <1>4 DEF Reap, Serves
  <2>2. Holder = proc /\ Holder' = None
    BY <2>1 DEF Holder
  <2> QED
    BY <2>1, <2>2 DEF Service!Next, Service!Release
<1>5. CASE DaemonDies
  <2>1. handler' = None /\ proc' = None /\ alive' = None
    BY <1>5 DEF DaemonDies
  <2>2. Holder' = None
    BY <2>1 DEF Holder
  <2> QED
    BY <2>1, <2>2 DEF Service!Next, Service!Fall
<1>6. CASE Same
  BY <1>6 DEF Holder, Service!vars
<1>7. CASE \/ Menu \/ (\E u \in Uids : Confirm(u)) \/ ConfirmUnconnected
           \/ OpenControl \/ CloseControl
  BY <1>6, <1>7 DEF Menu, Connect, HearReply, HearExited, Confirm, ConfirmUnconnected,
     OpenControl, CloseControl
<1>8. CASE RefuseLaunch \/ List \/ Refresh \/ WorldChanges
  BY <1>6, <1>8 DEF RefuseLaunch, List, Refresh, WorldChanges
<1>9. CASE UNCHANGED vars
  BY <1>6, <1>9 DEF vars
<1> QED
  BY <1>1, <1>2, <1>3, <1>4, <1>5, <1>7, <1>8, <1>9 DEF Next, Daemon

\* The daemon this module models keeps the promise that the session layer makes:
\* TitleSession and LaunchFlow meet in OneTitle.
THEOREM SessionServed == Spec => ServesOneTitle
<1>1. Init => Service!Init
  BY DEF Init, Service!Init, Holder
<1>2. FlowInv /\ [Next]_vars => [Service!Next]_Service!vars
  BY ServiceStep DEF FlowInv
<1> QED
  BY <1>1, <1>2, AlwaysFlow, PTL DEF Spec, ServesOneTitle, Service!Spec

\* The promise itself: whoever keeps it has no title alive, and reports none, but
\* the one that holds the console.
THEOREM PromiseMeans == ServesOneTitle => []Service!OnlyTheHolder
<1>1. Service!Init => Service!OnlyTheHolder
  BY DEF Service!Init, Service!OnlyTheHolder
<1>2. Service!OnlyTheHolder /\ [Service!Next]_Service!vars => Service!OnlyTheHolder'
  <2> SUFFICES ASSUME Service!OnlyTheHolder, [Service!Next]_Service!vars
               PROVE  Service!OnlyTheHolder'
    OBVIOUS
  <2> USE DEF Service!OnlyTheHolder
  <2>1. ASSUME NEW u \in Uids, Service!Start(u) PROVE Service!OnlyTheHolder'
    BY <2>1 DEF Service!Start
  <2>2. CASE Service!Announce
    BY <2>2 DEF Service!Announce
  <2>3. CASE Service!Quit
    BY <2>3 DEF Service!Quit
  <2>4. CASE Service!Release
    BY <2>4 DEF Service!Release
  <2>5. CASE Service!Fall
    BY <2>5 DEF Service!Fall
  <2>6. CASE UNCHANGED Service!vars
    BY <2>6 DEF Service!vars
  <2> QED
    BY <2>1, <2>2, <2>3, <2>4, <2>5, <2>6 DEF Service!Next
<1> QED
  BY <1>1, <1>2, PTL DEF ServesOneTitle, Service!Spec

\* So the daemon never loses sight of a live title, and no two are ever started
\* over each other: what lives is what is being launched or what is tracked.
LiveIsHeld == alive # None => alive = handler \/ alive = proc

THEOREM NoTitleIsLost == Spec => []LiveIsHeld
<1>1. Service!OnlyTheHolder => LiveIsHeld
  BY DEF Service!OnlyTheHolder, Holder, LiveIsHeld
<1> QED
  BY <1>1, SessionServed, PromiseMeans, PTL
===============================================================================
