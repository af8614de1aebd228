-------------------------- MODULE InstallFlow_proofs --------------------------
(***************************************************************************)
(* Proofs about InstallFlow, for any disks, length of the hold, and number *)
(* of requests, installs and of times that the screen opens, disks come    *)
(* and go, or the daemon dies.                                             *)
(*                                                                         *)
(* The answers on their way are those to the oldest requests, in order     *)
(* (Paired): so an answer that says "started" is told from the others.     *)
(* From there on an event that ends the wait comes after whatever makes    *)
(* the screen say "working" (Ending), and a "done" on its way is true, or  *)
(* the screen is still asking for an install when it comes (Truthful).     *)
(***************************************************************************)
EXTENDS InstallFlow, TLAPS

Asks == [cmd : {"targets"}, dev : {None}] \union [cmd : {"token", "start"}, dev : Devices]

Lists == {<<>>} \union {Listing(ds) : ds \in SUBSET Devices}
Messages == [kind : {"reply", "progress", "done"}, ok : BOOLEAN, list : Lists]

Typed ==
  /\ asked \in Seq(Asks) /\ toDaemon \in Seq(Asks) /\ toMenu \in Seq(Messages)
  /\ disks \subseteq Devices
  /\ hold \in Nat /\ steady \in 0 .. HoldFrames /\ opens \in Nat /\ deaths \in Nat
  /\ open \in BOOLEAN /\ cross \in BOOLEAN /\ up \in BOOLEAN

-------------------------------------------------------------------------------
\* The message at i is of kind k.
Is(k, i) == i \in 1 .. Len(toMenu) /\ toMenu[i].kind = k

Replies == Len(asked) - Len(toDaemon)

\* f[k] is where the answer to the k-th request is.
Pairs(f) ==
  /\ Replies \in Nat
  /\ \A i \in 1 .. Len(toDaemon) : toDaemon[i] = asked[Replies + i]
  /\ \A k \in 1 .. Replies : Is("reply", f[k])
  /\ \A k, l \in 1 .. Replies : k < l => f[k] < f[l]
  /\ \A i : Is("reply", i) => \E k \in 1 .. Replies : i = f[k]

\* The install that the message at i is about runs, or its end is announced later on.
Awaited(i) == deaths = 0 => clone # None \/ \E j : Is("done", j) /\ i < j

\* What makes the screen say "working" is followed by what makes it stop.
Ending(f) ==
  /\ \A k \in 1 .. Replies : asked[k].cmd = "start" /\ toMenu[f[k]].ok => Awaited(f[k])
  /\ \A i : Is("progress", i) => Awaited(i)

\* An install is asked for whose answer, if it is on its way, comes after the message at i.
StartBehind(f, i) ==
  \E k \in 1 .. Len(asked) : asked[k].cmd = "start" /\ (k \in 1 .. Replies => i < f[k])

\* A success on its way is the last word, or an install is asked for behind it.
Truthful(f) ==
  \A i : Is("done", i) /\ toMenu[i].ok => (clone = None /\ last = "ok") \/ StartBehind(f, i)

Paired == \E f : Pairs(f) /\ Ending(f) /\ Truthful(f)

Waiting ==
  /\ deaths = 0 => up
  /\ WorkingIsTrue

-------------------------------------------------------------------------------
\* What is asked, or done, to a disk is about one that Cross was held on.
Meant ==
  /\ \A k \in 1 .. Len(asked) : asked[k].cmd # "targets" => asked[k].dev \in held
  /\ clone # None => clone \in held

\* The list is asked for once, and not there before.
ListedOnce ==
  /\ opens = 0 => list = <<>> /\ asked = <<>> /\ ~ open
  /\ \A k \in 1 .. Len(asked) : asked[k].cmd = "targets" =>
       list = <<>> /\ \A l \in 1 .. Len(asked) : asked[l].cmd = "targets" => l = k

\* The hold was on the disk in focus from its beginning.
Steady ==
  /\ hold > 0 => Focus \in Eligible
  /\ open /\ phase \in {"pick", "confirm"} /\ cross => hold =< steady

Held == opens =< 1 => Meant /\ ListedOnce /\ Steady

FlowInv == Typed /\ Paired /\ DoneIsTrue /\ Waiting /\ Held
-------------------------------------------------------------------------------
\* Sequences.

LEMMA Heads ==
  ASSUME NEW S, NEW s \in Seq(S), s # <<>>
  PROVE  /\ Head(s) \in S /\ Head(s) = s[1] /\ Tail(s) \in Seq(S)
         /\ Len(s) \in Nat \ {0} /\ Len(Tail(s)) = Len(s) - 1
         /\ \A i \in 1 .. Len(s) - 1 : Tail(s)[i] = s[i + 1]
OBVIOUS

LEMMA Appended ==
  ASSUME NEW S, NEW s \in Seq(S), NEW x \in S
  PROVE  /\ Append(s, x) \in Seq(S) /\ Len(s) \in Nat /\ Len(Append(s, x)) = Len(s) + 1
         /\ \A i \in 1 .. Len(s) : Append(s, x)[i] = s[i]
         /\ Append(s, x)[Len(s) + 1] = x
OBVIOUS

-------------------------------------------------------------------------------
\* The types.

LEMMA Constants == None \notin Eligible /\ Eligible \subseteq Devices /\ HoldFrames \in Nat \ {0}
BY FlowAssumption

LEMMA Values ==
  /\ Ask("targets", None) \in Asks /\ Ask("targets", None).cmd = "targets"
  /\ \A c \in {"token", "start"}, d \in Devices :
       Ask(c, d) \in Asks /\ Ask(c, d).cmd = c /\ Ask(c, d).dev = d
  /\ \A ok \in BOOLEAN, ds \in Lists :
       Answer(ok, ds) \in Messages /\ Answer(ok, ds).kind = "reply" /\ Answer(ok, ds).ok = ok
  /\ Progress \in Messages /\ Progress.kind = "progress"
  /\ \A ok \in BOOLEAN : Done(ok) \in Messages /\ Done(ok).kind = "done" /\ Done(ok).ok = ok
  /\ <<>> \in Lists
BY DEF Ask, Asks, Answer, Messages, Lists, Progress, Done

LEMMA Attached == ASSUME Typed PROVE Listing(disks) \in Lists
BY DEF Typed, Lists

LEMMA FlowInit == Init => FlowInv
<1> SUFFICES ASSUME Init PROVE FlowInv
  OBVIOUS
<1>1. Typed
  <2>1. asked \in Seq(Asks) /\ toDaemon \in Seq(Asks) /\ toMenu \in Seq(Messages)
    BY DEF Init
  <2>2. disks \subseteq Devices /\ hold \in Nat /\ steady \in 0 .. HoldFrames /\ opens \in Nat
      /\ deaths \in Nat
    BY Constants DEF Init
  <2>3. open \in BOOLEAN /\ cross \in BOOLEAN /\ up \in BOOLEAN
    BY DEF Init
  <2> QED
    BY <2>1, <2>2, <2>3 DEF Typed
<1>2. Paired
  <2>1. Pairs(<<>>) /\ Ending(<<>>) /\ Truthful(<<>>)
    BY DEF Init, Pairs, Ending, Truthful, Replies, Is
  <2> QED
    BY <2>1 DEF Paired
<1>3. DoneIsTrue /\ Waiting
  BY DEF Init, DoneIsTrue, Waiting, WorkingIsTrue
<1>4. Held
  BY DEF Init, Held, Meant, ListedOnce, Steady
<1> QED
  BY <1>1, <1>2, <1>3, <1>4 DEF FlowInv

-------------------------------------------------------------------------------
\* What a step does to the wire, and to what the daemon does.

Quiet == UNCHANGED <<asked, toDaemon, toMenu, clone, last, deaths>>

Sent(r) == asked' = Append(asked, r) /\ toDaemon' = Append(toDaemon, r)

\* A request is sent.
Requesting ==
  \E r \in Asks : Sent(r) /\ r.cmd # "start" /\ UNCHANGED <<toMenu, clone, last, deaths>>

\* A request is answered.
Answering ==
  \E ok \in BOOLEAN, ds \in Lists :
    /\ toDaemon # <<>> /\ Serve(Answer(ok, ds))
    /\ \/ UNCHANGED clone /\ (Head(toDaemon).cmd = "start" => ~ ok)
       \/ Serving("start") /\ clone = None /\ clone' = Head(toDaemon).dev
    /\ UNCHANGED <<asked, last, deaths>>

LEMMA WireSteps ==
  ASSUME Typed, [Next]_vars
  PROVE  \/ Quiet \/ Requesting \/ HearReply \/ HearEvent \/ Answering
         \/ CloneProgress \/ (\E ok \in BOOLEAN : CloneEnds(ok)) \/ DaemonDies
<1>1. CASE Open
  <2>1. Ask("targets", None) \in Asks /\ Ask("targets", None).cmd # "start"
    BY Values
  <2>2. CASE up
    <3>1. Sent(Ask("targets", None)) /\ UNCHANGED <<toMenu, clone, last, deaths>>
      BY <1>1, <2>2 DEF Open, Send, Sent, daemon
    <3> QED
      BY <2>1, <3>1 DEF Requesting
  <2>3. CASE ~ up
    BY <1>1, <2>3 DEF Open, daemon, Quiet
  <2> QED
    BY <2>2, <2>3
<1>2. CASE HoldOn
  <2>1. CASE UNCHANGED <<asked, toDaemon>>
    BY <1>2, <2>1 DEF HoldOn, daemon, bounds, Quiet
  <2>2. CASE Send(Ask("token", Focus))
    <3>1. Focus \in Devices
      BY <1>2, Constants DEF HoldOn, Polling
    <3>2. Ask("token", Focus) \in Asks /\ Ask("token", Focus).cmd # "start"
      BY <3>1, Values
    <3>3. Sent(Ask("token", Focus)) /\ UNCHANGED <<toMenu, clone, last, deaths>>
      BY <1>2, <2>2 DEF HoldOn, Send, Sent, daemon, bounds
    <3> QED
      BY <3>2, <3>3 DEF Requesting
  <2> QED
    BY <1>2, <2>1, <2>2 DEF HoldOn
<1>3. CASE Daemon
  <2>1. CASE ServeTargets
    <3>1. Listing(disks) \in Lists
      BY Attached
    <3>2. Serve(Answer(TRUE, Listing(disks))) /\ toDaemon # <<>> /\ Head(toDaemon).cmd # "start"
      BY <2>1 DEF ServeTargets, Serving
    <3>3. UNCHANGED clone /\ UNCHANGED <<asked, last, deaths>>
      BY <2>1 DEF ServeTargets, screen, daemon, bounds
    <3> QED
      BY <3>1, <3>2, <3>3 DEF Answering
  <2>2. CASE ServeToken
    <3>2. Serve(Answer(TRUE, <<>>)) /\ toDaemon # <<>> /\ Head(toDaemon).cmd # "start"
      BY <2>2 DEF ServeToken, Serving
    <3>3. UNCHANGED clone /\ UNCHANGED <<asked, last, deaths>>
      BY <2>2 DEF ServeToken, screen, daemon, bounds
    <3> QED
      BY <3>2, <3>3, Values DEF Answering
  <2>3. CASE RefuseStart
    <3>2. Serve(Answer(FALSE, <<>>)) /\ toDaemon # <<>>
      BY <2>3 DEF RefuseStart, Serving
    <3>3. UNCHANGED clone /\ UNCHANGED <<asked, last, deaths>>
      BY <2>3 DEF RefuseStart, screen, daemon, bounds
    <3> QED
      BY <3>2, <3>3, Values DEF Answering
  <2>4. CASE ServeStart
    <3>2. Serve(Answer(TRUE, <<>>)) /\ toDaemon # <<>> /\ Serving("start")
      BY <2>4 DEF ServeStart, Serving
    <3>3. clone = None /\ clone' = Head(toDaemon).dev /\ UNCHANGED <<asked, last, deaths>>
      BY <2>4 DEF ServeStart, screen
    <3> QED
      BY <3>2, <3>3, Values DEF Answering
  <2> QED
    BY <1>3, <2>1, <2>2, <2>3, <2>4 DEF Daemon
<1>4. CASE Close \/ Cross \/ Move(1) \/ Move(-1) \/ HoldOff \/ Reconnect
  BY <1>4 DEF Close, Cross, Move, HoldOff, Reconnect, wire, daemon, bounds, Quiet
<1>5. CASE \E d \in Devices : Plug(d)
  BY <1>5 DEF Plug, screen, wire, daemon, Quiet
<1>6. CASE UNCHANGED vars
  BY <1>6 DEF vars, screen, wire, daemon, bounds, Quiet
<1> QED
  BY <1>1, <1>2, <1>3, <1>4, <1>5, <1>6 DEF Next, Menu
\* The first answer on its way is to the oldest request.
LEMMA FirstAnswer ==
  ASSUME Typed, NEW f, Pairs(f), toMenu # <<>>, Head(toMenu).kind = "reply"
  PROVE  /\ Replies \in Nat \ {0} /\ f[1] = 1
         /\ asked # <<>> /\ Len(toDaemon) =< Len(asked) - 1
<1>1. toMenu[1].kind = "reply" /\ 1 \in 1 .. Len(toMenu)
  BY Heads DEF Typed
<1>2. PICK k \in 1 .. Replies : f[k] = 1
  BY <1>1 DEF Pairs, Is
<1>3. Len(asked) \in Nat /\ Len(toDaemon) \in Nat /\ Replies \in Nat
  BY DEF Typed, Pairs
<1>4. f[1] \in 1 .. Len(toMenu) /\ Len(toMenu) \in Nat /\ (1 < k => f[1] < f[k])
  BY <1>2, <1>3 DEF Pairs, Is, Typed
<1>5. f[1] = 1
  BY <1>2, <1>3, <1>4
<1>6. Len(asked) >= Len(toDaemon) + 1
  BY <1>2, <1>3 DEF Replies
<1> QED
  BY <1>2, <1>3, <1>5, <1>6

\* What is on the wire.
LEMMA WireTyped ==
  ASSUME Typed, Paired, [Next]_vars
  PROVE  asked' \in Seq(Asks) /\ toDaemon' \in Seq(Asks) /\ toMenu' \in Seq(Messages)
<1>1. asked \in Seq(Asks) /\ toDaemon \in Seq(Asks) /\ toMenu \in Seq(Messages)
  BY DEF Typed
<1>2. CASE Quiet
  BY <1>1, <1>2 DEF Quiet
<1>3. CASE Requesting
  BY <1>1, <1>3, Appended DEF Requesting, Sent
<1>4. CASE HearReply
  <2>1. PICK f : Pairs(f)
    BY DEF Paired
  <2>2. asked # <<>>
    BY <1>4, <2>1, FirstAnswer DEF HearReply
  <2>3. Tail(asked) \in Seq(Asks) /\ Head(asked) \in Asks
    BY <1>1, <2>2, Heads
  <2>4. toMenu' \in Seq(Messages)
    BY <1>1, <1>4, Heads DEF HearReply
  <2> DEFINE r == Ask("start", Head(asked).dev)
  <2>5. Head(asked).cmd = "token" => r \in Asks
    BY <2>3, Values DEF Asks
  <2>6. \/ asked' = Append(Tail(asked), r) /\ toDaemon' = Append(toDaemon, r) /\ r \in Asks
        \/ asked' = Tail(asked) /\ toDaemon' = toDaemon
    BY <1>4, <2>5 DEF HearReply
  <2>7. r \in Asks => Append(Tail(asked), r) \in Seq(Asks) /\ Append(toDaemon, r) \in Seq(Asks)
    BY <1>1, <2>3, Appended
  <2> HIDE DEF r
  <2> QED
    BY <1>1, <2>3, <2>4, <2>6, <2>7
<1>5. CASE HearEvent
  BY <1>1, <1>5, Heads DEF HearEvent
<1>6. CASE Answering
  <2>1. PICK ok \in BOOLEAN, ds \in Lists :
          toDaemon # <<>> /\ Serve(Answer(ok, ds)) /\ asked' = asked
    BY <1>6 DEF Answering
  <2>2. Answer(ok, ds) \in Messages
    BY Values
  <2> QED
    BY <1>1, <2>1, <2>2, Heads, Appended DEF Serve
<1>7. CASE CloneProgress
  BY <1>1, <1>7, Values, Appended DEF CloneProgress, Emit, screen
<1>8. CASE \E ok \in BOOLEAN : CloneEnds(ok)
  BY <1>1, <1>8, Values, Appended DEF CloneEnds, Emit, screen
<1>9. CASE DaemonDies
  BY <1>9 DEF DaemonDies
<1> QED
  BY <1>2, <1>3, <1>4, <1>5, <1>6, <1>7, <1>8, <1>9, WireSteps
\* What hearing an answer does to the screen.
LEMMA HeardReply ==
  ASSUME HearReply
  PROVE  /\ \/ UNCHANGED <<phase, hold, list, index, steady>>
            \/ Listed(Head(toMenu).list) /\ Head(asked).cmd = "targets" /\ UNCHANGED <<phase, hold>>
            \/ phase' = "working" /\ UNCHANGED <<hold, list, index, steady>>
               /\ Head(asked).cmd = "start" /\ Head(toMenu).ok
            \/ phase' = "pick" /\ hold' = 0 /\ UNCHANGED <<list, index, steady>>
         /\ Head(asked).cmd = "start" => phase' \in {"pick", "working"}
BY DEF HearReply, Fail

\* A step that neither the user nor the screen takes.
Offscreen ==
  /\ UNCHANGED <<open, phase, list, index, hold, asked, cross, steady, held, opens, deaths>>
  /\ up' = up \/ up'

LEMMA ScreenSteps ==
  ASSUME [Next]_vars
  PROVE  \/ Open \/ Close \/ Cross \/ (\E delta \in {1, -1} : Move(delta))
         \/ HoldOn \/ HoldOff \/ HearReply \/ HearEvent \/ DaemonDies \/ Offscreen
<1>1. CASE Daemon
  BY <1>1 DEF Daemon, ServeTargets, ServeToken, RefuseStart, ServeStart, screen, user, bounds, Offscreen
<1>2. CASE CloneProgress \/ \E ok \in BOOLEAN : CloneEnds(ok)
  BY <1>2 DEF CloneProgress, CloneEnds, screen, user, bounds, Offscreen
<1>3. CASE \E d \in Devices : Plug(d)
  BY <1>3 DEF Plug, screen, user, Offscreen
<1>4. CASE Reconnect
  BY <1>4 DEF Reconnect, user, bounds, Offscreen
<1>5. CASE UNCHANGED vars
  BY <1>5 DEF vars, screen, user, bounds, Offscreen
<1> QED
  BY <1>1, <1>2, <1>3, <1>4, <1>5 DEF Next, Menu

LEMMA TypedStep == ASSUME Typed, Paired, [Next]_vars PROVE Typed'
<1>1. asked' \in Seq(Asks) /\ toDaemon' \in Seq(Asks) /\ toMenu' \in Seq(Messages)
  BY WireTyped
<1>2. /\ disks \subseteq Devices
      /\ hold \in Nat /\ steady \in 0 .. HoldFrames /\ opens \in Nat /\ deaths \in Nat
      /\ open \in BOOLEAN /\ cross \in BOOLEAN /\ up \in BOOLEAN
  BY DEF Typed
<1>3. disks' \subseteq Devices
  BY <1>2
  DEF Next, vars, Open, Close, Cross, Move, Plug, HoldOn, HoldOff, Menu, HearReply, HearEvent,
      Daemon, ServeTargets, ServeToken, RefuseStart, ServeStart, CloneProgress, CloneEnds,
      DaemonDies, Reconnect
<1> DEFINE Screened == /\ hold \in Nat /\ steady \in 0 .. HoldFrames /\ opens \in Nat /\ deaths \in Nat
                       /\ open \in BOOLEAN /\ cross \in BOOLEAN /\ up \in BOOLEAN
<1>4. Screened'
  <2>1. CASE Open
    BY <1>2, Constants, <2>1 DEF Open
  <2>2. CASE Close \/ HoldOff \/ \E delta \in {1, -1} : Move(delta)
    <3>1. CASE Close \/ HoldOff
      <4>1. /\ hold' \in {hold, 0} /\ UNCHANGED <<steady, opens, deaths>>
            /\ open' \in {open, FALSE} /\ UNCHANGED <<cross, up>>
        BY <3>1 DEF Close, HoldOff, user, bounds
      <4>2. hold' \in Nat /\ steady' \in 0 .. HoldFrames /\ opens' \in Nat /\ deaths' \in Nat
        BY <1>2, Constants, <4>1
      <4>3. open' \in BOOLEAN /\ cross' \in BOOLEAN /\ up' \in BOOLEAN
        BY <1>2, Constants, <4>1
      <4> QED
        BY <4>2, <4>3
    <3>2. CASE \E delta \in {1, -1} : Move(delta)
      <4>1. hold' = 0 /\ steady' \in {steady, 0} /\ UNCHANGED <<opens, deaths, open, cross, up>>
        BY <3>2 DEF Move, bounds
      <4> QED
        BY <1>2, Constants, <4>1
    <3> QED
      BY <2>2, <3>1, <3>2
  <2>3. CASE Cross
    <3>1. cross' \in BOOLEAN
      BY <2>3 DEF Cross
    <3>2. open' \in BOOLEAN
      BY <2>3 DEF Cross
    <3>3. hold' \in Nat /\ steady' \in 0 .. HoldFrames /\ opens' \in Nat /\ deaths' \in Nat /\ up' \in BOOLEAN
      BY <1>2, Constants, <2>3 DEF Cross, bounds
    <3> QED
      BY <3>1, <3>2, <3>3
  <2>4. CASE HoldOn
    BY <1>2, Constants, <2>4 DEF HoldOn, Fail, bounds
  <2>5. CASE HearReply
    <3>1. hold' \in Nat /\ steady' \in 0 .. HoldFrames
      BY <1>2, Constants, <2>5, HeardReply DEF Listed
    <3>2. opens' \in Nat /\ deaths' \in Nat /\ open' \in BOOLEAN /\ cross' \in BOOLEAN /\ up' \in BOOLEAN
      BY <1>2, Constants, <2>5 DEF HearReply, bounds
    <3> QED
      BY <3>1, <3>2
  <2>6. CASE HearEvent
    BY <1>2, Constants, <2>6 DEF HearEvent, Fail, user, bounds
  <2>7. CASE DaemonDies
    <3>1. hold' \in {hold, 0}
      BY <2>7 DEF DaemonDies, Fail
    <3>2. deaths' = deaths + 1 /\ UNCHANGED <<open, steady, cross, opens>> /\ up' = FALSE
      BY <2>7 DEF DaemonDies, user
    <3>3. hold' \in Nat /\ steady' \in 0 .. HoldFrames /\ opens' \in Nat /\ deaths' \in Nat
      BY <1>2, Constants, <3>1, <3>2
    <3>4. open' \in BOOLEAN /\ cross' \in BOOLEAN /\ up' \in BOOLEAN
      BY <1>2, Constants, <3>2
    <3> QED
      BY <3>3, <3>4
  <2>8. CASE Offscreen
    <3>1. up' \in BOOLEAN
      BY <1>2
      DEF Next, vars, screen, Open, Close, Cross, Move, Plug, HoldOn, HoldOff, Menu, HearReply,
          HearEvent, Daemon, ServeTargets, ServeToken, RefuseStart, ServeStart, CloneProgress,
          CloneEnds, DaemonDies, Reconnect
    <3> QED
      BY <1>2, Constants, <2>8, <3>1 DEF Offscreen
  <2> QED
    BY <2>1, <2>2, <2>3, <2>4, <2>5, <2>6, <2>7, <2>8, ScreenSteps
<1> QED
  BY <1>1, <1>3, <1>4 DEF Typed
-------------------------------------------------------------------------------
\* The answers on their way.

LEMMA RequestPairs ==
  ASSUME Typed, NEW f, Pairs(f), Ending(f), Truthful(f), Requesting
  PROVE  Pairs(f)' /\ Ending(f)' /\ Truthful(f)'
<1>1. PICK r \in Asks : Sent(r) /\ UNCHANGED <<toMenu, clone, last, deaths>>
  BY DEF Requesting
<1>2. asked \in Seq(Asks) /\ toDaemon \in Seq(Asks) /\ Len(asked) \in Nat /\ Len(toDaemon) \in Nat
      /\ Replies \in Nat
  BY DEF Typed, Pairs
<1>3. /\ Len(asked') = Len(asked) + 1 /\ Len(toDaemon') = Len(toDaemon) + 1
      /\ \A i \in 1 .. Len(asked) : asked'[i] = asked[i]
      /\ \A i \in 1 .. Len(toDaemon) : toDaemon'[i] = toDaemon[i]
      /\ asked'[Len(asked) + 1] = r /\ toDaemon'[Len(toDaemon) + 1] = r
  BY <1>1, <1>2, Appended DEF Sent
<1>4. Replies' = Replies
  BY <1>2, <1>3 DEF Replies
<1>5. \A i \in 1 .. Len(toDaemon') : toDaemon'[i] = asked'[Replies + i]
  <2> SUFFICES ASSUME NEW i \in 1 .. Len(toDaemon') PROVE toDaemon'[i] = asked'[Replies + i]
    OBVIOUS
  <2>1. CASE i = Len(toDaemon) + 1
    <3>1. Replies + i = Len(asked) + 1
      BY <1>2, <2>1 DEF Replies
    <3> QED
      BY <1>3, <2>1, <3>1
  <2>2. CASE i # Len(toDaemon) + 1
    <3>1. i \in 1 .. Len(toDaemon) /\ Replies + i \in 1 .. Len(asked)
      BY <1>2, <1>3, <2>2 DEF Replies
    <3> QED
      BY <1>3, <3>1 DEF Pairs
  <2> QED
    BY <2>1, <2>2
<1>6. \A k, i : Is(k, i)' <=> Is(k, i)
  BY <1>1 DEF Is
<1>7. Pairs(f)'
  BY <1>2, <1>4, <1>5, <1>6 DEF Pairs
<1>8. \A i : Awaited(i)' <=> Awaited(i)
  BY <1>1, <1>6 DEF Awaited
<1>9. \A k \in 1 .. Replies : asked'[k] = asked[k]
  BY <1>2, <1>3 DEF Replies
<1>10. Ending(f)'
  BY <1>1, <1>4, <1>6, <1>8, <1>9 DEF Ending
<1>11. Truthful(f)'
  <2>1. ASSUME NEW i, StartBehind(f, i) PROVE StartBehind(f, i)'
    <3>1. PICK k \in 1 .. Len(asked) : asked[k].cmd = "start" /\ (k \in 1 .. Replies => i < f[k])
      BY <2>1 DEF StartBehind
    <3>2. k \in 1 .. Len(asked') /\ asked'[k] = asked[k]
      BY <1>2, <1>3
    <3> QED
      BY <1>4, <3>1, <3>2 DEF StartBehind
  <2>2. ASSUME NEW i, Is("done", i)', toMenu'[i].ok
        PROVE  (clone' = None /\ last' = "ok") \/ StartBehind(f, i)'
    <3>1. Is("done", i) /\ toMenu[i].ok
      BY <1>1, <1>6, <2>2
    <3> QED
      BY <1>1, <2>1, <3>1 DEF Truthful
  <2> QED
    BY <2>2 DEF Truthful
<1> QED
  BY <1>7, <1>10, <1>11

\* What an event, or an answer, at the end of those on their way changes.
LEMMA Emitted ==
  ASSUME Typed, NEW e \in Messages, toMenu' = Append(toMenu, e)
  PROVE  /\ Len(toMenu) \in Nat
         /\ \A k, i : Is(k, i)' <=> Is(k, i) \/ (i = Len(toMenu) + 1 /\ e.kind = k)
         /\ \A k, i : Is(k, i) => i \in 1 .. Len(toMenu) /\ toMenu'[i] = toMenu[i]
         /\ toMenu'[Len(toMenu) + 1] = e
<1>1. /\ Len(toMenu) \in Nat /\ Len(toMenu') = Len(toMenu) + 1
      /\ \A i \in 1 .. Len(toMenu) : toMenu'[i] = toMenu[i]
      /\ toMenu'[Len(toMenu) + 1] = e
  BY Appended DEF Typed
<1> QED
  BY <1>1 DEF Is

\* The messages after the first.
LEMMA Heard ==
  ASSUME Typed, toMenu # <<>>, toMenu' = Tail(toMenu)
  PROVE  /\ \A k, i : Is(k, i)' <=> i \in Nat \ {0} /\ Is(k, i + 1)
         /\ \A i \in Nat \ {0} : i + 1 \in 1 .. Len(toMenu) => toMenu'[i] = toMenu[i + 1]
         /\ Is(Head(toMenu).kind, 1) /\ toMenu[1] = Head(toMenu)
         /\ Len(toMenu) \in Nat \ {0}
<1>1. /\ Head(toMenu) = toMenu[1] /\ Len(toMenu) \in Nat \ {0} /\ Len(toMenu') = Len(toMenu) - 1
      /\ \A i \in 1 .. Len(toMenu) - 1 : toMenu'[i] = toMenu[i + 1]
  BY Heads DEF Typed
<1> QED
  BY <1>1 DEF Is
LEMMA AnswerPairs ==
  ASSUME Typed, NEW f, Pairs(f), Ending(f), Truthful(f), Answering
  PROVE  Paired'
<1>1. PICK ok \in BOOLEAN, ds \in Lists :
        /\ toDaemon # <<>> /\ Serve(Answer(ok, ds))
        /\ \/ UNCHANGED clone /\ (Head(toDaemon).cmd = "start" => ~ ok)
           \/ Serving("start") /\ clone = None /\ clone' = Head(toDaemon).dev
        /\ UNCHANGED <<asked, last, deaths>>
  BY DEF Answering
<1> DEFINE e == Answer(ok, ds)
<1>2. e \in Messages /\ e.kind = "reply" /\ e.ok = ok
  BY Values
<1> HIDE DEF e
<1>3. toMenu' = Append(toMenu, e) /\ toDaemon' = Tail(toDaemon) /\ asked' = asked
  BY <1>1 DEF Serve, e
<1>0. PICK m, n : m = Len(toMenu) + 1 /\ n = Replies + 1
  OBVIOUS
<1>4. /\ Len(toMenu) \in Nat
      /\ \A k, i : Is(k, i)' <=> Is(k, i) \/ (i = m /\ e.kind = k)
      /\ \A k, i : Is(k, i) => i \in 1 .. Len(toMenu) /\ toMenu'[i] = toMenu[i]
      /\ toMenu'[m] = e
  BY <1>2, <1>3, <1>0, Emitted
<1>5. /\ Head(toDaemon) = toDaemon[1] /\ Head(toDaemon) \in Asks
      /\ Len(toDaemon) \in Nat \ {0} /\ Len(toDaemon') = Len(toDaemon) - 1
      /\ \A i \in 1 .. Len(toDaemon') : toDaemon'[i] = toDaemon[i + 1]
      /\ Len(asked) \in Nat /\ Replies \in Nat
  BY <1>1, <1>3, Heads DEF Typed, Pairs
<1>6. Replies' = n /\ n \in Nat \ {0}
  <2>1. Replies' = Len(asked) - (Len(toDaemon) - 1)
    BY <1>3, <1>5 DEF Replies
  <2>2. Len(asked) \in Nat /\ Len(toDaemon) \in Nat /\ Replies \in Nat /\ Replies = Len(asked) - Len(toDaemon)
    BY <1>5 DEF Replies
  <2> QED
    BY <1>0, <2>1, <2>2
<1>7. asked[n] = Head(toDaemon)
  BY <1>5, <1>0 DEF Pairs
<1>8. PICK g : g[n] = m /\ \A k \in 1 .. Replies : g[k] = f[k] /\ k \in 1 .. n /\ k < n
  <2> DEFINE h == [k \in 1 .. n |-> IF k = n THEN m ELSE f[k]]
  <2>1. h[n] = m /\ \A k \in 1 .. Replies : h[k] = f[k] /\ k \in 1 .. n /\ k < n
    BY <1>5, <1>6, <1>0
  <2> QED
    BY <2>1
<1>9. \A k \in 1 .. n : k = n \/ k \in 1 .. Replies
  BY <1>5, <1>0
<1>10. \A i : Awaited(i) => Awaited(i)'
  <2>1. clone # None => clone' # None
    BY <1>1
  <2>2. \A j : Is("done", j) => Is("done", j)'
    BY <1>4
  <2> QED
    BY <1>1, <2>1, <2>2 DEF Awaited
<1>11. Pairs(g)'
  <2>1. \A i \in 1 .. Len(toDaemon') : toDaemon'[i] = asked'[n + i]
    <3> SUFFICES ASSUME NEW i \in 1 .. Len(toDaemon') PROVE toDaemon'[i] = asked'[n + i]
      OBVIOUS
    <3>1. i + 1 \in 1 .. Len(toDaemon) /\ Replies + (i + 1) = n + i
      BY <1>5, <1>0
    <3> QED
      BY <1>3, <1>5, <3>1 DEF Pairs
  <2>2. \A k \in 1 .. n : Is("reply", g[k])'
    BY <1>2, <1>4, <1>8, <1>9 DEF Pairs
  <2>3. \A k, l \in 1 .. n : k < l => g[k] < g[l]
    <3> SUFFICES ASSUME NEW k \in 1 .. n, NEW l \in 1 .. n, k < l PROVE g[k] < g[l]
      OBVIOUS
    <3>1. k \in 1 .. Replies /\ f[k] \in 1 .. Len(toMenu)
      <4>1. k # n
        BY <1>6
      <4>2. k \in 1 .. Replies
        BY <1>9, <4>1
      <4>3. Is("reply", f[k])
        BY <4>2 DEF Pairs
      <4> QED
        BY <4>2, <4>3 DEF Is
    <3>2. CASE l = n
      BY <1>4, <1>8, <1>0, <3>1, <3>2
    <3>3. CASE l \in 1 .. Replies
      BY <1>8, <3>1, <3>3 DEF Pairs
    <3> QED
      BY <1>9, <3>2, <3>3
  <2>4. \A i : Is("reply", i)' => \E k \in 1 .. n : i = g[k]
    <3> SUFFICES ASSUME NEW i, Is("reply", i)' PROVE \E k \in 1 .. n : i = g[k]
      OBVIOUS
    <3>1. CASE i = m
      <4>1. n \in 1 .. n
        BY <1>6
      <4> QED
        BY <1>8, <3>1, <4>1
    <3>2. CASE Is("reply", i)
      <4>1. PICK k \in 1 .. Replies : i = f[k]
        BY <3>2 DEF Pairs
      <4> QED
        BY <1>8, <4>1
    <3> QED
      BY <1>4, <3>1, <3>2
  <2> QED
    BY <1>6, <2>1, <2>2, <2>3, <2>4 DEF Pairs
<1>12. Ending(g)'
  <2>1. ASSUME NEW k \in 1 .. n, asked[k].cmd = "start", toMenu'[g[k]].ok
        PROVE  Awaited(g[k])'
    <3>1. CASE k = n
      <4>1. ok /\ Head(toDaemon).cmd = "start"
        BY <1>2, <1>4, <1>7, <1>8, <2>1, <3>1
      <4>2. clone' = Head(toDaemon).dev /\ Head(toDaemon).dev \in Devices
        BY <1>1, <1>5, <4>1 DEF Asks
      <4>3. clone' # None
        BY <4>2, FlowAssumption
      <4> QED
        BY <4>3 DEF Awaited
    <3>2. CASE k \in 1 .. Replies
      <4>1. g[k] = f[k] /\ toMenu'[f[k]] = toMenu[f[k]]
        BY <1>4, <1>8, <3>2 DEF Pairs
      <4> QED
        BY <1>10, <2>1, <3>2, <4>1 DEF Ending
    <3> QED
      BY <1>9, <3>1, <3>2
  <2>2. \A i : Is("progress", i)' => Awaited(i)'
    BY <1>2, <1>4, <1>10 DEF Ending
  <2> QED
    BY <1>3, <1>6, <2>1, <2>2 DEF Ending
<1>13. Truthful(g)'
  <2> SUFFICES ASSUME NEW i, Is("done", i)', toMenu'[i].ok
               PROVE  (clone' = None /\ last' = "ok") \/ StartBehind(g, i)'
    BY DEF Truthful
  <2>1. Is("done", i) /\ toMenu[i].ok /\ i \in 1 .. Len(toMenu) /\ i < m
    <3>1. Is("done", i)
      BY <1>2, <1>4
    <3> QED
      BY <1>0, <1>4, <3>1
  <2>2. CASE StartBehind(f, i)
    <3>1. PICK k \in 1 .. Len(asked) : asked[k].cmd = "start" /\ (k \in 1 .. Replies => i < f[k])
      BY <2>2 DEF StartBehind
    <3>2. k \in 1 .. n => i < g[k]
      BY <1>8, <1>9, <2>1, <3>1
    <3> QED
      BY <1>3, <1>6, <3>1, <3>2 DEF StartBehind
  <2>3. CASE Serving("start")
    <3>1. asked[n].cmd = "start" /\ n \in 1 .. Len(asked) /\ i < g[n]
      BY <1>0, <1>5, <1>6, <1>7, <1>8, <2>1, <2>3 DEF Serving, Replies
    <3> QED
      BY <1>3, <1>6, <3>1 DEF StartBehind
  <2>4. CASE clone = None /\ last = "ok" /\ ~ Serving("start")
    BY <1>1, <2>4
  <2> QED
    BY <2>1, <2>2, <2>3, <2>4 DEF Truthful
<1> QED
  BY <1>11, <1>12, <1>13 DEF Paired

LEMMA EventPairs ==
  ASSUME Typed, deaths = 0 => up, NEW f, Pairs(f), Ending(f), Truthful(f),
         CloneProgress \/ \E ok \in BOOLEAN : CloneEnds(ok)
  PROVE  Paired'
<1>1. UNCHANGED <<asked, toDaemon, deaths>> /\ clone # None
  BY DEF CloneProgress, CloneEnds, screen, bounds
<1>2. PICK e \in Messages :
        /\ e.kind \in {"progress", "done"}
        /\ toMenu' = IF up THEN Append(toMenu, e) ELSE toMenu
        /\ e.kind = "progress" => clone' = clone
        /\ e.kind = "done" /\ e.ok => clone' = None /\ last' = "ok"
  BY Values DEF CloneProgress, CloneEnds, Emit, daemon
<1>5. \A i : StartBehind(f, i) => StartBehind(f, i)'
  BY <1>1 DEF StartBehind, Replies
<1>6. \A i : Is("done", i) /\ toMenu[i].ok => StartBehind(f, i)
  BY <1>1 DEF Truthful
<1>3. CASE ~ up
  <2>1. toMenu' = toMenu /\ deaths # 0
    BY <1>2, <1>3
  <2>2. Pairs(f)' /\ Ending(f)'
    BY <1>1, <2>1 DEF Pairs, Ending, Replies, Is, Awaited
  <2>3. Truthful(f)'
    BY <1>5, <1>6, <2>1 DEF Truthful, Is
  <2> QED
    BY <2>2, <2>3 DEF Paired
<1>4. CASE up
  <2> PICK m : m = Len(toMenu) + 1
    OBVIOUS
  <2>1. /\ Len(toMenu) \in Nat
        /\ \A k, i : Is(k, i)' <=> Is(k, i) \/ (i = m /\ e.kind = k)
        /\ \A k, i : Is(k, i) => i \in 1 .. Len(toMenu) /\ toMenu'[i] = toMenu[i]
        /\ toMenu'[m] = e
    BY <1>2, <1>4, Emitted
  <2>2. Replies' = Replies
    BY <1>1 DEF Replies
  <2>3. Pairs(f)'
    BY <1>1, <1>2, <2>1, <2>2 DEF Pairs
  <2>4. \A i : i \in 1 .. Len(toMenu) \/ e.kind = "progress" => Awaited(i)'
    <3>1. CASE e.kind = "progress"
      BY <1>1, <1>2, <3>1 DEF Awaited
    <3>2. CASE e.kind = "done"
      <4>1. Is("done", m)' /\ \A i \in 1 .. Len(toMenu) : i < m
        BY <2>1, <3>2
      <4> QED
        BY <3>2, <4>1 DEF Awaited
    <3> QED
      BY <1>2, <3>1, <3>2
  <2>5. \A k \in 1 .. Replies : f[k] \in 1 .. Len(toMenu)
    BY <2>1 DEF Pairs
  <2>6. \A i : Is("progress", i)' => i \in 1 .. Len(toMenu) \/ e.kind = "progress"
    BY <2>1
  <2>7. Ending(f)'
    BY <1>1, <2>2, <2>4, <2>5, <2>6 DEF Ending
  <2>8. Truthful(f)'
    <3> SUFFICES ASSUME NEW i, Is("done", i)', toMenu'[i].ok
                 PROVE  (clone' = None /\ last' = "ok") \/ StartBehind(f, i)'
      BY DEF Truthful
    <3>1. CASE Is("done", i)
      BY <1>5, <1>6, <2>1, <3>1
    <3>2. CASE i = m /\ e.kind = "done"
      BY <1>2, <2>1, <3>2
    <3> QED
      BY <2>1, <3>1, <3>2
  <2> QED
    BY <2>3, <2>7, <2>8 DEF Paired
<1> QED
  BY <1>3, <1>4
\* The menu takes the first message.
LEMMA HeardAwaited ==
  ASSUME Typed, HearReply \/ HearEvent, NEW i \in Nat \ {0}, Awaited(i + 1)
  PROVE  Awaited(i)'
<1>1. toMenu # <<>> /\ toMenu' = Tail(toMenu) /\ UNCHANGED <<clone, deaths>>
  BY DEF HearReply, HearEvent, daemon, bounds
<1>2. \A k, j : Is(k, j)' <=> j \in Nat \ {0} /\ Is(k, j + 1)
  BY <1>1, Heard
<1>3. ASSUME NEW j, Is("done", j), i + 1 < j
      PROVE  Is("done", j - 1)' /\ i < j - 1
  <2>1. j \in Nat /\ j - 1 \in Nat \ {0} /\ (j - 1) + 1 = j
    BY <1>3 DEF Is, Typed
  <2> QED
    BY <1>2, <1>3, <2>1
<1> QED
  BY <1>1, <1>3 DEF Awaited

LEMMA HeardEventPairs ==
  ASSUME Typed, NEW f, Pairs(f), Ending(f), Truthful(f), HearEvent
  PROVE  Paired'
<1>1. /\ toMenu # <<>> /\ toMenu' = Tail(toMenu) /\ Head(toMenu).kind # "reply"
      /\ UNCHANGED <<asked, toDaemon, clone, last>>
  BY DEF HearEvent, daemon
<1>2. /\ \A k, i : Is(k, i)' <=> i \in Nat \ {0} /\ Is(k, i + 1)
      /\ \A i \in Nat \ {0} : i + 1 \in 1 .. Len(toMenu) => toMenu'[i] = toMenu[i + 1]
      /\ ~ Is("reply", 1) /\ Len(toMenu) \in Nat
  BY <1>1, Heard DEF Is
<1>3. Replies' = Replies /\ Replies \in Nat
  BY <1>1 DEF Replies, Pairs
<1>4. PICK g : \A k \in 1 .. Replies : g[k] = f[k] - 1
  <2> DEFINE h == [k \in 1 .. Replies |-> f[k] - 1]
  <2>1. \A k \in 1 .. Replies : h[k] = f[k] - 1
    OBVIOUS
  <2> QED
    BY <2>1
<1>5. \A k \in 1 .. Replies :
        Is("reply", f[k]) /\ f[k] \in 2 .. Len(toMenu) /\ g[k] \in Nat \ {0} /\ g[k] + 1 = f[k]
  <2> SUFFICES ASSUME NEW k \in 1 .. Replies
               PROVE  Is("reply", f[k]) /\ f[k] \in 2 .. Len(toMenu) /\ g[k] \in Nat \ {0} /\ g[k] + 1 = f[k]
    OBVIOUS
  <2>1. Is("reply", f[k]) /\ f[k] \in 1 .. Len(toMenu) /\ f[k] # 1
    BY <1>2 DEF Pairs, Is
  <2> QED
    BY <1>2, <1>4, <2>1
<1>6. \A i \in Nat \ {0} : Awaited(i + 1) => Awaited(i)'
  BY HeardAwaited
<1>7. Pairs(g)'
  <2>1. \A k \in 1 .. Replies : Is("reply", g[k])'
    BY <1>2, <1>5
  <2>2. \A k, l \in 1 .. Replies : k < l => g[k] < g[l]
    BY <1>2, <1>5, SMTT(20) DEF Pairs
  <2>3. ASSUME NEW i, Is("reply", i)' PROVE \E k \in 1 .. Replies : i = g[k]
    <3>1. i \in Nat \ {0} /\ Is("reply", i + 1)
      BY <1>2, <2>3
    <3>2. PICK k \in 1 .. Replies : i + 1 = f[k]
      BY <3>1 DEF Pairs
    <3>3. i = g[k]
      BY <1>5, <3>1, <3>2
    <3> QED
      BY <3>3
  <2> QED
    BY <1>1, <1>3, <2>1, <2>2, <2>3 DEF Pairs
<1>8. Ending(g)'
  <2>1. ASSUME NEW k \in 1 .. Replies, asked[k].cmd = "start", toMenu'[g[k]].ok
        PROVE  Awaited(g[k])'
    <3>1. toMenu'[g[k]] = toMenu[f[k]]
      BY <1>2, <1>5
    <3>2. Awaited(g[k] + 1) /\ g[k] \in Nat \ {0}
      BY <1>5, <2>1, <3>1 DEF Ending
    <3> QED
      BY <1>6, <3>2
  <2>2. ASSUME NEW i, Is("progress", i)' PROVE Awaited(i)'
    <3>1. i \in Nat \ {0} /\ Is("progress", i + 1)
      BY <1>2, <2>2
    <3> QED
      BY <1>6, <3>1 DEF Ending
  <2> QED
    BY <1>1, <1>3, <2>1, <2>2 DEF Ending
<1>9. Truthful(g)'
  <2> SUFFICES ASSUME NEW i, Is("done", i)', toMenu'[i].ok
               PROVE  (clone' = None /\ last' = "ok") \/ StartBehind(g, i)'
    BY DEF Truthful
  <2>1. i \in Nat \ {0} /\ Is("done", i + 1) /\ toMenu[i + 1].ok
    BY <1>2 DEF Is
  <2>2. CASE StartBehind(f, i + 1)
    <3>1. PICK k \in 1 .. Len(asked) : asked[k].cmd = "start" /\ (k \in 1 .. Replies => i + 1 < f[k])
      BY <2>2 DEF StartBehind
    <3>2. k \in 1 .. Replies => i < g[k]
      BY <1>5, <2>1, <3>1
    <3> QED
      BY <1>1, <1>3, <3>1, <3>2 DEF StartBehind
  <2> QED
    BY <1>1, <2>1, <2>2 DEF Truthful
<1> QED
  BY <1>7, <1>8, <1>9 DEF Paired
LEMMA HeardReplyPairs ==
  ASSUME Typed, NEW f, Pairs(f), Ending(f), Truthful(f), HearReply
  PROVE  Paired'
<1>1. toMenu # <<>> /\ toMenu' = Tail(toMenu) /\ Head(toMenu).kind = "reply"
  BY DEF HearReply
<1>2. /\ Replies \in Nat \ {0} /\ f[1] = 1 /\ asked # <<>>
  BY <1>1, FirstAnswer
<1>3. /\ \A k, i : Is(k, i)' <=> i \in Nat \ {0} /\ Is(k, i + 1)
      /\ \A i \in Nat \ {0} : i + 1 \in 1 .. Len(toMenu) => toMenu'[i] = toMenu[i + 1]
      /\ Len(toMenu) \in Nat
  BY <1>1, Heard
<1>4. /\ Tail(asked) \in Seq(Asks) /\ Len(asked) \in Nat \ {0} /\ Len(Tail(asked)) = Len(asked) - 1
      /\ \A i \in 1 .. Len(asked) - 1 : Tail(asked)[i] = asked[i + 1]
      /\ Head(asked) \in Asks
      /\ toDaemon \in Seq(Asks) /\ Len(toDaemon) \in Nat
  BY <1>2, Heads DEF Typed
<1> DEFINE r == Ask("start", Head(asked).dev)
<1>5. \/ asked' = Tail(asked) /\ toDaemon' = toDaemon
      \/ asked' = Append(Tail(asked), r) /\ toDaemon' = Append(toDaemon, r) /\ r \in Asks
  <2>1. Head(asked).cmd = "token" => r \in Asks
    BY <1>4, Values DEF Asks
  <2> QED
    BY <2>1 DEF HearReply
<1> HIDE DEF r
<1>6. PICK n : n = Replies - 1
  OBVIOUS
<1>7. n \in Nat /\ Replies = n + 1 /\ n = Len(asked) - 1 - Len(toDaemon)
  BY <1>2, <1>4, <1>6 DEF Replies
<1>8. /\ Replies' = n
      /\ \A k \in 1 .. n : asked'[k] = asked[k + 1]
      /\ \A i \in 1 .. Len(toDaemon') : toDaemon'[i] = asked'[n + i]
  <2>1. \A i \in 1 .. Len(toDaemon) : toDaemon[i] = Tail(asked)[n + i]
    <3> SUFFICES ASSUME NEW i \in 1 .. Len(toDaemon) PROVE toDaemon[i] = Tail(asked)[n + i]
      OBVIOUS
    <3>1. n + i \in 1 .. Len(asked) - 1 /\ (n + i) + 1 = Replies + i
      BY <1>4, <1>7
    <3> QED
      BY <1>4, <3>1 DEF Pairs
  <2>2. \A k \in 1 .. n : k \in 1 .. Len(asked) - 1
    BY <1>4, <1>7
  <2>3. CASE asked' = Tail(asked) /\ toDaemon' = toDaemon
    BY <1>4, <1>7, <2>1, <2>2, <2>3 DEF Replies
  <2>4. CASE asked' = Append(Tail(asked), r) /\ toDaemon' = Append(toDaemon, r) /\ r \in Asks
    <3>1. /\ Len(asked') = Len(asked) /\ Len(toDaemon') = Len(toDaemon) + 1
          /\ \A i \in 1 .. Len(asked) - 1 : asked'[i] = Tail(asked)[i]
          /\ \A i \in 1 .. Len(toDaemon) : toDaemon'[i] = toDaemon[i]
          /\ asked'[Len(asked)] = r /\ toDaemon'[Len(toDaemon) + 1] = r
      BY <1>4, <2>4, Appended
    <3>2. Replies' = n
      BY <1>4, <1>7, <3>1 DEF Replies
    <3>3. ASSUME NEW i \in 1 .. Len(toDaemon') PROVE toDaemon'[i] = asked'[n + i]
      <4>1. CASE i = Len(toDaemon) + 1
        <5>1. n + i = Len(asked)
          BY <1>4, <1>7, <4>1
        <5> QED
          BY <3>1, <4>1, <5>1
      <4>2. CASE i # Len(toDaemon) + 1
        <5>1. i \in 1 .. Len(toDaemon) /\ n + i \in 1 .. Len(asked) - 1
          BY <1>4, <1>7, <3>1, <4>2
        <5> QED
          BY <2>1, <3>1, <5>1
      <4> QED
        BY <4>1, <4>2
    <3> QED
      BY <1>4, <2>2, <3>1, <3>2, <3>3
  <2> QED
    BY <1>5, <2>3, <2>4
<1>9. PICK g : \A k \in 1 .. n : g[k] = f[k + 1] - 1
  <2> DEFINE h == [k \in 1 .. n |-> f[k + 1] - 1]
  <2>1. \A k \in 1 .. n : h[k] = f[k + 1] - 1
    OBVIOUS
  <2> QED
    BY <2>1
<1>10. \A k \in 1 .. n :
         /\ k + 1 \in 1 .. Replies /\ Is("reply", f[k + 1]) /\ f[k + 1] \in 2 .. Len(toMenu)
         /\ g[k] \in Nat \ {0} /\ g[k] + 1 = f[k + 1]
  <2> SUFFICES ASSUME NEW k \in 1 .. n
               PROVE  /\ k + 1 \in 1 .. Replies /\ Is("reply", f[k + 1]) /\ f[k + 1] \in 2 .. Len(toMenu)
                      /\ g[k] \in Nat \ {0} /\ g[k] + 1 = f[k + 1]
    OBVIOUS
  <2>1. k + 1 \in 1 .. Replies /\ 1 \in 1 .. Replies /\ 1 < k + 1
    BY <1>7
  <2>2. Is("reply", f[k + 1]) /\ f[k + 1] \in 1 .. Len(toMenu) /\ f[1] < f[k + 1]
    BY <2>1 DEF Pairs, Is
  <2> QED
    BY <1>2, <1>3, <1>9, <2>1, <2>2
<1>11. \A i \in Nat \ {0} : Awaited(i + 1) => Awaited(i)'
  BY HeardAwaited
<1>12. Pairs(g)'
  <2>1. \A k \in 1 .. n : Is("reply", g[k])'
    BY <1>3, <1>10
  <2>2. ASSUME NEW k \in 1 .. n, NEW l \in 1 .. n, k < l PROVE g[k] < g[l]
    <3>1. f[k + 1] < f[l + 1]
      <4>1. k + 1 \in 1 .. Replies /\ l + 1 \in 1 .. Replies /\ k + 1 < l + 1
        BY <1>7, <1>10, <2>2
      <4> QED
        BY <4>1 DEF Pairs
    <3>2. /\ g[k] \in Nat /\ g[k] + 1 = f[k + 1]
          /\ g[l] \in Nat /\ g[l] + 1 = f[l + 1]
      BY <1>10
    <3> QED
      BY <3>1, <3>2
  <2>3. ASSUME NEW i, Is("reply", i)' PROVE \E k \in 1 .. n : i = g[k]
    <3>1. i \in Nat \ {0} /\ Is("reply", i + 1)
      BY <1>3, <2>3
    <3>2. PICK k \in 1 .. Replies : i + 1 = f[k]
      BY <3>1 DEF Pairs
    <3>3. k # 1
      BY <1>2, <3>1, <3>2
    <3>4. k - 1 \in 1 .. n /\ (k - 1) + 1 = k
      BY <1>7, <3>3
    <3>5. i = g[k - 1]
      BY <1>10, <3>1, <3>2, <3>4
    <3> QED
      BY <3>4, <3>5
  <2> QED
    BY <1>7, <1>8, <2>1, <2>2, <2>3 DEF Pairs
<1>13. Ending(g)'
  <2>1. ASSUME NEW k \in 1 .. n, asked'[k].cmd = "start", toMenu'[g[k]].ok
        PROVE  Awaited(g[k])'
    <3>1. toMenu'[g[k]] = toMenu[f[k + 1]] /\ asked'[k] = asked[k + 1]
      BY <1>3, <1>8, <1>10
    <3>2. Awaited(g[k] + 1) /\ g[k] \in Nat \ {0}
      BY <1>10, <2>1, <3>1 DEF Ending
    <3> QED
      BY <1>11, <3>2
  <2>2. ASSUME NEW i, Is("progress", i)' PROVE Awaited(i)'
    <3>1. i \in Nat \ {0} /\ Is("progress", i + 1)
      BY <1>3, <2>2
    <3> QED
      BY <1>11, <3>1 DEF Ending
  <2> QED
    BY <1>8, <2>1, <2>2 DEF Ending
<1>14. Truthful(g)'
  <2> SUFFICES ASSUME NEW i, Is("done", i)', toMenu'[i].ok
               PROVE  (clone' = None /\ last' = "ok") \/ StartBehind(g, i)'
    BY DEF Truthful
  <2>1. i \in Nat \ {0} /\ Is("done", i + 1) /\ toMenu[i + 1].ok
    BY <1>3 DEF Is
  <2>2. UNCHANGED <<clone, last>>
    BY DEF HearReply, daemon
  <2>3. CASE StartBehind(f, i + 1)
    <3>1. PICK k \in 1 .. Len(asked) : asked[k].cmd = "start" /\ (k \in 1 .. Replies => i + 1 < f[k])
      BY <2>3 DEF StartBehind
    <3>2. k # 1
      BY <1>2, <2>1, <3>1
    <3>3. PICK l \in Nat : l = k - 1 /\ l \in 1 .. Len(asked) - 1
      BY <1>4, <3>2
    <3>4. l \in 1 .. Len(asked') /\ asked'[l] = asked[k]
      <4>1. CASE asked' = Tail(asked)
        BY <1>4, <3>3, <4>1
      <4>2. CASE asked' = Append(Tail(asked), r) /\ r \in Asks
        BY <1>4, <3>3, <4>2, Appended
      <4> QED
        BY <1>5, <4>1, <4>2
    <3>5. l \in 1 .. n => i < g[l]
      BY <1>7, <1>10, <2>1, <3>1, <3>3
    <3> QED
      BY <1>8, <3>1, <3>4, <3>5 DEF StartBehind
  <2> QED
    BY <2>1, <2>2, <2>3 DEF Truthful
<1> QED
  BY <1>12, <1>13, <1>14 DEF Paired

LEMMA PairedStep == ASSUME Typed, Paired, Waiting, [Next]_vars PROVE Paired'
<1>1. PICK f : Pairs(f) /\ Ending(f) /\ Truthful(f)
  BY DEF Paired
<1>2. CASE Quiet
  <2>1. Pairs(f)' /\ Ending(f)'
    BY <1>1, <1>2 DEF Quiet, Pairs, Ending, Replies, Is, Awaited
  <2>2. Truthful(f)'
    BY <1>1, <1>2 DEF Quiet, Truthful, StartBehind, Replies, Is
  <2> QED
    BY <2>1, <2>2 DEF Paired
<1>3. CASE Requesting
  BY <1>1, <1>3, RequestPairs DEF Paired
<1>4. CASE HearReply
  BY <1>1, <1>4, HeardReplyPairs
<1>5. CASE HearEvent
  BY <1>1, <1>5, HeardEventPairs
<1>6. CASE Answering
  BY <1>1, <1>6, AnswerPairs
<1>7. CASE CloneProgress \/ \E ok \in BOOLEAN : CloneEnds(ok)
  BY <1>1, <1>7, EventPairs DEF Waiting
<1>8. CASE DaemonDies
  <2>1. asked' = <<>> /\ toDaemon' = <<>> /\ toMenu' = <<>>
    BY <1>8 DEF DaemonDies
  <2>2. Pairs(f)' /\ Ending(f)' /\ Truthful(f)'
    BY <2>1 DEF Pairs, Ending, Truthful, Replies, Is, Awaited
  <2> QED
    BY <2>2 DEF Paired
<1> QED
  BY <1>2, <1>3, <1>4, <1>5, <1>6, <1>7, <1>8, WireSteps
-------------------------------------------------------------------------------
\* The end of an install.

\* What is served next has not been answered.
LEMMA BeingServed ==
  ASSUME Typed, NEW f, Pairs(f), Serving("start")
  PROVE  Starting
<1>1. toDaemon # <<>>
  BY DEF Serving
<1>2. /\ Head(toDaemon) = toDaemon[1] /\ Len(toDaemon) \in Nat \ {0} /\ Len(asked) \in Nat
      /\ Replies \in Nat /\ Replies = Len(asked) - Len(toDaemon) /\ DOMAIN asked = 1 .. Len(asked)
  BY <1>1, Heads DEF Typed, Pairs, Replies
<1>3. toDaemon[1] = asked[Replies + 1] /\ Replies + 1 \in 1 .. Len(asked)
  BY <1>2 DEF Pairs
<1> QED
  BY <1>2, <1>3 DEF Serving, Starting

LEMMA DoneStep ==
  ASSUME Typed, Paired, DoneIsTrue, [Next]_vars
  PROVE  DoneIsTrue'
<1> SUFFICES ASSUME open', phase' = "done", ~ Starting'
             PROVE  clone' = None /\ last' = "ok"
  BY DEF DoneIsTrue
<1>1. PICK f : Pairs(f) /\ Truthful(f)
  BY DEF Paired
<1>2. CASE Open \/ Close
  BY <1>2 DEF Open, Close
<1>3. CASE Cross \/ HoldOff \/ \E delta \in {1, -1} : Move(delta)
  <2>1. open /\ phase = "done" /\ UNCHANGED <<asked, clone, last>>
    BY <1>3 DEF Cross, HoldOff, Move, daemon
  <2> QED
    BY <2>1 DEF DoneIsTrue, Starting
<1>4. CASE HoldOn
  BY <1>4 DEF HoldOn, Polling, Fail
<1>5. CASE HearReply
  <2>1. open /\ UNCHANGED <<clone, last>> /\ toMenu # <<>> /\ Head(toMenu).kind = "reply"
    BY <1>5 DEF HearReply, daemon
  <2>2. phase = "done" /\ Head(asked).cmd # "start"
    BY <1>5, HeardReply
  <2>3. asked # <<>>
    BY <1>1, <2>1, FirstAnswer
  <2>4. /\ Head(asked) = asked[1] /\ Len(asked) \in Nat \ {0} /\ DOMAIN asked = 1 .. Len(asked)
        /\ Tail(asked) \in Seq(Asks) /\ Len(Tail(asked)) = Len(asked) - 1
        /\ \A i \in 1 .. Len(asked) - 1 : Tail(asked)[i] = asked[i + 1]
    BY <2>3, Heads DEF Typed
  <2>5. \A i \in 1 .. Len(asked) - 1 : i \in DOMAIN asked' /\ asked'[i] = asked[i + 1]
    <3>1. Typed'
      BY TypedStep
    <3>2. CASE asked' = Tail(asked)
      BY <2>4, <3>2
    <3>3. CASE asked' = Append(Tail(asked), Ask("start", Head(asked).dev))
      BY <2>4, <3>3
    <3> QED
      BY <1>5, <3>2, <3>3 DEF HearReply
  <2>6. ~ Starting
    <3> SUFFICES ASSUME NEW i \in 1 .. Len(asked), asked[i].cmd = "start" PROVE FALSE
      BY <2>4 DEF Starting
    <3>1. i # 1
      BY <2>2, <2>4
    <3>2. i - 1 \in 1 .. Len(asked) - 1 /\ (i - 1) + 1 = i
      BY <2>4, <3>1
    <3>3. i - 1 \in DOMAIN asked' /\ asked'[i - 1].cmd = "start"
      BY <2>5, <3>2
    <3> QED
      BY <3>3 DEF Starting
  <2> QED
    BY <2>1, <2>2, <2>6 DEF DoneIsTrue
<1>6. CASE HearEvent
  <2>1. /\ toMenu # <<>> /\ toMenu' = Tail(toMenu) /\ UNCHANGED <<clone, last>>
        /\ Head(toMenu).kind # "reply" /\ Head(toMenu).kind # "progress" /\ Head(toMenu).ok
    BY <1>6 DEF HearEvent, Fail, daemon
  <2>2. Is(Head(toMenu).kind, 1) /\ toMenu[1] = Head(toMenu) /\ Head(toMenu) \in Messages
    BY <2>1, Heard, Heads DEF Typed
  <2>3. Head(toMenu).kind = "done"
    BY <2>1, <2>2 DEF Messages
  <2>4. (clone = None /\ last = "ok") \/ StartBehind(f, 1)
    BY <1>1, <2>1, <2>2, <2>3 DEF Truthful
  <2>5. ~ Starting /\ DOMAIN asked = 1 .. Len(asked)
    BY <1>6 DEF HearEvent, Starting, Typed
  <2> QED
    BY <2>1, <2>4, <2>5 DEF StartBehind, Starting
<1>7. CASE DaemonDies
  <2>1. ~ \E i \in DOMAIN asked : asked[i].cmd # "targets"
    BY <1>7 DEF DaemonDies, Fail
  <2>2. phase = "done" /\ open /\ clone' = None /\ (clone = None => last' = last)
    BY <1>7, <2>1 DEF DaemonDies
  <2> QED
    BY <2>1, <2>2 DEF DoneIsTrue, Starting
<1>8. CASE Offscreen
  <2>1. open /\ phase = "done" /\ ~ Starting /\ clone = None /\ last = "ok"
    BY <1>8 DEF Offscreen, DoneIsTrue, Starting
  <2>2. CASE Quiet \/ Requesting
    BY <2>1, <2>2 DEF Quiet, Requesting
  <2>3. CASE Answering
    BY <1>1, <2>1, <2>3, BeingServed DEF Answering
  <2>4. CASE CloneProgress \/ \E ok \in BOOLEAN : CloneEnds(ok)
    BY <2>1, <2>4 DEF CloneProgress, CloneEnds
  <2> QED
    BY <1>5, <1>6, <1>7, <2>2, <2>3, <2>4, WireSteps
<1> QED
  BY <1>2, <1>3, <1>4, <1>5, <1>6, <1>7, <1>8, ScreenSteps

LEMMA WaitingStep ==
  ASSUME Typed, Paired, Waiting, [Next]_vars
  PROVE  Waiting'
<1>1. PICK f : Pairs(f) /\ Ending(f)
  BY DEF Paired
<1>2. deaths' = 0 => deaths = 0 /\ up' /\ up
  <2>1. CASE DaemonDies
    BY <2>1 DEF DaemonDies, Typed
  <2>2. CASE ~ DaemonDies
    <3>1. deaths' = deaths
      BY <2>2
      DEF Next, vars, bounds, Open, Close, Cross, Move, Plug, HoldOn, HoldOff, Menu, HearReply,
          HearEvent, Daemon, ServeTargets, ServeToken, RefuseStart, ServeStart, CloneProgress,
          CloneEnds, Reconnect
    <3>2. up' = up \/ up'
      BY <2>2, ScreenSteps DEF Open, Close, Cross, Move, HoldOn, HoldOff, HearReply, HearEvent, Offscreen
    <3> QED
      BY <3>1, <3>2 DEF Waiting
  <2> QED
    BY <2>1, <2>2
<1> DEFINE Busy == clone # None \/ \E i : Is("done", i)
<1>3. /\ WorkingIsTrue <=> (open /\ phase = "working" /\ deaths = 0 => Busy)
      /\ WorkingIsTrue' <=> (open' /\ phase' = "working" /\ deaths' = 0 => Busy')
  <2>1. toMenu \in Seq(Messages) /\ toMenu' \in Seq(Messages)
    BY TypedStep DEF Typed
  <2>2. DOMAIN toMenu = 1 .. Len(toMenu) /\ DOMAIN toMenu' = 1 .. Len(toMenu')
    BY <2>1
  <2> QED
    BY <2>2 DEF WorkingIsTrue, Is
<1> HIDE DEF Busy
<1> SUFFICES ASSUME open', phase' = "working", deaths' = 0 PROVE Busy'
  BY <1>2, <1>3 DEF Waiting
<1>4. deaths = 0 /\ up /\ (open /\ phase = "working" => Busy)
  BY <1>2, <1>3 DEF Waiting
<1>5. CASE Open \/ Close
  BY <1>5 DEF Open, Close
<1>6. CASE Cross \/ HoldOff \/ \E delta \in {1, -1} : Move(delta)
  <2>1. open /\ phase = "working" /\ UNCHANGED <<toMenu, clone>>
    BY <1>6 DEF Cross, HoldOff, Move, daemon, wire
  <2> QED
    BY <1>4, <2>1 DEF Busy, Is
<1>7. CASE HoldOn
  BY <1>7 DEF HoldOn, Polling, Fail
<1>8. ASSUME HearReply \/ HearEvent, Awaited(1) \/ (Busy /\ ~ Is("done", 1)) PROVE Busy'
  <2>1. toMenu # <<>> /\ toMenu' = Tail(toMenu) /\ UNCHANGED clone
    BY <1>8 DEF HearReply, HearEvent, daemon
  <2>2. /\ \A k, i : Is(k, i)' <=> i \in Nat \ {0} /\ Is(k, i + 1)
        /\ Len(toMenu) \in Nat
    BY <2>1, Heard
  <2>3. CASE clone # None
    BY <2>1, <2>3 DEF Busy
  <2>4. CASE \E i : Is("done", i) /\ i # 1
    <3>1. PICK i : Is("done", i) /\ i # 1
      BY <2>4
    <3>2. i - 1 \in Nat \ {0} /\ (i - 1) + 1 = i
      BY <2>2, <3>1 DEF Is
    <3>3. Is("done", i - 1)'
      BY <2>2, <3>1, <3>2
    <3> QED
      BY <3>3 DEF Busy
  <2> QED
    BY <1>4, <1>8, <2>2, <2>3, <2>4 DEF Awaited, Busy, Is
<1>9. CASE HearReply
  <2>1. toMenu # <<>> /\ toMenu' = Tail(toMenu) /\ Head(toMenu).kind = "reply" /\ open
    BY <1>9 DEF HearReply
  <2>2. Is("reply", 1) /\ toMenu[1] = Head(toMenu)
    BY <2>1, Heard
  <2>3. CASE phase = "working"
    BY <1>4, <1>8, <1>9, <2>1, <2>2, <2>3 DEF Is
  <2>4. CASE Head(asked).cmd = "start" /\ Head(toMenu).ok
    <3>1. Replies \in Nat \ {0} /\ f[1] = 1 /\ asked # <<>>
      BY <1>1, <2>1, FirstAnswer
    <3>2. Head(asked) = asked[1] /\ 1 \in 1 .. Replies
      BY <3>1, Heads DEF Typed
    <3>3. Awaited(1)
      BY <1>1, <2>2, <2>4, <3>1, <3>2 DEF Ending
    <3> QED
      BY <1>8, <1>9, <3>3
  <2> QED
    BY <1>9, <2>3, <2>4, HeardReply
<1>10. CASE HearEvent
  <2>1. /\ toMenu # <<>> /\ toMenu' = Tail(toMenu) /\ Head(toMenu).kind = "progress"
    BY <1>10 DEF HearEvent, Fail
  <2>2. Is("progress", 1)
    BY <2>1, Heard
  <2> QED
    BY <1>1, <1>8, <1>10, <2>2 DEF Ending
<1>11. CASE DaemonDies
  BY <1>2, <1>11 DEF DaemonDies
<1>12. CASE Offscreen
  <2>1. Busy
    BY <1>4, <1>12 DEF Offscreen
  <2>2. CASE Quiet \/ Requesting
    BY <2>1, <2>2 DEF Quiet, Requesting, Busy, Is
  <2>3. CASE Answering
    <3>1. PICK ok \in BOOLEAN, ds \in Lists :
            Serve(Answer(ok, ds)) /\ (clone' = clone \/ clone = None)
      BY <2>3 DEF Answering
    <3>2. Answer(ok, ds) \in Messages /\ toMenu' = Append(toMenu, Answer(ok, ds))
      BY <3>1, Values DEF Serve
    <3>3. \A i : Is("done", i) => Is("done", i)'
      BY <3>2, Emitted
    <3> QED
      BY <2>1, <3>1, <3>3 DEF Busy
  <2>4. CASE CloneProgress
    BY <2>4 DEF CloneProgress, daemon, Busy
  <2>5. CASE \E ok \in BOOLEAN : CloneEnds(ok)
    <3>1. PICK ok \in BOOLEAN : toMenu' = Append(toMenu, Done(ok))
      BY <1>4, <2>5 DEF CloneEnds, Emit
    <3>2. Done(ok) \in Messages /\ Done(ok).kind = "done"
      BY Values
    <3>3. PICK m : m = Len(toMenu) + 1
      OBVIOUS
    <3>4. Is("done", m)'
      BY <3>1, <3>2, <3>3, Emitted
    <3> QED
      BY <3>4 DEF Busy
  <2> QED
    BY <1>9, <1>10, <1>11, <2>2, <2>3, <2>4, <2>5, WireSteps
<1> QED
  BY <1>5, <1>6, <1>7, <1>9, <1>10, <1>11, <1>12, ScreenSteps
-------------------------------------------------------------------------------
\* The hold.

\* A request on its way to the daemon is one that is not answered yet.
LEMMA ServedMeant ==
  ASSUME Typed, Paired, Meant, Serving("start")
  PROVE  Head(toDaemon).dev \in held
<1>1. PICK f : Pairs(f)
  BY DEF Paired
<1>2. toDaemon # <<>>
  BY DEF Serving
<1>3. /\ Head(toDaemon) = toDaemon[1] /\ Len(toDaemon) \in Nat \ {0} /\ Len(asked) \in Nat
      /\ Replies \in Nat /\ Replies = Len(asked) - Len(toDaemon)
  BY <1>1, <1>2, Heads DEF Typed, Pairs, Replies
<1>4. toDaemon[1] = asked[Replies + 1] /\ Replies + 1 \in 1 .. Len(asked)
  BY <1>1, <1>3 DEF Pairs
<1> QED
  BY <1>3, <1>4 DEF Serving, Meant

\* What asked is after a request was sent, and after one was answered.
LEMMA AskedMore ==
  ASSUME Typed, NEW r, asked' = Append(asked, r)
  PROVE  /\ Len(asked) \in Nat /\ Len(asked') = Len(asked) + 1
         /\ \A k \in 1 .. Len(asked) : asked'[k] = asked[k]
         /\ asked'[Len(asked) + 1] = r
         /\ \A k \in 1 .. Len(asked') : k \in 1 .. Len(asked) \/ k = Len(asked) + 1
BY DEF Typed

LEMMA AskedLess ==
  ASSUME Typed, Paired, HearReply
  PROVE  /\ Len(asked) \in Nat \ {0} /\ asked[1] = Head(asked)
         /\ \A k \in 1 .. Len(asked') :
              \/ k + 1 \in 1 .. Len(asked) /\ asked'[k] = asked[k + 1]
              \/ /\ k = Len(asked) /\ asked'[k] = Ask("start", Head(asked).dev)
                 /\ Head(asked).cmd = "token"
<1>1. PICK f : Pairs(f)
  BY DEF Paired
<1>2. asked # <<>>
  BY <1>1, FirstAnswer DEF HearReply
<1>3. /\ Head(asked) = asked[1] /\ Len(asked) \in Nat \ {0}
      /\ Tail(asked) \in Seq(Asks) /\ Len(Tail(asked)) = Len(asked) - 1
      /\ \A i \in 1 .. Len(asked) - 1 : Tail(asked)[i] = asked[i + 1]
  BY <1>2, Heads DEF Typed
<1> DEFINE r == Ask("start", Head(asked).dev)
<1>4. ASSUME NEW k \in 1 .. Len(asked')
      PROVE  \/ k + 1 \in 1 .. Len(asked) /\ asked'[k] = asked[k + 1]
             \/ k = Len(asked) /\ asked'[k] = r /\ Head(asked).cmd = "token"
  <2> HIDE DEF r
  <2>1. CASE asked' = Tail(asked)
    <3>1. k \in 1 .. Len(Tail(asked)) /\ asked'[k] = Tail(asked)[k]
      BY <1>4, <2>1
    <3>2. asked'[k] = asked[k + 1] /\ k + 1 \in 1 .. Len(asked)
      BY <1>3, <3>1
    <3> QED
      BY <3>2
  <2>2. CASE asked' = Append(Tail(asked), r) /\ Head(asked).cmd = "token"
    <3>1. /\ Len(asked') = Len(asked) /\ asked'[Len(asked)] = r
          /\ \A i \in 1 .. Len(asked) - 1 : asked'[i] = asked[i + 1]
      <4> DEFINE t == Tail(asked)
      <4> HIDE DEF t
      <4>1. /\ Len(Append(t, r)) = Len(t) + 1 /\ Append(t, r)[Len(t) + 1] = r
            /\ \A i \in 1 .. Len(t) : Append(t, r)[i] = t[i]
        <5>1. t \in Seq(Asks)
          BY <1>3 DEF t
        <5> QED
          BY <5>1
      <4> QED
        BY <1>3, <2>2, <4>1 DEF t
    <3>2. k = Len(asked) \/ (k \in 1 .. Len(asked) - 1 /\ k + 1 \in 1 .. Len(asked))
      <4>1. k \in 1 .. Len(asked) /\ Len(asked) \in Nat \ {0}
        BY <1>3, <1>4, <3>1
      <4> QED
        BY <4>1
    <3> QED
      BY <2>2, <3>1, <3>2
  <2>3. \/ asked' = Append(Tail(asked), r) /\ Head(asked).cmd = "token"
        \/ asked' = Tail(asked)
    BY DEF HearReply, r
  <2> QED
    BY <2>1, <2>2, <2>3
<1> QED
  BY <1>3, <1>4

\* What a step may change of the install that runs.
LEMMA CloneSteps ==
  ASSUME Typed, [Next]_vars
  PROVE  clone' \in {clone, None} \/ (Serving("start") /\ clone' = Head(toDaemon).dev)
BY WireSteps
DEF Quiet, Requesting, HearReply, HearEvent, Answering, CloneProgress, CloneEnds, DaemonDies, daemon

LEMMA HeldStep ==
  ASSUME Typed, Paired, Held, [Next]_vars
  PROVE  Held'
<1> SUFFICES ASSUME opens' =< 1 PROVE Meant' /\ ListedOnce' /\ Steady'
  BY DEF Held
<1>1. /\ hold \in Nat /\ steady \in 0 .. HoldFrames /\ opens \in Nat
      /\ hold' \in Nat /\ steady' \in 0 .. HoldFrames
      /\ asked \in Seq(Asks) /\ Len(asked) \in Nat
      /\ Focus \in Eligible => list # <<>>
  BY TypedStep, Constants DEF Typed, Focus
<1>2. opens' \in {opens, opens + 1} /\ (~ Open => opens' = opens)
  BY ScreenSteps
  DEF Open, Close, Cross, Move, HoldOn, HoldOff, HearReply, HearEvent, DaemonDies, Offscreen, bounds
<1>3. Meant /\ ListedOnce /\ Steady
  BY <1>1, <1>2 DEF Held
<1>4. ASSUME held \subseteq held' PROVE clone' # None => clone' \in held'
  BY <1>3, <1>4, CloneSteps, ServedMeant DEF Meant
<1>5. CASE Open
  <2>1. opens = 0 /\ list = <<>> /\ asked = <<>> /\ opens' = 1 /\ list' = <<>>
    BY <1>1, <1>3, <1>5 DEF Open, ListedOnce
  <2>2. held' = held /\ hold' = 0
    BY <1>5 DEF Open
  <2>3. asked' = <<Ask("targets", None)>> \/ asked' = <<>>
    BY <1>5, <2>1 DEF Open, Send
  <2>4. \A k \in 1 .. Len(asked') : k = 1 /\ asked'[k].cmd = "targets"
    <3>1. PICK r : r = Ask("targets", None) /\ r.cmd = "targets"
      BY Values
    <3>2. CASE asked' = <<r>>
      <4>1. Len(asked') = 1 /\ asked'[1] = r
        BY <3>2
      <4> QED
        BY <3>1, <4>1
    <3>3. CASE asked' = <<>>
      BY <3>3
    <3> QED
      BY <2>3, <3>1, <3>2, <3>3
  <2>5. Meant'
    BY <1>4, <2>2, <2>4 DEF Meant
  <2>6. ListedOnce'
    BY <2>1, <2>4 DEF ListedOnce
  <2> QED
    BY <1>1, <2>2, <2>5, <2>6 DEF Steady
<1>6. CASE Close \/ HoldOff \/ \E delta \in {1, -1} : Move(delta)
  <2>1. /\ UNCHANGED <<asked, list, held, opens>> /\ (open' => open)
        /\ hold' = 0 \/ (UNCHANGED <<index, hold>> /\ ~ open')
    BY <1>6 DEF Close, HoldOff, Move, user, bounds
  <2>2. Meant' /\ ListedOnce'
    BY <1>3, <1>4, <2>1 DEF Meant, ListedOnce
  <2>3. Steady'
    BY <1>1, <1>3, <2>1 DEF Steady, Focus
  <2> QED
    BY <2>2, <2>3
<1>7. CASE Cross
  <2>1. /\ UNCHANGED <<asked, list, index, hold, held, opens, phase>> /\ (open' => open)
        /\ cross' = ~ cross /\ (~ cross => ~ (Polling /\ hold > 0)) /\ steady' = 0
    BY <1>7 DEF Cross, bounds
  <2>2. Meant' /\ ListedOnce'
    BY <1>3, <1>4, <2>1 DEF Meant, ListedOnce
  <2>3. Focus' = Focus
    BY <2>1 DEF Focus
  <2>4. open' /\ phase \in {"pick", "confirm"} /\ cross' => hold = 0
    <3> SUFFICES ASSUME open', phase \in {"pick", "confirm"}, cross', hold > 0 PROVE FALSE
      BY <1>1
    <3>1. Focus \in Eligible
      BY <1>3 DEF Steady
    <3>2. open /\ ~ cross
      BY <2>1
    <3>3. Polling
      BY <3>1, <3>2 DEF Polling
    <3> QED
      BY <2>1, <3>2, <3>3
  <2>5. Steady'
    BY <1>1, <1>3, <2>1, <2>3, <2>4 DEF Steady
  <2> QED
    BY <2>2, <2>5
<1>8. CASE HoldOn
  <2>1. /\ open /\ phase \in {"pick", "confirm"} /\ cross /\ Focus \in Eligible /\ list # <<>>
        /\ hold =< steady
    BY <1>1, <1>3, <1>8 DEF HoldOn, Polling, Steady
  <2>2. /\ UNCHANGED <<open, list, index, cross, opens>>
        /\ steady' = IF steady < HoldFrames THEN steady + 1 ELSE steady
        /\ held' = IF steady' = HoldFrames THEN held \union {Focus} ELSE held
        /\ \/ hold + 1 < HoldFrames /\ hold' = hold + 1 /\ asked' = asked
           \/ /\ hold + 1 >= HoldFrames /\ hold' = HoldFrames
              /\ asked' = Append(asked, Ask("token", Focus))
           \/ hold' = 0 /\ asked' = asked
    BY <1>1, <1>8, Constants DEF HoldOn, Fail, Send, bounds
  <2>3. Focus' = Focus
    BY <2>2 DEF Focus
  <2>5. Steady'
    BY <1>1, <2>1, <2>2, <2>3, Constants DEF Steady
  <2>6. \A k \in 1 .. Len(asked) : asked[k].cmd # "targets"
    BY <1>3, <2>1 DEF ListedOnce
  <2>7. opens # 0
    BY <1>3, <2>1 DEF ListedOnce
  <2>8. CASE asked' = asked
    BY <1>3, <1>4, <2>2, <2>5, <2>6, <2>7, <2>8 DEF Meant, ListedOnce
  <2>9. CASE asked' = Append(asked, Ask("token", Focus)) /\ hold + 1 >= HoldFrames
    <3> DEFINE r == Ask("token", Focus)
    <3>1. r.cmd = "token" /\ r.dev = Focus
      BY <2>1, Constants, Values
    <3>2. Focus \in held'
      <4>1. steady' = HoldFrames
        BY <1>1, <2>1, <2>2, <2>9, Constants
      <4> QED
        BY <2>2, <4>1
    <3> HIDE DEF r
    <3>3. /\ \A k \in 1 .. Len(asked) : asked'[k] = asked[k]
          /\ asked'[Len(asked) + 1] = r
          /\ \A k \in 1 .. Len(asked') : k \in 1 .. Len(asked) \/ k = Len(asked) + 1
      BY <2>9, AskedMore DEF r
    <3>4. held \subseteq held'
      BY <2>2
    <3>5. Meant'
      BY <1>3, <1>4, <3>1, <3>2, <3>3, <3>4 DEF Meant
    <3>6. \A k \in 1 .. Len(asked') : asked'[k].cmd # "targets"
      BY <2>6, <3>1, <3>3
    <3>7. ListedOnce'
      BY <2>2, <2>7, <3>6 DEF ListedOnce
    <3> QED
      BY <2>5, <3>5, <3>7
  <2> QED
    BY <2>2, <2>8, <2>9
<1>9. CASE HearReply
  <2>1. UNCHANGED <<open, cross, held, opens>>
    BY <1>9 DEF HearReply, bounds
  <2>2. /\ Len(asked) \in Nat \ {0} /\ asked[1] = Head(asked)
        /\ \A k \in 1 .. Len(asked') :
             \/ k + 1 \in 1 .. Len(asked) /\ asked'[k] = asked[k + 1]
             \/ /\ k = Len(asked) /\ asked'[k] = Ask("start", Head(asked).dev)
                /\ Head(asked).cmd = "token"
    BY <1>9, AskedLess
  <2>3. 1 \in 1 .. Len(asked) /\ asked[1] \in Asks /\ opens # 0
    BY <1>1, <1>3, <2>2 DEF ListedOnce
  <2>4. Head(asked).cmd = "token" =>
          LET r == Ask("start", Head(asked).dev) IN r.cmd = "start" /\ r.dev \in held
    <3> SUFFICES ASSUME Head(asked).cmd = "token"
                 PROVE  LET r == Ask("start", Head(asked).dev) IN r.cmd = "start" /\ r.dev \in held
      OBVIOUS
    <3>1. Head(asked).dev \in held /\ Head(asked).dev \in Devices
      BY <1>3, <2>2, <2>3 DEF Meant, Asks
    <3> QED
      BY <3>1, Values
  <2>5. Meant'
    BY <1>3, <1>4, <2>1, <2>2, <2>4 DEF Meant
  <2>6. ListedOnce'
    <3>1. ASSUME NEW k \in 1 .. Len(asked'), asked'[k].cmd = "targets"
          PROVE  list' = <<>> /\ \A l \in 1 .. Len(asked') : asked'[l].cmd = "targets" => l = k
      <4>1. \A l \in 1 .. Len(asked') : asked'[l].cmd = "targets" =>
              l + 1 \in 1 .. Len(asked) /\ asked[l + 1].cmd = "targets"
        BY <2>2, <2>4
      <4>2. list = <<>> /\ Head(asked).cmd # "targets"
        <5>1. k + 1 \in 1 .. Len(asked) /\ asked[k + 1].cmd = "targets" /\ k + 1 # 1
          BY <3>1, <4>1
        <5> QED
          BY <1>3, <2>2, <2>3, <5>1 DEF ListedOnce
      <4>3. list' = list
        BY <1>9, <4>2, HeardReply
      <4>4. ASSUME NEW l \in 1 .. Len(asked'), asked'[l].cmd = "targets" PROVE l = k
        <5>1. l + 1 = k + 1
          BY <1>3, <3>1, <4>1, <4>4 DEF ListedOnce
        <5> QED
          BY <5>1
      <4> QED
        BY <4>2, <4>3, <4>4
    <3> QED
      BY <2>1, <2>3, <3>1 DEF ListedOnce
  <2>7. Steady'
    <3>1. CASE UNCHANGED <<phase, hold, list, index, steady>>
      BY <1>3, <2>1, <3>1 DEF Steady, Focus
    <3>2. CASE Listed(Head(toMenu).list) /\ Head(asked).cmd = "targets" /\ UNCHANGED <<phase, hold>>
      <4>1. hold = 0
        BY <1>1, <1>3, <2>2, <2>3, <3>2 DEF ListedOnce, Steady
      <4> QED
        BY <1>1, <3>2, <4>1, Constants DEF Steady
    <3>3. CASE phase' = "working" /\ UNCHANGED <<hold, list, index, steady>>
      BY <1>3, <3>3 DEF Steady, Focus
    <3>4. CASE phase' = "pick" /\ hold' = 0 /\ UNCHANGED <<list, index, steady>>
      BY <1>1, <3>4, Constants DEF Steady
    <3> QED
      BY <1>9, <3>1, <3>2, <3>3, <3>4, HeardReply
  <2> QED
    BY <2>5, <2>6, <2>7
<1>10. CASE HearEvent
  <2>1. /\ UNCHANGED <<open, list, index, asked, cross, steady, held, opens>>
        /\ \/ phase' = phase /\ hold' = hold
           \/ phase' \in {"working", "done"} /\ hold' = hold
           \/ hold' = 0
    BY <1>10 DEF HearEvent, Fail, user, bounds
  <2>2. Meant' /\ ListedOnce'
    BY <1>3, <1>4, <2>1 DEF Meant, ListedOnce
  <2>3. Steady'
    BY <1>1, <1>3, <2>1, Constants DEF Steady, Focus
  <2> QED
    BY <2>2, <2>3
<1>11. CASE DaemonDies
  <2>1. /\ UNCHANGED <<open, list, index, cross, steady, held, opens>>
        /\ asked' = <<>> /\ clone' = None
        /\ (phase' = phase /\ hold' = hold) \/ hold' = 0
    BY <1>11 DEF DaemonDies, Fail, user
  <2>2. Meant' /\ ListedOnce'
    BY <1>3, <2>1 DEF Meant, ListedOnce
  <2>3. Steady'
    BY <1>1, <1>3, <2>1, Constants DEF Steady, Focus
  <2> QED
    BY <2>2, <2>3
<1>12. CASE Offscreen
  <2>1. Meant' /\ ListedOnce'
    BY <1>3, <1>4, <1>12 DEF Offscreen, Meant, ListedOnce
  <2>2. Steady'
    BY <1>3, <1>12 DEF Offscreen, Steady, Focus
  <2> QED
    BY <2>1, <2>2
<1> QED
  BY <1>5, <1>6, <1>7, <1>8, <1>9, <1>10, <1>11, <1>12, ScreenSteps

-------------------------------------------------------------------------------
\* The theorems.

LEMMA FlowStep == FlowInv /\ [Next]_vars => FlowInv'
<1> SUFFICES ASSUME FlowInv, [Next]_vars PROVE FlowInv'
  OBVIOUS
<1>1. Typed /\ Paired /\ DoneIsTrue /\ Waiting /\ Held
  BY DEF FlowInv
<1>2. Typed' /\ Paired'
  BY <1>1, TypedStep, PairedStep
<1>3. DoneIsTrue' /\ Waiting' /\ Held'
  BY <1>1, DoneStep, WaitingStep, HeldStep
<1> QED
  BY <1>2, <1>3 DEF FlowInv

\* No disk is erased that Cross was not held on for as long as it takes, unless the screen
\* was opened again.
THEOREM ErasedWasHeld == Spec => []HeldThrough
<1>1. FlowInv => HeldThrough
  BY DEF FlowInv, Typed, Held, Meant, HeldThrough
<1> QED
  BY <1>1, FlowInit, FlowStep, PTL DEF Spec

\* What the last screen says is so: the install succeeded, and no other one runs.
THEOREM InstalledIsTrue == Spec => []DoneIsTrue
<1>1. FlowInv => DoneIsTrue
  BY DEF FlowInv
<1> QED
  BY <1>1, FlowInit, FlowStep, PTL DEF Spec

\* As long as the daemon lives the user waits for an install that runs, or for the event
\* that says how it ended.
THEOREM SomethingToWaitFor == Spec => []WorkingIsTrue
<1>1. FlowInv => WorkingIsTrue
  BY DEF FlowInv, Waiting
<1> QED
  BY <1>1, FlowInit, FlowStep, PTL DEF Spec

-------------------------------------------------------------------------------
\* The installer that the screen talks to, as an implementation of OneInstall.
LEMMA ServiceStep == ASSUME Typed, [Next]_vars PROVE [Service!Next]_Service!vars
<1> USE FlowAssumption DEF FlowAssumption
<1>1. CASE ServeStart
  <2>1. /\ clone = None /\ clone' = Head(toDaemon).dev /\ last' = last
        /\ clone' \in Devices
    BY <1>1 DEF ServeStart, Typed
  <2>2. Service!Begin(clone')
    BY <2>1 DEF Service!Begin
  <2> QED
    BY <2>1, <2>2 DEF Service!Next
<1>2. ASSUME NEW ok \in BOOLEAN, CloneEnds(ok) PROVE Service!Next
  <2>1. /\ clone # None /\ clone' = None
        /\ \E how \in {"ok", "failed"} : last' = how
    BY <1>2 DEF CloneEnds
  <2> QED
    BY <2>1 DEF Service!Next, Service!End
<1>3. CASE DaemonDies
  <2>1. /\ clone' = None
        /\ clone # None => last' = "failed"
        /\ clone = None => last' = last
    BY <1>3 DEF DaemonDies
  <2> QED
    BY <2>1 DEF Service!Next, Service!End, Service!vars
<1>4. CASE UNCHANGED daemon
  BY <1>4 DEF daemon, Service!vars
<1> QED
  BY <1>1, <1>2, <1>3, <1>4
  DEF Next, Menu, Daemon, Open, Close, Cross, Move, Plug, HoldOn, HoldOff, HearReply,
      HearEvent, ServeTargets, ServeToken, RefuseStart, CloneProgress, Reconnect, vars

\* The installer of this module keeps the promise that the real one makes:
\* DiskInstaller and InstallFlow meet in OneInstall.
THEOREM InstallServed == Spec => ServesOneInstall
<1>1. Init => Service!Init
  BY DEF Init, Service!Init
<1>2. FlowInv /\ [Next]_vars => [Service!Next]_Service!vars
  BY ServiceStep DEF FlowInv
<1> QED
  BY <1>1, <1>2, FlowInit, FlowStep, PTL DEF Spec, ServesOneInstall, Service!Spec
===============================================================================
