------------------------- MODULE TitleSession_proofs --------------------------
(***************************************************************************)
(* Proofs about TitleSession.  The type invariant holds with any number of *)
(* connections.  That titles run one at a time is proved of the behaviours *)
(* in which no two launches are suspended at once (OneLaunching), however  *)
(* many connections launch and close: two that launch at the same time     *)
(* both pass the check.  With one launcher (SerialClients) every behaviour *)
(* is one of those.  The invariant SerialInv says why that is enough:      *)
(* while a launch is suspended nothing else is tracked, and the only _reap *)
(* task in flight waits for the tracked process.                           *)
(***************************************************************************)
EXTENDS TitleSession, TLAPS

SerialClients == \A c, d \in Launchers : c = d

\* No two launches are under way between the fork and the rest of launch().
OneLaunching ==
  \A c, d \in Conns : pc[c] = "launching" /\ pc[d] = "launching" => c = d

\* The type invariant of the session layer.
THEOREM TypeCorrect == Spec => []TypeOK
<1> USE SessionAssumption DEF Procs, NoProc, ProcStates, ReaperStates
<1>1. Init => TypeOK
  BY DEF Init, TypeOK
<1>2. TypeOK /\ [Next]_vars => TypeOK'
  <2> SUFFICES ASSUME TypeOK, [Next]_vars PROVE TypeOK'
    OBVIOUS
  <2> USE DEF TypeOK
  <2>1. ASSUME NEW c \in Conns, NEW u \in Titles, Launch(c, u) PROVE TypeOK'
    BY <2>1 DEF Launch, Fork, Await
  <2>2. ASSUME NEW c \in Conns, LaunchRefused(c) PROVE TypeOK'
    BY <2>2 DEF LaunchRefused, Return
  <2>3. ASSUME NEW c \in Conns, LaunchDone(c) PROVE TypeOK'
    BY <2>3 DEF LaunchDone, Return
  <2>4. ASSUME NEW c \in Conns, CloseIdle(c) \/ CloseTooLate(c) \/ CloseEnds(c)
        PROVE TypeOK'
    <3>1. PICK a \in {"ok", "error"} :
            Return(c, a) /\ UNCHANGED <<proc, uid, st, title, reaper, waits, exits>>
      BY <2>4 DEF CloseIdle, CloseTooLate, CloseEnds
    <3> QED
      BY <3>1 DEF Return
  <2>5. ASSUME NEW c \in Conns, Close(c) PROVE TypeOK'
    BY <2>5 DEF Close, Await
  <2>6. ASSUME NEW c \in Conns, CloseTimesOut(c) PROVE TypeOK'
    BY <2>6 DEF CloseTimesOut, Return
  <2>7. ASSUME NEW p \in Procs, ReapStarts(p) PROVE TypeOK'
    BY <2>7 DEF ReapStarts
  <2>8. ASSUME NEW p \in Procs, ReapEnds(p) PROVE TypeOK'
    <3>1. waits[p] \in Procs /\ exits[waits[p]] \in Nat
      BY <2>8 DEF ReapEnds
    <3>2. exits' \in [Procs -> Nat]
      BY <2>8, <3>1 DEF ReapEnds
    <3>3. /\ reaper' \in [Procs -> ReaperStates]
          /\ \A q \in Procs : reaper'[q] = "waiting" => reaper[q] = "waiting"
      BY <2>8 DEF ReapEnds
    <3>4. UNCHANGED <<st, title, pc, arg, reply, waits>> /\ proc' = NoProc /\ uid' = NoTitle
      BY <2>8 DEF ReapEnds
    <3> QED
      BY <3>2, <3>3, <3>4
  <2>9. ASSUME NEW p \in Procs, Exit(p) PROVE TypeOK'
    BY <2>9 DEF Exit
  <2>10. CASE Restart
    BY <2>10 DEF Restart
  <2>11. CASE UNCHANGED vars
    BY <2>11 DEF vars
  <2> QED
    BY <2>1, <2>2, <2>3, <2>4, <2>5, <2>6, <2>7, <2>8, <2>9, <2>10, <2>11
    DEF Next, Handler
<1> QED
  BY <1>1, <1>2, PTL DEF Spec

-------------------------------------------------------------------------------
\* A suspended launch has forked, and nothing is tracked meanwhile.
LaunchAlone ==
  \A c \in Conns : pc[c] = "launching" =>
    /\ proc = NoProc
    /\ st[arg[c]] # "unborn"
    /\ reaper[arg[c]] = "none"

\* The _reap task in flight, if any, is that of the tracked process.
ReaperOfProc ==
  \A p \in Procs :
    /\ reaper[p] = "created" => proc = p
    /\ reaper[p] = "waiting" => proc = p /\ waits[p] = p
    /\ st[p] = "unborn" => reaper[p] = "none"

\* _proc and _uid are set, and cleared, together.
Tracked ==
  /\ proc = NoProc => uid = NoTitle
  /\ proc # NoProc => uid = title[proc] /\ st[proc] # "unborn"

\* A process was started for some title.
Titled == \A p \in Procs : st[p] # "unborn" => title[p] \in Titles

ReportedOnce ==
  \A p \in Procs :
    /\ reaper[p] # "done" => exits[p] = 0
    /\ exits[p] > 0 => exits[p] = 1 /\ st[p] = "exited"

SerialInv ==
  /\ TypeOK
  /\ LiveIsTracked
  /\ LaunchAlone
  /\ ReaperOfProc
  /\ Tracked
  /\ Titled
  /\ ReportedOnce

LEMMA SerialInit == Init => SerialInv
BY SessionAssumption
DEF Init, SerialInv, TypeOK, LiveIsTracked, LaunchAlone, ReaperOfProc, Tracked,
    Titled, ReportedOnce, Procs, NoProc, ProcStates, ReaperStates, Alive

LEMMA SerialStep ==
  ASSUME OneLaunching, OneLaunching', SerialInv, TypeOK', [Next]_vars
  PROVE  SerialInv'
<1> USE SessionAssumption DEF SerialInv, TypeOK, NoProc, Procs
<1> DEFINE Parts == /\ LiveIsTracked
                    /\ LaunchAlone
                    /\ ReaperOfProc
                    /\ Tracked
                    /\ Titled
                    /\ ReportedOnce
<1> USE DEF LiveIsTracked, LaunchAlone, ReaperOfProc, Tracked, Titled, ReportedOnce, Alive
<1>1. ASSUME NEW c \in Conns, NEW u \in Titles, Launch(c, u) PROVE Parts'
  <2>1. PICK p \in Procs :
          /\ st[p] = "unborn"
          /\ st' = [st EXCEPT ![p] = "running"]
          /\ title' = [title EXCEPT ![p] = u]
          /\ Await(c, "launching", p)
    BY <1>1 DEF Launch, Fork
  <2>2. /\ pc[c] = "idle" /\ proc = NoProc
        /\ UNCHANGED <<proc, uid, reaper, waits, exits>>
    BY <1>1 DEF Launch
  <2>3. /\ pc' = [pc EXCEPT ![c] = "launching"]
        /\ arg' = [arg EXCEPT ![c] = p]
    BY <2>1 DEF Await
  <2>4. \A d \in Conns : pc[d] # "launching"
    BY <2>2, <2>3 DEF OneLaunching
  <2>5. \A q \in Procs : ~ Alive(q)
    BY <2>2, <2>4
  <2>6. LiveIsTracked'
    BY <2>1, <2>2, <2>3, <2>5
  <2>7. LaunchAlone'
    BY <2>1, <2>2, <2>3, <2>4
  <2>8. ReaperOfProc' /\ Tracked' /\ Titled' /\ ReportedOnce'
    BY <1>1, <2>1, <2>2
  <2> QED
    BY <2>6, <2>7, <2>8
<1>2. ASSUME NEW c \in Conns,
             LaunchRefused(c) \/ CloseIdle(c) \/ CloseTooLate(c) \/ CloseEnds(c)
      PROVE  Parts'
  <2>1. /\ UNCHANGED <<proc, uid, st, title, reaper, waits, exits>>
        /\ pc[c] # "launching"
        /\ pc' = [pc EXCEPT ![c] = "idle"] /\ arg' = [arg EXCEPT ![c] = NoProc]
    BY <1>2 DEF LaunchRefused, CloseIdle, CloseTooLate, CloseEnds, Return
  <2> QED
    BY <2>1
<1>3. ASSUME NEW c \in Conns, LaunchDone(c) PROVE Parts'
  <2>1. /\ pc[c] = "launching"
        /\ pc' = [pc EXCEPT ![c] = "idle"] /\ arg' = [arg EXCEPT ![c] = NoProc]
        /\ proc' = arg[c] /\ uid' = title[arg[c]]
        /\ reaper' = [reaper EXCEPT ![arg[c]] = "created"]
        /\ UNCHANGED <<st, title, waits, exits>>
    BY <1>3 DEF LaunchDone, Return
  <2>2. \A d \in Conns : pc[d] = "launching" => d = c
    BY <2>1 DEF OneLaunching
  <2>3. arg[c] \in Procs /\ proc = NoProc /\ st[arg[c]] # "unborn"
    BY <2>1
  <2>4. LiveIsTracked'
    BY <2>1, <2>2, <2>3
  <2>5. LaunchAlone' /\ Tracked' /\ Titled'
    BY <2>1, <2>2, <2>3
  <2>6. ReaperOfProc'
    BY <2>1, <2>3
  <2>7. ReportedOnce'
    BY <2>1, <2>3
  <2> QED
    BY <2>4, <2>5, <2>6, <2>7
<1>4. ASSUME NEW c \in Conns, Close(c) PROVE Parts'
  <2>1. /\ pc[c] # "launching" /\ proc # NoProc
        /\ pc' = [pc EXCEPT ![c] = "closing"] /\ arg' = [arg EXCEPT ![c] = proc]
        /\ st' = [st EXCEPT ![proc] = IF @ = "running" THEN "terminating" ELSE @]
        /\ UNCHANGED <<proc, uid, title, reaper, waits, exits>>
    BY <1>4 DEF Close, Await
  <2> QED
    BY <2>1
<1>5. ASSUME NEW c \in Conns, CloseTimesOut(c) PROVE Parts'
  <2>1. /\ pc[c] = "closing" /\ Alive(arg[c])
        /\ pc' = [pc EXCEPT ![c] = "idle"] /\ arg' = [arg EXCEPT ![c] = NoProc]
        /\ st' = [st EXCEPT ![arg[c]] = "killed"]
        /\ UNCHANGED <<proc, uid, title, reaper, waits, exits>>
    BY <1>5 DEF CloseTimesOut, Return
  <2> QED
    BY <2>1
<1>6. ASSUME NEW p \in Procs, ReapStarts(p) PROVE Parts'
  BY <1>6 DEF ReapStarts
<1>7. ASSUME NEW p \in Procs, ReapEnds(p) PROVE Parts'
  <2>1. /\ reaper[p] = "waiting" /\ waits[p] = p /\ proc = p
        /\ st[p] = "exited" /\ proc' = NoProc /\ uid' = NoTitle
        /\ exits' = [exits EXCEPT ![p] = @ + 1]
        /\ reaper' = [reaper EXCEPT ![p] = "done"]
        /\ UNCHANGED <<st, title, pc, arg, reply, waits>>
    BY <1>7 DEF ReapEnds
  <2>2. \A c \in Conns : pc[c] # "launching"
    BY <2>1
  <2>3. \A q \in Procs : ~ Alive(q)
    BY <2>1, <2>2
  <2>4. LiveIsTracked'
    BY <2>1, <2>3
  <2>5. LaunchAlone' /\ Tracked' /\ Titled'
    BY <2>1, <2>2
  <2>6. ReaperOfProc' /\ ReportedOnce'
    BY <2>1
  <2> QED
    BY <2>4, <2>5, <2>6
<1>8. ASSUME NEW p \in Procs, Exit(p) PROVE Parts'
  BY <1>8 DEF Exit
<1>9. CASE Restart
  BY <1>9 DEF Restart
<1>10. CASE UNCHANGED vars
  BY <1>10 DEF vars
<1> QED
  BY <1>1, <1>2, <1>3, <1>4, <1>5, <1>6, <1>7, <1>8, <1>9, <1>10
  DEF Next, Handler

LEMMA SerialCorrect == Spec /\ []OneLaunching => []SerialInv
<1>1. OneLaunching /\ OneLaunching' /\ SerialInv /\ TypeOK' /\ [Next]_vars => SerialInv'
  BY SerialStep
<1> QED
  BY <1>1, SerialInit, TypeCorrect, PTL DEF Spec

\* Titles run one at a time, a live one is within the daemon's reach and its exit
\* is announced at most once and only when it has happened: whatever the number of
\* connections, launches, closes, exits and restarts, unless two launches overlap.
\* The check of self._proc is worth as much as that.
THEOREM OverlapIsTheOnlyWay ==
  Spec /\ []OneLaunching => [](OneAtATime /\ LiveIsTracked /\ ExitedOnce)
<1>1. SerialInv /\ OneLaunching => OneAtATime
  BY DEF OneLaunching, SerialInv, LiveIsTracked, LaunchAlone, OneAtATime, NoProc, Procs
<1>2. SerialInv => LiveIsTracked
  BY DEF SerialInv
<1>3. SerialInv => ExitedOnce
  BY DEF SerialInv, TypeOK, ReportedOnce, ExitedOnce
<1> QED
  BY <1>1, <1>2, <1>3, SerialCorrect, PTL

\* Even when launches overlap, title.exited never comes early: an exit that was
\* announced has happened.  (It may be announced twice then: two _reap tasks that
\* find the same process in self._proc both wait for it.)
NeverEarly == \A p \in Procs : exits[p] > 0 => st[p] = "exited"

THEOREM ExitsAreReal == Spec => []NeverEarly
<1> USE SessionAssumption DEF Procs, NeverEarly, TypeOK, Alive
<1>1. Init => NeverEarly
  BY DEF Init
<1>2. NeverEarly /\ TypeOK /\ [Next]_vars => NeverEarly'
  <2> SUFFICES ASSUME NeverEarly, TypeOK, [Next]_vars PROVE NeverEarly'
    OBVIOUS
  <2>1. ASSUME NEW c \in Conns, NEW u \in Titles, Launch(c, u) PROVE NeverEarly'
    BY <2>1 DEF Launch, Fork
  <2>2. ASSUME NEW c \in Conns, Close(c) \/ CloseTimesOut(c) PROVE NeverEarly'
    BY <2>2 DEF Close, CloseTimesOut
  <2>3. ASSUME NEW p \in Procs, ReapEnds(p) PROVE NeverEarly'
    BY <2>3 DEF ReapEnds
  <2>4. ASSUME NEW p \in Procs, Exit(p) PROVE NeverEarly'
    BY <2>4 DEF Exit
  <2>5. CASE Restart
    BY <2>5 DEF Restart
  <2>6. CASE UNCHANGED <<st, exits>>
    BY <2>6
  <2> QED
    BY <2>1, <2>2, <2>3, <2>4, <2>5, <2>6
    DEF Next, Handler, LaunchRefused, LaunchDone, CloseIdle, CloseTooLate, CloseEnds,
        ReapStarts, vars
<1> QED
  BY <1>1, <1>2, TypeCorrect, PTL DEF Spec

\* One launcher has one launch suspended at most: a connection is served serially.
LEMMA OneLauncher ==
  ASSUME SerialClients PROVE Spec => []OneLaunching
<1>1. TypeOK => OneLaunching
  BY DEF SerialClients, TypeOK, OneLaunching
<1> QED
  BY <1>1, TypeCorrect, PTL

\* Titles run one at a time, whatever the number of launches, closes, exits and
\* restarts of the daemon, as long as no two connections launch them.
THEOREM SerialOneAtATime ==
  ASSUME SerialClients PROVE Spec => []OneAtATime
BY OverlapIsTheOnlyWay, OneLauncher, PTL

\* Under the same condition a live title is always within the daemon's reach.
THEOREM SerialLiveIsTracked ==
  ASSUME SerialClients PROVE Spec => []LiveIsTracked
BY OverlapIsTheOnlyWay, OneLauncher, PTL

\* ... and its exit is announced at most once, and only when it has happened.
THEOREM SerialReports ==
  ASSUME SerialClients PROVE Spec => []ExitedOnce
BY OverlapIsTheOnlyWay, OneLauncher, PTL

-------------------------------------------------------------------------------
\* While a launch is suspended its title holds the console; otherwise the
\* tracked one does.
LEMMA ClaimIs ==
  ASSUME OneLaunching
  PROVE  /\ \A c \in Conns : pc[c] = "launching" => Claim = title[arg[c]]
         /\ (\A c \in Conns : pc[c] # "launching") => Claim = uid
BY DEF OneLaunching, Claim

LEMMA ClaimIsNext ==
  ASSUME OneLaunching'
  PROVE  /\ \A c \in Conns : pc'[c] = "launching" => Claim' = title'[arg'[c]]
         /\ (\A c \in Conns : pc'[c] # "launching") => Claim' = uid'
BY DEF OneLaunching, Claim

LEMMA PlayingIs ==
  ASSUME OneAtATime
  PROVE  /\ \A p \in Procs : Alive(p) => Playing = title[p]
         /\ (\A p \in Procs : ~ Alive(p)) => Playing = NoTitle
BY DEF Playing, OneAtATime

LEMMA PlayingIsNext ==
  ASSUME OneAtATime'
  PROVE  /\ \A p \in Procs : Alive(p)' => Playing' = title'[p]
         /\ (\A p \in Procs : ~ Alive(p)') => Playing' = NoTitle
BY DEF Playing, OneAtATime, Alive

LEMMA InitRefines == ASSUME Init PROVE Abstract!Init
<1>1. (\A c \in Conns : pc[c] # "launching") /\ \A p \in Procs : ~ Alive(p)
  BY DEF Init, Alive
<1>2. Claim = uid /\ Playing = NoTitle
  BY <1>1 DEF Claim, Playing
<1> QED
  BY <1>2 DEF Init, Abstract!Init

LEMMA StepRefines ==
  ASSUME OneLaunching, OneLaunching', SerialInv, SerialInv', OneAtATime,
         OneAtATime', [Next]_vars
  PROVE  [Abstract!Next]_Abstract!vars
<1> USE SessionAssumption
    DEF SerialInv, TypeOK, LaunchAlone, Tracked, Titled, LiveIsTracked,
        ReaperOfProc, Procs, NoProc
<1> USE ClaimIs, ClaimIsNext, PlayingIs, PlayingIsNext
<1> DEFINE Same == Claim' = Claim /\ Playing' = Playing /\ uid' = uid
<1>1. ASSUME NEW c \in Conns, NEW u \in Titles, Launch(c, u) PROVE Abstract!Start(u)
  <2>1. PICK p \in Procs :
          /\ st' = [st EXCEPT ![p] = "running"]
          /\ title' = [title EXCEPT ![p] = u]
          /\ Await(c, "launching", p)
    BY <1>1 DEF Launch, Fork
  <2>2. pc[c] = "idle" /\ proc = NoProc /\ uid' = uid
    BY <1>1 DEF Launch
  <2>3. \A d \in Conns : pc[d] # "launching"
    BY <2>1, <2>2 DEF OneLaunching, Await
  <2>4. Claim' = u
    <3>1. pc'[c] = "launching" /\ arg'[c] = p /\ title'[p] = u
      BY <2>1 DEF Await
    <3> QED
      BY <3>1
  <2>5. Playing' = u
    BY <2>1 DEF Alive
  <2>6. Claim = NoTitle
    BY <2>2, <2>3
  <2> QED
    BY <2>2, <2>4, <2>5, <2>6 DEF Abstract!Start
<1>2. ASSUME NEW c \in Conns, LaunchDone(c) PROVE Abstract!Announce
  <2>1. /\ pc[c] = "launching" /\ pc'[c] = "idle" /\ uid' = title[arg[c]]
        /\ UNCHANGED <<st, title>>
    BY <1>2 DEF LaunchDone, Return
  <2>2. Claim = title[arg[c]] /\ title[arg[c]] \in Titles /\ uid = NoTitle
    BY <2>1
  <2>3. Claim' = uid'
    BY <1>2, <2>1 DEF LaunchDone, Return, OneLaunching
  <2>4. Playing' = Playing
    BY <2>1 DEF Playing, Alive
  <2> QED
    BY <2>1, <2>2, <2>3, <2>4 DEF Abstract!Announce
<1>3. ASSUME NEW c \in Conns,
             \/ LaunchRefused(c) \/ CloseIdle(c) \/ Close(c)
             \/ CloseTooLate(c) \/ CloseEnds(c) \/ CloseTimesOut(c)
      PROVE  Same
  <2>1. UNCHANGED <<uid, title>> /\ pc[c] # "launching"
    BY <1>3 DEF LaunchRefused, CloseIdle, Close, CloseTooLate, CloseEnds, CloseTimesOut
  <2>2. \A p \in Procs : Alive(p)' <=> Alive(p)
    <3>1. CASE Close(c)
      BY <3>1 DEF Close, Alive
    <3>2. CASE CloseTimesOut(c)
      BY <3>2 DEF CloseTimesOut, Alive
    <3> QED
      BY <1>3, <3>1, <3>2 DEF LaunchRefused, CloseIdle, CloseTooLate, CloseEnds, Alive
  <2>3. \A d \in Conns : /\ pc'[d] = "launching" <=> pc[d] = "launching"
                         /\ d # c => arg'[d] = arg[d]
    BY <1>3, <2>1 DEF LaunchRefused, CloseIdle, Close, CloseTooLate, CloseEnds,
                      CloseTimesOut, Return, Await
  <2>4. Claim' = Claim
    <3>1. CASE \E d \in Conns : pc[d] = "launching"
      <4> PICK d \in Conns : pc[d] = "launching"
        BY <3>1
      <4>1. Claim = title[arg[d]]
        BY ClaimIs
      <4>2. Claim' = title'[arg'[d]] /\ d # c
        BY <2>1, <2>3, ClaimIsNext
      <4> QED
        BY <2>1, <2>3, <4>1, <4>2
    <3>2. CASE \A d \in Conns : pc[d] # "launching"
      BY <2>1, <2>3, <3>2, ClaimIs, ClaimIsNext
    <3> QED
      BY <3>1, <3>2
  <2>5. Playing' = Playing
    BY <2>1, <2>2
  <2> QED
    BY <2>1, <2>4, <2>5
<1>4. ASSUME NEW p \in Procs, ReapStarts(p) PROVE Same
  BY <1>4 DEF ReapStarts, Claim, Playing, Alive
<1>5. ASSUME NEW p \in Procs, ReapEnds(p) PROVE Abstract!Release
  <2>1. /\ reaper[p] = "waiting" /\ waits[p] = p /\ proc = p
        /\ st[p] = "exited" /\ uid' = NoTitle
        /\ UNCHANGED <<st, title, pc, arg>>
    BY <1>5 DEF ReapEnds
  <2>2. \A c \in Conns : pc[c] # "launching"
    BY <2>1
  <2>3. Claim = title[p] /\ title[p] \in Titles
    <3>1. Claim = uid
      BY <2>2, ClaimIs
    <3> QED
      BY <2>1, <3>1
  <2>4. Claim' = NoTitle
    BY <2>1, <2>2, ClaimIsNext
  <2>5. \A q \in Procs : ~ Alive(q)
    BY <2>1, <2>2 DEF Alive
  <2>6. \A q \in Procs : ~ Alive(q)'
    BY <2>1, <2>5 DEF Alive
  <2>7. Playing = NoTitle /\ Playing' = NoTitle
    BY <2>5, <2>6
  <2> QED
    BY <2>1, <2>3, <2>4, <2>7 DEF Abstract!Release
<1>6. ASSUME NEW p \in Procs, Exit(p) PROVE Abstract!Quit
  <2>1. /\ Alive(p) /\ st' = [st EXCEPT ![p] = "exited"]
        /\ UNCHANGED <<uid, title, pc, arg>>
    BY <1>6 DEF Exit
  <2>2. Playing = title[p] /\ title[p] \in Titles
    BY <2>1 DEF Alive
  <2>3. \A q \in Procs : Alive(q) => q = p
    BY <2>1 DEF OneAtATime
  <2>4. \A q \in Procs : ~ Alive(q)'
    BY <2>1, <2>3 DEF Alive
  <2>5. Playing' = NoTitle /\ Claim' = Claim
    BY <2>1, <2>4 DEF Claim
  <2> QED
    BY <2>1, <2>2, <2>5 DEF Abstract!Quit
<1>7. CASE Restart
  <2>1. /\ uid' = NoTitle
        /\ \A c \in Conns : pc'[c] # "launching"
        /\ \A p \in Procs : ~ Alive(p)'
    BY <1>7 DEF Restart, Alive
  <2>2. Claim' = NoTitle /\ Playing' = NoTitle
    BY <2>1
  <2> QED
    BY <2>1, <2>2 DEF Abstract!Next, Abstract!Fall
<1>8. CASE UNCHANGED vars
  BY <1>8 DEF vars, Claim, Playing, Alive, Abstract!vars
<1> QED
  BY <1>1, <1>2, <1>3, <1>4, <1>5, <1>6, <1>7, <1>8
  DEF Next, Handler, Abstract!Next, Abstract!vars

\* Unless two launches overlap, the daemon keeps the promise OneTitle makes: a
\* title starts only once the previous one has gone and been noted.
THEOREM OneLaunchingImplements ==
  Spec /\ []OneLaunching => ImplementsOneTitle
<1>1. Init => Abstract!Init
  BY InitRefines
<1>2. OneLaunching /\ OneLaunching' /\ SerialInv /\ SerialInv' /\ OneAtATime
        /\ OneAtATime' /\ [Next]_vars => [Abstract!Next]_Abstract!vars
  BY StepRefines
<1> QED
  BY <1>1, <1>2, SerialCorrect, OverlapIsTheOnlyWay, PTL
  DEF Spec, ImplementsOneTitle, Abstract!Spec

\* With one launcher it always does.
THEOREM SerialImplementsOneTitle ==
  ASSUME SerialClients PROVE Spec => ImplementsOneTitle
BY OneLaunchingImplements, OneLauncher, PTL
===============================================================================
