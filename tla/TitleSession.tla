----------------------------- MODULE TitleSession -----------------------------
(***************************************************************************)
(* SessionManager (daemon/pentad/session.py) as the server drives it: one  *)
(* title.launch or title.close handler at a time per connection, any       *)
(* number of connections, all interleaving on one asyncio loop.  A step of *)
(* a handler runs from one await to the next.                              *)
(*                                                                         *)
(* A title's process is a member of Procs.  It may quit whenever it likes, *)
(* may ignore SIGTERM, and dies of SIGKILL.  systemd restarts the daemon   *)
(* and, with the unit's default KillMode, takes the title down with it.    *)
(***************************************************************************)
EXTENDS Integers, FiniteSets

CONSTANTS
  Conns,       \* server-side client tasks that may exist at the same time
  Launchers,   \* those whose client launches titles; any of them closes
  Titles,      \* uids a client may name
  Launchable,  \* those the library knows and that have a launch command
  NoTitle,     \* None, as a uid
  MaxProcs     \* bound: processes started in a run

ASSUME SessionAssumption ==
  /\ Launchers \subseteq Conns
  /\ Launchable \subseteq Titles
  /\ NoTitle \notin Titles
  /\ MaxProcs \in Nat

NoProc == 0
Procs == 1 .. MaxProcs

VARIABLES
  proc,      \* self._proc
  uid,       \* self._uid
  st,        \* st[p]: what the operating system knows of process p
  title,     \* title[p]: the title process p was started for
  pc,        \* pc[c]: where connection c's handler is suspended
  arg,       \* arg[c]: the process that handler holds in a local
  reply,     \* reply[c]: the last answer written to c
  reaper,    \* reaper[p]: where the _reap task created for process p stands
  waits,     \* waits[p]: the process that task waits for
  exits      \* exits[p]: title.exited events emitted for process p

vars == <<proc, uid, st, title, pc, arg, reply, reaper, waits, exits>>

ProcStates == {"unborn", "running", "terminating", "killed", "exited"}
ReaperStates == {"none", "created", "waiting", "done", "lost"}

Alive(p) == st[p] \in {"running", "terminating", "killed"}

Init ==
  /\ proc = NoProc
  /\ uid = NoTitle
  /\ st = [p \in Procs |-> "unborn"]
  /\ title = [p \in Procs |-> NoTitle]
  /\ pc = [c \in Conns |-> "idle"]
  /\ arg = [c \in Conns |-> NoProc]
  /\ reply = [c \in Conns |-> "none"]
  /\ reaper = [p \in Procs |-> "none"]
  /\ waits = [p \in Procs |-> NoProc]
  /\ exits = [p \in Procs |-> 0]

Return(c, answer) ==
  /\ pc' = [pc EXCEPT ![c] = "idle"]
  /\ arg' = [arg EXCEPT ![c] = NoProc]
  /\ reply' = [reply EXCEPT ![c] = answer]

Await(c, where, p) ==
  /\ pc' = [pc EXCEPT ![c] = where]
  /\ arg' = [arg EXCEPT ![c] = p]
  /\ reply' = [reply EXCEPT ![c] = "none"]

-------------------------------------------------------------------------------
Fork(c, u) ==
  \E p \in Procs :
    /\ st[p] = "unborn"
    /\ \A q \in Procs : q < p => st[q] # "unborn"
    /\ st' = [st EXCEPT ![p] = "running"]
    /\ title' = [title EXCEPT ![p] = u]
    /\ Await(c, "launching", p)

\* Mutant: the check of self._proc is forgotten.
LaunchUnchecked(c, u) ==
  /\ pc[c] = "idle" /\ c \in Launchers
  /\ u \in Launchable
  /\ Fork(c, u)
  /\ UNCHANGED <<proc, uid, reaper, waits, exits>>

\* title.launch up to its await: the checks and the fork happen in one step of
\* the loop (the transport's constructor forks before it suspends), but
\* self._proc is still None when the handler suspends.
Launch(c, u) ==
  /\ pc[c] = "idle" /\ c \in Launchers
  /\ proc = NoProc
  /\ u \in Launchable
  /\ Fork(c, u)
  /\ UNCHANGED <<proc, uid, reaper, waits, exits>>

\* "already running", an unknown uid, an empty launch command, or (whatever the
\* state) an executable that cannot be started: an error reply, nothing else.
LaunchRefused(c) ==
  /\ pc[c] = "idle"
  /\ Return(c, "error")
  /\ UNCHANGED <<proc, uid, st, title, reaper, waits, exits>>

\* Mutant: no task is created to wait for the title.
LaunchDoneUnreaped(c) ==
  /\ pc[c] = "launching"
  /\ proc' = arg[c]
  /\ uid' = title[arg[c]]
  /\ Return(c, "ok")
  /\ UNCHANGED <<st, title, reaper, waits, exits>>

\* The rest of launch: everything after the await, and the new _reap task.
LaunchDone(c) ==
  /\ pc[c] = "launching"
  /\ proc' = arg[c]
  /\ uid' = title[arg[c]]
  /\ reaper' = [reaper EXCEPT ![arg[c]] = "created"]
  /\ Return(c, "ok")
  /\ UNCHANGED <<st, title, waits, exits>>

\* _reap reads self._proc when the task first runs, not when it was created.
ReapStarts(p) ==
  /\ reaper[p] = "created"
  /\ waits' = [waits EXCEPT ![p] = proc]
  /\ reaper' = [reaper EXCEPT ![p] =
                  IF proc = NoProc THEN "done" ELSE "waiting"]
  /\ UNCHANGED <<proc, uid, st, title, pc, arg, reply, exits>>

\* Whichever process it waited for, it clears the fields of the current one.
ReapEnds(p) ==
  /\ reaper[p] = "waiting"
  /\ st[waits[p]] = "exited"
  /\ proc' = NoProc
  /\ uid' = NoTitle
  /\ exits' = [exits EXCEPT ![waits[p]] = @ + 1]
  /\ reaper' = [reaper EXCEPT ![p] = "done"]
  /\ UNCHANGED <<st, title, pc, arg, reply, waits>>

\* title.close up to its await: nothing to do, or SIGTERM.
CloseIdle(c) ==
  /\ pc[c] = "idle"
  /\ proc = NoProc
  /\ Return(c, "ok")
  /\ UNCHANGED <<proc, uid, st, title, reaper, waits, exits>>

Close(c) ==
  /\ pc[c] = "idle"
  /\ proc # NoProc
  /\ st' = [st EXCEPT ![proc] = IF @ = "running" THEN "terminating" ELSE @]
  /\ Await(c, "closing", proc)
  /\ UNCHANGED <<proc, uid, title, reaper, waits, exits>>

\* terminate() on a process whose exit asyncio has seen raises.
CloseTooLate(c) ==
  /\ pc[c] = "idle"
  /\ proc # NoProc
  /\ st[proc] = "exited"
  /\ Return(c, "error")
  /\ UNCHANGED <<proc, uid, st, title, reaper, waits, exits>>

\* Mutant: close() announces the exit, and so does _reap.
CloseEndsLoudly(c) ==
  /\ pc[c] = "closing"
  /\ st[arg[c]] = "exited"
  /\ exits' = [exits EXCEPT ![arg[c]] = @ + 1]
  /\ Return(c, "ok")
  /\ UNCHANGED <<proc, uid, st, title, reaper, waits>>

CloseEnds(c) ==
  /\ pc[c] = "closing"
  /\ st[arg[c]] = "exited"
  /\ Return(c, "ok")
  /\ UNCHANGED <<proc, uid, st, title, reaper, waits, exits>>

\* Mutant: a title that ignores SIGTERM is left alone.
CloseGivesUp(c) ==
  /\ pc[c] = "closing"
  /\ Alive(arg[c])
  /\ Return(c, "ok")
  /\ UNCHANGED <<proc, uid, st, title, reaper, waits, exits>>

\* Mutant: after kill() the title is taken for gone.
CloseForgets(c) ==
  /\ pc[c] = "closing"
  /\ Alive(arg[c])
  /\ st' = [st EXCEPT ![arg[c]] = "killed"]
  /\ proc' = NoProc
  /\ uid' = NoTitle
  /\ Return(c, "ok")
  /\ UNCHANGED <<title, reaper, waits, exits>>

\* After 8 s: kill, and answer without waiting for the death.
CloseTimesOut(c) ==
  /\ pc[c] = "closing"
  /\ Alive(arg[c])
  /\ st' = [st EXCEPT ![arg[c]] = "killed"]
  /\ Return(c, "ok")
  /\ UNCHANGED <<proc, uid, title, reaper, waits, exits>>

-------------------------------------------------------------------------------
\* The title's own doing.
Exit(p) ==
  /\ Alive(p)
  /\ st' = [st EXCEPT ![p] = "exited"]
  /\ UNCHANGED <<proc, uid, title, pc, arg, reply, reaper, waits, exits>>

Dies(p) == st[p] = "killed" /\ Exit(p)

\* pentad.service: Restart=always, and no KillMode, hence the whole cgroup.
Restart ==
  /\ proc' = NoProc
  /\ uid' = NoTitle
  /\ st' = [p \in Procs |-> IF Alive(p) THEN "exited" ELSE st[p]]
  /\ pc' = [c \in Conns |-> "idle"]
  /\ arg' = [c \in Conns |-> NoProc]
  /\ reply' = [c \in Conns |-> "none"]
  /\ reaper' = [p \in Procs |->
                  IF st[p] = "unborn" \/ reaper[p] = "done"
                  THEN reaper[p] ELSE "lost"]
  /\ UNCHANGED <<title, waits, exits>>

Handler(c) ==
  \/ \E u \in Titles : Launch(c, u)
  \/ LaunchRefused(c)
  \/ LaunchDone(c)
  \/ CloseIdle(c)
  \/ Close(c)
  \/ CloseTooLate(c)
  \/ CloseEnds(c)
  \/ CloseTimesOut(c)

Next ==
  \/ \E c \in Conns : Handler(c)
  \/ \E p \in Procs : ReapStarts(p) \/ ReapEnds(p) \/ Exit(p)
  \/ Restart

\* The loop runs what is ready, the 8 s timer fires, SIGKILL is final.  Titles
\* are not asked to quit, nor clients to send anything.
Fairness ==
  /\ \A c \in Conns : WF_vars(LaunchDone(c)) /\ WF_vars(CloseEnds(c))
                      /\ WF_vars(CloseTimesOut(c))
  /\ \A p \in Procs : WF_vars(ReapStarts(p)) /\ WF_vars(ReapEnds(p))
                      /\ WF_vars(Dies(p))

Spec == Init /\ [][Next]_vars /\ Fairness

-------------------------------------------------------------------------------
\* A suspended handler always has a process in hand.
TypeOK ==
  /\ proc \in Procs \union {NoProc}
  /\ uid \in Titles \union {NoTitle}
  /\ st \in [Procs -> ProcStates]
  /\ title \in [Procs -> Titles \union {NoTitle}]
  /\ pc \in [Conns -> {"idle", "launching", "closing"}]
  /\ arg \in [Conns -> Procs \union {NoProc}]
  /\ \A c \in Conns : /\ pc[c] # "idle" => arg[c] \in Procs
                      /\ pc[c] = "launching" => c \in Launchers
  /\ reply \in [Conns -> {"none", "ok", "error"}]
  /\ reaper \in [Procs -> ReaperStates]
  /\ waits \in [Procs -> Procs \union {NoProc}]
  /\ \A p \in Procs : reaper[p] = "waiting" => waits[p] \in Procs
  /\ exits \in [Procs -> Nat]

\* Games run one at a time: no two title processes are ever alive together.
\* launch's check of self._proc is what is meant to see to it.
OneAtATime == \A p, q \in Procs : Alive(p) /\ Alive(q) => p = q

\* A live title is the one the daemon tracks (running_uid names it, title.close
\* reaches it) unless the handler that launched it has yet to return.
LiveIsTracked ==
  \A p \in Procs : Alive(p) =>
    \/ proc = p /\ uid = title[p]
    \/ \E c \in Conns : pc[c] = "launching" /\ arg[c] = p

\* The menu restores itself on title.exited: no title's exit is announced twice,
\* nor while the title still runs.
ExitedOnce ==
  \A p \in Procs : exits[p] =< 1 /\ (exits[p] > 0 => st[p] = "exited")

\* Every exit is announced, however the title ended, unless the daemon died
\* with it: the menu's veil is lifted.
ExitReported ==
  \A p \in Procs :
    st[p] = "exited" ~> (exits[p] > 0 \/ reaper[p] = "lost")

\* title.close is the last word: the title it was aimed at dies, even one that
\* ignores SIGTERM, and whoever asked gets an answer.
CloseIsFinal ==
  \A c \in Conns, p \in Procs :
    (pc[c] = "closing" /\ arg[c] = p) ~> (pc[c] = "idle" /\ st[p] = "exited")

\* A title holds the console from its fork to its reaping; see OneTitle.
Claim ==
  IF \E c \in Conns : pc[c] = "launching"
  THEN title[arg[CHOOSE c \in Conns : pc[c] = "launching"]] ELSE uid
Playing ==
  IF \E p \in Procs : Alive(p)
  THEN title[CHOOSE p \in Procs : Alive(p)] ELSE NoTitle

Abstract == INSTANCE OneTitle WITH claim <- Claim, playing <- Playing,
                                   shown <- uid

\* With one launcher the daemon implements OneTitle.
ImplementsOneTitle == Abstract!Spec
===============================================================================
