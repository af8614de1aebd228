------------------------------- MODULE ArtCache --------------------------------
(***************************************************************************)
(* Cover art (menu/core/art.gd): memory, files that survive the menu, and  *)
(* at most MAX_PARALLEL downloads at a time for the cards that ask.  A     *)
(* card gets the picture at once or waits for art_ready.                   *)
(*                                                                         *)
(* Only the queue is searched for a request that is already there: what is *)
(* being downloaded can be asked for, and downloaded, again.               *)
(***************************************************************************)
EXTENDS Integers, Sequences, FiniteSetsExt

CONSTANTS
  Keys,         \* pictures: "uid:kind"
  Unreachable,  \* those whose URL HTTPRequest refuses to request
  MaxParallel,  \* MAX_PARALLEL
  MaxCopies,    \* bound: requests for one picture, queued or under way
  MaxRestarts   \* bound: deaths of the menu

ASSUME ArtAssumption ==
  /\ Unreachable \subseteq Keys
  /\ MaxParallel \in Nat \ {0}
  /\ MaxCopies \in Nat /\ MaxRestarts \in Nat

VARIABLES
  memory,    \* DOMAIN _memory
  failed,    \* DOMAIN _failed
  queue,     \* _queue
  jobs,      \* jobs[k]: downloads of k under way
  active,    \* _active
  file,      \* file[k]: "none", "good" or "bad" (not a picture)
  waiting,   \* pictures a card shows a placeholder for
  restarts

ram == <<memory, failed, queue, jobs, active, waiting>>
artVars == <<ram, file, restarts>>

ArtInit ==
  /\ memory = {} /\ failed = {} /\ queue = <<>> /\ active = 0
  /\ jobs = [k \in Keys |-> 0]
  /\ file \in [Keys -> {"none", "good", "bad"}]
  /\ waiting = {}
  /\ restarts = 0

\* How much of q _pump takes out when busy downloads are under way: a job that
\* fails at once leaves its slot to the next.
Taken(q, busy) ==
  LET Slots(n) == Cardinality({i \in 1 .. n : q[i] \notin Unreachable}) IN
  Max({n \in 0 .. Len(q) : n = 0 \/ busy + Slots(n - 1) < MaxParallel})

\* _pump, with queue q, busy downloads under way, those in js, and failures in bad.
Pump(q, busy, js, bad) ==
  LET n == Taken(q, busy)
      Begun(k) == IF k \in Unreachable THEN {} ELSE {i \in 1 .. n : q[i] = k}
  IN
  /\ queue' = SubSeq(q, n + 1, Len(q))
  /\ jobs' = [k \in Keys |-> js[k] + Cardinality(Begun(k))]
  /\ active' = busy + Cardinality(UNION {Begun(k) : k \in Keys})
  /\ failed' = bad \union (Unreachable \intersect {q[i] : i \in 1 .. n})

Queued(k) == \E i \in DOMAIN queue : queue[i] = k

\* Mutant: the files are not looked at.
GetFetches(k) ==
  /\ k \notin memory /\ k \notin failed
  /\ waiting' = waiting \union {k}
  /\ IF Queued(k)
     THEN UNCHANGED <<queue, jobs, active, failed>>
     ELSE /\ jobs[k] < MaxCopies
          /\ Pump(Append(queue, k), active, jobs, failed)
  /\ UNCHANGED <<memory, file, restarts>>

\* get_art, by a card that is made or scrolls into view (and finds nothing in
\* memory, nor that it failed).  A file that is no picture is fetched again.
Get(k) ==
  /\ k \notin memory /\ k \notin failed
  /\ IF file[k] = "good"
     THEN /\ memory' = memory \union {k}
          /\ UNCHANGED <<queue, jobs, active, failed, waiting>>
     ELSE /\ waiting' = waiting \union {k}
          /\ UNCHANGED memory
          /\ IF Queued(k)
             THEN UNCHANGED <<queue, jobs, active, failed>>
             ELSE /\ jobs[k] < MaxCopies
                  /\ Pump(Append(queue, k), active, jobs, failed)
  /\ UNCHANGED <<file, restarts>>

Ended(k) == [jobs EXCEPT ![k] = @ - 1]

\* Mutant: a miss returns without looking at the queue.
MissIdle(k) ==
  /\ jobs[k] > 0
  /\ jobs' = Ended(k) /\ active' = active - 1
  /\ failed' = failed \union {k}
  /\ UNCHANGED <<memory, queue, file, waiting, restarts>>

\* _on_done for a download that failed, timed out, was no 200 or was empty.
Miss(k) ==
  /\ jobs[k] > 0
  /\ Pump(queue, active - 1, Ended(k), failed \union {k})
  /\ UNCHANGED <<memory, file, waiting, restarts>>

\* Mutant: what is no picture is removed and forgotten.
GotForgets(k) ==
  /\ jobs[k] > 0
  /\ \E now \in {"good", "bad", file[k]} :
       /\ Pump(queue, active - 1, Ended(k), failed)
       /\ IF now = "good"
          THEN /\ file' = [file EXCEPT ![k] = "good"]
               /\ memory' = memory \union {k}
               /\ waiting' = waiting \ {k}
          ELSE /\ file' = [file EXCEPT ![k] = "none"]
               /\ UNCHANGED <<memory, waiting>>
  /\ UNCHANGED restarts

\* _on_done with a body, a picture or not, that can be written or not.  What is
\* then in the file counts.
Got(k) ==
  /\ jobs[k] > 0
  /\ \E now \in {"good", "bad", file[k]} :
       IF now = "good"
       THEN /\ file' = [file EXCEPT ![k] = "good"]
            /\ memory' = memory \union {k}
            /\ waiting' = waiting \ {k}
            /\ Pump(queue, active - 1, Ended(k), failed)
       ELSE /\ file' = [file EXCEPT ![k] = "none"]
            /\ Pump(queue, active - 1, Ended(k), failed \union {k})
            /\ UNCHANGED <<memory, waiting>>
  /\ UNCHANGED restarts

\* The menu dies, perhaps while it writes a file, and is started again.
Restart ==
  /\ restarts < MaxRestarts
  /\ restarts' = restarts + 1
  /\ \/ UNCHANGED file
     \/ \E k \in Keys : jobs[k] > 0 /\ file' = [file EXCEPT ![k] = "bad"]
  /\ memory' = {} /\ failed' = {} /\ queue' = <<>> /\ active' = 0
  /\ jobs' = [k \in Keys |-> 0]
  /\ waiting' = {}

ArtNext ==
  \/ \E k \in Keys : Get(k) \/ Miss(k) \/ Got(k)
  \/ Restart

\* Every download ends: HTTPRequest has a timeout.
ArtFairness == \A k \in Keys : WF_artVars(Miss(k) \/ Got(k))

ArtSpec == ArtInit /\ [][ArtNext]_artVars /\ ArtFairness

-------------------------------------------------------------------------------
\* The pump: no more slots are taken than there are, and none stays free while a
\* request is queued.
SlotsFull == active =< MaxParallel /\ (queue # <<>> => active = MaxParallel)

\* The downloads that js counts, those of a picture told apart by numbers.
Downloads(js) == UNION {{k} \X (1 .. js[k]) : k \in Keys}

\* The types; the slots taken are the downloads under way, and they are full.
ArtTypeOK ==
  /\ memory \subseteq Keys /\ failed \subseteq Keys /\ waiting \subseteq Keys
  /\ file \in [Keys -> {"none", "good", "bad"}]
  /\ jobs \in [Keys -> Nat]
  /\ active = Cardinality(Downloads(jobs))
  /\ SlotsFull

Pending(k) == Queued(k) \/ jobs[k] > 0

\* No card waits for nothing: each placeholder is filled, or the picture is known
\* never to come ("lets callers stop waiting"), unless the menu goes.
CardSettles ==
  \A k \in Keys : k \in waiting ~> (k \in failed \/ k \notin waiting)

\* "fetch once, cache forever": a picture on disk that nobody has asked for at
\* the time is never fetched or lost, whatever happens to others and however
\* often the menu is started again.
CachedForever ==
  [][\A k \in Keys : file[k] = "good" /\ ~ Pending(k) =>
       file'[k] = "good" /\ ~ Pending(k)']_artVars
===============================================================================
