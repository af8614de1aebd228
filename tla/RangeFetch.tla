------------------------------ MODULE RangeFetch ------------------------------
(***************************************************************************)
(* tools/zipget.py and tools/zipfinish.py: one member of a remote zip,     *)
(* fetched over several connections, and what to do when that was          *)
(* interrupted: the signature of the URL has expired, a connection dropped *)
(* for good, or the tool was stopped.  The temporary directory with the    *)
(* parts survives.                                                         *)
(*                                                                         *)
(* Each member of the archive is at an offset, with a local header and     *)
(* comp bytes.  Bytes are named by their offsets: a file is the sequence   *)
(* of the offsets whose bytes it holds.  A number that does not fit its    *)
(* field of the directory (FieldMax) is moved to the extra field.          *)
(* Inflating is left out: a member is what its bytes are.                  *)
(***************************************************************************)
EXTENDS Integers, Sequences, FiniteSets

CONSTANTS
  Archive,     \* the members: their offsets and sizes
  FieldMax,    \* 0xFFFFFFFF
  MaxConns,    \* bound: --conns
  Workers,     \* max_workers of zipfinish
  MaxTroubles  \* bound: retries, failures and stops

Members == [at : Nat, head : Nat, comp : Nat, raw : Nat]

ASSUME FetchAssumption ==
  /\ Archive \in Seq(Members) /\ Archive # <<>>
  /\ {FieldMax, MaxConns, Workers} \subseteq Nat \ {0}
  /\ MaxTroubles \in Nat

VARIABLES
  want,      \* the member that matches the pattern
  conns,     \* --conns, --count; 0 before the first call
  start, size, \* where the data of the member was found
  tmp,       \* the temporary directory exists
  part,      \* part[i]: the file p<i>
  more,      \* more[i]: the file p<i>.part of a top-up, or what is left to append of it
  job,       \* job[i]: "none", "todo", "run", "got" (more[i] is to be appended), "ok", "failed"
  pc,        \* what runs: "idle", "fetch", "join", "topup", "rejoin", "done"
  next,      \* the part to be joined next
  out,       \* the output file
  troubles

args == <<want, conns, start, size>>
dir == <<tmp, part, more>>
vars == <<args, dir, job, pc, next, out, troubles>>

Ids == 0 .. MaxConns - 1

-------------------------------------------------------------------------------
Field(v) == IF v >= FieldMax THEN FieldMax ELSE v
Moved(v) == IF v >= FieldMax THEN <<v>> ELSE <<>>

\* The entries of the central directory, as the archive's writer makes them.
Cen(m) ==
  [usize |-> Field(Archive[m].raw), csize |-> Field(Archive[m].comp),
   lho |-> Field(Archive[m].at),
   extra |-> Moved(Archive[m].raw) \o Moved(Archive[m].comp) \o Moved(Archive[m].at)]

-------------------------------------------------------------------------------
\* Mutant: the extra field is read in the order of the other fields' use.
FoundSwapped(m) ==
  LET e == Cen(m)
      big(v) == IF v = FieldMax THEN 1 ELSE 0
  IN [csize |-> IF e.csize = FieldMax THEN e.extra[1] ELSE e.csize,
      lho |-> IF e.lho = FieldMax THEN e.extra[big(e.usize) + big(e.csize) + 1] ELSE e.lho]

\* find_member(): what the directory says of the member, the values that were moved
\* taken from the extra field in the order usize, csize, lho.
Found(m) ==
  LET e == Cen(m)
      big(v) == IF v = FieldMax THEN 1 ELSE 0
  IN [csize |-> IF e.csize = FieldMax THEN e.extra[big(e.usize) + 1] ELSE e.csize,
      lho |-> IF e.lho = FieldMax THEN e.extra[big(e.usize) + big(e.csize) + 1] ELSE e.lho]

Chunk == (size + conns - 1) \div conns
First(i) == start + i * Chunk
Least(x, y) == IF x < y THEN x ELSE y

Last(i) == Least(First(i) + Chunk - 1, start + size - 1)
Jobs == {i \in Ids : i < conns /\ First(i) <= Last(i)}
Width(i) == Last(i) - First(i) + 1

NoJobs == [i \in Ids |-> "none"]
NoParts == [i \in Ids |-> <<>>]

Init ==
  /\ want \in 1 .. Len(Archive)
  /\ conns = 0 /\ start = 0 /\ size = 0
  /\ tmp = FALSE /\ part = NoParts /\ more = NoParts
  /\ job = NoJobs
  /\ pc = "idle" /\ next = 0 /\ out = <<>>
  /\ troubles = 0

Trouble == troubles < MaxTroubles /\ troubles' = troubles + 1

-------------------------------------------------------------------------------
\* zipget.py is started: the member is located, and its span split.  A temporary
\* directory left by an earlier call is not looked at again.  An empty member leaves
\* nothing to do, which the pool, of no workers, refuses.
Get(c) ==
  /\ pc = "idle"
  /\ conns' = c
  /\ size' = Found(want).csize
  /\ start' = Found(want).lho + Archive[want].head
  /\ tmp' = TRUE
  /\ part' = NoParts /\ more' = NoParts
  /\ job' = [i \in Ids |-> IF i \in Jobs' THEN "run" ELSE "none"]
  /\ pc' = IF Jobs' = {} THEN "idle" ELSE "fetch"
  /\ UNCHANGED <<want, next, out, troubles>>

\* curl writes what arrives.
Receive(i) ==
  /\ pc = "fetch" /\ job[i] = "run"
  /\ Len(part[i]) < Width(i)
  /\ part' = [part EXCEPT ![i] = Append(@, First(i) + Len(@))]
  /\ UNCHANGED <<args, tmp, more, job, pc, next, out, troubles>>

Received(i) ==
  /\ pc = "fetch" /\ job[i] = "run"
  /\ Len(part[i]) = Width(i)
  /\ job' = [job EXCEPT ![i] = "ok"]
  /\ UNCHANGED <<args, dir, pc, next, out, troubles>>

\* The connection drops, or the signature has expired: curl tries again, from the start
\* of its range, or gives up.
Drop(i) ==
  /\ pc = "fetch" /\ job[i] = "run"
  /\ Trouble
  /\ \/ part' = [part EXCEPT ![i] = <<>>] /\ UNCHANGED job
     \/ job' = [job EXCEPT ![i] = "failed"] /\ UNCHANGED part
  /\ UNCHANGED <<args, tmp, more, pc, next, out>>

Failed == \E i \in Jobs : job[i] = "failed"

\* The pool has ended.  A failure is raised only now, and the directory stays.
Fetched ==
  /\ pc = "fetch"
  /\ \A i \in Jobs : job[i] # "run"
  /\ IF Failed THEN pc' = "idle" /\ UNCHANGED <<next, out>>
               ELSE pc' = "join" /\ next' = 0 /\ out' = <<>>
  /\ job' = NoJobs
  /\ UNCHANGED <<args, dir, troubles>>

\* The parts are written one after the other.
Join ==
  /\ pc \in {"join", "rejoin"} /\ next \in Jobs
  /\ out' = out \o part[next]
  /\ next' = next + 1
  /\ UNCHANGED <<args, dir, job, pc, troubles>>

\* zipget removes its directory; zipfinish leaves it, but nothing will look at it, and
\* nobody needs the numbers any more.
Joined ==
  /\ pc \in {"join", "rejoin"} /\ next \notin Jobs
  /\ tmp' = FALSE /\ part' = NoParts /\ more' = NoParts
  /\ conns' = 0 /\ start' = 0 /\ size' = 0 /\ next' = 0
  /\ pc' = "done"
  /\ UNCHANGED <<want, job, out, troubles>>

-------------------------------------------------------------------------------
Short == {i \in Jobs : Len(part[i]) < Width(i)}

\* zipfinish.py is started, with the numbers of the call that did not end.
Finish ==
  /\ pc = "idle" /\ tmp
  /\ pc' = "topup"
  /\ job' = [i \in Ids |-> IF i \in Jobs /\ Short # {} THEN "todo" ELSE "none"]
  /\ UNCHANGED <<args, dir, next, out, troubles>>

Running == {i \in Jobs : job[i] \in {"run", "got"}}

\* top_up(): a worker takes the next job, and has nothing to do or signs a new URL.
TopUp(i) ==
  /\ pc = "topup" /\ job[i] = "todo"
  /\ \A j \in Jobs : job[j] = "todo" => i <= j
  /\ Cardinality(Running) < Workers
  /\ job' = [job EXCEPT ![i] = IF i \in Short THEN "run" ELSE "ok"]
  /\ more' = [more EXCEPT ![i] = IF i \in Short THEN <<>> ELSE @]
  /\ UNCHANGED <<args, tmp, part, pc, next, out, troubles>>

\* Where the range that is asked for begins.
From(i) == First(i) + Len(part[i])

\* curl writes what arrives to p<i>.part.
ReceiveMore(i) ==
  /\ pc = "topup" /\ job[i] = "run"
  /\ From(i) + Len(more[i]) <= Last(i)
  /\ more' = [more EXCEPT ![i] = Append(@, From(i) + Len(@))]
  /\ UNCHANGED <<args, tmp, part, job, pc, next, out, troubles>>

ReceivedMore(i) ==
  /\ pc = "topup" /\ job[i] = "run"
  /\ From(i) + Len(more[i]) > Last(i)
  /\ job' = [job EXCEPT ![i] = "got"]
  /\ UNCHANGED <<args, dir, pc, next, out, troubles>>

DropMore(i) ==
  /\ pc = "topup" /\ job[i] = "run"
  /\ Trouble
  /\ \/ more' = [more EXCEPT ![i] = <<>>] /\ UNCHANGED job
     \/ job' = [job EXCEPT ![i] = "failed"] /\ UNCHANGED more
  /\ UNCHANGED <<args, tmp, part, pc, next, out>>

\* What has come is appended to p<i>, not all at once.
AppendMore(i) ==
  /\ pc = "topup" /\ job[i] = "got"
  /\ IF more[i] # <<>>
       THEN /\ part' = [part EXCEPT ![i] = Append(@, Head(more[i]))]
            /\ more' = [more EXCEPT ![i] = Tail(@)]
            /\ UNCHANGED job
       ELSE job' = [job EXCEPT ![i] = "ok"] /\ UNCHANGED <<part, more>>
  /\ UNCHANGED <<args, tmp, pc, next, out, troubles>>

\* The pool has ended, and cancelled what had not begun if a job has failed.
ToppedUp ==
  /\ pc = "topup"
  /\ Running = {}
  /\ Failed \/ \A i \in Jobs : job[i] # "todo"
  /\ IF Failed \/ \E i \in Jobs : Len(part[i]) # Width(i)
       THEN pc' = "idle" /\ UNCHANGED <<next, out>>
       ELSE pc' = "rejoin" /\ next' = 0 /\ out' = <<>>
  /\ job' = NoJobs
  /\ UNCHANGED <<args, dir, troubles>>

-------------------------------------------------------------------------------
\* Ctrl-C, or the machine goes down; perhaps while zipget removes the parts.
Stop ==
  /\ pc \notin {"idle", "done"}
  /\ Trouble
  /\ pc' = "idle" /\ job' = NoJobs
  /\ \/ UNCHANGED part
     \/ /\ pc = "join" /\ next \notin Jobs
        /\ \E k \in Jobs : part' = [i \in Ids |-> IF i <= k THEN <<>> ELSE part[i]]
  /\ UNCHANGED <<args, tmp, more, next, out>>

Progress ==
  \/ Fetched \/ Join \/ Joined \/ Finish \/ ToppedUp
  \/ \E i \in Jobs :
       \/ Receive(i) \/ Received(i)
       \/ TopUp(i) \/ ReceiveMore(i) \/ ReceivedMore(i) \/ AppendMore(i)

Next ==
  \/ \E c \in 1 .. MaxConns : Get(c)
  \/ Progress
  \/ \E i \in Jobs : Drop(i) \/ DropMore(i)
  \/ Stop

\* The tools run, and who asked for the file runs them until it is there.
Fairness == WF_vars(\E c \in 1 .. MaxConns : Get(c)) /\ WF_vars(Progress)

Spec == Init /\ [][Next]_vars /\ Fairness

-------------------------------------------------------------------------------
\* The bytes from offset a on, n of them.
Bytes(a, n) == [k \in 1 .. n |-> a + k - 1]

\* "The bytes already fetched are perfectly good; only the tails are missing"
\* (zipfinish.py:6): whatever was cut short, and when, a part that is left is the
\* beginning of its range, and no longer than that.
PartsGood ==
  \A i \in Jobs : Len(part[i]) <= Width(i) /\ part[i] = Bytes(First(i), Len(part[i]))

\* What is there in the end is the member that was asked for, all of it, from the
\* right place and in order, for every size of the member, every number of
\* connections, and whatever was interrupted on the way.
OutIsMember ==
  pc = "done" =>
    out = Bytes(Archive[want].at + Archive[want].head, Archive[want].comp)

\* zipfinish never takes away from what zipget has fetched.
NothingLost ==
  [][pc = "topup" => \A i \in Ids : Len(part'[i]) >= Len(part[i])]_vars
===============================================================================
