----------------------------- MODULE DiskInstaller ----------------------------
(***************************************************************************)
(* Installer (daemon/pentad/installer.py): install.start checks its target *)
(* and its confirmation over several awaits, then starts a task that runs  *)
(* dd over the whole disk and reads its progress from a pipe.  Handlers of *)
(* several connections interleave, and so do dd itself, the hot-plugging   *)
(* of disks (a device name, /dev/sdb, is not a disk), and systemd, which   *)
(* takes dd down together with the daemon.                                 *)
(***************************************************************************)
EXTENDS Integers

CONSTANTS
  Conns,      \* server-side client tasks that may exist at the same time
  Names,      \* device names
  BootName,   \* the one PENTA runs from; busy, so never given to another disk
  Disks,      \* disks
  BootDisk,
  Size,       \* Size[d], in units of MIN_TARGET_BYTES
  NoDisk,
  PipeSize,   \* bound: lines of progress that wait to be read
  MaxClones,  \* bound: installs that start
  MaxSwaps,   \* bound: disks plugged or unplugged
  MaxDeaths   \* bound: deaths of the daemon

ASSUME DiskAssumption ==
  /\ BootName \in Names
  /\ BootDisk \in Disks
  /\ NoDisk \notin Disks /\ NoDisk \notin Names
  /\ Size \in [Disks -> Nat]
  /\ PipeSize \in Nat \ {0}
  /\ MaxClones \in Nat /\ MaxSwaps \in Nat /\ MaxDeaths \in Nat

Clones == 1 .. MaxClones

VARIABLES
  at,          \* at[n]: the disk that has name n
  since,       \* since[n]: the swap by which it got that name
  looked,      \* looked[n]: the disk the user last saw listed under n
  lookedAt,    \* the swaps there had been by then
  pc,          \* pc[c]: where connection c's install() is suspended
  dev,         \* dev[c]: its device argument
  token,       \* token[c]: the name in its confirm argument
  saw,         \* saw[c]: the disk the user saw under that name
  sawAt,       \* sawAt[c]: ... and the swaps there had been
  listed,      \* listed[c]: the disk list_targets() saw under dev[c]
  running,     \* self._running
  stage,       \* stage[k]: what the k-th _clone task is doing
  target,      \* target[k]: the name it was given
  meant,       \* meant[k]: the disk the user saw and confirmed
  meantAt,     \* meantAt[k]: ... and the swaps there had been
  dd,          \* dd[k]: its dd
  opened,      \* opened[k]: the disk dd opened
  openedAt,    \* openedAt[k]: the swaps there had been
  copied,      \* copied[k]: how much dd has written
  lines,       \* lines[k]: progress that waits in the pipe
  relabelled,  \* relabelled[k]: the disk sgdisk has written to
  swaps,
  deaths

plugs == <<at, since, swaps>>
eyes == <<looked, lookedAt>>
call == <<pc, dev, token, saw, sawAt, listed>>
given == <<target, meant, meantAt>>
writer == <<dd, opened, openedAt, copied, lines>>
vars == <<plugs, eyes, call, running, stage, given, writer, relabelled, deaths>>

Stages == {"unborn", "starting", "copying", "finishing", "syncing", "ok", "failed", "killed"}
Cloning(k) == stage[k] \in {"starting", "copying", "finishing", "syncing"}

Init ==
  /\ at \in [Names -> Disks \union {NoDisk}]
  /\ at[BootName] = BootDisk
  /\ \A m, n \in Names : at[m] = at[n] /\ at[m] # NoDisk => m = n
  /\ since = [n \in Names |-> 0]
  /\ looked = at /\ lookedAt = 0
  /\ pc = [c \in Conns |-> "idle"]
  /\ dev = [c \in Conns |-> BootName] /\ token = dev
  /\ saw = [c \in Conns |-> NoDisk] /\ listed = saw
  /\ sawAt = [c \in Conns |-> 0]
  /\ running = FALSE
  /\ stage = [k \in Clones |-> "unborn"]
  /\ target = [k \in Clones |-> BootName]
  /\ meant = [k \in Clones |-> NoDisk] /\ opened = meant /\ relabelled = meant
  /\ meantAt = [k \in Clones |-> 0] /\ openedAt = meantAt
  /\ copied = meantAt /\ lines = meantAt
  /\ dd = [k \in Clones |-> "none"]
  /\ swaps = 0 /\ deaths = 0

\* Name n has changed hands after the swap numbered t.
Moved(n, t) == since[n] > t

\* lsblk reports the disk, and does not fail.
Listed(n) == at[n] # NoDisk

\* What boot_disk() may return: findmnt or lsblk may fail.
BootAnswers == {BootName, NoDisk}

-------------------------------------------------------------------------------
\* install.targets, and the user reads the list.
Look ==
  /\ looked' = at /\ lookedAt' = swaps
  /\ UNCHANGED <<plugs, call, running, stage, given, writer, relabelled, deaths>>

Suspend(c, where) == pc' = [pc EXCEPT ![c] = where]

\* install() returns or raises; its locals go.
Return(c) ==
  /\ Suspend(c, "idle")
  /\ dev' = [dev EXCEPT ![c] = BootName] /\ token' = [token EXCEPT ![c] = BootName]
  /\ saw' = [saw EXCEPT ![c] = NoDisk] /\ listed' = [listed EXCEPT ![c] = NoDisk]
  /\ sawAt' = [sawAt EXCEPT ![c] = 0]

\* The arguments of a call: the user confirms a disk of the list by the token of
\* its name t, which need not be the device n that the call is about.
Arguments(c, n, t) ==
  /\ looked[t] # NoDisk
  /\ dev' = [dev EXCEPT ![c] = n]
  /\ token' = [token EXCEPT ![c] = t]
  /\ saw' = [saw EXCEPT ![c] = looked[t]]
  /\ sawAt' = [sawAt EXCEPT ![c] = lookedAt]
  /\ Suspend(c, "listing")
  /\ UNCHANGED <<plugs, eyes, listed, running, stage, given, writer, relabelled, deaths>>

\* Mutant: the check that no install runs is dropped.
BeginUnchecked(c, n, t) == pc[c] = "idle" /\ Arguments(c, n, t)

\* install() up to its first await ("an install is already running" otherwise).
Begin(c, n, t) == pc[c] = "idle" /\ ~ running /\ Arguments(c, n, t)

\* Any of the errors on the way.
Refuse(c) ==
  /\ pc[c] # "idle"
  /\ Return(c)
  /\ UNCHANGED <<plugs, eyes, running, stage, given, writer, relabelled, deaths>>

\* Mutant: what was confirmed is not compared.
ListUnconfirmed(c) ==
  /\ pc[c] = "listing"
  /\ Listed(dev[c])
  /\ \E boot \in BootAnswers : dev[c] # boot
  /\ Size[at[dev[c]]] >= 1
  /\ listed' = [listed EXCEPT ![c] = at[dev[c]]]
  /\ Suspend(c, "probing")
  /\ UNCHANGED <<plugs, eyes, dev, token, saw, sawAt, running, stage, given, writer,
                 relabelled, deaths>>

\* list_targets(), the eligibility of the target and its token, up to the second
\* boot_disk().
List(c) ==
  /\ pc[c] = "listing"
  /\ Listed(dev[c])
  /\ \E boot \in BootAnswers : dev[c] # boot
  /\ Size[at[dev[c]]] >= 1
  /\ token[c] = dev[c]
  /\ listed' = [listed EXCEPT ![c] = at[dev[c]]]
  /\ Suspend(c, "probing")
  /\ UNCHANGED <<plugs, eyes, dev, token, saw, sawAt, running, stage, given, writer,
                 relabelled, deaths>>

\* create_task(self._clone(...)).
Create(c, k) ==
  /\ stage[k] = "unborn"
  /\ \A j \in Clones : j < k => stage[j] # "unborn"
  /\ stage' = [stage EXCEPT ![k] = "starting"]
  /\ target' = [target EXCEPT ![k] = dev[c]]
  /\ meant' = [meant EXCEPT ![k] = saw[c]]
  /\ meantAt' = [meantAt EXCEPT ![k] = sawAt[c]]

\* The size of the source is 0 when it cannot be read, and then not compared with
\* the size that lsblk gave a moment ago; the disk may be another by now.
FitsAsFarAsKnown(c) ==
  \E size \in {0, Size[BootDisk]} : size = 0 \/ Size[listed[c]] >= size

\* Mutant: the listing is trusted to have excluded the boot device.
StartTrusting(c) ==
  /\ pc[c] = "probing"
  /\ FitsAsFarAsKnown(c)
  /\ running' = TRUE
  /\ \E k \in Clones : Create(c, k)
  /\ Return(c)
  /\ UNCHANGED <<plugs, eyes, writer, relabelled, deaths>>

\* The rest of install().
Start(c) ==
  /\ pc[c] = "probing"
  /\ \E source \in BootAnswers : source # NoDisk /\ source # dev[c]
  /\ FitsAsFarAsKnown(c)
  /\ running' = TRUE
  /\ \E k \in Clones : Create(c, k)
  /\ Return(c)
  /\ UNCHANGED <<plugs, eyes, writer, relabelled, deaths>>

-------------------------------------------------------------------------------
\* _clone up to the moment dd opens its target by name.
Open(k) ==
  /\ stage[k] = "starting"
  /\ Listed(target[k])
  /\ opened' = [opened EXCEPT ![k] = at[target[k]]]
  /\ openedAt' = [openedAt EXCEPT ![k] = swaps]
  /\ dd' = [dd EXCEPT ![k] = "running"]
  /\ stage' = [stage EXCEPT ![k] = "copying"]
  /\ UNCHANGED <<plugs, eyes, call, running, given, copied, lines, relabelled, deaths>>

\* dd says something on its stderr, and waits for room in the pipe to do so.
Says(k) == lines[k] < PipeSize /\ lines' = [lines EXCEPT ![k] = @ + 1]

\* The disk dd opened is still there, and has room.
DdCopies(k) ==
  /\ dd[k] = "running" /\ ~ Moved(target[k], openedAt[k])
  /\ copied[k] < Size[BootDisk] /\ copied[k] < Size[opened[k]]
  /\ copied' = [copied EXCEPT ![k] = @ + 1]
  /\ Says(k)
  /\ UNCHANGED <<plugs, eyes, call, running, stage, given, dd, opened, openedAt, relabelled,
                 deaths>>

\* dd exits, after its last words: with 0 at the end of the source, once the disk
\* has taken everything (conv=fsync); it can fail at any time.
DdExits(k, how) ==
  /\ dd[k] = "running"
  /\ how = "ok" => copied[k] = Size[BootDisk] /\ ~ Moved(target[k], openedAt[k])
  /\ dd' = [dd EXCEPT ![k] = how]
  /\ Says(k)
  /\ UNCHANGED <<plugs, eyes, call, running, stage, given, opened, openedAt, copied,
                 relabelled, deaths>>

\* Mutant: dd is waited for before its progress is read.
ReadLineAfterwards(k) ==
  /\ stage[k] = "copying" /\ lines[k] > 0 /\ dd[k] # "running"
  /\ lines' = [lines EXCEPT ![k] = @ - 1]
  /\ UNCHANGED <<plugs, eyes, call, running, stage, given, dd, opened, openedAt, copied,
                 relabelled, deaths>>

\* The loop around proc.stderr.read().
ReadLine(k) ==
  /\ stage[k] = "copying" /\ lines[k] > 0
  /\ lines' = [lines EXCEPT ![k] = @ - 1]
  /\ UNCHANGED <<plugs, eyes, call, running, stage, given, dd, opened, openedAt, copied,
                 relabelled, deaths>>

\* install.done with ok=false, and the finally clause.
Failed(k) ==
  /\ stage' = [stage EXCEPT ![k] = "failed"]
  /\ running' = FALSE
  /\ UNCHANGED <<plugs, eyes, call, given, writer, relabelled, deaths>>

Finishing(k) ==
  /\ stage' = [stage EXCEPT ![k] = "finishing"]
  /\ UNCHANGED <<plugs, eyes, call, running, given, writer, relabelled, deaths>>

\* Mutant: how dd exited is not looked at.
DdOverAnyhow(k) ==
  /\ stage[k] = "copying" /\ dd[k] # "running" /\ lines[k] = 0
  /\ Finishing(k)

\* The end of the pipe, and proc.wait().
DdOver(k) ==
  /\ stage[k] = "copying" /\ dd[k] # "running" /\ lines[k] = 0
  /\ IF dd[k] = "ok" THEN Finishing(k) ELSE Failed(k)

\* sgdisk -e, where it is installed, and the boot entry; neither can fail the install.
\* sgdisk, too, opens its target by name.
Relabel(k) ==
  /\ stage[k] = "finishing"
  /\ \E d \in {NoDisk, at[target[k]]} : relabelled' = [relabelled EXCEPT ![k] = d]
  /\ stage' = [stage EXCEPT ![k] = "syncing"]
  /\ UNCHANGED <<plugs, eyes, call, running, given, writer, deaths>>

\* install.done with ok=true, and the finally clause.
Done(k) ==
  /\ stage[k] = "syncing"
  /\ stage' = [stage EXCEPT ![k] = "ok"]
  /\ running' = FALSE
  /\ UNCHANGED <<plugs, eyes, call, given, writer, relabelled, deaths>>

\* A command cannot be run at all; before dd, or after it.
Break(k) == Cloning(k) /\ stage[k] # "copying" /\ Failed(k)

-------------------------------------------------------------------------------
\* The daemon dies and is started again.  systemd kills what is left of its
\* control group first, dd too; nobody is told.
Restart ==
  /\ deaths < MaxDeaths
  /\ deaths' = deaths + 1
  /\ pc' = [c \in Conns |-> "idle"]
  /\ dev' = [c \in Conns |-> BootName] /\ token' = dev'
  /\ saw' = [c \in Conns |-> NoDisk] /\ listed' = saw'
  /\ sawAt' = [c \in Conns |-> 0]
  /\ running' = FALSE
  /\ stage' = [k \in Clones |-> IF Cloning(k) THEN "killed" ELSE stage[k]]
  /\ dd' = [k \in Clones |-> IF dd[k] = "running" THEN "failed" ELSE dd[k]]
  /\ lines' = [k \in Clones |-> 0]
  /\ UNCHANGED <<plugs, eyes, given, opened, openedAt, copied, relabelled>>

\* A disk is unplugged, or one takes a free name.
Swap(n, d) ==
  /\ swaps < MaxSwaps
  /\ n # BootName
  /\ d = NoDisk \/ \A m \in Names : at[m] # d
  /\ at[n] # d
  /\ at[n] = NoDisk \/ d = NoDisk
  /\ at' = [at EXCEPT ![n] = d]
  /\ swaps' = swaps + 1
  /\ since' = [since EXCEPT ![n] = swaps + 1]
  /\ UNCHANGED <<eyes, call, running, stage, given, writer, relabelled, deaths>>

Install(c) ==
  \/ \E n, t \in Names : Begin(c, n, t)
  \/ Refuse(c) \/ List(c) \/ Start(c)

\* The task, and dd beside it.
Task(k) == Open(k) \/ ReadLine(k) \/ DdOver(k) \/ Relabel(k) \/ Done(k) \/ Break(k)
Dd(k) == DdCopies(k) \/ \E how \in {"ok", "failed"} : DdExits(k, how)

Next ==
  \/ Look
  \/ \E c \in Conns : Install(c)
  \/ \E k \in Clones : Task(k) \/ Dd(k)
  \/ Restart
  \/ \E n \in Names, d \in Disks \union {NoDisk} : Swap(n, d)

\* The event loop serves the task, and the kernel runs dd: every write to a disk
\* ends or fails.
Fairness == \A k \in Clones : WF_vars(Task(k)) /\ WF_vars(Dd(k))

Spec == Init /\ [][Next]_vars /\ Fairness

-------------------------------------------------------------------------------
TypeOK ==
  /\ at \in [Names -> Disks \union {NoDisk}]
  /\ at[BootName] = BootDisk
  /\ \A m, n \in Names : at[m] = at[n] /\ at[m] # NoDisk => m = n
  /\ since \in [Names -> 0 .. swaps]
  /\ looked \in [Names -> Disks \union {NoDisk}]
  /\ lookedAt \in 0 .. swaps
  /\ pc \in [Conns -> {"idle", "listing", "probing"}]
  /\ dev \in [Conns -> Names]
  /\ token \in [Conns -> Names]
  /\ saw \in [Conns -> Disks \union {NoDisk}]
  /\ sawAt \in [Conns -> 0 .. swaps]
  /\ listed \in [Conns -> Disks \union {NoDisk}]
  /\ \A c \in Conns : pc[c] = "probing" => listed[c] \in Disks
  /\ running \in BOOLEAN
  /\ stage \in [Clones -> Stages]
  /\ target \in [Clones -> Names]
  /\ meant \in [Clones -> Disks \union {NoDisk}]
  /\ meantAt \in [Clones -> 0 .. swaps]
  /\ dd \in [Clones -> {"none", "running", "ok", "failed"}]
  /\ opened \in [Clones -> Disks \union {NoDisk}]
  /\ openedAt \in [Clones -> 0 .. swaps]
  /\ copied \in [Clones -> Nat]
  /\ lines \in [Clones -> 0 .. PipeSize]
  /\ relabelled \in [Clones -> Disks \union {NoDisk}]
  /\ swaps \in Nat /\ deaths \in Nat

\* "never the running device": neither dd nor sgdisk ever opens the disk PENTA runs
\* from, not even when boot_disk() fails while the targets are listed.
NeverBootDisk == \A k \in Clones : BootDisk \notin {opened[k], relabelled[k]}

\* "an install is already running": one dd at a time, and the flag is up exactly
\* while it runs, so that a failed install can be repeated and a running one cannot.
OneClone ==
  /\ \A j, k \in Clones : Cloning(j) /\ Cloning(k) => j = k
  /\ running <=> \E k \in Clones : Cloning(k)

\* install.done is said for true.  Ok: the whole of the running system is on the disk
\* dd opened, which therefore can hold it, although nobody may have compared the
\* sizes.  Either way, also when the daemon died, no dd is left writing behind the
\* back of whoever starts the next install.
DoneIsWhole ==
  \A k \in Clones :
    /\ stage[k] \in {"finishing", "syncing", "ok"} =>
         /\ opened[k] \in Disks
         /\ copied[k] = Size[BootDisk] /\ Size[BootDisk] =< Size[opened[k]]
    /\ dd[k] = "running" => stage[k] = "copying"

\* Every install ends, unless the daemon does: dd and the task that reads what it says
\* never wait for each other.
CloneEnds == \A k \in Clones : Cloning(k) ~> ~ Cloning(k)

\* "a stale or mistyped confirmation cannot destroy a disk the user was not looking
\* at": dd opens the disk that the user saw and confirmed, and it has the size a target
\* must have, unless its name has changed hands since the user looked.  (Then it is
\* the newcomer that is erased: the token and the checks know only the name.)
OnlyTheDiskMeant ==
  \A k \in Clones : opened[k] # NoDisk /\ ~ Moved(target[k], meantAt[k]) =>
    opened[k] = meant[k] /\ Size[opened[k]] >= 1

\* The install that runs, and how the last one ended; see OneInstall.
Over(k) == stage[k] \in {"ok", "failed", "killed"}
Writing ==
  IF \E k \in Clones : Cloning(k)
  THEN target[CHOOSE k \in Clones : Cloning(k)] ELSE NoDisk
Latest == {k \in Clones : Over(k) /\ \A j \in Clones : Over(j) => j =< k}
Ended(k) == IF stage[k] = "ok" THEN "ok" ELSE "failed"
Outcome == IF Latest = {} THEN "none" ELSE Ended(CHOOSE k \in Latest : TRUE)

Service == INSTANCE OneInstall WITH Targets <- Names, NoTarget <- NoDisk,
                                    writing <- Writing, last <- Outcome

\* Unless two calls of install() overlap, installs run one at a time.
ImplementsOneInstall == Service!Spec
===============================================================================
