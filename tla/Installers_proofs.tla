--------------------------- MODULE Installers_proofs ---------------------------
(***************************************************************************)
(* Proofs about the two installers: PENTA's own (DiskInstaller), which     *)
(* copies the medium it runs from, and the courier stick's (ImageInstall). *)
(* Both promise the same: dd never opens the medium that the machine runs  *)
(* from, and nothing but the disk that was confirmed, unless another disk  *)
(* has taken its name meanwhile.                                           *)
(*                                                                         *)
(* PENTA's own holds for any number of connections and any hot-plugging,   *)
(* but for this: that one clone runs at a time is proved of the behaviours *)
(* in which no two calls of install() are suspended at once (OneCall).     *)
(* Otherwise both can pass the test of _running before either of them sets *)
(* it.  With one connection every behaviour is one of those.               *)
(*                                                                         *)
(* The courier stick's holds for any media, names and number of pulls.     *)
(* The guard that counts is the last one: when dd starts, nothing of the   *)
(* target was mounted, and what is mounted (the stick's root and, as long  *)
(* as there is anything to write, the image's filesystem) keeps its name.  *)
(***************************************************************************)
EXTENDS DiskInstaller, ImageInstall, TLAPS

SerialClients == \A c, d \in Conns : c = d

\* No two calls of install() are between the test of _running and its end.
OneCall == \A c, d \in Conns : pc[c] # "idle" /\ pc[d] # "idle" => c = d

\* Which variables the steps leave alone.  Every action but a swap leaves the disks.
PlugsOK ==
  /\ at \in [Names -> Disks \union {NoDisk}]
  /\ at[BootName] = BootDisk
  /\ \A m, n \in Names : at[m] = at[n] /\ at[m] # NoDisk => m = n
  /\ since \in [Names -> 0 .. swaps]
  /\ swaps \in Nat

EyesOK == looked \in [Names -> Disks \union {NoDisk}] /\ lookedAt \in 0 .. swaps

CallsOK ==
  /\ pc \in [Conns -> {"idle", "listing", "probing"}]
  /\ dev \in [Conns -> Names]
  /\ token \in [Conns -> Names]
  /\ saw \in [Conns -> Disks \union {NoDisk}]
  /\ sawAt \in [Conns -> 0 .. swaps]
  /\ listed \in [Conns -> Disks \union {NoDisk}]
  /\ \A c \in Conns : pc[c] = "probing" => listed[c] \in Disks

GivenOK ==
  /\ stage \in [Clones -> Stages]
  /\ target \in [Clones -> Names]
  /\ meant \in [Clones -> Disks \union {NoDisk}]
  /\ meantAt \in [Clones -> 0 .. swaps]

WriterOK ==
  /\ dd \in [Clones -> {"none", "running", "ok", "failed"}]
  /\ opened \in [Clones -> Disks \union {NoDisk}]
  /\ openedAt \in [Clones -> 0 .. swaps]
  /\ copied \in [Clones -> Nat]
  /\ lines \in [Clones -> 0 .. PipeSize]

RestOK ==
  /\ running \in BOOLEAN
  /\ relabelled \in [Clones -> Disks \union {NoDisk}]
  /\ deaths \in Nat

LEMMA TypeParts ==
  TypeOK <=> PlugsOK /\ EyesOK /\ CallsOK /\ GivenOK /\ WriterOK /\ RestOK
BY DEF TypeOK, PlugsOK, EyesOK, CallsOK, GivenOK, WriterOK, RestOK

\* The type invariant, and with it: no two names stand for one disk.
THEOREM TypeCorrect == Spec => []TypeOK
<1> USE DiskAssumption
<1>1. Init => TypeOK
  <2> SUFFICES ASSUME Init PROVE TypeOK
    OBVIOUS
  <2>1. PlugsOK /\ EyesOK
    BY DEF Init, PlugsOK, EyesOK
  <2>2. CallsOK
    BY DEF Init, CallsOK
  <2>3. GivenOK /\ WriterOK
    BY DEF Init, GivenOK, WriterOK, Stages
  <2>4. RestOK
    BY DEF Init, RestOK
  <2> QED
    BY <2>1, <2>2, <2>3, <2>4, TypeParts
<1>2. TypeOK /\ [Next]_vars => TypeOK'
  <2> SUFFICES ASSUME PlugsOK, EyesOK, CallsOK, GivenOK, WriterOK, RestOK, [Next]_vars
               PROVE  PlugsOK' /\ EyesOK' /\ CallsOK' /\ GivenOK' /\ WriterOK' /\ RestOK'
    BY TypeParts DEF TypeOK, PlugsOK, EyesOK, CallsOK, GivenOK, WriterOK, RestOK
  <2>1. UNCHANGED plugs => PlugsOK'
    BY DEF plugs, PlugsOK
  <2>2. UNCHANGED <<plugs, eyes>> => EyesOK'
    BY DEF plugs, eyes, EyesOK
  <2>3. UNCHANGED <<plugs, call>> => CallsOK'
    BY DEF plugs, call, CallsOK
  <2>4. UNCHANGED <<plugs, stage, given>> => GivenOK'
    BY DEF plugs, given, GivenOK
  <2>5. UNCHANGED <<plugs, writer>> => WriterOK'
    BY DEF plugs, writer, WriterOK
  <2>6. UNCHANGED <<running, relabelled, deaths>> => RestOK'
    BY DEF RestOK
  <2>7. CASE Look
    <3>1. EyesOK'
      BY <2>7 DEF Look, EyesOK, PlugsOK, plugs
    <3> QED
      BY <2>7, <3>1, <2>1, <2>3, <2>4, <2>5, <2>6 DEF Look
  <2>8. ASSUME NEW c \in Conns, NEW n \in Names, NEW t \in Names, Begin(c, n, t)
        PROVE  PlugsOK' /\ EyesOK' /\ CallsOK' /\ GivenOK' /\ WriterOK' /\ RestOK'
    <3>1. CallsOK'
      BY <2>8 DEF Begin, Arguments, Suspend, CallsOK, EyesOK, plugs
    <3> QED
      BY <2>8, <3>1, <2>1, <2>2, <2>4, <2>5, <2>6 DEF Begin, Arguments
  <2>9. ASSUME NEW c \in Conns, Return(c), UNCHANGED plugs PROVE CallsOK'
    BY <2>9 DEF Return, Suspend, CallsOK, PlugsOK, plugs
  <2>10. ASSUME NEW c \in Conns, Refuse(c)
        PROVE  PlugsOK' /\ EyesOK' /\ CallsOK' /\ GivenOK' /\ WriterOK' /\ RestOK'
    <3>1. Return(c) /\ UNCHANGED <<plugs, eyes, running, stage, given, writer, relabelled, deaths>>
      BY <2>10 DEF Refuse
    <3> QED
      BY <3>1, <2>1, <2>2, <2>4, <2>5, <2>6, <2>9
  <2>11. ASSUME NEW c \in Conns, List(c)
         PROVE  PlugsOK' /\ EyesOK' /\ CallsOK' /\ GivenOK' /\ WriterOK' /\ RestOK'
    <3>1. CallsOK'
      BY <2>11 DEF List, Suspend, Listed, CallsOK, PlugsOK, plugs
    <3> QED
      BY <2>11, <3>1, <2>1, <2>2, <2>4, <2>5, <2>6 DEF List
  <2>12. ASSUME NEW c \in Conns, Start(c)
         PROVE  PlugsOK' /\ EyesOK' /\ CallsOK' /\ GivenOK' /\ WriterOK' /\ RestOK'
    <3>1. PICK k \in Clones : Create(c, k)
      BY <2>12 DEF Start
    <3>2. /\ Return(c) /\ running' = TRUE
          /\ UNCHANGED <<plugs, eyes, writer, relabelled, deaths>>
      BY <2>12 DEF Start
    <3>3. GivenOK'
      BY <3>1, <3>2 DEF Create, GivenOK, CallsOK, Stages, plugs
    <3>4. RestOK'
      BY <3>2 DEF RestOK
    <3> QED
      BY <3>2, <3>3, <3>4, <2>1, <2>2, <2>5, <2>9
  <2>13. ASSUME NEW k \in Clones, Open(k)
         PROVE  PlugsOK' /\ EyesOK' /\ CallsOK' /\ GivenOK' /\ WriterOK' /\ RestOK'
    <3>1. GivenOK'
      BY <2>13 DEF Open, GivenOK, Stages, plugs, given
    <3>2. WriterOK'
      BY <2>13 DEF Open, WriterOK, GivenOK, PlugsOK, plugs
    <3> QED
      BY <2>13, <3>1, <3>2, <2>1, <2>2, <2>3, <2>6 DEF Open
  <2>14. ASSUME NEW k \in Clones,
                DdCopies(k) \/ ReadLine(k) \/ \E how \in {"ok", "failed"} : DdExits(k, how)
         PROVE  PlugsOK' /\ EyesOK' /\ CallsOK' /\ GivenOK' /\ WriterOK' /\ RestOK'
    <3>1. WriterOK'
      BY <2>14 DEF DdCopies, ReadLine, DdExits, Says, WriterOK, plugs
    <3>2. UNCHANGED <<plugs, eyes, call, running, stage, given, relabelled, deaths>>
      BY <2>14 DEF DdCopies, ReadLine, DdExits
    <3> QED
      BY <3>1, <3>2, <2>1, <2>2, <2>3, <2>4, <2>6
  <2>15. ASSUME NEW k \in Clones, DdOver(k) \/ Done(k) \/ Break(k)
         PROVE  PlugsOK' /\ EyesOK' /\ CallsOK' /\ GivenOK' /\ WriterOK' /\ RestOK'
    <3>1. /\ UNCHANGED <<plugs, eyes, call, given, writer, relabelled, deaths>>
          /\ \E how \in Stages : stage' = [stage EXCEPT ![k] = how]
          /\ running' \in {FALSE, running}
      BY <2>15 DEF DdOver, Done, Break, Failed, Finishing, Stages
    <3>2. GivenOK'
      BY <3>1 DEF GivenOK, plugs, given
    <3>3. RestOK'
      BY <3>1 DEF RestOK
    <3> QED
      BY <3>1, <3>2, <3>3, <2>1, <2>2, <2>3, <2>5
  <2>16. ASSUME NEW k \in Clones, Relabel(k)
         PROVE  PlugsOK' /\ EyesOK' /\ CallsOK' /\ GivenOK' /\ WriterOK' /\ RestOK'
    <3>1. GivenOK' /\ RestOK'
      BY <2>16 DEF Relabel, GivenOK, RestOK, PlugsOK, Stages, plugs, given
    <3> QED
      BY <2>16, <3>1, <2>1, <2>2, <2>3, <2>5 DEF Relabel
  <2>17. CASE Restart
    <3>1. CallsOK'
      BY <2>17 DEF Restart, CallsOK, PlugsOK, plugs
    <3>2. GivenOK'
      BY <2>17 DEF Restart, GivenOK, Stages, plugs, given
    <3>3. WriterOK'
      BY <2>17 DEF Restart, WriterOK, plugs
    <3>4. RestOK'
      <4>1. running' = FALSE /\ deaths' = deaths + 1 /\ relabelled' = relabelled
        BY <2>17 DEF Restart
      <4>2. deaths' \in Nat
        BY <4>1 DEF RestOK
      <4>3. relabelled' \in [Clones -> Disks \union {NoDisk}]
        BY <4>1 DEF RestOK
      <4> QED
        BY <4>1, <4>2, <4>3 DEF RestOK
    <3> QED
      BY <2>17, <3>1, <3>2, <3>3, <3>4, <2>1, <2>2 DEF Restart
  <2>18. ASSUME NEW n \in Names, NEW d \in Disks \union {NoDisk}, Swap(n, d)
         PROVE  PlugsOK' /\ EyesOK' /\ CallsOK' /\ GivenOK' /\ WriterOK' /\ RestOK'
    <3>1. PlugsOK'
      BY <2>18 DEF Swap, PlugsOK
    <3>2. EyesOK' /\ CallsOK'
      BY <2>18 DEF Swap, PlugsOK, EyesOK, CallsOK, eyes, call
    <3>3. GivenOK' /\ WriterOK'
      BY <2>18 DEF Swap, PlugsOK, GivenOK, WriterOK, given, writer
    <3> QED
      BY <2>18, <3>1, <3>2, <3>3, <2>6 DEF Swap
  <2>19. CASE UNCHANGED vars
    BY <2>19, <2>1, <2>2, <2>3, <2>4, <2>5, <2>6 DEF vars
  <2> QED
    BY <2>7, <2>8, <2>10, <2>11, <2>12, <2>13, <2>14, <2>15, <2>16, <2>17, <2>18, <2>19
    DEF Next, Install, Task, Dd
<1> QED
  BY <1>1, <1>2, PTL DEF Spec

-------------------------------------------------------------------------------
\* No task is ever given the boot device, so neither dd nor sgdisk opens the boot disk:
\* its name stays busy, and no other name can stand for it.
BootSpared ==
  \A k \in Clones :
    /\ stage[k] # "unborn" => target[k] # BootName
    /\ BootDisk \notin {opened[k], relabelled[k]}

\* "never the running device".
THEOREM BootDiskSafe == Spec => []NeverBootDisk
<1> USE DiskAssumption DEF BootSpared
<1>1. Init => BootSpared
  BY DEF Init
<1>2. BootSpared /\ TypeOK /\ [Next]_vars => BootSpared'
  <2> SUFFICES ASSUME BootSpared, TypeOK, [Next]_vars PROVE BootSpared'
    OBVIOUS
  <2>1. ASSUME NEW c \in Conns, Start(c) PROVE BootSpared'
    <3>1. dev[c] # BootName
      BY <2>1 DEF Start, BootAnswers
    <3>2. PICK k \in Clones : Create(c, k)
      BY <2>1 DEF Start
    <3>3. UNCHANGED <<opened, relabelled>>
      BY <2>1 DEF Start, writer
    <3> QED
      BY <3>1, <3>2, <3>3 DEF Create, TypeOK
  <2>2. ASSUME NEW k \in Clones, Open(k) \/ Relabel(k) PROVE BootSpared'
    <3>1. stage[k] # "unborn" /\ at[target[k]] # BootDisk
      BY <2>2 DEF Open, Relabel, TypeOK
    <3>2. \A j \in Clones : opened'[j] \in {opened[j], at[target[k]]}
      BY <2>2 DEF Open, Relabel, TypeOK, writer
    <3>3. \A j \in Clones : relabelled'[j] \in {relabelled[j], at[target[k]], NoDisk}
      BY <2>2 DEF Open, Relabel, TypeOK
    <3>4. target' = target /\ \A j \in Clones : stage'[j] # "unborn" => stage[j] # "unborn"
      BY <2>2 DEF Open, Relabel, TypeOK, given
    <3> QED
      BY <3>1, <3>2, <3>3, <3>4
  <2>3. ASSUME NEW k \in Clones, DdOver(k) \/ Done(k) \/ Break(k) PROVE BootSpared'
    <3>1. /\ UNCHANGED <<target, opened, relabelled>>
          /\ stage[k] # "unborn" /\ \E how : stage' = [stage EXCEPT ![k] = how]
      BY <2>3 DEF DdOver, Done, Break, Cloning, Failed, Finishing, given, writer
    <3> QED
      BY <3>1 DEF TypeOK
  <2>4. CASE Restart
    <3>1. UNCHANGED <<target, opened, relabelled>>
      BY <2>4 DEF Restart, given
    <3>2. \A j \in Clones : stage'[j] # "unborn" => stage[j] # "unborn"
      BY <2>4 DEF Restart, Cloning
    <3> QED
      BY <3>1, <3>2
  <2>5. ASSUME NEW k \in Clones, Dd(k) \/ ReadLine(k)
        PROVE  UNCHANGED <<stage, target, opened, relabelled>>
    BY <2>5 DEF Dd, DdCopies, DdExits, ReadLine, given
  <2>6. CASE UNCHANGED <<stage, target, opened, relabelled>>
    BY <2>6
  <2> QED
    BY <2>1, <2>2, <2>3, <2>4, <2>5, <2>6
    DEF Next, Install, Task, Look, Begin, Arguments, Refuse, List, Swap, vars, given, writer
<1>3. BootSpared => NeverBootDisk
  BY DEF NeverBootDisk
<1> QED
  BY <1>1, <1>2, <1>3, TypeCorrect, PTL DEF Spec

-------------------------------------------------------------------------------
\* What a task knows of its dd: an exit code of 0 means that everything was written,
\* which the disk had room for.
WholeCopy(k) ==
  opened[k] \in Disks /\ copied[k] = Size[BootDisk] /\ Size[BootDisk] =< Size[opened[k]]

DdTrue(k) ==
  /\ dd[k] # "none" => opened[k] \in Disks /\ copied[k] =< Size[opened[k]]
  /\ dd[k] = "none" => copied[k] = 0
  /\ stage[k] \in {"unborn", "starting"} => dd[k] = "none"
  /\ dd[k] = "running" => stage[k] = "copying"
  /\ dd[k] = "ok" => copied[k] = Size[BootDisk]
  /\ stage[k] = "copying" => dd[k] # "none"
  /\ stage[k] \in {"finishing", "syncing", "ok"} => dd[k] = "ok"

LEMMA DdTrueStep ==
  ASSUME TypeOK, [Next]_vars, NEW j \in Clones, DdTrue(j)
  PROVE  DdTrue(j)'
<1> USE DiskAssumption DEF DdTrue
<1>1. ASSUME NEW c \in Conns, Start(c) PROVE DdTrue(j)'
  <2>1. PICK k \in Clones : Create(c, k)
    BY <1>1 DEF Start
  <2>2. UNCHANGED <<dd, opened, copied>>
    BY <1>1 DEF Start, writer
  <2>3. stage'[j] = stage[j] \/ (stage[j] = "unborn" /\ stage'[j] = "starting")
    BY <2>1 DEF Create, TypeOK
  <2> QED
    BY <2>2, <2>3
<1>2. ASSUME NEW k \in Clones, Open(k) PROVE DdTrue(j)'
  <2>1. CASE j = k
    <3>1. /\ stage[j] = "starting" /\ stage'[j] = "copying" /\ dd'[j] = "running"
          /\ opened'[j] = at[target[j]] /\ at[target[j]] \in Disks /\ copied' = copied
      BY <1>2, <2>1 DEF Open, Listed, TypeOK
    <3> QED
      BY <3>1
  <2>2. CASE j # k
    BY <1>2, <2>2 DEF Open, TypeOK
  <2> QED
    BY <2>1, <2>2
<1>3. ASSUME NEW k \in Clones, DdCopies(k) PROVE DdTrue(j)'
  <2>1. /\ UNCHANGED <<stage, dd, opened>> /\ dd[k] = "running" /\ copied[k] < Size[opened[k]]
        /\ copied' = [copied EXCEPT ![k] = @ + 1]
    BY <1>3 DEF DdCopies
  <2> QED
    BY <2>1 DEF TypeOK
<1>4. ASSUME NEW k \in Clones, NEW how \in {"ok", "failed"}, DdExits(k, how) PROVE DdTrue(j)'
  <2>1. /\ UNCHANGED <<stage, opened, copied>> /\ dd[k] = "running"
        /\ how = "ok" => copied[k] = Size[BootDisk]
        /\ dd' = [dd EXCEPT ![k] = how]
    BY <1>4 DEF DdExits
  <2> QED
    BY <2>1 DEF TypeOK
<1>5. ASSUME NEW k \in Clones, DdOver(k) \/ Relabel(k) \/ Done(k) \/ Break(k) PROVE DdTrue(j)'
  <2>1. UNCHANGED <<dd, opened, copied>>
    BY <1>5 DEF DdOver, Relabel, Done, Break, Failed, Finishing, writer
  <2>2. j # k => stage'[j] = stage[j]
    BY <1>5 DEF DdOver, Relabel, Done, Break, Failed, Finishing, TypeOK
  <2>3. j = k => \/ stage'[j] = "failed" /\ dd[j] # "running"
                 \/ stage'[j] \in {"finishing", "syncing", "ok"} /\ dd[j] = "ok"
    BY <1>5 DEF DdOver, Relabel, Done, Break, Cloning, Failed, Finishing, TypeOK
  <2> QED
    BY <2>1, <2>2, <2>3
<1>6. CASE Restart
  <2>1. /\ UNCHANGED <<opened, copied>>
        /\ dd'[j] = IF dd[j] = "running" THEN "failed" ELSE dd[j]
        /\ stage'[j] = IF Cloning(j) THEN "killed" ELSE stage[j]
    BY <1>6 DEF Restart
  <2> QED
    BY <2>1 DEF Cloning
<1>7. ASSUME NEW k \in Clones, ReadLine(k) PROVE UNCHANGED <<stage, dd, opened, copied>>
  BY <1>7 DEF ReadLine
<1>8. CASE UNCHANGED <<stage, dd, opened, copied>>
  BY <1>8
<1> QED
  BY <1>1, <1>2, <1>3, <1>4, <1>5, <1>6, <1>7, <1>8
  DEF Next, Install, Task, Dd, Look, Begin, Arguments, Refuse, List, Swap, vars, writer

\* install.done is said for true, for any number of connections, also when the sizes
\* were never compared, disks are pulled out under dd, and the daemon dies; and no dd
\* is left writing once its install is over.
THEOREM DoneIsSaidForTrue == Spec => []DoneIsWhole
<1>1. Init => \A k \in Clones : DdTrue(k)
  BY DEF Init, DdTrue
<1>2. TypeOK /\ [Next]_vars /\ (\A k \in Clones : DdTrue(k)) => (\A k \in Clones : DdTrue(k))'
  BY DdTrueStep DEF Clones
<1>3. (\A k \in Clones : DdTrue(k)) => DoneIsWhole
  BY DEF DdTrue, DoneIsWhole
<1> QED
  BY <1>1, <1>2, <1>3, TypeCorrect, PTL DEF Spec

-------------------------------------------------------------------------------
\* Unless another call is under way, the check at the top of install() is still
\* true at its end: nobody else can have started a clone meanwhile.
SerialInv ==
  /\ OneClone
  /\ \A c \in Conns : pc[c] # "idle" => ~ running

\* A step of a task goes on with its install, or ends it.
GoesOn(k) ==
  /\ Cloning(k) /\ UNCHANGED <<pc, running, target>>
  /\ \E how \in {"copying", "finishing", "syncing"} : stage' = [stage EXCEPT ![k] = how]

Ends(k, how) ==
  /\ Cloning(k) /\ UNCHANGED <<pc, target>> /\ running' = FALSE
  /\ how \in {"ok", "failed"} /\ stage' = [stage EXCEPT ![k] = how]

LEMMA TaskParts ==
  ASSUME NEW k \in Clones, Task(k)
  PROVE  GoesOn(k) \/ Ends(k, "ok") \/ Ends(k, "failed")
         \/ UNCHANGED <<pc, running, stage, target>>
<1>1. ReadLine(k) => UNCHANGED <<pc, running, stage, target>>
  BY DEF ReadLine, call, given
<1>2. Open(k) \/ Relabel(k) => GoesOn(k)
  BY DEF Open, Relabel, GoesOn, Cloning, call, given
<1>3. DdOver(k) => GoesOn(k) \/ Ends(k, "failed")
  BY DEF DdOver, Finishing, Failed, GoesOn, Ends, Cloning, call, given
<1>4. Done(k) => Ends(k, "ok")
  BY DEF Done, Ends, Cloning, call, given
<1>5. Break(k) => Ends(k, "failed")
  BY DEF Break, Failed, Ends, call, given
<1> QED
  BY <1>1, <1>2, <1>3, <1>4, <1>5 DEF Task

LEMMA DdParts ==
  ASSUME NEW k \in Clones, Dd(k)
  PROVE  UNCHANGED <<pc, running, stage, target>>
BY DEF Dd, DdCopies, DdExits, call, given

LEMMA SerialCorrect == Spec /\ []OneCall => []SerialInv
<1> USE DEF SerialInv, OneClone, Cloning
<1>1. Init => SerialInv
  BY DEF Init
<1>2. OneCall /\ SerialInv /\ TypeOK /\ [Next]_vars => SerialInv'
  <2> SUFFICES ASSUME OneCall, SerialInv, TypeOK, [Next]_vars PROVE SerialInv'
    OBVIOUS
  <2> USE DEF TypeOK
  <2>1. ASSUME NEW c \in Conns, NEW n \in Names, NEW t \in Names, Begin(c, n, t)
        PROVE  SerialInv'
    BY <2>1 DEF Begin, Arguments, Suspend
  <2>2. ASSUME NEW c \in Conns, Refuse(c) \/ List(c) PROVE SerialInv'
    <3>1. /\ UNCHANGED <<running, stage>>
          /\ \A b \in Conns : pc'[b] # "idle" => pc[b] # "idle"
      BY <2>2 DEF Refuse, List, Return, Suspend
    <3> QED
      BY <3>1
  <2>3. ASSUME NEW c \in Conns, Start(c) PROVE SerialInv'
    <3>1. ~ running /\ \A k \in Clones : ~ Cloning(k)
      BY <2>3 DEF Start
    <3>2. PICK k \in Clones : stage' = [stage EXCEPT ![k] = "starting"]
      BY <2>3 DEF Start, Create
    <3>3. running' = TRUE /\ pc' = [pc EXCEPT ![c] = "idle"]
      BY <2>3 DEF Start, Return, Suspend
    <3>4. \A d \in Conns : pc'[d] = "idle"
      BY <2>3, <3>3 DEF OneCall, Start
    <3>5. \A j \in Clones : Cloning(j)' <=> j = k
      BY <3>1, <3>2
    <3> QED
      BY <3>3, <3>4, <3>5
  <2>4. ASSUME NEW k \in Clones, GoesOn(k) PROVE SerialInv'
    <3>1. /\ Cloning(k) /\ running' = running /\ pc' = pc
          /\ \A j \in Clones : Cloning(j)' <=> Cloning(j)
      BY <2>4 DEF GoesOn
    <3> QED
      BY <3>1
  <2>5. ASSUME NEW k \in Clones, NEW how, Ends(k, how) PROVE SerialInv'
    <3>1. Cloning(k) /\ stage' = [stage EXCEPT ![k] = how] /\ running' = FALSE
      BY <2>5 DEF Ends
    <3>2. how \in {"ok", "failed"}
      BY <2>5 DEF Ends
    <3>3. \A j \in Clones : ~ Cloning(j)'
      BY <3>1, <3>2
    <3> QED
      BY <3>1, <3>3
  <2>6. CASE UNCHANGED <<pc, running, stage>>
    BY <2>6
  <2>7. CASE Restart
    BY <2>7 DEF Restart
  <2> QED
    BY <2>1, <2>2, <2>3, <2>4, <2>5, <2>6, <2>7, TaskParts, DdParts
    DEF Next, Install, Look, Swap, call, vars
<1> QED
  BY <1>1, <1>2, TypeCorrect, PTL DEF Spec

\* "an install is already running": unless two calls of install() overlap, no two
\* dd run at once, and the flag tells whether one does.
THEOREM OverlapIsTheOnlyWay == Spec /\ []OneCall => []OneClone
<1>1. SerialInv => OneClone
  BY DEF SerialInv
<1> QED
  BY <1>1, SerialCorrect, PTL

\* With one connection, whose requests are served one after the other, none do.
THEOREM SerialOneClone ==
  ASSUME SerialClients PROVE Spec => []OneClone
<1>1. OneCall
  BY DEF SerialClients, OneCall
<1> QED
  BY <1>1, OverlapIsTheOnlyWay, PTL

-------------------------------------------------------------------------------
\* As an implementation of OneInstall: each install begins after the ones before it
\* are over, so the last that is over tells how the last one ended.
Successive ==
  \A j, k \in Clones : j < k /\ stage[k] # "unborn" => Over(j)

LEMMA WritingIs ==
  ASSUME OneClone
  PROVE  /\ \A k \in Clones : Cloning(k) => Writing = target[k]
         /\ (\A k \in Clones : ~ Cloning(k)) => Writing = NoDisk
BY DEF OneClone, Writing

LEMMA WritingIsNext ==
  ASSUME OneClone'
  PROVE  /\ \A k \in Clones : Cloning(k)' => Writing' = target'[k]
         /\ (\A k \in Clones : ~ Cloning(k)') => Writing' = NoDisk
BY DEF OneClone, Writing, Cloning

\* A step that neither ends an install nor takes one back leaves the outcome.
LEMMA OutcomeStays ==
  ASSUME \A j \in Clones : (Over(j)' <=> Over(j)) /\ (Over(j) => stage'[j] = stage[j])
  PROVE  Outcome' = Outcome
<1>1. Latest' = Latest
  BY DEF Latest
<1>2. CASE Latest = {}
  BY <1>1, <1>2 DEF Outcome
<1>3. CASE Latest # {}
  <2> DEFINE k == CHOOSE l \in Latest : TRUE
  <2>1. k \in Clones /\ Over(k)
    BY <1>3 DEF Latest
  <2>2. stage'[k] = stage[k]
    BY <2>1
  <2>3. Outcome = Ended(k)
    BY <1>3 DEF Outcome
  <2>4. Outcome' = IF stage'[k] = "ok" THEN "ok" ELSE "failed"
    BY <1>1, <1>3 DEF Outcome, Ended
  <2> QED
    BY <2>2, <2>3, <2>4 DEF Ended
<1> QED
  BY <1>2, <1>3

\* ... and one that ends install k, the last, is known by how.
LEMMA OutcomeIs ==
  ASSUME NEW k \in Clones, Over(k)', \A j \in Clones : Over(j)' => j =< k
  PROVE  Outcome' = IF stage'[k] = "ok" THEN "ok" ELSE "failed"
<1>1. Latest' = {k}
  BY DEF Latest, Clones
<1> QED
  BY <1>1 DEF Outcome, Ended

LEMMA SuccessiveStep ==
  ASSUME TypeOK, SerialInv, Successive, [Next]_vars
  PROVE  Successive'
<1> USE DiskAssumption DEF Clones, Successive, Over, TypeOK
<1>1. ASSUME NEW c \in Conns, NEW k \in Clones, Create(c, k), Start(c) PROVE Successive'
  <2>1. /\ stage[k] = "unborn" /\ stage' = [stage EXCEPT ![k] = "starting"]
        /\ \A j \in Clones : j < k => stage[j] # "unborn"
    BY <1>1 DEF Create
  <2>2. \A j \in Clones : ~ Cloning(j)
    BY <1>1 DEF SerialInv, OneClone, Start
  <2>3. \A j \in Clones : j < k => Over(j)
    BY <2>1, <2>2 DEF Cloning, Stages
  <2>4. \A m \in Clones : k < m => stage[m] = "unborn"
    BY <2>1
  <2>5. \A m \in Clones : m # k => stage'[m] = stage[m]
    BY <2>1
  <2> SUFFICES ASSUME NEW i \in Clones, NEW m \in Clones, i < m, stage'[m] # "unborn"
               PROVE  Over(i)'
    OBVIOUS
  <2>6. i # k
    BY <2>4, <2>5
  <2>7. Over(i)
    BY <2>3, <2>5
  <2> QED
    BY <2>5, <2>6, <2>7
<1>2. ASSUME NEW k \in Clones, GoesOn(k) PROVE Successive'
  <2>1. /\ Cloning(k) /\ \A j \in Clones : j # k => stage'[j] = stage[j]
        /\ ~ Over(k)
    BY <1>2 DEF GoesOn, Cloning
  <2> QED
    BY <2>1 DEF Cloning
<1>3. ASSUME NEW k \in Clones, NEW how, Ends(k, how) PROVE Successive'
  <2>1. /\ Cloning(k) /\ stage'[k] = how /\ \A j \in Clones : j # k => stage'[j] = stage[j]
        /\ how \in {"ok", "failed"}
    BY <1>3 DEF Ends
  <2> QED
    BY <2>1 DEF Cloning
<1>4. CASE UNCHANGED stage
  BY <1>4
<1>5. \A c \in Conns : Start(c) => \E k \in Clones : Create(c, k)
  BY DEF Start
<1>6. CASE Restart
  <2>1. \A j \in Clones : stage'[j] = IF Cloning(j) THEN "killed" ELSE stage[j]
    BY <1>6 DEF Restart
  <2> QED
    BY <2>1 DEF Cloning
<1> QED
  BY <1>1, <1>2, <1>3, <1>4, <1>5, <1>6, TaskParts, DdParts
  DEF Next, Install, Look, Begin, Arguments, Refuse, List, Swap, vars

LEMMA InstallStep ==
  ASSUME TypeOK, TypeOK', SerialInv, SerialInv', Successive, Successive', [Next]_vars
  PROVE  [Service!Next]_Service!vars
<1> USE DiskAssumption, WritingIs, WritingIsNext DEF SerialInv
<1>1. ASSUME NEW c \in Conns, NEW k \in Clones, Create(c, k), Start(c)
      PROVE  Service!Begin(dev[c])
  <2>1. /\ stage[k] = "unborn" /\ stage' = [stage EXCEPT ![k] = "starting"]
        /\ target' = [target EXCEPT ![k] = dev[c]]
        /\ \A j \in Clones : ~ Cloning(j)
    BY <1>1 DEF Create, Start, OneClone
  <2>2. Writing = NoDisk
    BY <2>1
  <2>3. Cloning(k)' /\ target'[k] = dev[c]
    BY <2>1 DEF TypeOK, Cloning
  <2>4. Writing' = dev[c]
    BY <2>3
  <2>5. \A j \in Clones : (Over(j)' <=> Over(j)) /\ (Over(j) => stage'[j] = stage[j])
    BY <2>1 DEF TypeOK, Over
  <2>6. Outcome' = Outcome
    BY <2>5, OutcomeStays
  <2> QED
    BY <2>2, <2>4, <2>6 DEF Service!Begin
<1>2. ASSUME NEW k \in Clones, NEW how, Ends(k, how) PROVE Service!End(how)
  <2>1. /\ Cloning(k) /\ stage' = [stage EXCEPT ![k] = how] /\ target[k] \in Names
        /\ how \in {"ok", "failed"} /\ running' = FALSE
    BY <1>2 DEF Ends, TypeOK
  <2>2. Writing # NoDisk
    BY <2>1
  <2>3. \A j \in Clones : ~ Cloning(j)'
    BY <2>1 DEF OneClone
  <2>4. Writing' = NoDisk
    BY <2>3
  <2>5. stage'[k] = how /\ Over(k)'
    BY <2>1 DEF TypeOK, Over
  <2>6. \A j \in Clones : Over(j)' => j =< k
    <3> SUFFICES ASSUME NEW j \in Clones, Over(j)', k < j PROVE FALSE
      BY DEF Clones
    <3>1. Over(j)
      BY <2>1 DEF TypeOK, Over, Clones
    <3>2. ~ Over(k)
      BY <2>1 DEF Cloning, Over
    <3> QED
      BY <3>1, <3>2 DEF Successive, Over
  <2>7. Outcome' = how
    BY <2>1, <2>5, <2>6, OutcomeIs
  <2> QED
    BY <2>1, <2>2, <2>4, <2>7 DEF Service!End
<1>3. ASSUME NEW k \in Clones, GoesOn(k) PROVE UNCHANGED Service!vars
  <2>1. /\ Cloning(k) /\ Cloning(k)' /\ target' = target
        /\ \A j \in Clones : (Over(j)' <=> Over(j)) /\ (Over(j) => stage'[j] = stage[j])
    BY <1>3 DEF GoesOn, Cloning, Over, TypeOK
  <2>2. Writing' = Writing
    BY <2>1
  <2>3. Outcome' = Outcome
    BY <2>1, OutcomeStays
  <2> QED
    BY <2>2, <2>3 DEF Service!vars
<1>6. CASE Restart
  <2>1. /\ target' = target
        /\ \A j \in Clones : stage'[j] = IF Cloning(j) THEN "killed" ELSE stage[j]
    BY <1>6 DEF Restart, given
  <2>2. \A j \in Clones : ~ Cloning(j)'
    BY <2>1 DEF Cloning
  <2>3. Writing' = NoDisk
    BY <2>2
  <2>4. CASE \E k \in Clones : Cloning(k)
    <3>1. PICK k \in Clones : Cloning(k)
      BY <2>4
    <3>2. Writing # NoDisk
      BY <3>1 DEF TypeOK
    <3>3. stage'[k] = "killed" /\ Over(k)'
      BY <2>1, <3>1 DEF Over
    <3>4. \A j \in Clones : k < j => stage[j] = "unborn"
      BY <3>1 DEF Successive, Cloning, Over
    <3>5. \A j \in Clones : k < j => ~ Over(j)'
      BY <2>1, <3>4 DEF Over, Cloning
    <3>6. \A j \in Clones : Over(j)' => j =< k
      BY <3>5 DEF Clones
    <3>7. Outcome' = "failed"
      BY <3>3, <3>6, OutcomeIs
    <3> QED
      BY <2>3, <3>2, <3>7 DEF Service!End, Service!Next
  <2>5. CASE \A k \in Clones : ~ Cloning(k)
    <3>1. \A j \in Clones : stage'[j] = stage[j]
      BY <2>1, <2>5
    <3>2. Writing = NoDisk
      BY <2>5
    <3>3. Outcome' = Outcome
      BY <3>1, OutcomeStays DEF Over
    <3> QED
      BY <2>3, <3>2, <3>3 DEF Service!vars
  <2> QED
    BY <2>4, <2>5
<1>4. CASE UNCHANGED <<stage, target>>
  BY <1>4 DEF Service!vars, Writing, Outcome, Latest, Ended, Cloning, Over
<1>5. \A c \in Conns : Start(c) => /\ \E k \in Clones : Create(c, k)
                                   /\ dev[c] \in Names
  BY DEF Start, TypeOK
<1> QED
  BY <1>1, <1>2, <1>3, <1>4, <1>5, <1>6, TaskParts, DdParts
  DEF Next, Install, Look, Begin, Arguments, Refuse, List, Swap, Ends, given, vars, Service!Next

\* Unless two calls of install() overlap, the service keeps the promise OneInstall
\* makes: an install begins only when no other runs, and ends with its own outcome.
THEOREM OneCallImplements == Spec /\ []OneCall => ImplementsOneInstall
<1>1. Init => Service!Init
  BY DEF Init, Service!Init, Writing, Outcome, Latest, Cloning, Over
<1>2. Init => Successive
  BY DEF Init, Successive
<1>3. TypeOK /\ SerialInv /\ Successive /\ [Next]_vars => Successive'
  BY SuccessiveStep
<1>4. TypeOK /\ TypeOK' /\ SerialInv /\ SerialInv' /\ Successive /\ Successive'
        /\ [Next]_vars => [Service!Next]_Service!vars
  BY InstallStep
<1> QED
  BY <1>1, <1>2, <1>3, <1>4, TypeCorrect, SerialCorrect, PTL
  DEF Spec, ImplementsOneInstall, Service!Spec

\* With one connection it always does.
THEOREM SerialImplementsOneInstall ==
  ASSUME SerialClients PROVE Spec => ImplementsOneInstall
<1>1. OneCall
  BY DEF SerialClients, OneCall
<1> QED
  BY <1>1, OneCallImplements, PTL

-------------------------------------------------------------------------------
\* What a user saw under a name has it still, or the name has changed hands since.
LookTrue == \A n \in Names : Moved(n, lookedAt) \/ looked[n] = at[n]

CallTrue(c) ==
  /\ pc[c] # "idle" => Moved(token[c], sawAt[c]) \/ saw[c] = at[token[c]]
  /\ pc[c] = "probing" =>
       /\ token[c] = dev[c]
       /\ Moved(dev[c], sawAt[c]) \/ Size[at[dev[c]]] >= 1

CloneTrue(k) ==
  /\ stage[k] # "unborn" /\ ~ Moved(target[k], meantAt[k]) =>
       meant[k] = at[target[k]] /\ Size[meant[k]] >= 1
  /\ opened[k] # NoDisk => stage[k] # "unborn"
  /\ opened[k] # NoDisk /\ ~ Moved(target[k], meantAt[k]) => opened[k] = meant[k]

NamesStand ==
  LookTrue /\ (\A c \in Conns : CallTrue(c)) /\ (\A k \in Clones : CloneTrue(k))

LEMMA NamesStandStep == NamesStand /\ TypeOK /\ [Next]_vars => NamesStand'
<1> SUFFICES ASSUME NamesStand, TypeOK, [Next]_vars PROVE NamesStand'
  OBVIOUS
<1> USE DiskAssumption DEF Moved
<1>1. UNCHANGED <<plugs, eyes>> => LookTrue'
  BY DEF NamesStand, LookTrue, plugs, eyes
<1>2. UNCHANGED <<plugs, call>> => \A c \in Conns : CallTrue(c)'
  BY DEF NamesStand, CallTrue, plugs, call
<1>3. ASSUME UNCHANGED <<plugs, given, opened>>,
             \A k \in Clones : stage'[k] = "unborn" <=> stage[k] = "unborn"
      PROVE  \A k \in Clones : CloneTrue(k)'
  BY <1>3 DEF NamesStand, CloneTrue, plugs, given
<1>4. ASSUME NEW c \in Conns, Return(c), UNCHANGED plugs
      PROVE  \A b \in Conns : CallTrue(b)'
  <2>1. \A b \in Conns : b # c => UNCHANGED <<pc[b], token[b], dev[b], saw[b], sawAt[b]>>
    BY <1>4 DEF Return, Suspend, TypeOK
  <2>2. pc'[c] = "idle"
    BY <1>4 DEF Return, Suspend, TypeOK
  <2> QED
    BY <1>4, <2>1, <2>2 DEF NamesStand, CallTrue, plugs
<1>5. CASE Look
  <2>1. LookTrue'
    BY <1>5 DEF Look, LookTrue, plugs
  <2> QED
    BY <1>2, <1>3, <1>5, <2>1 DEF Look, NamesStand, writer
<1>6. ASSUME NEW c \in Conns, NEW n \in Names, NEW t \in Names, Begin(c, n, t)
      PROVE  NamesStand'
  <2>1. ASSUME NEW b \in Conns PROVE CallTrue(b)'
    <3>1. CASE b = c
      <4>1. /\ pc'[c] = "listing" /\ token'[c] = t /\ saw'[c] = looked[t]
            /\ sawAt'[c] = lookedAt /\ UNCHANGED plugs
        BY <1>6 DEF Begin, Arguments, Suspend, TypeOK
      <4> QED
        BY <3>1, <4>1 DEF NamesStand, LookTrue, CallTrue, plugs
    <3>2. CASE b # c
      BY <1>6, <3>2 DEF Begin, Arguments, Suspend, TypeOK, NamesStand, CallTrue, plugs
    <3> QED
      BY <3>1, <3>2
  <2> QED
    BY <1>1, <1>3, <1>6, <2>1 DEF Begin, Arguments, NamesStand, writer
<1>7. ASSUME NEW c \in Conns, Refuse(c) PROVE NamesStand'
  BY <1>1, <1>3, <1>4, <1>7 DEF Refuse, NamesStand, writer
<1>8. ASSUME NEW c \in Conns, List(c) PROVE NamesStand'
  <2>1. ASSUME NEW b \in Conns PROVE CallTrue(b)'
    <3>1. UNCHANGED <<plugs, dev, token, saw, sawAt>>
      BY <1>8 DEF List
    <3>2. CASE b = c
      <4>1. pc[c] # "idle" /\ token[c] = dev[c] /\ Size[at[dev[c]]] >= 1
        BY <1>8 DEF List
      <4> QED
        BY <3>1, <3>2, <4>1 DEF NamesStand, CallTrue, plugs
    <3>3. CASE b # c
      <4>1. pc'[b] = pc[b]
        BY <1>8, <3>3 DEF List, Suspend, TypeOK
      <4> QED
        BY <3>1, <4>1 DEF NamesStand, CallTrue, plugs
    <3> QED
      BY <3>2, <3>3
  <2> QED
    BY <1>1, <1>3, <1>8, <2>1 DEF List, NamesStand, writer
<1>9. ASSUME NEW c \in Conns, Start(c) PROVE NamesStand'
  <2>1. PICK k \in Clones : Create(c, k)
    BY <1>9 DEF Start
  <2>2. Return(c) /\ UNCHANGED <<plugs, eyes, opened>> /\ pc[c] = "probing"
    BY <1>9 DEF Start, writer
  <2>3. ASSUME NEW j \in Clones PROVE CloneTrue(j)'
    <3>1. CASE j = k
      <4>1. opened[k] = NoDisk
        BY <2>1 DEF Create, NamesStand, CloneTrue
      <4>2. target'[k] = dev[c] /\ meant'[k] = saw[c] /\ meantAt'[k] = sawAt[c]
        BY <2>1 DEF Create, TypeOK
      <4>3. Moved(dev[c], sawAt[c]) \/ (saw[c] = at[dev[c]] /\ Size[at[dev[c]]] >= 1)
        BY <2>2 DEF NamesStand, CallTrue
      <4> QED
        BY <2>2, <3>1, <4>1, <4>2, <4>3 DEF CloneTrue, plugs
    <3>2. CASE j # k
      BY <2>1, <2>2, <3>2 DEF Create, TypeOK, NamesStand, CloneTrue, plugs
    <3> QED
      BY <3>1, <3>2
  <2> QED
    BY <1>1, <1>4, <2>2, <2>3 DEF NamesStand
<1>10. ASSUME NEW k \in Clones, Open(k) PROVE NamesStand'
  <2>1. UNCHANGED <<plugs, eyes, call, given>> /\ stage[k] = "starting"
    BY <1>10 DEF Open
  <2>2. ASSUME NEW j \in Clones PROVE CloneTrue(j)'
    <3>1. stage'[j] = "unborn" <=> stage[j] = "unborn"
      BY <1>10 DEF Open, TypeOK
    <3>2. j # k => opened'[j] = opened[j]
      BY <1>10 DEF Open, TypeOK
    <3>3. opened'[k] = at[target[k]]
      BY <1>10 DEF Open, TypeOK
    <3> QED
      BY <2>1, <3>1, <3>2, <3>3 DEF NamesStand, CloneTrue, plugs, given
  <2> QED
    BY <1>1, <1>2, <2>1, <2>2 DEF NamesStand
<1>11. ASSUME NEW k \in Clones, Dd(k) \/ ReadLine(k) PROVE NamesStand'
  <2>1. UNCHANGED <<plugs, eyes, call, given, opened, stage>>
    BY <1>11 DEF Dd, DdCopies, DdExits, ReadLine
  <2> QED
    BY <1>1, <1>2, <1>3, <2>1 DEF NamesStand
<1>12. ASSUME NEW k \in Clones, DdOver(k) \/ Relabel(k) \/ Done(k) \/ Break(k)
       PROVE  NamesStand'
  <2>1. UNCHANGED <<plugs, eyes, call, given, opened>>
    BY <1>12 DEF DdOver, Relabel, Done, Break, Failed, Finishing, writer
  <2>2. ASSUME NEW j \in Clones PROVE stage'[j] = "unborn" <=> stage[j] = "unborn"
    BY <1>12 DEF DdOver, Relabel, Done, Break, Failed, Finishing, Cloning, TypeOK
  <2> QED
    BY <1>1, <1>2, <1>3, <2>1, <2>2 DEF NamesStand
<1>13. CASE Restart
  <2>1. /\ UNCHANGED <<plugs, eyes, given, opened>>
        /\ \A c \in Conns : pc'[c] = "idle"
    BY <1>13 DEF Restart
  <2>2. \A k \in Clones : stage'[k] = "unborn" <=> stage[k] = "unborn"
    BY <1>13 DEF Restart, Cloning
  <2>3. \A c \in Conns : CallTrue(c)'
    BY <2>1 DEF CallTrue
  <2> QED
    BY <1>1, <1>3, <2>1, <2>2, <2>3 DEF NamesStand
<1>14. ASSUME NEW n \in Names, NEW d \in Disks \union {NoDisk}, Swap(n, d)
       PROVE  NamesStand'
  <2>1. /\ at' = [at EXCEPT ![n] = d] /\ since' = [since EXCEPT ![n] = swaps + 1]
        /\ UNCHANGED <<eyes, call, stage, given, writer>>
    BY <1>14 DEF Swap
  <2>2. \A m \in Names : /\ m # n => at'[m] = at[m] /\ since'[m] = since[m]
                         /\ m = n => since'[m] = swaps + 1 /\ since'[m] > since[m]
    BY <2>1 DEF TypeOK
  <2>3. LookTrue'
    BY <2>1, <2>2 DEF NamesStand, LookTrue, TypeOK, eyes
  <2>4. \A c \in Conns : CallTrue(c)'
    BY <2>1, <2>2 DEF NamesStand, CallTrue, TypeOK, call
  <2>5. ASSUME NEW k \in Clones PROVE CloneTrue(k)'
    <3>1. Moved(target[k], meantAt[k]) => Moved(target[k], meantAt[k])'
      BY <2>1, <2>2 DEF TypeOK, given
    <3>2. target[k] = n => Moved(target[k], meantAt[k])'
      BY <2>1, <2>2 DEF TypeOK, given
    <3>3. UNCHANGED <<stage, target, meant, meantAt, opened>>
      BY <2>1 DEF given, writer
    <3> HIDE DEF Moved
    <3> QED
      BY <2>2, <3>1, <3>2, <3>3 DEF NamesStand, CloneTrue, TypeOK
  <2> QED
    BY <2>3, <2>4, <2>5 DEF NamesStand
<1>15. CASE UNCHANGED vars
  BY <1>1, <1>2, <1>3, <1>15 DEF vars, NamesStand, writer
<1> QED
  BY <1>5, <1>6, <1>7, <1>8, <1>9, <1>10, <1>11, <1>12, <1>13, <1>14, <1>15
  DEF Next, Install, Task

\* A confirmation destroys the disk the user was looking at and no other, however the
\* disks come and go, unless that one's name has changed hands since the user looked;
\* for any number of connections and clients that confirm what they like.
THEOREM OnlyMeantIsWiped == Spec => []OnlyTheDiskMeant
<1>1. Init => NamesStand
  BY DiskAssumption DEF Init, NamesStand, LookTrue, CallTrue, CloneTrue
<1>2. NamesStand => OnlyTheDiskMeant
  BY DEF NamesStand, OnlyTheDiskMeant, CloneTrue
<1> QED
  BY <1>1, <1>2, NamesStandStep, TypeCorrect, PTL DEF Spec

-------------------------------------------------------------------------------
\* The courier stick.

\* The names are a function, and what is mounted is there.
Mounted ==
  /\ name \in [Media -> Devices \union {None}]
  /\ name[Stick] # None
  /\ mnt \in Media \union {None}
  /\ mnt # None => name[mnt] # None

\* From the search to the write, what is mounted is where the image is.
Reading ==
  step \in {"scan", "choose", "confirm", "unmount", "write"} => mnt \in {None, source}

\* dd is not started for a disk that is mounted.
Unmounted == step = "write" => Stick \notin Behind(chosen) /\ mnt \notin Behind(chosen)

Guarded == Mounted /\ Reading /\ Unmounted /\ NeverTheStick

LEMMA GuardedInit == CourierInit => Guarded
BY InstallAssumption
DEF InstallAssumption, CourierInit, Guarded, Mounted, Reading, Unmounted, NeverTheStick, Naming

LEMMA GuardedStep ==
  Guarded /\ [CourierNext]_courierVars => Guarded'
<1> SUFFICES ASSUME Guarded, [CourierNext]_courierVars PROVE Guarded'
  OBVIOUS
<1> USE InstallAssumption
    DEF InstallAssumption, Guarded, Mounted, Reading, Unmounted, NeverTheStick, Behind, Plugged,
        knowledge
<1>1. CASE FindPayload
  <2>1. /\ step = "find" /\ step' \in {"scan", "shell"}
        /\ UNCHANGED <<name, content, big, result>>
        /\ mnt' = source'
    BY <1>1 DEF FindPayload, result
  <2>2. mnt' = None \/ (mnt' \in Media /\ name[mnt'] # None)
    <3>1. CASE mnt' = None
      BY <3>1
    <3>2. CASE mnt' # None
      <4>1. PICK tried \in SUBSET (labelled \intersect Plugged) :
              mnt' \in (IF mnt \in images THEN {mnt} ELSE tried \intersect images)
              \/ mnt' \in (images \intersect Plugged) \ whole
        BY <1>1, <3>2 DEF FindPayload
      <4>2. mnt' \in {mnt} \/ mnt' \in Plugged
        BY <4>1
      <4> QED
        BY <3>2, <4>2
    <3> QED
      BY <3>1, <3>2
  <2> QED
    BY <2>1, <2>2 DEF result
<1>2. CASE ScanDisks
  BY <1>2 DEF ScanDisks, result
<1>3. CASE Choose
  BY <1>3 DEF Choose, result
<1>4. CASE Confirm
  BY <1>4 DEF Confirm, result, choice
<1>5. CASE Unmount
  BY <1>5 DEF Unmount, result, choice
<1>6. CASE WriteImage
  BY <1>6 DEF WriteImage, content, choice
<1>7. CASE RegisterBootEntry
  BY <1>7 DEF RegisterBootEntry, choice
<1>8. CASE Stay \/ Again
  BY <1>8 DEF Stay, Again, Forget, result, choice
<1>9. CASE Boot
  <2>1. /\ step' = "find" /\ mnt' = None
        /\ name' \in [Media -> Devices \union {None}] /\ name'[Stick] # None
    BY <1>9 DEF Boot, Naming
  <2>2. Stick \notin written'
    BY <1>9 DEF Boot
  <2> QED
    BY <2>1, <2>2
<1>10. ASSUME NEW m \in Media, Pull(m) PROVE Guarded'
  BY <1>10 DEF Pull, result, choice
<1>11. ASSUME NEW m \in Media, Plug(m) PROVE Guarded'
  <2>1. PICK n \in Devices : Behind(n) = {} /\ name' = [name EXCEPT ![m] = n]
    BY <1>11 DEF Plug
  <2>2. m # Stick /\ m # mnt
    BY <1>11 DEF Plug
  <2> QED
    BY <1>11, <2>1, <2>2 DEF Plug, result, choice
<1>12. CASE UNCHANGED courierVars
  BY <1>12 DEF courierVars, result, choice
<1> QED
  BY <1>1, <1>2, <1>3, <1>4, <1>5, <1>6, <1>7, <1>8, <1>9, <1>10, <1>11, <1>12 DEF CourierNext

LEMMA AlwaysGuarded == CourierSpec => []Guarded
BY GuardedInit, GuardedStep, PTL DEF CourierSpec

\* "never the disk it booted from": the stick is never written to, wherever the
\* image was found and whatever the disks are called.
THEOREM StickSafe == CourierSpec => []NeverTheStick
<1>1. Guarded => NeverTheStick
  BY DEF Guarded
<1> QED
  BY <1>1, AlwaysGuarded, PTL

\* The medium that the image is read from is never written to by that install.
THEOREM SourceSafe == CourierSpec => SourceKept
<1>1. Guarded /\ [CourierNext]_courierVars => [\A m \in written' \ written : m # source]_courierVars
  <2> SUFFICES ASSUME Guarded, CourierNext PROVE \A m \in written' \ written : m # source
    BY DEF courierVars, knowledge, content, choice, result
  <2>1. CASE WriteImage
    BY <2>1 DEF WriteImage, Guarded, Reading, Unmounted
  <2>2. CASE Boot
    BY <2>2 DEF Boot, Guarded, Reading, Unmounted
  <2>3. CASE written' = written
    BY <2>3
  <2> QED
    BY <2>1, <2>2, <2>3
    DEF CourierNext, FindPayload, ScanDisks, Choose, Confirm, Unmount, RegisterBootEntry,
        Stay, Again, Pull, Plug, result
<1> QED
  BY <1>1, AlwaysGuarded, PTL DEF CourierSpec, SourceKept

-------------------------------------------------------------------------------
\* From the scan on, what was there already has the name it was listed under, or none.

OneEach ==
  /\ name \in [Media -> Devices \union {None}]
  /\ \A m, k \in Media : name[m] = name[k] => m = k \/ name[m] = None

Ready == {"choose", "confirm", "unmount", "write", "register"}

SeenTrue == \A m \in Media \ late : name[m] # None => seen[name[m]] = m

Sized(n) == \A m \in Media \ late : name[m] = n => m \in big

Standing ==
  /\ step \in Ready => SeenTrue
  /\ step = "choose" => None \notin offered /\ \A n \in offered : Sized(n)
  /\ step \in Ready \ {"choose"} => chosen # None /\ Sized(chosen)
  /\ step \in {"unmount", "write", "register"} => confirmed = seen[chosen]
  /\ step = "register" => Behind(chosen) \ late \subseteq written

MeantInv == OneEach /\ Standing

\* What dd and efibootmgr find behind the name that was chosen.
LEMMA MeantBehind ==
  ASSUME MeantInv, step \in {"unmount", "write", "register"}, NEW m \in Behind(chosen) \ late
  PROVE  m = confirmed /\ m \in big
BY DEF MeantInv, OneEach, Standing, Ready, SeenTrue, Sized, Behind

LEMMA MeantInit == CourierInit => MeantInv
BY InstallAssumption DEF InstallAssumption, CourierInit, MeantInv, OneEach, Standing, Ready, Naming

\* Who does not touch names, list and sizes keeps what is known of them.
LEMMA MeantKeeps ==
  ASSUME UNCHANGED <<name, big, seen, late>>
  PROVE  /\ OneEach => OneEach'
         /\ SeenTrue => SeenTrue'
         /\ \A n : Sized(n) => Sized(n)'
         /\ \A n : Behind(n)' = Behind(n)
BY DEF OneEach, SeenTrue, Sized, Behind

LEMMA MeantStep ==
  MeantInv /\ [CourierNext]_courierVars => MeantInv'
<1> SUFFICES ASSUME MeantInv, [CourierNext]_courierVars PROVE MeantInv'
  OBVIOUS
<1> USE InstallAssumption DEF InstallAssumption, MeantInv
<1>1. CASE FindPayload \/ Stay
  <2>1. step' \notin Ready /\ name' = name
    BY <1>1 DEF FindPayload, Stay, Ready
  <2> QED
    BY <2>1 DEF OneEach, Standing, Ready
<1>2. CASE ScanDisks
  <2>1. UNCHANGED <<name, big>> /\ step' = "choose" /\ late' = {}
    BY <1>2 DEF ScanDisks
  <2>2. ASSUME NEW m \in Media, name[m] # None PROVE seen'[name[m]] = m
    <3>1. name[m] \in Devices /\ Behind(name[m]) = {m}
      BY <2>2 DEF OneEach, Behind
    <3> QED
      BY <1>2, <3>1 DEF ScanDisks
  <2>3. ASSUME NEW n \in offered' PROVE n # None /\ Sized(n)'
    <3>1. PICK m \in Media : m \in big /\ name[m] = n /\ n # None
      BY <1>2, <2>3 DEF ScanDisks, Plugged
    <3>2. \A k \in Media : name[k] = n => k = m
      BY <3>1 DEF OneEach
    <3> QED
      BY <2>1, <3>1, <3>2 DEF Sized
  <2>4. OneEach' /\ SeenTrue'
    BY <2>1, <2>2 DEF OneEach, SeenTrue
  <2> QED
    BY <2>1, <2>3, <2>4 DEF Standing, Ready
<1>3. CASE Choose
  <2>1. UNCHANGED <<name, big, seen, late>> /\ step = "choose"
    BY <1>3 DEF Choose
  <2>2. step' = "shell" \/ (step' = "confirm" /\ chosen' \in offered)
    BY <1>3 DEF Choose
  <2> QED
    BY <2>1, <2>2, MeantKeeps DEF Standing, Ready
<1>4. CASE Confirm
  <2>1. UNCHANGED <<name, big, seen, late, chosen>> /\ step = "confirm"
    BY <1>4 DEF Confirm, choice
  <2>2. step' = "shell" \/ (step' = "unmount" /\ confirmed' = seen[chosen])
    BY <1>4 DEF Confirm
  <2> QED
    BY <2>1, <2>2, MeantKeeps DEF Standing, Ready
<1>5. CASE Unmount
  <2>1. UNCHANGED <<name, big, seen, late, chosen, confirmed>> /\ step = "unmount"
        /\ step' \in {"shell", "write"}
    BY <1>5 DEF Unmount, knowledge, choice
  <2> QED
    BY <2>1, MeantKeeps DEF Standing, Ready
<1>6. CASE WriteImage
  <2>1. UNCHANGED <<name, big, seen, late, chosen, confirmed>> /\ step = "write"
    BY <1>6 DEF WriteImage, knowledge, choice
  <2>2. \/ step' = "shell"
        \/ step' = "register" /\ written' = written \union Behind(chosen)
    BY <1>6 DEF WriteImage
  <2> QED
    BY <2>1, <2>2, MeantKeeps DEF Standing, Ready
<1>7. CASE RegisterBootEntry
  <2>1. step' = "done" /\ name' = name
    BY <1>7 DEF RegisterBootEntry
  <2> QED
    BY <2>1 DEF OneEach, Standing, Ready
<1>8. CASE Again
  <2>1. step' = "find" /\ name' = name
    BY <1>8 DEF Again
  <2> QED
    BY <2>1 DEF OneEach, Standing, Ready
<1>9. CASE Boot
  <2>1. step' = "find" /\ OneEach'
    BY <1>9 DEF Boot, Naming, OneEach
  <2> QED
    BY <2>1 DEF Standing, Ready
<1>10. ASSUME NEW m \in Media, Pull(m) PROVE MeantInv'
  <2>1. /\ name' = [name EXCEPT ![m] = None]
        /\ UNCHANGED <<big, step, seen, offered, chosen, late, confirmed, written>>
    BY <1>10 DEF Pull, knowledge, choice, result
  <2>2. OneEach' /\ \A k \in Media : name'[k] \in {name[k], None}
    BY <2>1 DEF OneEach
  <2>3. (SeenTrue => SeenTrue') /\ \A n : n # None /\ Sized(n) => Sized(n)'
    BY <2>1, <2>2 DEF SeenTrue, Sized
  <2>4. chosen # None => Behind(chosen)' \subseteq Behind(chosen)
    BY <2>1, <2>2 DEF Behind
  <2> QED
    BY <2>1, <2>2, <2>3, <2>4 DEF Standing, Ready
<1>11. ASSUME NEW m \in Media, Plug(m) PROVE MeantInv'
  <2>1. PICK n \in Devices : Behind(n) = {} /\ name' = [name EXCEPT ![m] = n]
    BY <1>11 DEF Plug
  <2>2. /\ UNCHANGED <<big, step, seen, offered, chosen, confirmed, written>>
        /\ late' = late \union {m}
    BY <1>11 DEF Plug, choice, result
  <2>3. OneEach'
    BY <2>1 DEF OneEach, Behind
  <2>4. \A k \in Media \ late' : k \notin late /\ name'[k] = name[k]
    BY <2>1, <2>2 DEF OneEach
  <2>5. (SeenTrue => SeenTrue') /\ \A j : Sized(j) => Sized(j)'
    BY <2>2, <2>4 DEF SeenTrue, Sized
  <2>6. Behind(chosen)' \ late' \subseteq Behind(chosen) \ late
    BY <2>2, <2>4 DEF Behind
  <2> QED
    BY <2>2, <2>3, <2>5, <2>6 DEF Standing, Ready
<1>12. CASE UNCHANGED courierVars
  <2>1. UNCHANGED <<name, big, step, seen, offered, chosen, late, confirmed, written>>
    BY <1>12 DEF courierVars, knowledge, choice, result
  <2> QED
    BY <2>1, MeantKeeps DEF Standing, Ready
<1> QED
  BY <1>1, <1>2, <1>3, <1>4, <1>5, <1>6, <1>7, <1>8, <1>9, <1>10, <1>11, <1>12 DEF CourierNext

\* "never without a confirmation": what is written to, and entered in the firmware, is
\* the disk that was listed under its name, confirmed and large enough, for any disks,
\* pulls, old entries and power cuts, unless one plugged in later has taken the name.
THEOREM OnlyTheMeantIsWritten == CourierSpec => OnlyWhatWasMeant
<1>1. ASSUME MeantInv, CourierNext,
             NEW m \in ((written' \ written) \union (entries' \ entries)) \ late
      PROVE  m = confirmed /\ m \in big \intersect written'
  <2>1. CASE WriteImage
    <3>1. step = "write" /\ entries' = entries /\ m \in Behind(chosen)
      BY <1>1, <2>1 DEF WriteImage
    <3> QED
      BY <1>1, <3>1, MeantBehind
  <2>2. CASE Boot
    <3>1. step = "write" /\ entries' = entries /\ m \in Behind(chosen)
      BY <1>1, <2>2 DEF Boot
    <3> QED
      BY <1>1, <3>1, MeantBehind
  <2>3. CASE RegisterBootEntry
    <3>1. step = "register" /\ written' = written /\ m \in Behind(chosen) \ late
      BY <1>1, <2>3 DEF RegisterBootEntry
    <3> QED
      BY <1>1, <3>1, MeantBehind DEF MeantInv, Standing
  <2>4. CASE UNCHANGED result
    BY <1>1, <2>4 DEF result
  <2> QED
    BY <1>1, <2>1, <2>2, <2>3, <2>4
    DEF CourierNext, FindPayload, ScanDisks, Choose, Confirm, Unmount, Stay, Again, Pull, Plug
<1>2. MeantInv /\ [CourierNext]_courierVars =>
        [\A m \in ((written' \ written) \union (entries' \ entries)) \ late :
           m = confirmed /\ m \in big \intersect written']_courierVars
  BY <1>1
<1> QED
  BY <1>2, MeantInit, MeantStep, PTL DEF CourierSpec, OnlyWhatWasMeant
===============================================================================
