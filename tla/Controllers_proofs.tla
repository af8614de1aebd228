-------------------------- MODULE Controllers_proofs --------------------------
(***************************************************************************)
(* Controllers, for any gamepads and numbers of presses, stalls, pulls and *)
(* restarts: a press of the PS button is reported once at most, as long or *)
(* short as it was unless a busy loop made its events wait, and none is    *)
(* swallowed but those the watcher was missing or replaced for.            *)
(***************************************************************************)
EXTENDS Controllers, TLAPS

\* The presses.  A watcher's queue is what the kernel has delivered and _watch() not read.

Times == {"up", "short", "long"}
Event == [down : BOOLEAN, press : Presses]
Task == [timer : Times, queue : Seq(Event)]

\* A controller has one watcher at most.
Watched(p) == 1 \in DOMAIN tasks[p]
Timer(p) == tasks[p][1].timer
Queue(p) == tasks[p][1].queue

Typed ==
  /\ DOMAIN tasks = Pads
  /\ \A p \in Pads : DOMAIN tasks[p] \subseteq {1} /\ (Watched(p) => tasks[p][1] \in Task)
  /\ held \in [Pads -> Times]
  /\ press \in [Pads -> 0 .. MaxPresses]
  /\ length \in [Presses -> {"none", "short", "long"}]
  /\ DOMAIN told = Presses

\* The j-th unread event of p is the end of press i.
Ends(p, j, i) ==
  /\ Watched(p) /\ j \in 1 .. Len(Queue(p))
  /\ ~ Queue(p)[j].down /\ Queue(p)[j].press = i

\* A press is under way, has an unread end, or has been told of: one of the three.
Counted ==
  /\ \A i \in Presses : (\A p \in Pads : press[p] < i) => length[i] = "none"
  /\ \A p \in Pads : held[p] # "up" => press[p] \in Presses /\ length[press[p]] = "none"
  /\ \A p, q \in Pads : held[p] # "up" /\ held[q] # "up" /\ press[p] = press[q] => p = q
  /\ \A i \in Presses : \A p \in Pads : \A j : Ends(p, j, i) => length[i] # "none" /\ told[i] = <<>>
  /\ \A i \in Presses : \A p, q \in Pads : \A j, k :
       Ends(p, j, i) /\ Ends(q, k, i) => p = q /\ j = k

Told ==
  \A i \in Presses :
    \/ told[i] = <<>>
    \/ /\ length[i] # "none"
       /\ \E kind \in Times : told[i] = <<kind>> /\ (kind = length[i] \/ i \in late)

\* Begin and end of a press come one after the other.  Of a press no event of which had
\* to wait for a busy loop, what is unread is short, and the timer of p's watcher will be
\* right when it reads the end.
Paired(o, j) ==
  o[j].down \/ (o[j - 1].down /\ (o[j].press \in late \/ length[o[j].press] = "short"))

OnTime(p) ==
  /\ Queue(p) = <<>> /\ held[p] # "up" /\ press[p] \notin late => Timer(p) \in {"up", held[p]}
  /\ Queue(p) # <<>> =>
       /\ Queue(p)[Len(Queue(p))].down <=> held[p] # "up"
       /\ held[p] # "up" => Queue(p)[Len(Queue(p))].press = press[p]
       /\ press[p] \in late \/ held[p] # "long"
       /\ \/ Queue(p)[1].down \/ Queue(p)[1].press \in late
          \/ Timer(p) \in {"up", length[Queue(p)[1].press]}
  /\ \A j \in 2 .. Len(Queue(p)) : Paired(Queue(p), j)

Timed == \A p \in Pads : Watched(p) => OnTime(p)

PressInv == Typed /\ Counted /\ Told /\ Timed

LEMMA PressInit == Init => PressInv
<1> SUFFICES ASSUME Init PROVE PressInv
  OBVIOUS
<1> USE ControllersAssumption
<1>1. NewTask \in Task /\ NewTask.queue = <<>> /\ NewTask.timer = "up"
  BY DEF NewTask, Task, Times
<1>2. \A p \in Pads : DOMAIN tasks[p] \subseteq {1} /\ (Watched(p) => tasks[p][1] = NewTask)
  <2>1. \A p \in Pads : tasks[p] = IF p \in heard THEN <<NewTask>> ELSE <<>>
    BY DEF Init
  <2> SUFFICES ASSUME NEW p \in Pads
               PROVE  DOMAIN tasks[p] \subseteq {1} /\ (Watched(p) => tasks[p][1] = NewTask)
    OBVIOUS
  <2>2. CASE p \in heard
    <3>1. tasks[p] = <<NewTask>>
      BY <2>1, <2>2
    <3> QED
      BY <3>1
  <2>3. CASE p \notin heard
    <3>1. tasks[p] = <<>>
      BY <2>1, <2>3
    <3> QED
      BY <3>1 DEF Watched
  <2> QED
    BY <2>2, <2>3
<1>3. Typed
  BY <1>1, <1>2 DEF Init, Typed, Times
<1>4. \A p \in Pads : \A j, i : ~ Ends(p, j, i)
  BY <1>1, <1>2 DEF Ends, Queue
<1>5. Counted
  BY <1>4 DEF Init, Counted, Presses
<1>6. Told /\ Timed
  BY <1>1, <1>2 DEF Init, Told, Timed, OnTime, Queue, Timer
<1> QED
  BY <1>3, <1>5, <1>6 DEF PressInv

\* What is on time stays so while the button, its watcher and the lengths are left alone.
LEMMA OnTimeStays ==
  ASSUME NEW q \in Pads, OnTime(q), tasks'[q] = tasks[q], held'[q] = held[q],
         press'[q] = press[q], length' = length, late' = late
  PROVE  OnTime(q)'
<1>1. Queue(q)' = Queue(q) /\ Timer(q)' = Timer(q)
  BY DEF Queue, Timer
<1> QED
  BY <1>1 DEF OnTime, Paired

\* A watcher is left alone, ended, or replaced by one that knows nothing; a button may
\* go up unseen with its watcher.
LEMMA Renewing ==
  ASSUME PressInv, UNCHANGED <<press, length, told, late>>,
         DOMAIN tasks' = Pads,
         \A p \in Pads : tasks'[p] \in {tasks[p], <<>>, <<NewTask>>},
         held' \in [Pads -> Times],
         \A p \in Pads : held'[p] = held[p] \/ (held'[p] = "up" /\ tasks'[p] = <<>>)
  PROVE  PressInv'
<1>1. NewTask \in Task /\ NewTask.queue = <<>> /\ NewTask.timer = "up"
  BY DEF NewTask, Task, Times
<1>2. \A p \in Pads : /\ DOMAIN tasks'[p] \subseteq {1}
                     /\ Watched(p)' => tasks'[p][1] = NewTask
                                       \/ (Watched(p) /\ tasks'[p] = tasks[p] /\ held'[p] = held[p])
  BY DEF Watched, PressInv, Typed
<1>3. Typed'
  <2>1. \A p \in Pads : Watched(p)' => tasks'[p][1] \in Task
    BY <1>1, <1>2 DEF PressInv, Typed
  <2> QED
    BY <1>2, <2>1 DEF PressInv, Typed
<1>4. ASSUME NEW p \in Pads, NEW j, NEW i, Ends(p, j, i)' PROVE Ends(p, j, i)
  <2>1. Watched(p)' /\ Queue(p)' # <<>>
    BY <1>4 DEF Ends
  <2>2. tasks'[p] = tasks[p]
    BY <1>1, <1>2, <2>1 DEF Queue
  <2> QED
    BY <1>4, <2>2 DEF Ends, Queue, Watched
<1>5. Counted'
  <2>1. \A p \in Pads : held'[p] # "up" => held[p] # "up"
    OBVIOUS
  <2> QED
    BY <1>4, <2>1 DEF PressInv, Counted
<1>6. Told'
  BY DEF PressInv, Told
<1>7. ASSUME NEW p \in Pads, Watched(p)' PROVE OnTime(p)'
  <2>1. CASE tasks'[p][1] = NewTask
    BY <1>1, <2>1 DEF OnTime, Queue, Timer
  <2>2. CASE Watched(p) /\ tasks'[p] = tasks[p] /\ held'[p] = held[p]
    BY <1>7, <2>2, OnTimeStays DEF PressInv, Timed
  <2> QED
    BY <1>2, <1>7, <2>1, <2>2 DEF Watched
<1>8. Timed'
  BY <1>7 DEF Timed
<1> QED
  BY <1>3, <1>5, <1>6, <1>8 DEF PressInv

\* An event goes to the end of the queue of the one watcher.
LEMMA Delivering ==
  ASSUME Typed, NEW p \in Pads, NEW down \in BOOLEAN, Deliver(p, down), press'[p] \in Presses
  PROVE  /\ DOMAIN tasks' = Pads
         /\ \A q \in Pads : DOMAIN tasks'[q] = DOMAIN tasks[q]
         /\ \A q \in Pads \ {p} : tasks'[q] = tasks[q]
         /\ Watched(p) => /\ Watched(p)' /\ Timer(p)' = Timer(p)
                          /\ Queue(p)' = Append(Queue(p), [down |-> down, press |-> press'[p]])
                          /\ tasks'[p][1] \in Task
<1>1. tasks' = [tasks EXCEPT ![p] = [k \in DOMAIN tasks[p] |->
        [timer |-> tasks[p][k].timer,
         queue |-> Append(tasks[p][k].queue, [down |-> down, press |-> press'[p]])]]]
  BY DEF Deliver
<1>2. ASSUME Watched(p)
      PROVE  tasks'[p][1] =
               [timer |-> Timer(p),
                queue |-> Append(Queue(p), [down |-> down, press |-> press'[p]])]
  BY <1>1, <1>2 DEF Typed, Watched, Timer, Queue
<1>3. [down |-> down, press |-> press'[p]] \in Event
  BY DEF Event
<1>4. DOMAIN tasks' = Pads /\ \A q \in Pads : DOMAIN tasks'[q] = DOMAIN tasks[q]
  BY <1>1 DEF Typed
<1>5. \A q \in Pads \ {p} : tasks'[q] = tasks[q]
  BY <1>1 DEF Typed
<1>6. ASSUME Watched(p) PROVE Timer(p) \in Times /\ Queue(p) \in Seq(Event)
  BY <1>6 DEF Typed, Timer, Queue, Task
<1>7. ASSUME Watched(p)
      PROVE  /\ Timer(p)' = Timer(p)
             /\ Queue(p)' = Append(Queue(p), [down |-> down, press |-> press'[p]])
             /\ tasks'[p][1] \in Task
  <2>1. Append(Queue(p), [down |-> down, press |-> press'[p]]) \in Seq(Event)
    BY <1>3, <1>6, <1>7
  <2>2. tasks'[p][1] \in Task
    BY <1>2, <1>6, <1>7, <2>1 DEF Task
  <2>3. Timer(p)' = Timer(p)
    BY <1>2, <1>7 DEF Timer
  <2>4. Queue(p)' = Append(Queue(p), [down |-> down, press |-> press'[p]])
    BY <1>2, <1>7 DEF Queue
  <2> QED
    BY <2>2, <2>3, <2>4
<1>8. Watched(p) => Watched(p)'
  BY <1>4 DEF Watched
<1> QED
  BY <1>4, <1>5, <1>7, <1>8

\* A press begins: its number is new.
LEMMA DownStep == ASSUME PressInv, NEW p \in Pads, Down(p) PROVE PressInv'
<1>1. /\ held[p] = "up" /\ held' = [held EXCEPT ![p] = "short"]
      /\ Deliver(p, TRUE) /\ UNCHANGED <<length, told, late>>
  BY DEF Down
<1>2. PICK i \in Presses : /\ \A j \in Presses : j < i <=> \E q \in Pads : j <= press[q]
                           /\ press' = [press EXCEPT ![p] = i]
  BY DEF Down
<1>3. \A q \in Pads : press[q] < i
  BY <1>2, ControllersAssumption DEF PressInv, Typed, Presses
<1>4. length[i] = "none" /\ press'[p] = i /\ \A q \in Pads \ {p} : press'[q] = press[q]
  BY <1>2, <1>3 DEF PressInv, Counted, Typed
<1>5. DOMAIN tasks' = Pads /\ \A q \in Pads : DOMAIN tasks'[q] = DOMAIN tasks[q]
  BY <1>1, <1>4, Delivering DEF PressInv
<1>6. \A q \in Pads \ {p} : tasks'[q] = tasks[q]
  BY <1>1, <1>4, Delivering DEF PressInv
<1>7. Watched(p) => /\ Timer(p)' = Timer(p) /\ tasks'[p][1] \in Task
                    /\ Queue(p)' = Append(Queue(p), [down |-> TRUE, press |-> i])
  BY <1>1, <1>4, Delivering DEF PressInv
<1>8. Watched(p) => Queue(p) \in Seq(Event) /\ Timer(p) \in Times
  BY DEF PressInv, Typed, Queue, Timer, Task
<1>9. Typed'
  <2>1. held' \in [Pads -> Times] /\ press' \in [Pads -> 0 .. MaxPresses]
    BY <1>1, <1>2, ControllersAssumption DEF PressInv, Typed, Presses, Times
  <2> QED
    BY <1>1, <1>5, <1>6, <1>7, <2>1 DEF PressInv, Typed, Watched
<1>10. ASSUME NEW q \in Pads, NEW j, NEW n, Ends(q, j, n)' PROVE Ends(q, j, n)
  <2>1. CASE q = p
    BY <1>5, <1>7, <1>8, <1>10, <2>1 DEF Ends, Watched
  <2>2. CASE q # p
    BY <1>6, <1>10, <2>2 DEF Ends, Queue, Watched
  <2> QED
    BY <2>1, <2>2
<1>11. Counted'
  <2>1. \A n \in Presses : (\A q \in Pads : press'[q] < n) => length'[n] = "none"
    BY <1>1, <1>3, <1>4, ControllersAssumption DEF PressInv, Counted, Typed, Presses
  <2>2. \A q \in Pads : held'[q] # "up" => press'[q] \in Presses /\ length'[press'[q]] = "none"
    BY <1>1, <1>4 DEF PressInv, Counted, Typed
  <2>3. \A q, r \in Pads : held'[q] # "up" /\ held'[r] # "up" /\ press'[q] = press'[r] => q = r
    BY <1>1, <1>3, <1>4, ControllersAssumption DEF PressInv, Counted, Typed, Presses
  <2> QED
    BY <1>1, <1>10, <2>1, <2>2, <2>3 DEF PressInv, Counted
<1>12. ASSUME NEW q \in Pads, Watched(q)' PROVE OnTime(q)'
  <2>1. CASE q # p
    <3>1. tasks'[q] = tasks[q] /\ held'[q] = held[q] /\ Watched(q)
      BY <1>1, <1>6, <1>12, <2>1 DEF PressInv, Typed, Watched
    <3> QED
      BY <1>1, <1>4, <1>12, <2>1, <3>1, OnTimeStays DEF PressInv, Timed
  <2>2. CASE q = p
    <3>1. Watched(p) /\ OnTime(p)
      BY <1>5, <1>12, <2>2 DEF PressInv, Timed, Watched
    <3>2. held'[p] = "short" /\ press'[p] = i
      BY <1>1, <1>4 DEF PressInv, Typed
    <3> DEFINE o == Queue(p)
               e == [down |-> TRUE, press |-> i]
    <3>3. /\ Queue(p)' = Append(o, e) /\ o \in Seq(Event) /\ Timer(p)' = Timer(p)
      BY <1>7, <1>8, <3>1
    <3> HIDE DEF o, e
    <3>4. /\ Len(Append(o, e)) = Len(o) + 1 /\ Append(o, e)[Len(o) + 1] = e
          /\ \A j \in 1 .. Len(o) : Append(o, e)[j] = o[j]
          /\ Append(o, e) # <<>> /\ Len(o) \in Nat /\ (o = <<>> <=> Len(o) = 0)
      BY <3>3
    <3>5. e.down = TRUE /\ e.press = i
      BY DEF e
    <3>6. o[1].down \/ o[1].press \in late \/ Timer(p) \in {"up", length[o[1].press]} \/ o = <<>>
      BY <3>1 DEF OnTime, o
    <3>7. \A j \in 2 .. Len(o) : Paired(o, j)
      BY <3>1 DEF OnTime, Paired, o
    <3>8. \/ Append(o, e)[1].down \/ Append(o, e)[1].press \in late
          \/ Timer(p) \in {"up", length[Append(o, e)[1].press]}
      BY <3>4, <3>5, <3>6
    <3>9. \A j \in 2 .. Len(Append(o, e)) : Paired(Append(o, e), j)
      BY <3>4, <3>5, <3>7 DEF Paired
    <3>10. OnTime(p)'
      BY <1>1, <3>2, <3>3, <3>4, <3>5, <3>8, <3>9 DEF OnTime, Paired
    <3> QED
      BY <2>2, <3>10
  <2> QED
    BY <2>1, <2>2
<1>13. Told' /\ Timed'
  BY <1>1, <1>12 DEF PressInv, Told, Timed
<1> QED
  BY <1>9, <1>11, <1>13 DEF PressInv

\* A press ends: if its begin is unread it was short, and else the timer has counted it.
LEMMA UpStep == ASSUME PressInv, NEW p \in Pads, Up(p) PROVE PressInv'
<1> DEFINE i == press[p]
<1>1. /\ held[p] # "up" /\ held' = [held EXCEPT ![p] = "up"]
      /\ length' = [length EXCEPT ![i] = held[p]]
      /\ Deliver(p, FALSE) /\ UNCHANGED <<press, told, late>>
  BY DEF Up, excuses
<1>2. i \in Presses /\ length[i] = "none" /\ held[p] \in {"short", "long"}
  BY <1>1 DEF PressInv, Counted, Typed, Times
<1>3. length'[i] = held[p] /\ \A n \in Presses \ {i} : length'[n] = length[n]
  BY <1>1, <1>2 DEF PressInv, Typed
<1>4. told[i] = <<>>
  BY <1>2 DEF PressInv, Told
<1> HIDE DEF i
<1>5. press'[p] = i
  BY <1>1 DEF i
<1>6. DOMAIN tasks' = Pads /\ \A q \in Pads : DOMAIN tasks'[q] = DOMAIN tasks[q]
  BY <1>1, <1>2, <1>5, Delivering DEF PressInv
<1>7. \A q \in Pads \ {p} : tasks'[q] = tasks[q]
  BY <1>1, <1>2, <1>5, Delivering DEF PressInv
<1>8. Watched(p) => /\ Timer(p)' = Timer(p) /\ tasks'[p][1] \in Task
                    /\ Queue(p)' = Append(Queue(p), [down |-> FALSE, press |-> i])
  BY <1>1, <1>2, <1>5, Delivering DEF PressInv
<1>9. Watched(p) => Queue(p) \in Seq(Event) /\ Timer(p) \in Times
  BY DEF PressInv, Typed, Queue, Timer, Task
<1>10. Typed'
  <2>1. held' \in [Pads -> Times] /\ length' \in [Presses -> {"none", "short", "long"}]
    BY <1>1, <1>2 DEF PressInv, Typed, Times
  <2> QED
    BY <1>1, <1>6, <1>7, <1>8, <2>1 DEF PressInv, Typed, Watched
<1>11. ASSUME NEW q \in Pads, NEW j, NEW n, Ends(q, j, n)'
       PROVE  Ends(q, j, n) \/ (q = p /\ n = i /\ j = Len(Queue(p)) + 1)
  <2>1. CASE q = p
    BY <1>6, <1>8, <1>9, <1>11, <2>1 DEF Ends, Watched
  <2>2. CASE q # p
    BY <1>7, <1>11, <2>2 DEF Ends, Queue, Watched
  <2> QED
    BY <2>1, <2>2
<1>12. Counted'
  <2>1. \A n \in Presses : (\A q \in Pads : press'[q] < n) => length'[n] = "none"
    BY <1>1, <1>3, <1>5, <1>2 DEF PressInv, Counted, Typed, Presses
  <2>2. \A q \in Pads : held'[q] # "up" => held[q] # "up" /\ q # p
    BY <1>1 DEF PressInv, Typed
  <2>3. \A q \in Pads : held'[q] # "up" => press'[q] \in Presses /\ press'[q] # i
                                           /\ length'[press'[q]] = "none"
    BY <1>1, <1>3, <2>2 DEF PressInv, Counted, i
  <2>4. \A q, r \in Pads : held'[q] # "up" /\ held'[r] # "up" /\ press'[q] = press'[r] => q = r
    BY <1>1, <2>2 DEF PressInv, Counted
  <2>5. \A q \in Pads : \A j : ~ Ends(q, j, i)
    BY <1>2 DEF PressInv, Counted
  <2>6. \A n \in Presses : \A q \in Pads : \A j :
          Ends(q, j, n)' => length'[n] # "none" /\ told'[n] = <<>>
    BY <1>1, <1>2, <1>3, <1>4, <1>11 DEF PressInv, Counted
  <2>7. \A n \in Presses : \A q, r \in Pads : \A j, k :
          Ends(q, j, n)' /\ Ends(r, k, n)' => q = r /\ j = k
    BY <1>11, <2>5 DEF PressInv, Counted
  <2> QED
    BY <2>1, <2>3, <2>4, <2>6, <2>7 DEF Counted
<1>13. Told'
  BY <1>1, <1>2, <1>3, <1>4 DEF PressInv, Told
<1>14. ASSUME NEW q \in Pads, Watched(q)' PROVE OnTime(q)'
  <2>0. \A r \in Pads : \A j \in 1 .. Len(Queue(r)) : Watched(r) /\ ~ Queue(r)[j].down =>
           length'[Queue(r)[j].press] = length[Queue(r)[j].press]
    <3> SUFFICES ASSUME NEW r \in Pads, NEW j \in 1 .. Len(Queue(r)), Watched(r),
                        ~ Queue(r)[j].down
                 PROVE  length'[Queue(r)[j].press] = length[Queue(r)[j].press]
      OBVIOUS
    <3>1. Queue(r)[j].press \in Presses
      <4>1. Queue(r) \in Seq(Event)
        BY DEF PressInv, Typed, Task, Queue
      <4>2. Queue(r)[j] \in Event
        BY <4>1
      <4> QED
        BY <4>2 DEF Event
    <3>2. Ends(r, j, Queue(r)[j].press)
      BY DEF Ends
    <3>3. length[Queue(r)[j].press] # "none"
      BY <3>1, <3>2 DEF PressInv, Counted
    <3> QED
      BY <1>2, <1>3, <3>1, <3>3
  <2>1. CASE q # p
    <3>1. Watched(q) /\ OnTime(q) /\ Queue(q)' = Queue(q) /\ Timer(q)' = Timer(q)
          /\ held'[q] = held[q] /\ press'[q] = press[q]
      BY <1>1, <1>7, <1>14, <2>1 DEF PressInv, Typed, Timed, Queue, Timer, Watched
    <3>2. Queue(q) \in Seq(Event)
      BY <3>1 DEF PressInv, Typed, Queue, Task
    <3> QED
      BY <1>1, <2>0, <3>1, <3>2 DEF OnTime, Paired
  <2>2. CASE q = p
    <3>1. Watched(p) /\ OnTime(p)
      BY <1>6, <1>14, <2>2 DEF PressInv, Timed, Watched
    <3>2. held'[p] = "up"
      BY <1>1 DEF PressInv, Typed
    <3> DEFINE o == Queue(p)
               e == [down |-> FALSE, press |-> i]
    <3>3. /\ Queue(p)' = Append(o, e) /\ o \in Seq(Event) /\ Timer(p)' = Timer(p)
      BY <1>8, <1>9, <3>1
    <3>4. /\ o = <<>> => i \in late \/ Timer(p) \in {"up", held[p]}
          /\ o # <<>> => o[Len(o)].down /\ (i \in late \/ held[p] = "short")
          /\ o # <<>> => \/ o[1].down \/ o[1].press \in late
                         \/ Timer(p) \in {"up", length[o[1].press]}
          /\ \A j \in 2 .. Len(o) : Paired(o, j)
      BY <1>1, <1>2, <3>1 DEF OnTime, i
    <3>5. \A j \in 1 .. Len(o) : o[j].down \/ length'[o[j].press] = length[o[j].press]
      BY <2>0, <3>1
    <3> HIDE DEF o, e
    <3>6. /\ Len(Append(o, e)) = Len(o) + 1 /\ Append(o, e)[Len(o) + 1] = e
          /\ \A j \in 1 .. Len(o) : Append(o, e)[j] = o[j]
          /\ Append(o, e) # <<>> /\ Len(o) \in Nat /\ (o = <<>> <=> Len(o) = 0)
      BY <3>3
    <3>7. e.down = FALSE /\ e.press = i
      BY DEF e
    <3>8. \/ Append(o, e)[1].down \/ Append(o, e)[1].press \in late
          \/ Timer(p) \in {"up", length'[Append(o, e)[1].press]}
      BY <1>3, <3>4, <3>5, <3>6, <3>7
    <3>9. ASSUME NEW j \in 2 .. Len(Append(o, e)), ~ Append(o, e)[j].down
          PROVE  /\ Append(o, e)[j - 1].down
                 /\ Append(o, e)[j].press \in late \/ length'[Append(o, e)[j].press] = "short"
      BY <1>3, <3>4, <3>5, <3>6, <3>7, <3>9 DEF Paired
    <3>10. OnTime(p)'
      BY <1>1, <3>2, <3>3, <3>6, <3>7, <3>8, <3>9 DEF OnTime, Paired
    <3> QED
      BY <2>2, <3>10
  <2> QED
    BY <2>1, <2>2
<1>15. Timed'
  BY <1>1, <1>14 DEF Timed
<1> QED
  BY <1>10, <1>12, <1>13, <1>15 DEF PressInv

\* The watcher reads the first event of its queue.
LEMMA Reading ==
  ASSUME Typed, NEW p \in Pads, NEW k \in DOMAIN tasks[p], Read(p, k), NEW o, o = Queue(p)
  PROVE  /\ Watched(p) /\ Timer(p) \in Times /\ o \in Seq(Event) /\ o # <<>>
         /\ UNCHANGED <<held, press, length, heard, late, lost>>
         /\ told' = IF o[1].down \/ Timer(p) = "up" THEN told
                    ELSE [told EXCEPT ![o[1].press] = Append(@, Timer(p))]
         /\ DOMAIN tasks' = Pads /\ \A q \in Pads : DOMAIN tasks'[q] = DOMAIN tasks[q]
         /\ \A q \in Pads \ {p} : tasks'[q] = tasks[q]
         /\ tasks'[p][1] = [timer |-> IF o[1].down THEN "short" ELSE "up", queue |-> Tail(o)]
         /\ Queue(p)' = Tail(o) /\ Timer(p)' = IF o[1].down THEN "short" ELSE "up"
         /\ o[1] \in Event /\ Tail(o) \in Seq(Event) /\ Len(o) \in Nat /\ Len(o) # 0
         /\ Len(Tail(o)) = Len(o) - 1
         /\ \A j \in 1 .. Len(Tail(o)) : Tail(o)[j] = o[j + 1]
         /\ Tail(o) = <<>> <=> Len(o) = 1
<1>1. k = 1 /\ Watched(p)
  BY DEF Typed, Watched
<1>2. o \in Seq(Event) /\ o # <<>> /\ Timer(p) \in Times
  BY <1>1 DEF Read, Typed, Queue, Timer, Task
<1>3. Tail(o) \in Seq(Event) /\ Len(o) \in Nat /\ Len(o) # 0 /\ Len(Tail(o)) = Len(o) - 1
  BY <1>2
<1>4. Head(o) = o[1] /\ o[1] \in Event
  BY <1>2, <1>3
<1>5. \A j \in 1 .. Len(Tail(o)) : Tail(o)[j] = o[j + 1]
  BY <1>2, <1>3
<1>6. Tail(o) = <<>> <=> Len(o) = 1
  <2>1. \A s \in Seq(Event) : s = <<>> <=> Len(s) = 0
    OBVIOUS
  <2>2. Tail(o) = <<>> <=> Len(Tail(o)) = 0
    BY <1>3, <2>1
  <2> QED
    BY <1>3, <2>2
<1>7. /\ UNCHANGED <<held, press, length, heard, late, lost>>
      /\ tasks' = [tasks EXCEPT ![p][1] =
                     [timer |-> IF Head(o).down THEN "short" ELSE "up", queue |-> Tail(o)]]
      /\ told' = IF Head(o).down \/ Timer(p) = "up" THEN told
                 ELSE [told EXCEPT ![Head(o).press] = Append(@, Timer(p))]
  BY <1>1 DEF Read, Queue, Timer, world, excuses
<1>8. DOMAIN tasks' = Pads /\ \A q \in Pads : DOMAIN tasks'[q] = DOMAIN tasks[q]
  BY <1>7 DEF Typed
<1>9. \A q \in Pads \ {p} : tasks'[q] = tasks[q]
  BY <1>7 DEF Typed
<1>10. tasks'[p][1] = [timer |-> IF o[1].down THEN "short" ELSE "up", queue |-> Tail(o)]
  BY <1>1, <1>4, <1>7 DEF Typed, Watched
<1>11. Queue(p)' = Tail(o) /\ Timer(p)' = IF o[1].down THEN "short" ELSE "up"
  BY <1>10 DEF Queue, Timer
<1>12. told' = IF o[1].down \/ Timer(p) = "up" THEN told
               ELSE [told EXCEPT ![o[1].press] = Append(@, Timer(p))]
  BY <1>4, <1>7
<1> QED
  BY <1>1, <1>2, <1>3, <1>4, <1>5, <1>6, <1>7, <1>8, <1>9, <1>10, <1>11, <1>12

\* It tells of a press whose begin it had read.
LEMMA ReadStep ==
  ASSUME PressInv, NEW p \in Pads, NEW k \in DOMAIN tasks[p], Read(p, k)
  PROVE  PressInv'
<1> DEFINE o == Queue(p)
           e == o[1]
<1>0. Typed
  BY DEF PressInv
<1>1. Watched(p)
  BY <1>0, Reading
<1>2. o \in Seq(Event) /\ o # <<>> /\ Timer(p) \in Times
  BY <1>0, Reading
<1>3. /\ UNCHANGED <<held, press, length, late>>
      /\ told' = IF e.down \/ Timer(p) = "up" THEN told
                 ELSE [told EXCEPT ![e.press] = Append(@, Timer(p))]
  BY <1>0, Reading
<1>4. DOMAIN tasks' = Pads /\ \A q \in Pads : DOMAIN tasks'[q] = DOMAIN tasks[q]
  BY <1>0, Reading
<1>5. \A q \in Pads \ {p} : tasks'[q] = tasks[q]
  BY <1>0, Reading
<1>6. tasks'[p][1] = [timer |-> IF e.down THEN "short" ELSE "up", queue |-> Tail(o)]
  BY <1>0, Reading
<1>7. Queue(p)' = Tail(o) /\ Timer(p)' = IF e.down THEN "short" ELSE "up"
  BY <1>0, Reading
<1>8. /\ e \in Event /\ Tail(o) \in Seq(Event) /\ Len(o) \in Nat /\ Len(o) # 0
      /\ Len(Tail(o)) = Len(o) - 1
      /\ \A j \in 1 .. Len(Tail(o)) : Tail(o)[j] = o[j + 1]
      /\ Tail(o) = <<>> <=> Len(o) = 1
  BY <1>0, Reading
<1> HIDE DEF o
<1>9. e.press \in Presses /\ e.down \in BOOLEAN
  BY <1>8 DEF Event
<1>10. ~ e.down => Ends(p, 1, e.press)
  BY <1>1, <1>8 DEF Ends, o
<1>11. ASSUME NEW q \in Pads, NEW j, NEW n, Ends(q, j, n)'
       PROVE  j \in Nat /\ j # 0 /\ IF q = p THEN Ends(p, j + 1, n) ELSE Ends(q, j, n)
  <2>1. CASE q = p
    <3>1. j \in 1 .. Len(Tail(o)) /\ ~ Tail(o)[j].down /\ Tail(o)[j].press = n
      BY <1>7, <1>11, <2>1 DEF Ends
    <3>2. j + 1 \in 1 .. Len(o) /\ ~ o[j + 1].down /\ o[j + 1].press = n
      BY <1>8, <3>1
    <3> QED
      BY <1>1, <2>1, <3>1, <3>2 DEF Ends, o
  <2>2. CASE q # p
    <3>1. Queue(q)' = Queue(q) /\ Watched(q)' = Watched(q)
      BY <1>5, <2>2 DEF Queue, Watched
    <3>2. Ends(q, j, n) /\ j \in 1 .. Len(Queue(q)) /\ Watched(q)
      BY <1>11, <3>1 DEF Ends
    <3>3. Queue(q) \in Seq(Event)
      BY <3>2 DEF PressInv, Typed, Queue, Task
    <3> QED
      BY <2>2, <3>2, <3>3
  <2> QED
    BY <2>1, <2>2
<1>12. \A n \in Presses : told'[n] = told[n] \/ (~ e.down /\ n = e.press)
  BY <1>3, <1>9 DEF PressInv, Typed
<1>13. Typed'
  <2>1. tasks'[p][1] \in Task
    BY <1>6, <1>8, <1>9 DEF Task, Times
  <2>2. DOMAIN told' = Presses
    BY <1>3 DEF PressInv, Typed
  <2> QED
    BY <1>3, <1>4, <1>5, <2>1, <2>2 DEF PressInv, Typed, Watched
<1>14. Counted'
  <2>1. \A n \in Presses : \A q \in Pads : \A j :
          Ends(q, j, n)' => length'[n] # "none" /\ told'[n] = <<>>
    <3> SUFFICES ASSUME NEW n \in Presses, NEW q \in Pads, NEW j, Ends(q, j, n)'
                 PROVE  length[n] # "none" /\ told'[n] = <<>>
      BY <1>3
    <3>1. length[n] # "none" /\ told[n] = <<>>
      BY <1>11 DEF PressInv, Counted
    <3>2. ~ e.down => n # e.press
      BY <1>10, <1>11 DEF PressInv, Counted
    <3> QED
      BY <1>12, <3>1, <3>2
  <2>2. \A n \in Presses : \A q, r \in Pads : \A j, m :
          Ends(q, j, n)' /\ Ends(r, m, n)' => q = r /\ j = m
    <3> SUFFICES ASSUME NEW n \in Presses, NEW q \in Pads, NEW r \in Pads, NEW j, NEW m,
                        Ends(q, j, n)', Ends(r, m, n)'
                 PROVE  q = r /\ j = m
      OBVIOUS
    <3>1. /\ j \in Nat /\ m \in Nat
          /\ Ends(q, IF q = p THEN j + 1 ELSE j, n) /\ Ends(r, IF r = p THEN m + 1 ELSE m, n)
      BY <1>11
    <3>2. q = r /\ (IF q = p THEN j + 1 ELSE j) = (IF r = p THEN m + 1 ELSE m)
      BY <3>1 DEF PressInv, Counted
    <3> QED
      BY <3>1, <3>2
  <2> QED
    BY <1>3, <2>1, <2>2 DEF PressInv, Counted
<1>15. ASSUME NEW q \in Pads, Watched(q)' PROVE OnTime(q)'
  <2>1. CASE q # p
    <3>1. tasks'[q] = tasks[q] /\ held'[q] = held[q] /\ Watched(q)
      BY <1>3, <1>5, <1>15, <2>1 DEF Watched
    <3> QED
      BY <1>3, <1>15, <3>1, OnTimeStays DEF PressInv, Timed
  <2>2. CASE q = p
    <3>1. OnTime(p)
      BY <1>1, <1>15 DEF PressInv, Timed
    <3>2. /\ o[Len(o)].down <=> held[p] # "up"
          /\ held[p] # "up" => o[Len(o)].press = press[p]
          /\ press[p] \in late \/ held[p] \in {"up", "short"}
          /\ \A j \in 2 .. Len(o) : Paired(o, j)
      BY <1>2, <3>1 DEF OnTime, PressInv, Typed, Times, o
    <3>3. Len(o) = 1 /\ held[p] # "up" /\ press[p] \notin late => Timer(p)' \in {"up", held[p]}
      BY <1>7, <1>8, <3>2
    <3>4. Len(o) # 1 => /\ Tail(o)[Len(Tail(o))] = o[Len(o)]
                        /\ Tail(o)[1] = o[2] /\ 2 \in 2 .. Len(o)
      BY <1>8
    <3>5. Len(o) # 1 => \/ Tail(o)[1].down \/ Tail(o)[1].press \in late
                        \/ Timer(p)' \in {"up", length[Tail(o)[1].press]}
      BY <1>7, <1>8, <3>2, <3>4 DEF Paired
    <3>6. \A j \in 2 .. Len(Tail(o)) : Paired(Tail(o), j)
      <4> SUFFICES ASSUME NEW j \in 2 .. Len(Tail(o)) PROVE Paired(Tail(o), j)
        OBVIOUS
      <4>1. Tail(o)[j] = o[j + 1] /\ Tail(o)[j - 1] = o[j] /\ j + 1 \in 2 .. Len(o)
            /\ (j + 1) - 1 = j
        BY <1>8
      <4> QED
        BY <3>2, <4>1 DEF Paired
    <3>7. OnTime(p)'
      BY <1>3, <1>7, <1>8, <3>2, <3>3, <3>4, <3>5, <3>6 DEF OnTime, Paired
    <3> QED
      BY <2>2, <3>7
  <2> QED
    BY <2>1, <2>2
<1>16. Told'
  <2> SUFFICES ASSUME NEW n \in Presses
               PROVE  \/ told'[n] = <<>>
                      \/ /\ length[n] # "none"
                         /\ \E kind \in Times : told'[n] = <<kind>> /\ (kind = length[n] \/ n \in late)
    BY <1>3 DEF Told
  <2>1. CASE told'[n] = told[n]
    BY <2>1 DEF PressInv, Told
  <2>2. CASE told'[n] # told[n]
    <3>1. ~ e.down /\ n = e.press /\ Timer(p) # "up"
      BY <1>3, <1>12, <2>2
    <3>2. length[n] # "none" /\ told[n] = <<>>
      BY <1>10, <3>1 DEF PressInv, Counted
    <3>3. told'[n] = <<Timer(p)>>
      BY <1>3, <3>1, <3>2 DEF PressInv, Typed
    <3>4. Timer(p) = length[n] \/ n \in late
      BY <1>1, <1>2, <1>8, <3>1 DEF PressInv, Timed, OnTime, o
    <3> QED
      BY <1>2, <3>2, <3>3, <3>4
  <2> QED
    BY <2>1, <2>2
<1> QED
  BY <1>3, <1>13, <1>14, <1>15, <1>16 DEF PressInv, Timed

\* Time passes, for the buttons and the timers alike, and unnoticed only by a busy loop.
LEMMA TickStep == ASSUME PressInv, Tick PROVE PressInv'
<1>1. /\ UNCHANGED <<press, length, told>>
      /\ held' = [p \in Pads |-> Aged(held[p])]
      /\ tasks' = [p \in Pads |-> [k \in DOMAIN tasks[p] |->
                     [tasks[p][k] EXCEPT !.timer = Aged(tasks[p][k].timer)]]]
      /\ late' = late \union UNION {Unread(p) : p \in Pads}
  BY DEF Tick
<1>2. \A p \in Pads : DOMAIN tasks'[p] = DOMAIN tasks[p]
  BY <1>1
<1>3. ASSUME NEW p \in Pads, Watched(p)
      PROVE  /\ tasks'[p][1] \in Task
             /\ Queue(p)' = Queue(p) /\ Timer(p)' = Aged(Timer(p))
  <2>1. tasks[p][1] \in Task
    BY <1>3 DEF PressInv, Typed
  <2>2. tasks'[p][1] = [tasks[p][1] EXCEPT !.timer = Aged(tasks[p][1].timer)]
    BY <1>1, <1>3 DEF Watched
  <2> QED
    BY <2>1, <2>2 DEF Task, Times, Aged, Queue, Timer
<1>4. \A p \in Pads : held'[p] \in Times /\ (held'[p] # "up" <=> held[p] # "up")
  BY <1>1 DEF PressInv, Typed, Times, Aged
<1>5. Typed'
  BY <1>1, <1>2, <1>3, <1>4 DEF PressInv, Typed, Watched
<1>6. \A p \in Pads : \A j, i : Ends(p, j, i)' => Ends(p, j, i)
  BY <1>2, <1>3 DEF Ends, Watched
<1>7. Counted'
  BY <1>1, <1>4, <1>6 DEF PressInv, Counted
<1>8. Told'
  BY <1>1 DEF PressInv, Told
<1>9. ASSUME NEW p \in Pads, Watched(p), NEW j \in 1 .. Len(Queue(p))
      PROVE  Queue(p)[j].press \in late'
  <2>1. Queue(p) \in Seq(Event)
    BY <1>9 DEF PressInv, Typed, Task, Queue
  <2>2. Queue(p)[j].press \in Presses
    <3>1. Queue(p)[j] \in Event
      BY <2>1
    <3> QED
      BY <3>1 DEF Event
  <2>3. Queue(p)[j].press \in Unread(p)
    BY <1>9, <2>1, <2>2 DEF Unread, Watched, Queue
  <2> QED
    BY <1>1, <2>3
<1>10. ASSUME NEW p \in Pads, Watched(p)' PROVE OnTime(p)'
  <2>1. /\ Watched(p) /\ Queue(p)' = Queue(p) /\ Timer(p)' = Aged(Timer(p)) /\ OnTime(p)
        /\ Queue(p) \in Seq(Event)
    BY <1>2, <1>3, <1>10 DEF PressInv, Timed, Watched, Typed, Task, Queue
  <2>2. CASE Queue(p) = <<>>
    <3>1. held[p] # "up" /\ press[p] \notin late => Timer(p) \in {"up", held[p]}
      BY <2>1, <2>2 DEF OnTime
    <3>2. held'[p] # "up" /\ press'[p] \notin late' => Timer(p)' \in {"up", held'[p]}
      BY <1>1, <1>4, <2>1, <3>1 DEF Aged
    <3> QED
      BY <2>1, <2>2, <3>2 DEF OnTime
  <2>3. CASE Queue(p) # <<>>
    <3>1. Len(Queue(p)) \in 1 .. Len(Queue(p)) /\ 1 \in 1 .. Len(Queue(p))
      BY <2>1, <2>3
    <3>2. Queue(p)[Len(Queue(p))].press \in late' /\ Queue(p)[1].press \in late'
      BY <1>9, <2>1, <3>1
    <3>3. /\ Queue(p)[Len(Queue(p))].down <=> held'[p] # "up"
          /\ held'[p] # "up" => Queue(p)[Len(Queue(p))].press = press'[p]
      BY <1>1, <1>4, <2>1, <2>3 DEF OnTime
    <3>4. press'[p] \in late' \/ held'[p] # "long"
      BY <3>2, <3>3
    <3>5. \A j \in 2 .. Len(Queue(p)) :
            Queue(p)[j].down \/ (Queue(p)[j - 1].down /\ Queue(p)[j].press \in late')
      <4> SUFFICES ASSUME NEW j \in 2 .. Len(Queue(p)), ~ Queue(p)[j].down
                   PROVE  Queue(p)[j - 1].down /\ Queue(p)[j].press \in late'
        OBVIOUS
      <4>1. Queue(p)[j].press \in late'
        BY <1>9, <2>1
      <4> QED
        BY <2>1, <4>1 DEF OnTime, Paired
    <3> QED
      BY <2>1, <2>3, <3>2, <3>3, <3>4, <3>5 DEF OnTime, Paired
  <2> QED
    BY <2>2, <2>3
<1> QED
  BY <1>5, <1>7, <1>8, <1>10 DEF PressInv, Timed

LEMMA PressStep == PressInv /\ [Next]_vars => PressInv'
<1> SUFFICES ASSUME PressInv, [Next]_vars PROVE PressInv'
  OBVIOUS
<1>1. CASE Rescan \/ Restart
  <2>1. PICK seen \in SUBSET plugged : tasks' = Rescanned(seen)
    BY <1>1 DEF Rescan, Restart, LookAgain
  <2>2. UNCHANGED <<held, press, length, told, late>>
    BY <1>1 DEF Rescan, Restart, LookAgain, world
  <2>3. DOMAIN tasks' = Pads /\ \A p \in Pads : tasks'[p] \in {<<>>, <<NewTask>>}
    BY <2>1 DEF Rescanned
  <2> QED
    BY <2>2, <2>3, Renewing DEF PressInv, Typed
<1>2. CASE Block \/ Unblock \/ UNCHANGED vars \/ \E p \in Pads : Plug(p)
  <2>1. UNCHANGED <<held, press, length, told, late, tasks>>
    BY <1>2 DEF Block, Unblock, Plug, vars, world, excuses
  <2> QED
    BY <2>1, Renewing DEF PressInv, Typed
<1>3. CASE \E p \in Pads : Unplug(p)
  BY <1>3, Renewing DEF Unplug, PressInv, Typed, Times
<1>4. CASE \E p \in Pads : Down(p) \/ Up(p) \/ \E k \in DOMAIN tasks[p] : Read(p, k)
  BY <1>4, DownStep, UpStep, ReadStep
<1>5. CASE Tick
  BY <1>5, TickStep
<1> QED
  BY <1>1, <1>2, <1>3, <1>4, <1>5 DEF Next

-------------------------------------------------------------------------------
\* What is not lost.

\* Who could be opened is watched, and the button of a press that is not lost is: its
\* watcher has read its begin, or will.
Heard(p) ==
  /\ Watched(p) <=> p \in heard
  /\ held[p] # "up" /\ press[p] \notin lost =>
       Watched(p) /\ (Queue(p) = <<>> => Timer(p) # "up")
  /\ Watched(p) /\ Queue(p) # <<>> =>
       Queue(p)[1].down \/ Queue(p)[1].press \in lost \/ Timer(p) # "up"

\* Of a press that has ended and is not told of, the end is unread.
Pending(i) ==
  length[i] # "none" /\ told[i] = <<>> => i \in lost \/ \E p \in Pads : \E j : Ends(p, j, i)

HeardInv == (\A p \in Pads : Heard(p)) /\ (\A i \in Presses : Pending(i))

\* What a watcher has not read is under way.
LEMMA EndsUnread ==
  ASSUME Typed, NEW p \in Pads, NEW j, NEW i \in Presses, Ends(p, j, i)
  PROVE  i \in Unread(p)
<1>1. j \in DOMAIN Queue(p) /\ Queue(p)[j].press = i /\ 1 \in DOMAIN tasks[p]
  BY DEF Ends, Typed, Task, Queue, Watched
<1> QED
  BY <1>1 DEF Unread, Queue

LEMMA HeardInit == Init => HeardInv
<1> SUFFICES ASSUME Init PROVE HeardInv
  OBVIOUS
<1>1. ASSUME NEW p \in Pads PROVE Heard(p)
  <2>1. tasks[p] = IF p \in heard THEN <<NewTask>> ELSE <<>>
    BY DEF Init
  <2>2. held[p] = "up"
    BY DEF Init
  <2>3. CASE p \in heard
    <3>1. Watched(p) /\ Queue(p) = <<>>
      BY <2>1, <2>3 DEF Watched, Queue, NewTask
    <3> QED
      BY <2>2, <2>3, <3>1 DEF Heard
  <2>4. CASE p \notin heard
    <3>1. ~ Watched(p)
      BY <2>1, <2>4 DEF Watched
    <3> QED
      BY <2>2, <2>4, <3>1 DEF Heard
  <2> QED
    BY <2>3, <2>4
<1>2. \A i \in Presses : Pending(i)
  BY DEF Init, Pending
<1> QED
  BY <1>1, <1>2 DEF HeardInv

\* A gamepad whose button, watcher and losses are left alone.
LEMMA HeardStays ==
  ASSUME NEW p \in Pads, Heard(p), tasks'[p] = tasks[p], held'[p] = held[p],
         press'[p] = press[p], p \in heard' <=> p \in heard, lost \subseteq lost'
  PROVE  Heard(p)'
<1>1. Queue(p)' = Queue(p) /\ Timer(p)' = Timer(p) /\ Watched(p)' = Watched(p)
  BY DEF Queue, Timer, Watched
<1> QED
  BY <1>1 DEF Heard

\* What replacing or ending watchers loses is what was under way.
LEMMA Losing ==
  ASSUME Typed, HeardInv, UNCHANGED <<length, told>>, lost \subseteq lost',
         \A p \in Pads : tasks'[p] = tasks[p] \/ UnderWay(p) \subseteq lost'
  PROVE  \A i \in Presses : Pending(i)'
<1> SUFFICES ASSUME NEW i \in Presses, length[i] # "none", told[i] = <<>>, i \notin lost'
             PROVE  \E p \in Pads : \E j : Ends(p, j, i)'
  BY DEF Pending
<1>1. PICK p \in Pads : \E j : Ends(p, j, i)
  BY DEF HeardInv, Pending
<1>2. PICK j : Ends(p, j, i)
  BY <1>1
<1>3. tasks'[p] = tasks[p]
  BY <1>2, EndsUnread DEF UnderWay
<1>4. Ends(p, j, i)'
  BY <1>2, <1>3 DEF Ends, Queue, Watched
<1> QED
  BY <1>4

LEMMA LookAgainHeard ==
  ASSUME PressInv, HeardInv, LookAgain, UNCHANGED <<held, press, length, told>>
  PROVE  HeardInv'
<1>1. PICK seen \in SUBSET plugged :
        /\ tasks' = Rescanned(seen) /\ heard' = seen
        /\ lost' = lost \union UNION {UnderWay(p) : p \in Pads}
  BY DEF LookAgain
<1>2. \A p \in Pads : UnderWay(p) \subseteq lost'
  BY <1>1
<1>3. ASSUME NEW p \in Pads PROVE Heard(p)'
  <2>1. tasks'[p] = IF p \in seen THEN <<NewTask>> ELSE <<>>
    BY <1>1 DEF Rescanned
  <2>2. held'[p] # "up" => press'[p] \in lost'
    BY <1>2 DEF UnderWay
  <2>3. CASE p \in seen
    <3>1. Watched(p)' /\ Queue(p)' = <<>>
      BY <2>1, <2>3 DEF Watched, Queue, NewTask
    <3> QED
      BY <1>1, <2>2, <2>3, <3>1 DEF Heard
  <2>4. CASE p \notin seen
    <3>1. ~ Watched(p)'
      BY <2>1, <2>4 DEF Watched
    <3> QED
      BY <1>1, <2>2, <2>4, <3>1 DEF Heard
  <2> QED
    BY <2>3, <2>4
<1>4. \A i \in Presses : Pending(i)'
  BY <1>1, <1>2, Losing DEF PressInv
<1> QED
  BY <1>3, <1>4 DEF HeardInv

LEMMA UnplugHeard ==
  ASSUME PressInv, HeardInv, NEW p \in Pads, Unplug(p)
  PROVE  HeardInv'
<1>1. /\ tasks' = [tasks EXCEPT ![p] = <<>>] /\ held' = [held EXCEPT ![p] = "up"]
      /\ heard' = heard \ {p} /\ lost' = lost \union UnderWay(p)
      /\ UNCHANGED <<press, length, told>>
  BY DEF Unplug
<1>2. \A q \in Pads \ {p} : tasks'[q] = tasks[q] /\ held'[q] = held[q]
  BY <1>1 DEF PressInv, Typed
<1>3. tasks'[p] = <<>> /\ held'[p] = "up"
  BY <1>1 DEF PressInv, Typed
<1>4. ASSUME NEW q \in Pads PROVE Heard(q)'
  <2>1. CASE q = p
    <3>1. ~ Watched(p)'
      BY <1>3 DEF Watched
    <3> QED
      BY <1>1, <1>3, <2>1, <3>1 DEF Heard
  <2>2. CASE q # p
    BY <1>1, <1>2, <2>2, HeardStays DEF HeardInv
  <2> QED
    BY <2>1, <2>2
<1>5. \A i \in Presses : Pending(i)'
  BY <1>1, <1>2, Losing DEF PressInv
<1> QED
  BY <1>4, <1>5 DEF HeardInv

\* An event goes behind the ends that are unread.
LEMMA EndsStay ==
  ASSUME Typed, NEW p \in Pads, NEW down \in BOOLEAN, Deliver(p, down), press'[p] \in Presses,
         NEW q \in Pads, NEW j, NEW i, Ends(q, j, i)
  PROVE  Ends(q, j, i)'
<1>1. CASE q = p
  <2>1. /\ Watched(p)'
        /\ Queue(p)' = Append(Queue(p), [down |-> down, press |-> press'[p]])
    BY <1>1, Delivering DEF Ends
  <2>2. Queue(p) \in Seq(Event) /\ j \in 1 .. Len(Queue(p))
    BY <1>1 DEF Ends, Typed, Task, Queue
  <2>3. Queue(p)'[j] = Queue(p)[j] /\ j \in 1 .. Len(Queue(p)')
    BY <2>1, <2>2
  <2> QED
    BY <1>1, <2>1, <2>3 DEF Ends
<1>2. CASE q # p
  <2>1. tasks'[q] = tasks[q]
    BY <1>2, Delivering
  <2> QED
    BY <2>1 DEF Ends, Watched, Queue
<1> QED
  BY <1>1, <1>2

LEMMA DownHeard ==
  ASSUME PressInv, HeardInv, NEW p \in Pads, Down(p)
  PROVE  HeardInv'
<1>1. /\ held[p] = "up" /\ held' = [held EXCEPT ![p] = "short"]
      /\ Deliver(p, TRUE) /\ UNCHANGED <<length, told, heard>>
  BY DEF Down
<1>2. PICK i \in Presses : /\ press' = [press EXCEPT ![p] = i]
                           /\ lost' = IF p \in heard THEN lost ELSE lost \union {i}
  BY DEF Down
<1>3. press'[p] = i /\ \A q \in Pads \ {p} : press'[q] = press[q] /\ held'[q] = held[q]
  BY <1>1, <1>2 DEF PressInv, Typed
<1>4. Typed /\ press'[p] \in Presses
  BY <1>3 DEF PressInv
<1>5. /\ \A q \in Pads : DOMAIN tasks'[q] = DOMAIN tasks[q]
      /\ \A q \in Pads \ {p} : tasks'[q] = tasks[q]
      /\ Watched(p) => /\ Timer(p)' = Timer(p)
                       /\ Queue(p)' = Append(Queue(p), [down |-> TRUE, press |-> i])
  BY <1>1, <1>3, <1>4, Delivering
<1>6. ASSUME NEW q \in Pads PROVE Heard(q)'
  <2>1. CASE q # p
    BY <1>1, <1>2, <1>3, <1>5, <2>1, HeardStays DEF HeardInv
  <2>2. CASE q = p
    <3>1. Heard(p) /\ (Watched(p)' <=> Watched(p))
      BY <1>5 DEF HeardInv, Watched
    <3>2. CASE Watched(p)
      <4>1. Queue(p) \in Seq(Event)
        BY <3>2 DEF PressInv, Typed, Task, Queue
      <4>2. /\ Queue(p)' # <<>>
            /\ IF Queue(p) = <<>> THEN Queue(p)'[1].down ELSE Queue(p)'[1] = Queue(p)[1]
        BY <1>5, <3>2, <4>1
      <4> QED
        BY <1>1, <1>2, <1>5, <2>2, <3>1, <3>2, <4>2 DEF Heard
    <3>3. CASE ~ Watched(p)
      BY <1>1, <1>2, <1>3, <2>2, <3>1, <3>3 DEF Heard
    <3> QED
      BY <3>2, <3>3
  <2> QED
    BY <2>1, <2>2
<1>7. ASSUME NEW n \in Presses PROVE Pending(n)'
  <2>1. Pending(n) /\ lost \subseteq lost'
    BY <1>2 DEF HeardInv
  <2>2. (\E q \in Pads : \E j : Ends(q, j, n)) => \E q \in Pads : \E j : Ends(q, j, n)'
    BY <1>1, <1>4, EndsStay
  <2> QED
    BY <1>1, <2>1, <2>2 DEF Pending
<1> QED
  BY <1>6, <1>7 DEF HeardInv

LEMMA UpHeard ==
  ASSUME PressInv, HeardInv, NEW p \in Pads, Up(p)
  PROVE  HeardInv'
<1> DEFINE i == press[p]
           e == [down |-> FALSE, press |-> i]
<1>1. /\ held[p] # "up" /\ held' = [held EXCEPT ![p] = "up"]
      /\ length' = [length EXCEPT ![i] = held[p]]
      /\ Deliver(p, FALSE) /\ UNCHANGED <<press, told, heard, lost>>
  BY DEF Up, excuses
<1>2. Typed /\ i \in Presses /\ press'[p] = i
  BY <1>1 DEF PressInv, Counted
<1>3. /\ \A q \in Pads : DOMAIN tasks'[q] = DOMAIN tasks[q]
      /\ \A q \in Pads \ {p} : tasks'[q] = tasks[q]
      /\ Watched(p) => /\ Timer(p)' = Timer(p)
                       /\ Queue(p)' = Append(Queue(p), e)
  BY <1>1, <1>2, Delivering
<1>4. held'[p] = "up" /\ \A q \in Pads \ {p} : held'[q] = held[q]
  BY <1>1 DEF PressInv, Typed
<1>5. Watched(p) => Queue(p) \in Seq(Event)
  BY DEF PressInv, Typed, Task, Queue
<1>6. i \notin lost => Watched(p) /\ (Queue(p) = <<>> => Timer(p) # "up")
  BY <1>1 DEF HeardInv, Heard
<1>7. ASSUME NEW q \in Pads PROVE Heard(q)'
  <2>1. CASE q # p
    BY <1>1, <1>3, <1>4, <2>1, HeardStays DEF HeardInv
  <2>2. CASE q = p
    <3>1. Heard(p) /\ (Watched(p)' <=> Watched(p))
      BY <1>3 DEF HeardInv, Watched
    <3>2. CASE Watched(p)
      <4>1. IF Queue(p) = <<>> THEN Queue(p)'[1].press = i ELSE Queue(p)'[1] = Queue(p)[1]
        BY <1>3, <1>5, <3>2
      <4>2. Queue(p)'[1].down \/ Queue(p)'[1].press \in lost \/ Timer(p) # "up"
        BY <1>6, <3>1, <3>2, <4>1 DEF Heard
      <4> QED
        BY <1>1, <1>3, <1>4, <2>2, <3>1, <3>2, <4>2 DEF Heard
    <3>3. CASE ~ Watched(p)
      BY <1>1, <1>4, <2>2, <3>1, <3>3 DEF Heard
    <3> QED
      BY <3>2, <3>3
  <2> QED
    BY <2>1, <2>2
<1>8. ASSUME NEW n \in Presses PROVE Pending(n)'
  <2>1. CASE n = i
    <3>1. CASE Watched(p)
      <4>1. PICK j \in Nat : j = Len(Queue(p)) + 1
        BY <1>5, <3>1
      <4>2. j \in 1 .. Len(Queue(p)') /\ Queue(p)'[j] = e
        BY <1>3, <1>5, <3>1, <4>1
      <4>3. Watched(p)' /\ ~ Queue(p)'[j].down /\ Queue(p)'[j].press = n
        BY <1>3, <2>1, <3>1, <4>2 DEF Watched
      <4>4. Ends(p, j, n)'
        BY <4>2, <4>3 DEF Ends
      <4> QED
        BY <4>4 DEF Pending
    <3>2. CASE i \in lost
      BY <1>1, <2>1, <3>2 DEF Pending
    <3> QED
      BY <1>6, <3>1, <3>2
  <2>2. CASE n # i
    <3>1. length'[n] = length[n] /\ told' = told /\ lost' = lost /\ Pending(n)
      BY <1>1, <2>2 DEF HeardInv, PressInv, Typed
    <3>2. (\E q \in Pads : \E j : Ends(q, j, n)) => \E q \in Pads : \E j : Ends(q, j, n)'
      BY <1>1, <1>2, EndsStay
    <3> QED
      BY <3>1, <3>2 DEF Pending
  <2> QED
    BY <2>1, <2>2
<1> QED
  BY <1>7, <1>8 DEF HeardInv

LEMMA ReadHeard ==
  ASSUME PressInv, HeardInv, NEW p \in Pads, NEW k \in DOMAIN tasks[p], Read(p, k)
  PROVE  HeardInv'
<1> DEFINE o == Queue(p)
<1>0. Typed
  BY DEF PressInv
<1>1. Watched(p) /\ OnTime(p) /\ Heard(p)
  BY <1>0, Reading DEF PressInv, Timed, HeardInv
<1>2. /\ UNCHANGED <<held, press, length, heard, lost>>
      /\ told' = IF o[1].down \/ Timer(p) = "up" THEN told
                 ELSE [told EXCEPT ![o[1].press] = Append(@, Timer(p))]
  BY <1>0, Reading
<1>3. /\ \A q \in Pads : DOMAIN tasks'[q] = DOMAIN tasks[q]
      /\ \A q \in Pads \ {p} : tasks'[q] = tasks[q]
      /\ Queue(p)' = Tail(o) /\ Timer(p)' = IF o[1].down THEN "short" ELSE "up"
  BY <1>0, Reading
<1>4. /\ o # <<>> /\ o[1] \in Event /\ Len(o) \in Nat /\ Len(o) # 0
      /\ Len(Tail(o)) = Len(o) - 1
      /\ \A j \in 1 .. Len(Tail(o)) : Tail(o)[j] = o[j + 1]
      /\ Tail(o) = <<>> <=> Len(o) = 1
  BY <1>0, Reading
<1>5. /\ o[Len(o)].down <=> held[p] # "up"
      /\ \A j \in 2 .. Len(o) : o[j].down \/ o[j - 1].down
  BY <1>1, <1>4 DEF OnTime, Paired
<1>6. o[1].down \/ o[1].press \in lost \/ Timer(p) # "up"
  BY <1>1, <1>4 DEF Heard
<1> HIDE DEF o
<1>7. ASSUME NEW q \in Pads PROVE Heard(q)'
  <2>1. CASE q # p
    BY <1>2, <1>3, <2>1, HeardStays DEF HeardInv
  <2>2. CASE q = p
    <3>1. Watched(p)' /\ (Watched(p)' <=> p \in heard')
      BY <1>1, <1>2, <1>3 DEF Heard, Watched
    <3>2. held[p] # "up" /\ Tail(o) = <<>> => Timer(p)' # "up"
      BY <1>3, <1>4, <1>5
    <3>3. ASSUME Tail(o) # <<>> PROVE Tail(o)[1].down \/ Timer(p)' # "up"
      <4>1. Tail(o)[1] = o[2] /\ 2 \in 2 .. Len(o)
        BY <1>4, <3>3
      <4>2. o[2].down \/ o[1].down
        BY <1>5, <4>1
      <4> QED
        BY <1>3, <4>1, <4>2
    <3> QED
      BY <1>2, <1>3, <2>2, <3>1, <3>2, <3>3 DEF Heard
  <2> QED
    BY <2>1, <2>2
<1>8. ASSUME NEW n \in Presses PROVE Pending(n)'
  <2> SUFFICES ASSUME length[n] # "none", told'[n] = <<>>, n \notin lost
               PROVE  \E q \in Pads : \E j : Ends(q, j, n)'
    BY <1>2 DEF Pending
  <2>1. o[1].press \in Presses
    BY <1>4 DEF Event
  <2>2. told[n] = <<>> /\ ~ (n = o[1].press /\ ~ o[1].down)
    <3>1. \A i \in Presses : told[i] = <<>> \/ \E kind \in Times : told[i] = <<kind>>
      BY DEF PressInv, Told
    <3>2. \A s : Append(<<>>, s) # <<>>
      OBVIOUS
    <3>3. \A r, s : Append(<<r>>, s) # <<>>
      OBVIOUS
    <3>4. CASE o[1].down \/ Timer(p) = "up"
      BY <1>2, <1>6, <3>4
    <3>5. CASE ~ (o[1].down \/ Timer(p) = "up")
      <4>1. told' = [told EXCEPT ![o[1].press] = Append(told[o[1].press], Timer(p))]
        BY <1>2, <3>5
      <4>2. told'[o[1].press] # <<>>
        <5>1. told'[o[1].press] = Append(told[o[1].press], Timer(p))
          BY <1>0, <2>1, <4>1 DEF Typed
        <5>2. CASE told[o[1].press] = <<>>
          BY <3>2, <5>1, <5>2
        <5>3. CASE \E kind \in Times : told[o[1].press] = <<kind>>
          BY <3>3, <5>1, <5>3
        <5> QED
          BY <2>1, <3>1, <5>2, <5>3
      <4>3. n # o[1].press
        BY <4>2
      <4> QED
        BY <1>0, <4>1, <4>3 DEF Typed
    <3> QED
      BY <3>4, <3>5
  <2>3. PICK q \in Pads : \E j : Ends(q, j, n)
    BY <2>2 DEF HeardInv, Pending
  <2>4. PICK j : Ends(q, j, n)
    BY <2>3
  <2>5. CASE q = p
    <3>1. j \in 1 .. Len(o) /\ ~ o[j].down /\ o[j].press = n
      BY <2>4, <2>5 DEF Ends, o
    <3>2. j # 1
      BY <2>2, <3>1
    <3>3. j - 1 \in 1 .. Len(Tail(o)) /\ Tail(o)[j - 1] = o[j]
      BY <1>4, <3>1, <3>2
    <3>4. Watched(p)'
      BY <1>1, <1>3 DEF Watched
    <3>5. Ends(p, j - 1, n)'
      BY <1>3, <3>1, <3>3, <3>4 DEF Ends
    <3> QED
      BY <3>5
  <2>6. CASE q # p
    <3>1. Ends(q, j, n)'
      BY <1>3, <2>4, <2>6 DEF Ends, Watched, Queue
    <3> QED
      BY <3>1
  <2> QED
    BY <2>5, <2>6
<1> QED
  BY <1>7, <1>8 DEF HeardInv

LEMMA TickHeard ==
  ASSUME PressInv, HeardInv, Tick
  PROVE  HeardInv'
<1>1. /\ UNCHANGED <<press, length, told, heard, lost>>
      /\ held' = [p \in Pads |-> Aged(held[p])]
      /\ tasks' = [p \in Pads |-> [k \in DOMAIN tasks[p] |->
                     [tasks[p][k] EXCEPT !.timer = Aged(tasks[p][k].timer)]]]
  BY DEF Tick
<1>2. \A p \in Pads : DOMAIN tasks'[p] = DOMAIN tasks[p]
  BY <1>1
<1>3. ASSUME NEW p \in Pads, Watched(p)
      PROVE  Queue(p)' = Queue(p) /\ (Timer(p)' # "up" <=> Timer(p) # "up")
  <2>1. tasks[p][1] \in Task
    BY <1>3 DEF PressInv, Typed
  <2>2. tasks'[p][1] = [tasks[p][1] EXCEPT !.timer = Aged(tasks[p][1].timer)]
    BY <1>1, <1>3 DEF Watched
  <2>3. Queue(p)' = Queue(p) /\ Timer(p)' = Aged(Timer(p))
    BY <2>1, <2>2 DEF Task, Queue, Timer
  <2> QED
    BY <2>3 DEF Aged
<1>4. \A p \in Pads : held'[p] # "up" <=> held[p] # "up"
  BY <1>1 DEF Aged
<1>5. ASSUME NEW p \in Pads PROVE Heard(p)'
  <2>1. Heard(p) /\ (Watched(p)' <=> Watched(p))
    BY <1>2 DEF HeardInv, Watched
  <2> QED
    BY <1>1, <1>3, <1>4, <2>1 DEF Heard
<1>6. ASSUME NEW i \in Presses PROVE Pending(i)'
  <2>1. \A p \in Pads : \A j : Ends(p, j, i) => Ends(p, j, i)'
    BY <1>2, <1>3 DEF Ends, Watched
  <2> QED
    BY <1>1, <2>1 DEF HeardInv, Pending
<1> QED
  BY <1>5, <1>6 DEF HeardInv

LEMMA HeardStep == PressInv /\ HeardInv /\ [Next]_vars => HeardInv'
<1> SUFFICES ASSUME PressInv, HeardInv, [Next]_vars PROVE HeardInv'
  OBVIOUS
<1>1. CASE Rescan \/ Restart
  <2>1. LookAgain /\ UNCHANGED <<held, press, length, told>>
    BY <1>1 DEF Rescan, Restart, world
  <2> QED
    BY <2>1, LookAgainHeard
<1>2. CASE Block \/ Unblock \/ UNCHANGED vars \/ \E p \in Pads : Plug(p)
  <2>1. UNCHANGED <<held, press, length, told, tasks, heard, lost>>
    BY <1>2 DEF Block, Unblock, Plug, vars, world, excuses
  <2>2. \A p \in Pads : Heard(p)'
    BY <2>1, HeardStays DEF HeardInv
  <2>3. \A i \in Presses : Pending(i)'
    BY <2>1, Losing DEF PressInv
  <2> QED
    BY <2>2, <2>3 DEF HeardInv
<1>3. CASE \E p \in Pads : Unplug(p)
  BY <1>3, UnplugHeard
<1>4. CASE \E p \in Pads : Down(p) \/ Up(p) \/ \E k \in DOMAIN tasks[p] : Read(p, k)
  BY <1>4, DownHeard, UpHeard, ReadHeard
<1>5. CASE Tick
  BY <1>5, TickHeard
<1> QED
  BY <1>1, <1>2, <1>3, <1>4, <1>5 DEF Next

-------------------------------------------------------------------------------
\* The theorems.

\* A press is reported once at most, when it has ended, and as what it was unless its
\* events had to wait for a busy loop, whatever is plugged, rescanned or restarted
\* meanwhile.
THEOREM PressesAreTrue == Spec => []PressTrue
<1>1. PressInv => PressTrue
  <2> SUFFICES ASSUME PressInv, NEW i \in Presses, told[i] # <<>>
               PROVE  /\ Len(told[i]) = 1 /\ length[i] # "none"
                      /\ told[i][1] = length[i] \/ i \in late
    BY DEF PressTrue
  <2>1. PICK kind \in Times : told[i] = <<kind>> /\ (kind = length[i] \/ i \in late)
    BY DEF PressInv, Told
  <2>2. length[i] # "none"
    BY DEF PressInv, Told
  <2> QED
    BY <2>1, <2>2
<1> QED
  BY <1>1, PressInit, PressStep, PTL DEF Spec

\* No press is swallowed but those the gamepad's watcher was missing or replaced for.
THEOREM PressesAreHeard == Spec => []PressHeard
<1>1. PressInv /\ HeardInv => PressHeard
  BY EndsUnread DEF PressInv, HeardInv, Pending, PressHeard
<1>2. Spec => [](PressInv /\ HeardInv)
  BY PressInit, PressStep, HeardInit, HeardStep, PTL DEF Spec
<1> QED
  BY <1>1, <1>2, PTL
===============================================================================
