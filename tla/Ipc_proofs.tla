------------------------------ MODULE Ipc_proofs -------------------------------
(***************************************************************************)
(* Proofs about Ipc, for any number of lives of the menu, requests,        *)
(* connections and events.                                                 *)
(*                                                                         *)
(* A request is in one place: on its way to one connection's task, in its  *)
(* hands, or served; so no handler runs twice.  What comes back comes on   *)
(* the menu's one connection, whose task has only ever heard of this life  *)
(* of the menu and answers its requests by rising id; so an id, which the  *)
(* next life uses again, is never mistaken.  And each line carries the     *)
(* events emitted before it: its predecessor's, and itself if it is one.   *)
(***************************************************************************)
EXTENDS Ipc, TLAPS

\* The request r has been made.
Made(r) == r.boot < boot \/ (r.boot = boot /\ r.id < nextId)

Typed ==
  /\ TypeOK
  /\ \A g \in Conns : \A j \in 1 .. Len(outbox[g]) : outbox[g][j].at =< emitted

\* The server tasks.
Serving ==
  /\ \A r \in Requests : ran[r] \in {0, 1} /\ (~ Made(r) => ran[r] = 0)
  /\ \A g \in Conns :
       /\ cur[g] # NoReq <=> srv[g] = "handling"
       /\ srv[g] = "none" => inbox[g] = <<>>
       /\ \A j, k \in 1 .. Len(inbox[g]) : j < k => inbox[g][j].id < inbox[g][k].id
       /\ \A j \in 1 .. Len(inbox[g]) : cur[g].id < inbox[g][j].id
  /\ \A g \in Conns : \A r \in Requests :
       Holds(g, r) => Made(r) /\ ran[r] = 0 /\ (g = conn => r.boot = boot)
  /\ \A g, h \in Conns : \A r \in Requests : Holds(g, r) /\ Holds(h, r) => g = h

\* What is on its way to the menu.
Replying ==
  /\ up => srv[conn] # "none"
  /\ \A g \in Conns : g # conn => outbox[g] = <<>>
  /\ up => \A j : IsReply(j) =>
       LET line == outbox[conn][j] IN
       /\ line.of \in Requests /\ line.of.boot = boot /\ line.of.id = line.id
       /\ ran[line.of] = 1
       /\ \A k : IsReply(k) /\ j < k => line.id < outbox[conn][k].id
       /\ \A r \in Requests : Holds(conn, r) => line.id < r.id

Answered(r) == answer[r].how \in {"ok", "error"}

\* What the menu was told.
Answering ==
  /\ \A r \in Requests : Answered(r) => answer[r].of = r /\ ran[r] = 1
  /\ up => \A r \in Requests : Answered(r) /\ r.boot = boot =>
       /\ \A j : IsReply(j) => r.id < outbox[conn][j].id
       /\ \A s \in Requests : Holds(conn, s) => r.id < s.id

\* Who is told: each once, and none of the lives to come.
Calling ==
  /\ NoneWaitWhenDown
  /\ \A r \in Requests :
       /\ r.boot = boot => calls[r] = IF r.id < nextId /\ r.id \notin pending THEN 1 ELSE 0
       /\ r.boot > boot => calls[r] = 0

\* Who waits: the one whose answer is under way; or its turn is still to come, and the task
\* has the request unless it died.
Awaiting ==
  up =>
  /\ \A j : IsReply(j) => outbox[conn][j].id \in pending
  /\ \A r \in Requests : Holds(conn, r) => r.id \in pending
  /\ \A i \in pending :
       \/ \E j : ReplyTo(j, i)
       \/ /\ \A j : IsReply(j) => outbox[conn][j].id < i
          /\ srv[conn] # "closed" => Holds(conn, Mine(i))

\* The events that the menu knows of: those before the task had its writer, and those it
\* has handled.
Latest == IF seen > since[conn] THEN seen ELSE since[conn]

\* The events emitted before the j-th line was written, if it is no event itself.
Before(j) == IF j = 1 THEN Latest ELSE outbox[conn][j - 1].at

Chained ==
  up =>
  /\ \A j \in 1 .. Len(outbox[conn]) :
       outbox[conn][j].at = IF outbox[conn][j].kind = "event" THEN Before(j) + 1 ELSE Before(j)
  /\ srv[conn] \in {"reading", "handling"} => emitted = Before(Len(outbox[conn]) + 1)
  /\ srv[conn] = "accepted" => seen = 0 /\ outbox[conn] = <<>>

IpcInv == Typed /\ Serving /\ Replying /\ Answering /\ Calling /\ Awaiting /\ Chained

LEMMA IpcInit == Init => IpcInv
<1> SUFFICES ASSUME Init PROVE IpcInv
  OBVIOUS
<1> USE IpcAssumption
<1>1. Typed
  <2>1. answer \in [Requests -> Answers]
    BY DEF Init, Answers, Told
  <2>2. ran \in [Requests -> Nat] /\ calls \in [Requests -> Nat]
    BY DEF Init
  <2>3. inbox \in [Conns -> Seq(Requests)] /\ outbox \in [Conns -> Seq(Line)]
    BY DEF Init
  <2>4. cur \in [Conns -> Requests \union {NoReq}] /\ since \in [Conns -> 0 .. MaxEvents]
    BY DEF Init
  <2> QED
    <3>1. /\ boot \in 1 .. MaxBoots /\ nextId \in 1 .. MaxId + 1 /\ seen \in 0 .. emitted
          /\ emitted \in 0 .. MaxEvents
      BY DEF Init
    <3>4. pending \subseteq 1 .. nextId - 1 /\ up \in BOOLEAN /\ listening \in BOOLEAN
      BY DEF Init
    <3>5. conn \in (IF up THEN Conns ELSE {NoConn})
      BY DEF Init
    <3>2. srv \in [Conns -> {"none", "accepted", "reading", "handling", "closed"}]
      BY DEF Init
    <3>3. \A g \in Conns : outbox[g] = <<>>
      BY DEF Init
    <3> QED
      BY <2>1, <2>2, <2>3, <2>4, <3>1, <3>2, <3>3, <3>4, <3>5 DEF Typed, TypeOK
<1>2. \A g \in Conns : \A r \in Requests : ~ Holds(g, r)
  BY DEF Init, Holds, NoReq, Requests
<1>3. Serving /\ Replying
  BY <1>2 DEF Init, Serving, Replying, NoReq, IsReply
<1>4. Answering /\ Calling /\ Awaiting /\ Chained
  BY DEF Init, Answering, Calling, Awaiting, Chained, Answered, Told, NoneWaitWhenDown, Requests
<1> QED
  BY <1>1, <1>3, <1>4 DEF IpcInv

-------------------------------------------------------------------------------
\* Types.

LEMMA Settling ==
  ASSUME TypeOK, NEW ids, NEW how \in {"ok", "error", "lost"},
         NEW of \in Requests \union {NoReq}, SettleAll(ids, how, of)
  PROVE  /\ pending' = pending \ ids
         /\ calls' \in [Requests -> Nat] /\ answer' \in [Requests -> Answers]
BY DEF TypeOK, SettleAll, Answers, Told

LEMMA Pushing ==
  ASSUME TypeOK, NEW g \in Conns, NEW line \in Line
  PROVE  Push(g, line) \in [Conns -> Seq(Line)]
BY DEF TypeOK, Push

LEMMA LinesAreLines ==
  ASSUME TypeOK
  PROVE  /\ \A r \in Requests \union {NoReq}, ok \in BOOLEAN : Reply(r, ok) \in Line
         /\ \A n \in 0 .. MaxEvents : Event(n) \in Line
<1> USE IpcAssumption DEF TypeOK, Line
<1>1. ASSUME NEW r \in Requests \union {NoReq}, NEW ok \in BOOLEAN PROVE Reply(r, ok) \in Line
  BY DEF Reply, Requests, NoReq
<1>2. ASSUME NEW n \in 0 .. MaxEvents PROVE Event(n) \in Line
  BY DEF Event
<1> QED
  BY <1>1, <1>2

LEMMA MineIsRequest ==
  ASSUME TypeOK, nextId =< MaxId PROVE Mine(nextId) \in Requests
BY IpcAssumption DEF TypeOK, Mine, Requests

LEMMA SameLines ==
  ASSUME Typed, TypeOK', UNCHANGED emitted,
         \A g \in Conns : outbox'[g] \in {outbox[g], <<>>}
  PROVE  Typed'
BY DEF Typed

LEMMA TypedStep == Typed /\ [Next]_vars => Typed'
<1> SUFFICES ASSUME Typed, [Next]_vars PROVE Typed'
  OBVIOUS
<1> USE IpcAssumption
<1>0. TypeOK /\ \A g \in Conns : \A j \in 1 .. Len(outbox[g]) : outbox[g][j].at =< emitted
  BY DEF Typed
<1>1. CASE Request
  <2>1. Mine(nextId) \in Requests /\ nextId =< MaxId /\ nextId' = nextId + 1
    BY <1>0, <1>1, MineIsRequest DEF Request
  <2>2. pending' \subseteq 1 .. nextId' - 1
    <3>1. pending' \subseteq pending \union {nextId}
      BY <1>1 DEF Request
    <3>2. pending \subseteq 1 .. nextId - 1 /\ nextId \in Nat \ {0}
      BY <1>0 DEF TypeOK
    <3> QED
      BY <2>1, <3>1, <3>2
  <2>3. inbox' \in [Conns -> Seq(Requests)]
    <3>1. \/ inbox' = inbox
          \/ up /\ inbox' = [inbox EXCEPT ![conn] = Append(inbox[conn], Mine(nextId))]
      BY <1>1 DEF Request
    <3>2. up => conn \in Conns /\ inbox[conn] \in Seq(Requests)
      BY <1>0 DEF TypeOK
    <3>3. up => Append(inbox[conn], Mine(nextId)) \in Seq(Requests)
      BY <2>1, <3>2
    <3> QED
      BY <1>0, <3>1, <3>3 DEF TypeOK
  <2>4. calls' \in [Requests -> Nat]
    <3>1. \/ calls' = calls
          \/ calls' = [calls EXCEPT ![Mine(nextId)] = calls[Mine(nextId)] + 1]
      BY <1>1 DEF Request
    <3>2. calls[Mine(nextId)] + 1 \in Nat
      BY <1>0, <2>1 DEF TypeOK
    <3> QED
      BY <1>0, <3>1, <3>2 DEF TypeOK
  <2>5. answer' \in [Requests -> Answers]
    <3>1. answer' \in {answer, [answer EXCEPT ![Mine(nextId)] = Told("lost", NoReq)]}
      BY <1>1 DEF Request
    <3>2. Told("lost", NoReq) \in Answers
      BY DEF Told, Answers
    <3> QED
      BY <1>0, <3>1, <3>2 DEF TypeOK
  <2>6. nextId' \in 1 .. MaxId + 1
    BY <1>0, <2>1 DEF TypeOK
  <2>7. TypeOK'
    BY <1>0, <1>1, <2>2, <2>3, <2>4, <2>5, <2>6 DEF Request, TypeOK
  <2> QED
    BY <1>1, <2>7, SameLines DEF Request
<1>2. CASE Connect
  <2>1. TypeOK'
    BY <1>0, <1>2 DEF Connect, TypeOK
  <2> QED
    BY <1>2, <2>1, SameLines DEF Connect
<1>3. CASE Deliver
  <2> DEFINE line == Head(outbox[conn])
  <2>1. up /\ conn \in Conns /\ outbox[conn] # <<>> /\ outbox[conn] \in Seq(Line)
    BY <1>0, <1>3 DEF Deliver, TypeOK
  <2>2. line \in Line /\ line.at =< emitted
    <3>1. line = outbox[conn][1] /\ 1 \in 1 .. Len(outbox[conn])
      BY <2>1
    <3> QED
      BY <1>0, <2>1, <3>1
  <2>3. outbox' = [outbox EXCEPT ![conn] = Tail(outbox[conn])]
    BY <1>3 DEF Deliver
  <2>4. outbox' \in [Conns -> Seq(Line)]
    BY <1>0, <2>1, <2>3 DEF TypeOK
  <2>5. \A g \in Conns : \A j \in 1 .. Len(outbox'[g]) : outbox'[g][j].at =< emitted
    <3> SUFFICES ASSUME NEW g \in Conns, NEW j \in 1 .. Len(outbox'[g])
                 PROVE  outbox'[g][j].at =< emitted
      OBVIOUS
    <3>1. CASE g = conn
      <4>1. outbox'[g] = Tail(outbox[conn])
        BY <1>0, <2>1, <2>3, <3>1 DEF TypeOK
      <4>2. outbox'[g][j] = outbox[conn][j + 1] /\ j + 1 \in 1 .. Len(outbox[conn])
        BY <2>1, <4>1
      <4> QED
        BY <1>0, <2>1, <4>2
    <3>2. CASE g # conn
      BY <1>0, <2>3, <3>2 DEF TypeOK
    <3> QED
      BY <3>1, <3>2
  <2>6. /\ seen' \in 0 .. emitted /\ pending' \subseteq pending
        /\ calls' \in [Requests -> Nat] /\ answer' \in [Requests -> Answers]
    <3>0. /\ seen \in 0 .. emitted /\ emitted \in 0 .. MaxEvents
          /\ calls \in [Requests -> Nat] /\ answer \in [Requests -> Answers]
      BY <1>0 DEF TypeOK
    <3>1. CASE line.kind = "event"
      <4>1. seen' = line.at /\ pending' = pending /\ calls' = calls /\ answer' = answer
        BY <1>3, <3>1 DEF Deliver
      <4>2. line.at \in 0 .. emitted
        BY <2>2, <3>0 DEF Line
      <4> QED
        BY <3>0, <4>1, <4>2
    <3>2. CASE line.kind # "event"
      <4>1. SettleAll({line.id}, IF line.ok THEN "ok" ELSE "error", line.of) /\ seen' = seen
        BY <1>3, <3>2 DEF Deliver
      <4>2. line.of \in Requests \union {NoReq}
        BY <2>2 DEF Line
      <4>3. /\ pending' = pending \ {line.id}
            /\ calls' \in [Requests -> Nat] /\ answer' \in [Requests -> Answers]
        BY <1>0, <4>1, <4>2, Settling
      <4> QED
        BY <3>0, <4>1, <4>3
    <3> QED
      BY <3>1, <3>2
  <2> QED
    BY <1>0, <1>3, <2>4, <2>5, <2>6 DEF Deliver, Typed, TypeOK
<1>4. CASE Notice
  <2>1. calls' \in [Requests -> Nat] /\ answer' \in [Requests -> Answers] /\ pending' = {}
    BY <1>0, <1>4, Settling DEF Notice
  <2>2. TypeOK'
    <3>1. conn' \in (IF up' THEN Conns ELSE {NoConn}) /\ up' \in BOOLEAN
      BY <1>4 DEF Notice
    <3>2. outbox' \in [Conns -> Seq(Line)]
      BY <1>0, <1>4 DEF Notice, TypeOK
    <3>3. pending' \subseteq 1 .. nextId' - 1
      BY <2>1
    <3> QED
      BY <1>0, <1>4, <2>1, <3>1, <3>2, <3>3 DEF Notice, TypeOK
  <2>3. \A g \in Conns : outbox'[g] \in {outbox[g], <<>>}
    BY <1>0, <1>4 DEF Notice, TypeOK
  <2> QED
    BY <1>4, <2>2, <2>3, SameLines DEF Notice
<1>5. CASE MenuRestarts
  <2>1. TypeOK'
    <3>1. conn' \in (IF up' THEN Conns ELSE {NoConn}) /\ up' \in BOOLEAN
      BY <1>5 DEF MenuRestarts
    <3>2. outbox' \in [Conns -> Seq(Line)]
      BY <1>0, <1>5 DEF MenuRestarts, TypeOK
    <3>3. boot' \in 1 .. MaxBoots /\ nextId' \in 1 .. MaxId + 1 /\ seen' \in 0 .. emitted'
      BY <1>0, <1>5 DEF MenuRestarts, TypeOK
    <3>4. pending' \subseteq 1 .. nextId' - 1
      BY <1>5 DEF MenuRestarts
    <3> QED
      BY <1>0, <1>5, <3>1, <3>2, <3>3, <3>4 DEF MenuRestarts, TypeOK
  <2>2. \A g \in Conns : outbox'[g] \in {outbox[g], <<>>}
    BY <1>0, <1>5 DEF MenuRestarts, TypeOK
  <2> QED
    BY <1>5, <2>1, <2>2, SameLines DEF MenuRestarts
<1>6. ASSUME NEW g \in Conns, Accept(g) PROVE Typed'
  BY <1>0, <1>6 DEF Accept, client, Typed, TypeOK
<1>7. ASSUME NEW g \in Conns, Read(g) PROVE Typed'
  <2>1. Head(inbox[g]) \in Requests /\ Tail(inbox[g]) \in Seq(Requests)
    BY <1>0, <1>7 DEF Read, TypeOK
  <2> QED
    BY <1>0, <1>7, <2>1 DEF Read, client, Typed, TypeOK
<1>8. ASSUME NEW g \in Conns, Dispatch(g) PROVE Typed'
  <2>1. PICK ok \in BOOLEAN : outbox' = Push(g, Reply(cur[g], ok))
    BY <1>8 DEF Dispatch
  <2>2. Reply(cur[g], ok) \in Line /\ Reply(cur[g], ok).at = emitted
    BY <1>0, LinesAreLines DEF Reply, TypeOK
  <2>3. outbox' \in [Conns -> Seq(Line)]
    BY <1>0, <2>1, <2>2, Pushing
  <2>4. \A h \in Conns : \A j \in 1 .. Len(outbox'[h]) : outbox'[h][j].at =< emitted
    BY <1>0, <2>1, <2>2 DEF Push, TypeOK
  <2>5. ran' \in [Requests -> Nat]
    <3>1. \A r \in Requests : ran[r] \in Nat /\ ran[r] + 1 \in Nat
      BY <1>0 DEF TypeOK
    <3> QED
      BY <1>0, <1>8, <3>1 DEF Dispatch, TypeOK
  <2> QED
    BY <1>0, <1>8, <2>3, <2>4, <2>5 DEF Dispatch, client, Typed, TypeOK
<1>9. ASSUME NEW g \in Conns, HangUp(g) PROVE Typed'
  BY <1>0, <1>9 DEF HangUp, client, Typed, TypeOK
<1>10. CASE Emit
  <2>1. emitted' \in 0 .. MaxEvents /\ emitted' = emitted + 1
    BY <1>0, <1>10 DEF Emit, TypeOK
  <2>2. Event(emitted') \in Line /\ Event(emitted').at = emitted'
    BY <1>0, <2>1, LinesAreLines DEF Event
  <2>3. outbox' \in [Conns -> Seq(Line)]
    BY <1>0, <1>10, <2>2 DEF Emit, TypeOK
  <2>4. \A h \in Conns : \A j \in 1 .. Len(outbox'[h]) : outbox'[h][j].at =< emitted'
    <3> SUFFICES ASSUME NEW h \in Conns, NEW j \in 1 .. Len(outbox'[h])
                 PROVE  outbox'[h][j].at =< emitted'
      OBVIOUS
    <3>1. outbox'[h] \in {outbox[h], Append(outbox[h], Event(emitted'))}
      BY <1>10 DEF Emit
    <3>2. outbox[h] \in Seq(Line) /\ emitted \in Nat
      BY <1>0 DEF TypeOK
    <3>3. CASE j \in 1 .. Len(outbox[h])
      <4>1. outbox'[h][j] = outbox[h][j] /\ outbox[h][j] \in Line
        BY <3>1, <3>2, <3>3, SMTT(20)
      <4> QED
        BY <1>0, <2>1, <3>2, <3>3, <4>1, SMTT(20) DEF Line
    <3>4. CASE j \notin 1 .. Len(outbox[h])
      <4>1. outbox'[h][j] = Event(emitted')
        BY <3>1, <3>2, <3>4
      <4> QED
        BY <2>1, <2>2, <3>2, <4>1
    <3> QED
      BY <3>3, <3>4
  <2>5. TypeOK'
    BY <1>0, <1>10, <2>1, <2>3 DEF Emit, client, TypeOK
  <2> QED
    BY <2>4, <2>5 DEF Typed
<1>11. CASE DaemonDies
  <2>1. inbox' \in [Conns -> Seq(Requests)] /\ cur' \in [Conns -> Requests \union {NoReq}]
    BY <1>11 DEF DaemonDies
  <2>2. srv' \in [Conns -> {"none", "accepted", "reading", "handling", "closed"}]
    BY <1>11 DEF DaemonDies
  <2>3. TypeOK'
    BY <1>0, <1>11, <2>1, <2>2 DEF DaemonDies, client, TypeOK
  <2> QED
    BY <1>11, <2>3, SameLines DEF DaemonDies
<1>12. CASE DaemonStarts
  <2>1. TypeOK'
    BY <1>0, <1>12 DEF DaemonStarts, client, TypeOK
  <2> QED
    BY <1>12, <2>1, SameLines DEF DaemonStarts
<1>13. CASE UNCHANGED vars
  <2>1. TypeOK'
    BY <1>0, <1>13 DEF vars, client, server, TypeOK
  <2> QED
    BY <1>13, <2>1, SameLines DEF vars, server
<1> QED
  BY <1>1, <1>2, <1>3, <1>4, <1>5, <1>6, <1>7, <1>8, <1>9, <1>10, <1>11, <1>12, <1>13 DEF Next

-------------------------------------------------------------------------------
\* The callbacks.

LEMMA Basics ==
  ASSUME TypeOK
  PROVE  /\ boot \in Nat /\ nextId \in Nat \ {0} /\ pending \subseteq 1 .. nextId - 1
         /\ NoReq \notin Requests /\ NoReq.id = 0
         /\ \A r \in Requests : r.boot \in Nat /\ r.id \in Nat \ {0}
         /\ \A r \in Requests : ran[r] \in Nat /\ calls[r] \in Nat
         /\ \A g \in Conns : inbox[g] \in Seq(Requests) /\ cur[g] \in Requests \union {NoReq}
         /\ DOMAIN inbox = Conns /\ DOMAIN cur = Conns /\ DOMAIN srv = Conns
         /\ DOMAIN outbox = Conns /\ DOMAIN since = Conns /\ DOMAIN ran = Requests
         /\ NoConn \notin Conns /\ emitted \in Nat /\ seen \in Nat
<1>1. boot \in Nat /\ nextId \in Nat \ {0} /\ pending \subseteq 1 .. nextId - 1
  BY IpcAssumption DEF TypeOK
<1>2. \A r \in Requests : r.boot \in Nat \ {0} /\ r.id \in Nat \ {0}
  BY IpcAssumption DEF Requests
<1>3. NoReq \notin Requests /\ NoReq.id = 0
  BY <1>2 DEF NoReq
<1>4. \A r \in Requests : ran[r] \in Nat /\ calls[r] \in Nat
  BY DEF TypeOK
<1>5. \A g \in Conns : inbox[g] \in Seq(Requests) /\ cur[g] \in Requests \union {NoReq}
  BY DEF TypeOK
<1>6. /\ DOMAIN inbox = Conns /\ DOMAIN cur = Conns /\ DOMAIN srv = Conns
      /\ DOMAIN outbox = Conns /\ DOMAIN since = Conns /\ DOMAIN ran = Requests
  BY DEF TypeOK
<1>7. NoConn \notin Conns /\ emitted \in Nat /\ seen \in Nat
  BY IpcAssumption DEF TypeOK, NoConn, Conns
<1> QED
  BY <1>1, <1>2, <1>3, <1>4, <1>5, <1>6, <1>7

LEMMA SettledOnce ==
  ASSUME TypeOK, Calling, NEW ids, NEW how, NEW of, SettleAll(ids, how, of),
         UNCHANGED <<boot, nextId>>, up' => up, ~ up' => pending \subseteq ids
  PROVE  Calling'
<1>1. pending' = pending \ ids /\ pending \subseteq 1 .. nextId - 1 /\ nextId \in Nat
  BY IpcAssumption DEF SettleAll, TypeOK
<1>2. \A r \in Requests : r.boot = boot /\ r.id \in ids \intersect pending =>
         calls[r] = 0 /\ calls'[r] = 1 /\ r.id < nextId /\ r.id \notin pending'
  <2> SUFFICES ASSUME NEW r \in Requests, r.boot = boot, r.id \in ids \intersect pending
               PROVE  calls[r] = 0 /\ calls'[r] = 1 /\ r.id < nextId /\ r.id \notin pending'
    OBVIOUS
  <2>0. r.id \in ids /\ r.id \in pending
    OBVIOUS
  <2>1. r.id < nextId /\ r.id \notin pending'
    <3>1. r.id \in 1 .. nextId - 1
      BY <1>1, <2>0
    <3>2. r.id \notin pending \ ids
      BY <2>0
    <3> QED
      BY <1>1, <3>1, <3>2
  <2>2. calls[r] = 0
    BY DEF Calling
  <2>3. calls'[r] = calls[r] + 1
    BY DEF SettleAll
  <2> QED
    BY <2>1, <2>2, <2>3
<1>3. \A r \in Requests : ~ (r.boot = boot /\ r.id \in ids \intersect pending) =>
         calls'[r] = calls[r] /\ (r.boot = boot => (r.id \in pending' <=> r.id \in pending))
  BY <1>1 DEF SettleAll
<1>4. \A r \in Requests : r.boot > boot => r.boot # boot
  BY IpcAssumption DEF TypeOK, Requests
<1> QED
  BY <1>1, <1>2, <1>3, <1>4 DEF Calling, NoneWaitWhenDown

LEMMA CallingStep == TypeOK /\ Calling /\ [Next]_vars => Calling'
<1> SUFFICES ASSUME TypeOK, Calling, [Next]_vars PROVE Calling'
  OBVIOUS
<1>0. /\ boot \in Nat /\ nextId \in Nat \ {0} /\ pending \subseteq 1 .. nextId - 1
      /\ \A r \in Requests : r.boot \in Nat /\ r.id \in Nat \ {0} /\ calls[r] \in Nat
  BY Basics
<1>1. CASE Request
  <2> DEFINE n == Mine(nextId)
  <2>1. n \in Requests /\ n.boot = boot /\ n.id = nextId
    BY <1>1, MineIsRequest DEF Request, Mine
  <2>2. \A r \in Requests : r.boot = boot /\ r.id = nextId => r = n
    BY DEF Requests, Mine
  <2>3. calls[n] = 0
    BY <1>0, <2>1 DEF Calling
  <2> HIDE DEF n
  <2>4. CASE up
    <3>1. up' /\ UNCHANGED <<boot, calls>> /\ nextId' = nextId + 1
          /\ pending' = pending \union {nextId}
      BY <1>1, <2>4 DEF Request
    <3> QED
      BY <1>0, <2>2, <2>3, <3>1 DEF Calling, NoneWaitWhenDown
  <2>5. CASE ~ up
    <3>1. UNCHANGED <<up, boot, pending>> /\ nextId' = nextId + 1
          /\ calls' = [calls EXCEPT ![n] = @ + 1]
      BY <1>1, <2>5 DEF Request, n
    <3>2. calls'[n] = 1 /\ \A r \in Requests \ {n} : calls'[r] = calls[r]
      BY <2>1, <2>3, <3>1 DEF TypeOK
    <3> QED
      BY <1>0, <2>1, <2>2, <3>1, <3>2 DEF Calling, NoneWaitWhenDown
  <2> QED
    BY <2>4, <2>5
<1>2. CASE Deliver
  <2>1. CASE Head(outbox[conn]).kind = "event"
    BY <1>2, <2>1 DEF Deliver, Calling, NoneWaitWhenDown
  <2>2. CASE Head(outbox[conn]).kind # "event"
    BY <1>2, <2>2, SettledOnce DEF Deliver
  <2> QED
    BY <2>1, <2>2
<1>3. CASE Notice
  BY <1>3, SettledOnce DEF Notice
<1>4. CASE MenuRestarts
  BY <1>0, <1>4 DEF MenuRestarts, Calling, NoneWaitWhenDown
<1>5. ASSUME UNCHANGED <<boot, nextId, pending, calls>>, up => up' PROVE Calling'
  BY <1>5 DEF Calling, NoneWaitWhenDown
<1>6. CASE Connect \/ Emit \/ DaemonDies \/ DaemonStarts \/ UNCHANGED vars
  BY <1>5, <1>6 DEF Connect, Emit, DaemonDies, DaemonStarts, vars, client
<1>7. CASE \E g \in Conns : Accept(g) \/ Read(g) \/ Dispatch(g) \/ HangUp(g)
  BY <1>5, <1>7 DEF Accept, Read, Dispatch, HangUp, client
<1> QED
  BY <1>1, <1>2, <1>3, <1>4, <1>6, <1>7 DEF Next

-------------------------------------------------------------------------------
\* The server tasks.

LEMMA ServedAlike ==
  ASSUME Serving, UNCHANGED <<ran, inbox, cur>>, conn' \in {conn, NoConn},
         \A r \in Requests : Made(r) => Made(r)',
         \A g \in Conns : srv'[g] = "handling" <=> srv[g] = "handling",
         \A g \in Conns : srv'[g] = "none" => srv[g] = "none",
         boot' = boot \/ conn' = NoConn
  PROVE  Serving'
<1>1. \A g \in Conns : \A r \in Requests : Holds(g, r)' <=> Holds(g, r)
  BY DEF Holds
<1>2. NoConn \notin Conns
  BY IpcAssumption DEF NoConn, Conns
<1> QED
  BY <1>1, <1>2 DEF Serving

LEMMA ServingStep == TypeOK /\ Serving /\ Replying /\ [Next]_vars => Serving'
<1> SUFFICES ASSUME TypeOK, Serving, Replying, [Next]_vars PROVE Serving'
  OBVIOUS
<1>0. /\ boot \in Nat /\ nextId \in Nat \ {0} /\ NoReq \notin Requests /\ NoReq.id = 0
      /\ \A r \in Requests : r.boot \in Nat /\ r.id \in Nat \ {0} /\ ran[r] \in Nat
      /\ \A g \in Conns : inbox[g] \in Seq(Requests) /\ cur[g] \in Requests \union {NoReq}
      /\ DOMAIN inbox = Conns /\ DOMAIN cur = Conns /\ DOMAIN srv = Conns /\ DOMAIN ran = Requests
  BY Basics
<1>1. CASE Request
  <2> DEFINE n == Mine(nextId)
  <2>1. n \in Requests /\ n.boot = boot /\ n.id = nextId
    BY <1>1, MineIsRequest DEF Request, Mine
  <2>2. \A r \in Requests : Made(r)' <=> Made(r) \/ r = n
    BY <1>0, <1>1, <2>1 DEF Request, Made, Mine, Requests
  <2>3. ~ Made(n)
    BY <1>0, <2>1 DEF Made
  <2> HIDE DEF n
  <2>4. UNCHANGED <<boot, conn, srv, cur, ran>>
    BY <1>1 DEF Request
  <2>5. CASE inbox' = inbox
    BY <2>2, <2>4, <2>5, ServedAlike
  <2>6. CASE up /\ inbox' = [inbox EXCEPT ![conn] = Append(inbox[conn], n)]
    <3>1. conn \in Conns /\ srv[conn] # "none"
      BY <2>6 DEF TypeOK, Replying
    <3>2. inbox'[conn] = Append(inbox[conn], n) /\ \A g \in Conns \ {conn} : inbox'[g] = inbox[g]
      BY <1>0, <2>6, <3>1
    <3>3. /\ Len(inbox'[conn]) = Len(inbox[conn]) + 1 /\ Len(inbox[conn]) \in Nat
          /\ inbox'[conn][Len(inbox[conn]) + 1] = n
          /\ \A j \in 1 .. Len(inbox[conn]) : inbox'[conn][j] = inbox[conn][j]
      BY <1>0, <3>1, <3>2
    <3>4. \A j \in 1 .. Len(inbox[conn]) : inbox[conn][j] \in Requests /\ inbox[conn][j].id < nextId
      <4> SUFFICES ASSUME NEW j \in 1 .. Len(inbox[conn])
                   PROVE  inbox[conn][j] \in Requests /\ inbox[conn][j].id < nextId
        OBVIOUS
      <4>1. inbox[conn][j] \in Requests
        BY <1>0, <3>1
      <4>2. Made(inbox[conn][j]) /\ inbox[conn][j].boot = boot
        BY <3>1, <4>1 DEF Serving, Holds
      <4> QED
        BY <1>0, <4>1, <4>2 DEF Made
    <3>5. cur[conn].id < nextId
      <4>1. CASE cur[conn] = NoReq
        BY <1>0, <4>1
      <4>2. CASE cur[conn] \in Requests
        <5>1. Made(cur[conn]) /\ cur[conn].boot = boot
          BY <3>1, <4>2 DEF Serving, Holds
        <5> QED
          BY <1>0, <4>2, <5>1 DEF Made
      <4> QED
        BY <1>0, <3>1, <4>1, <4>2
    <3>6. \A g \in Conns : \A r \in Requests : Holds(g, r)' => Holds(g, r) \/ (g = conn /\ r = n)
      BY <2>4, <3>2, <3>3, SMTT(20) DEF Holds
    <3>7. \A g \in Conns : ~ Holds(g, n)
      BY <2>1, <2>3 DEF Serving
    <3>8. \A r \in Requests : ran'[r] \in {0, 1} /\ (~ Made(r)' => ran'[r] = 0)
      BY <2>2, <2>4 DEF Serving
    <3>9. \A g \in Conns : \A j, k \in 1 .. Len(inbox'[g]) : j < k => inbox'[g][j].id < inbox'[g][k].id
      <4>1. ASSUME NEW j \in 1 .. Len(inbox'[conn]), NEW k \in 1 .. Len(inbox'[conn]), j < k
            PROVE  inbox'[conn][j].id < inbox'[conn][k].id
        <5>1. j \in 1 .. Len(inbox[conn]) /\ inbox'[conn][j] = inbox[conn][j]
          BY <3>3, <4>1
        <5>2. CASE k = Len(inbox[conn]) + 1
          BY <2>1, <3>3, <3>4, <5>1, <5>2
        <5>3. CASE k # Len(inbox[conn]) + 1
          <6>1. k \in 1 .. Len(inbox[conn]) /\ inbox'[conn][k] = inbox[conn][k]
            BY <3>3, <5>3
          <6> QED
            BY <3>1, <4>1, <5>1, <6>1 DEF Serving
        <5> QED
          BY <5>2, <5>3
      <4>2. ASSUME NEW g \in Conns, g # conn
            PROVE  \A j, k \in 1 .. Len(inbox'[g]) : j < k => inbox'[g][j].id < inbox'[g][k].id
        <5>1. inbox'[g] = inbox[g]
          BY <3>2, <4>2
        <5> QED
          BY <5>1 DEF Serving
      <4> QED
        BY <4>1, <4>2
    <3>10. \A g \in Conns : \A j \in 1 .. Len(inbox'[g]) : cur'[g].id < inbox'[g][j].id
      <4>1. \A j \in 1 .. Len(inbox'[conn]) : cur[conn].id < inbox'[conn][j].id
        BY <2>1, <3>1, <3>3, <3>5, SMTT(20) DEF Serving
      <4> QED
        BY <2>4, <3>2, <4>1 DEF Serving
    <3>11. \A g \in Conns : \A r \in Requests :
             Holds(g, r)' => Made(r)' /\ ran'[r] = 0 /\ (g = conn' => r.boot = boot')
      BY <2>1, <2>2, <2>3, <2>4, <3>6 DEF Serving
    <3>12. \A g, h \in Conns : \A r \in Requests : Holds(g, r)' /\ Holds(h, r)' => g = h
      BY <3>6, <3>7 DEF Serving
    <3>13. \A g \in Conns : /\ cur'[g] # NoReq <=> srv'[g] = "handling"
                            /\ srv'[g] = "none" => inbox'[g] = <<>>
      BY <2>4, <3>1, <3>2 DEF Serving
    <3> QED
      BY <3>8, <3>9, <3>10, <3>11, <3>12, <3>13 DEF Serving
  <2> QED
    BY <1>1, <2>5, <2>6 DEF Request, n
<1>2. CASE Connect
  <2>1. PICK c \in Conns : srv[c] = "none" /\ conn' = c /\ srv' = [srv EXCEPT ![c] = "accepted"]
    BY <1>2 DEF Connect
  <2>2. UNCHANGED <<boot, nextId, inbox, cur, ran>>
    BY <1>2 DEF Connect
  <2>3. \A r \in Requests : ~ Holds(c, r)
    BY <1>0, <2>1 DEF Serving, Holds
  <2>4. \A g \in Conns : \A r \in Requests : (Holds(g, r)' <=> Holds(g, r)) /\ (Made(r)' <=> Made(r))
    BY <2>2 DEF Holds, Made
  <2>5. \A g \in Conns : /\ srv'[g] = "handling" <=> srv[g] = "handling"
                         /\ srv'[g] = "none" => srv[g] = "none"
    BY <1>0, <2>1
  <2> QED
    BY <2>1, <2>2, <2>3, <2>4, <2>5 DEF Serving
<1>3. CASE Deliver \/ Notice
  <2>1. UNCHANGED <<boot, nextId, srv, ran, inbox, cur>> /\ conn' \in {conn, NoConn}
    BY <1>3 DEF Deliver, Notice
  <2> QED
    BY <2>1, ServedAlike DEF Made
<1>4. CASE MenuRestarts
  <2>1. UNCHANGED <<srv, ran, inbox, cur>> /\ conn' = NoConn
    BY <1>4 DEF MenuRestarts
  <2>2. \A r \in Requests : Made(r) => Made(r)'
    BY <1>0, <1>4 DEF MenuRestarts, Made
  <2> QED
    BY <2>1, <2>2, ServedAlike
<1>5. CASE \E g \in Conns : Accept(g) \/ HangUp(g)
  <2>1. PICK g \in Conns : srv[g] \in {"accepted", "reading"}
                            /\ srv' \in {[srv EXCEPT ![g] = "reading"], [srv EXCEPT ![g] = "closed"]}
    BY <1>5 DEF Accept, HangUp
  <2>2. UNCHANGED <<boot, nextId, conn, ran, inbox, cur>>
    BY <1>5 DEF Accept, HangUp, client
  <2>3. \A h \in Conns : /\ srv'[h] = "handling" <=> srv[h] = "handling"
                         /\ srv'[h] = "none" => srv[h] = "none"
    BY <1>0, <2>1
  <2> QED
    BY <2>2, <2>3, ServedAlike DEF Made
<1>6. ASSUME NEW g \in Conns, Read(g) PROVE Serving'
  <2> DEFINE o == inbox[g]
  <2>1. /\ srv[g] = "reading" /\ o # <<>> /\ o \in Seq(Requests)
        /\ cur' = [cur EXCEPT ![g] = Head(o)] /\ inbox' = [inbox EXCEPT ![g] = Tail(o)]
        /\ srv' = [srv EXCEPT ![g] = "handling"]
        /\ UNCHANGED <<boot, nextId, conn, ran>>
    BY <1>0, <1>6 DEF Read, client
  <2>2. /\ cur'[g] = Head(o) /\ inbox'[g] = Tail(o) /\ srv'[g] = "handling"
        /\ \A h \in Conns \ {g} : cur'[h] = cur[h] /\ inbox'[h] = inbox[h] /\ srv'[h] = srv[h]
    BY <1>0, <2>1
  <2>3. \A j, k \in 1 .. Len(o) : j < k => o[j].id < o[k].id
    BY DEF Serving
  <2>4. o[1] = Head(o) /\ Head(o) \in Requests /\ 1 \in 1 .. Len(o) /\ Len(o) \in Nat
    BY <2>1
  <2>5. Len(Tail(o)) = Len(o) - 1 /\ \A j \in 1 .. Len(Tail(o)) : Tail(o)[j] = o[j + 1]
    BY <2>1
  <2> HIDE DEF o
  <2>6. \A j, k \in 1 .. Len(Tail(o)) : j < k => Tail(o)[j].id < Tail(o)[k].id
    <3> SUFFICES ASSUME NEW j \in 1 .. Len(Tail(o)), NEW k \in 1 .. Len(Tail(o)), j < k
                 PROVE  Tail(o)[j].id < Tail(o)[k].id
      OBVIOUS
    <3>1. j + 1 \in 1 .. Len(o) /\ k + 1 \in 1 .. Len(o) /\ j + 1 < k + 1
      BY <2>4, <2>5
    <3> QED
      BY <2>3, <2>5, <3>1
  <2>7. \A j \in 1 .. Len(Tail(o)) : Head(o).id < Tail(o)[j].id
    <3> SUFFICES ASSUME NEW j \in 1 .. Len(Tail(o)) PROVE Head(o).id < Tail(o)[j].id
      OBVIOUS
    <3>1. j + 1 \in 1 .. Len(o) /\ 1 < j + 1
      BY <2>4, <2>5
    <3> QED
      BY <2>3, <2>4, <2>5, <3>1
  <2>8. ASSUME NEW h \in Conns, NEW r \in Requests, Holds(h, r)' PROVE Holds(h, r)
    <3>1. CASE h # g
      BY <2>2, <2>8, <3>1 DEF Holds
    <3>2. CASE h = g
      <4>1. r = Head(o) \/ \E j \in 1 .. Len(Tail(o)) : Tail(o)[j] = r
        BY <2>2, <2>8, <3>2 DEF Holds
      <4>2. \E j \in 1 .. Len(o) : o[j] = r
        BY <2>4, <2>5, <4>1
      <4> QED
        BY <3>2, <4>2 DEF Holds, o
    <3> QED
      BY <3>1, <3>2
  <2>9. \A h \in Conns : /\ cur'[h] # NoReq <=> srv'[h] = "handling"
                         /\ srv'[h] = "none" => inbox'[h] = <<>>
    BY <1>0, <2>2, <2>4 DEF Serving
  <2>10. ASSUME NEW h \in Conns
         PROVE  /\ \A j, k \in 1 .. Len(inbox'[h]) : j < k => inbox'[h][j].id < inbox'[h][k].id
                /\ \A j \in 1 .. Len(inbox'[h]) : cur'[h].id < inbox'[h][j].id
    <3>1. CASE h = g
      BY <2>2, <2>6, <2>7, <3>1
    <3>2. CASE h # g
      <4>1. inbox'[h] = inbox[h] /\ cur'[h] = cur[h]
        BY <2>2, <3>2
      <4> QED
        BY <4>1 DEF Serving
    <3> QED
      BY <3>1, <3>2
  <2>11. \A r \in Requests : Made(r)' <=> Made(r)
    BY <2>1 DEF Made
  <2> QED
    BY <2>1, <2>8, <2>9, <2>10, <2>11 DEF Serving
<1>7. ASSUME NEW g \in Conns, Dispatch(g) PROVE Serving'
  <2> DEFINE r0 == cur[g]
  <2>1. /\ srv[g] = "handling" /\ srv' = [srv EXCEPT ![g] = "reading"]
        /\ ran' = [ran EXCEPT ![r0] = @ + 1] /\ cur' = [cur EXCEPT ![g] = NoReq]
        /\ UNCHANGED <<boot, nextId, conn, inbox>>
    BY <1>7 DEF Dispatch, client
  <2>2. r0 \in Requests /\ Holds(g, r0)
    BY <1>0, <2>1 DEF Serving, Holds
  <2>3. Made(r0) /\ ran[r0] = 0
    BY <2>2 DEF Serving
  <2>4. ran'[r0] = 1 /\ \A r \in Requests \ {r0} : ran'[r] = ran[r]
    BY <1>0, <2>1, <2>2, <2>3
  <2>5. /\ cur'[g] = NoReq /\ srv'[g] = "reading"
        /\ \A h \in Conns \ {g} : cur'[h] = cur[h] /\ srv'[h] = srv[h]
    BY <1>0, <2>1
  <2>6. ASSUME NEW h \in Conns, NEW r \in Requests, Holds(h, r)' PROVE Holds(h, r) /\ r # r0
    <3>1. CASE h # g
      BY <2>1, <2>2, <2>5, <2>6, <3>1 DEF Holds, Serving
    <3>2. CASE h = g
      <4>1. PICK j \in 1 .. Len(inbox[g]) : inbox[g][j] = r
        BY <1>0, <2>1, <2>5, <2>6, <3>2 DEF Holds
      <4>2. cur[g].id < inbox[g][j].id
        BY DEF Serving
      <4> QED
        BY <1>0, <2>2, <3>2, <4>1, <4>2 DEF Holds
    <3> QED
      BY <3>1, <3>2
  <2>7. \A r \in Requests : Made(r)' <=> Made(r)
    BY <2>1 DEF Made
  <2>8. \A h \in Conns : \A j \in 1 .. Len(inbox[h]) : cur'[h].id < inbox[h][j].id
    <3>1. \A j \in 1 .. Len(inbox[g]) : 0 < inbox[g][j].id
      BY <1>0
    <3>2. ASSUME NEW h \in Conns, h # g, NEW j \in 1 .. Len(inbox[h])
          PROVE  cur'[h].id < inbox[h][j].id
      BY <2>5, <3>2 DEF Serving
    <3>3. cur'[g].id = 0
      BY <1>0, <2>5
    <3> QED
      BY <3>1, <3>2, <3>3
  <2> QED
    BY <2>1, <2>3, <2>4, <2>5, <2>6, <2>7, <2>8 DEF Serving
<1>8. CASE Emit \/ DaemonStarts \/ UNCHANGED vars
  <2>1. UNCHANGED <<boot, nextId, conn, srv, ran, inbox, cur>>
    BY <1>8 DEF Emit, DaemonStarts, vars, client, server
  <2> QED
    BY <2>1, ServedAlike DEF Made
<1>9. CASE DaemonDies
  <2>1. /\ UNCHANGED <<boot, nextId, conn, ran>>
        /\ \A g \in Conns : inbox'[g] = <<>> /\ cur'[g] = NoReq /\ srv'[g] \in {"none", "closed"}
    BY <1>9 DEF DaemonDies, client
  <2>2. \A g \in Conns : \A r \in Requests : ~ Holds(g, r)'
    BY <1>0, <2>1 DEF Holds
  <2>3. \A r \in Requests : Made(r)' <=> Made(r)
    BY <2>1 DEF Made
  <2> QED
    BY <2>1, <2>2, <2>3 DEF Serving
<1> QED
  BY <1>1, <1>2, <1>3, <1>4, <1>5, <1>6, <1>7, <1>8, <1>9 DEF Next

-------------------------------------------------------------------------------
\* The replies.

\* Reading takes nothing new in hand.
LEMMA ReadHolds ==
  ASSUME TypeOK, NEW g \in Conns, Read(g), NEW h \in Conns, NEW r, Holds(h, r)'
  PROVE  Holds(h, r)
<1> DEFINE o == inbox[g]
<1>1. /\ o # <<>> /\ o \in Seq(Requests)
      /\ cur' = [cur EXCEPT ![g] = Head(o)] /\ inbox' = [inbox EXCEPT ![g] = Tail(o)]
  BY Basics DEF Read
<1>2. /\ cur'[g] = Head(o) /\ inbox'[g] = Tail(o)
      /\ \A c \in Conns \ {g} : cur'[c] = cur[c] /\ inbox'[c] = inbox[c]
  BY <1>1, Basics
<1>3. /\ o[1] = Head(o) /\ 1 \in 1 .. Len(o) /\ Len(o) \in Nat
      /\ Len(Tail(o)) = Len(o) - 1 /\ \A j \in 1 .. Len(Tail(o)) : Tail(o)[j] = o[j + 1]
  BY <1>1
<1> HIDE DEF o
<1>4. CASE h # g
  BY <1>2, <1>4 DEF Holds
<1>5. CASE h = g
  <2>1. r = Head(o) \/ \E j \in 1 .. Len(Tail(o)) : Tail(o)[j] = r
    BY <1>2, <1>5 DEF Holds
  <2>2. \E j \in 1 .. Len(o) : o[j] = r
    BY <1>3, <2>1
  <2> QED
    BY <1>5, <2>2 DEF Holds, o
<1> QED
  BY <1>4, <1>5

\* What a request adds to what is held.
LEMMA RequestHolds ==
  ASSUME TypeOK, Request, NEW h \in Conns, NEW r, Holds(h, r)'
  PROVE  Holds(h, r) \/ (up /\ h = conn /\ r = Mine(nextId))
<1>1. cur' = cur /\ (inbox' = inbox \/ (up /\ inbox' = [inbox EXCEPT ![conn] = Append(inbox[conn], Mine(nextId))]))
  BY DEF Request
<1>2. CASE h = conn /\ up /\ inbox' = [inbox EXCEPT ![conn] = Append(inbox[conn], Mine(nextId))]
  <2>1. inbox'[h] = Append(inbox[h], Mine(nextId)) /\ inbox[h] \in Seq(Requests)
    BY <1>2, Basics
  <2>2. Len(inbox'[h]) = Len(inbox[h]) + 1 /\ Len(inbox[h]) \in Nat
        /\ inbox'[h][Len(inbox[h]) + 1] = Mine(nextId)
        /\ \A j \in 1 .. Len(inbox[h]) : inbox'[h][j] = inbox[h][j]
    BY <2>1
  <2> QED
    BY <1>1, <1>2, <2>2 DEF Holds
<1>3. CASE inbox'[h] = inbox[h]
  BY <1>1, <1>3 DEF Holds
<1> QED
  BY <1>1, <1>2, <1>3, Basics

\* The steps after which a task holds what it held, or less, and the streams to the menu
\* are as they were.
Quiet ==
  \/ \E g \in Conns : Accept(g) \/ Read(g) \/ HangUp(g)
  \/ DaemonDies \/ DaemonStarts \/ UNCHANGED vars

LEMMA QuietHolds ==
  ASSUME TypeOK, Quiet
  PROVE  /\ UNCHANGED <<boot, nextId, up, conn, seen, outbox, ran, answer, emitted>>
         /\ \A h \in Conns, r \in Requests : Holds(h, r)' => Holds(h, r)
         /\ \A h \in Conns : srv'[h] = "none" => srv[h] = "none"
<1>1. CASE \E g \in Conns : Accept(g) \/ HangUp(g)
  BY <1>1, Basics DEF Accept, HangUp, client, Holds
<1>2. CASE \E g \in Conns : Read(g)
  <2>1. \A h \in Conns, r \in Requests : Holds(h, r)' => Holds(h, r)
    BY <1>2, ReadHolds
  <2> QED
    BY <1>2, <2>1, Basics DEF Read, client
<1>3. CASE DaemonDies
  <2>1. \A g \in Conns : inbox'[g] = <<>> /\ cur'[g] = NoReq
    BY <1>3 DEF DaemonDies
  <2>2. \A h \in Conns, r \in Requests : ~ Holds(h, r)'
    BY <2>1, Basics DEF Holds
  <2> QED
    BY <1>3, <2>2 DEF DaemonDies, client
<1>4. CASE DaemonStarts
  BY <1>4 DEF DaemonStarts, client, Holds
<1>5. CASE UNCHANGED vars
  BY <1>5 DEF vars, client, server, Holds
<1> QED
  BY <1>1, <1>2, <1>3, <1>4, <1>5 DEF Quiet

\* What is answered on the menu's connection.
LEMMA DispatchReplies ==
  ASSUME TypeOK, Serving, Replying, NEW g \in Conns, Dispatch(g)
  PROVE  /\ UNCHANGED <<boot, nextId, up, conn, seen, answer, emitted, since>>
         /\ cur[g] \in Requests /\ Holds(g, cur[g]) /\ ran[cur[g]] = 0 /\ ran'[cur[g]] = 1
         /\ \A r \in Requests : ran[r] = 1 => ran'[r] = 1
         /\ \A h \in Conns, r \in Requests : Holds(h, r)' =>
              Holds(h, r) /\ (h = g => cur[g].id < r.id)
         /\ \A h \in Conns : srv'[h] = "none" => srv[h] = "none"
         /\ g # conn => outbox' = outbox
         /\ g = conn => \E ok \in BOOLEAN :
              /\ outbox'[conn] = Append(outbox[conn], Reply(cur[g], ok))
              /\ \A h \in Conns \ {conn} : outbox'[h] = outbox[h]
<1> DEFINE r0 == cur[g]
<1>1. /\ srv[g] = "handling" /\ srv' = [srv EXCEPT ![g] = "reading"]
      /\ ran' = [ran EXCEPT ![r0] = @ + 1] /\ cur' = [cur EXCEPT ![g] = NoReq]
      /\ UNCHANGED <<boot, nextId, up, conn, seen, answer, emitted, since, inbox>>
  BY DEF Dispatch, client
<1>2. r0 \in Requests /\ Holds(g, r0)
  BY <1>1, Basics DEF Serving, Holds
<1>3. ran[r0] = 0
  BY <1>2 DEF Serving
<1>4. ran'[r0] = 1 /\ \A r \in Requests \ {r0} : ran'[r] = ran[r]
  BY <1>1, <1>2, <1>3, Basics
<1>5. /\ cur'[g] = NoReq /\ srv'[g] = "reading"
      /\ \A h \in Conns \ {g} : cur'[h] = cur[h] /\ srv'[h] = srv[h]
  BY <1>1, Basics
<1>6. ASSUME NEW h \in Conns, NEW r \in Requests, Holds(h, r)'
      PROVE  Holds(h, r) /\ (h = g => r0.id < r.id)
  <2>1. CASE h # g
    BY <1>1, <1>5, <1>6, <2>1 DEF Holds
  <2>2. CASE h = g
    <3>1. PICK j \in 1 .. Len(inbox[g]) : inbox[g][j] = r
      BY <1>1, <1>5, <1>6, <2>2, Basics DEF Holds
    <3>2. cur[g].id < inbox[g][j].id
      BY DEF Serving
    <3> QED
      BY <2>2, <3>1, <3>2 DEF Holds
  <2> QED
    BY <2>1, <2>2
<1>7. PICK ok \in BOOLEAN : outbox' = Push(g, Reply(r0, ok))
  BY DEF Dispatch
<1>8. g # conn => outbox' = outbox
  BY <1>7 DEF Push
<1>9. g = conn => /\ outbox'[conn] = Append(outbox[conn], Reply(r0, ok))
                  /\ \A h \in Conns \ {conn} : outbox'[h] = outbox[h]
  BY <1>7, Basics DEF Push
<1>10. \A r \in Requests : ran[r] = 1 => ran'[r] = 1
  BY <1>3, <1>4
<1> QED
  BY <1>1, <1>2, <1>3, <1>4, <1>5, <1>6, <1>8, <1>9, <1>10

LEMMA ReplyingStep == Typed /\ Serving /\ Replying /\ [Next]_vars => Replying'
<1> SUFFICES ASSUME TypeOK, Serving, Replying, [Next]_vars PROVE Replying'
  BY DEF Typed
<1>0. up => conn \in Conns /\ outbox[conn] \in Seq(Line) /\ Len(outbox[conn]) \in Nat
  BY DEF TypeOK
<1>1. CASE Request
  <2>1. UNCHANGED <<boot, up, conn, outbox, srv, ran>>
    BY <1>1 DEF Request
  <2>2. \A j : IsReply(j)' <=> IsReply(j)
    BY <2>1 DEF IsReply
  <2>3. ASSUME up, NEW j, IsReply(j), NEW r \in Requests, Holds(conn, r)'
        PROVE  outbox[conn][j].id < r.id
    <3>1. CASE Holds(conn, r)
      BY <2>3, <3>1 DEF Replying
    <3>2. CASE r = Mine(nextId)
      <4>1. outbox[conn][j].of \in Requests /\ outbox[conn][j].of.boot = boot
            /\ outbox[conn][j].of.id = outbox[conn][j].id /\ ran[outbox[conn][j].of] = 1
        BY <2>3 DEF Replying
      <4>2. Made(outbox[conn][j].of)
        BY <4>1 DEF Serving
      <4> QED
        BY <3>2, <4>1, <4>2, Basics DEF Made, Mine
    <3> QED
      BY <1>0, <1>1, <2>1, <2>3, <3>1, <3>2, RequestHolds
  <2> QED
    BY <2>1, <2>2, <2>3 DEF Replying
<1>2. CASE Connect
  <2>1. PICK c \in Conns : conn' = c /\ srv' = [srv EXCEPT ![c] = "accepted"]
    BY <1>2 DEF Connect
  <2>2. ~ up /\ outbox' = outbox
    BY <1>2 DEF Connect
  <2>3. \A g \in Conns : outbox'[g] = <<>>
    BY <2>2, Basics DEF Replying, TypeOK
  <2>4. \A j : ~ IsReply(j)'
    BY <2>1, <2>3 DEF IsReply
  <2> QED
    BY <2>1, <2>3, <2>4, Basics DEF Replying
<1>3. CASE Deliver
  <2> DEFINE o == outbox[conn]
  <2>1. /\ up /\ o # <<>> /\ outbox' = [outbox EXCEPT ![conn] = Tail(o)]
        /\ UNCHANGED <<boot, up, conn, srv, ran, inbox, cur>>
    BY <1>3 DEF Deliver
  <2>2. outbox'[conn] = Tail(o) /\ \A g \in Conns \ {conn} : outbox'[g] = outbox[g]
    BY <1>0, <2>1, Basics
  <2>3. Len(Tail(o)) = Len(o) - 1 /\ Len(o) \in Nat
        /\ \A j \in 1 .. Len(Tail(o)) : Tail(o)[j] = o[j + 1]
    BY <1>0, <2>1
  <2> HIDE DEF o
  <2>4. ASSUME NEW j, IsReply(j)'
        PROVE  j \in Nat /\ IsReply(j + 1) /\ outbox'[conn'][j] = outbox[conn][j + 1]
    <3>1. j \in 1 .. Len(Tail(o)) /\ Tail(o)[j].kind = "reply"
      BY <2>1, <2>2, <2>4 DEF IsReply
    <3>2. j + 1 \in 1 .. Len(o) /\ o[j + 1].kind = "reply"
      BY <2>3, <3>1
    <3>3. IsReply(j + 1)
      BY <3>2 DEF IsReply, o
    <3>4. outbox'[conn'][j] = outbox[conn][j + 1]
      BY <2>1, <2>2, <2>3, <3>1 DEF o
    <3> QED
      BY <3>1, <3>3, <3>4
  <2>5. \A r : Holds(conn, r)' <=> Holds(conn, r)
    BY <2>1 DEF Holds
  <2>6. ASSUME NEW j, IsReply(j)'
        PROVE LET line == outbox'[conn'][j] IN
              /\ line.of \in Requests /\ line.of.boot = boot' /\ line.of.id = line.id
              /\ ran'[line.of] = 1
              /\ \A k : IsReply(k)' /\ j < k => line.id < outbox'[conn'][k].id
              /\ \A r \in Requests : Holds(conn, r)' => line.id < r.id
    <3>1. IsReply(j + 1) /\ outbox'[conn'][j] = outbox[conn][j + 1] /\ j \in Nat
      BY <2>4, <2>6
    <3>2. ASSUME NEW k, IsReply(k)', j < k
          PROVE  IsReply(k + 1) /\ outbox'[conn'][k] = outbox[conn][k + 1] /\ j + 1 < k + 1
      BY <2>4, <3>1, <3>2
    <3>3. LET line == outbox[conn][j + 1] IN
          /\ line.of \in Requests /\ line.of.boot = boot /\ line.of.id = line.id
          /\ ran[line.of] = 1
          /\ \A k : IsReply(k) /\ j + 1 < k => line.id < outbox[conn][k].id
          /\ \A r \in Requests : Holds(conn, r) => line.id < r.id
      BY <2>1, <3>1 DEF Replying
    <3> QED
      BY <2>1, <2>5, <3>1, <3>2, <3>3
  <2> QED
    BY <2>1, <2>2, <2>6 DEF Replying
<1>4. CASE Notice \/ MenuRestarts
  <2>1. ~ up' /\ conn' = NoConn
    BY <1>4 DEF Notice, MenuRestarts
  <2>2. \A g \in Conns : outbox'[g] = <<>>
    BY <1>4, Basics DEF Notice, MenuRestarts, Replying
  <2> QED
    BY <2>1, <2>2 DEF Replying
<1>5. CASE Quiet
  <2>1. UNCHANGED <<boot, up, conn, outbox, ran>>
    BY <1>5, QuietHolds
  <2>2. \A h \in Conns, r \in Requests : Holds(h, r)' => Holds(h, r)
    BY <1>5, QuietHolds
  <2>3. \A h \in Conns : srv'[h] = "none" => srv[h] = "none"
    BY <1>5, QuietHolds
  <2>4. \A j : IsReply(j)' <=> IsReply(j)
    BY <2>1 DEF IsReply
  <2> QED
    BY <1>0, <2>1, <2>2, <2>3, <2>4 DEF Replying
<1>6. ASSUME NEW g \in Conns, Dispatch(g) PROVE Replying'
  <2>1. /\ UNCHANGED <<boot, nextId, up, conn>>
        /\ cur[g] \in Requests /\ Holds(g, cur[g]) /\ ran'[cur[g]] = 1
        /\ \A r \in Requests : ran[r] = 1 => ran'[r] = 1
        /\ \A h \in Conns : srv'[h] = "none" => srv[h] = "none"
    BY <1>6, DispatchReplies
  <2>2. \A h \in Conns, r \in Requests : Holds(h, r)' => Holds(h, r) /\ (h = g => cur[g].id < r.id)
    BY <1>6, DispatchReplies
  <2>3. CASE g # conn
    <3>1. outbox' = outbox
      BY <1>6, <2>3, DispatchReplies
    <3>2. \A j : IsReply(j)' <=> IsReply(j)
      BY <2>1, <3>1 DEF IsReply
    <3> QED
      BY <1>0, <2>1, <2>2, <3>1, <3>2 DEF Replying
  <2>4. CASE g = conn
    <3> DEFINE o == outbox[conn]
               n == Len(o) + 1
    <3>1. PICK ok \in BOOLEAN : /\ outbox'[conn] = Append(o, Reply(cur[g], ok))
                               /\ \A h \in Conns \ {conn} : outbox'[h] = outbox[h]
      BY <1>6, <2>4, DispatchReplies
    <3>2. up /\ o \in Seq(Line)
      BY <1>0, <2>4, Basics DEF TypeOK
    <3>3. Len(outbox'[conn]) = n /\ outbox'[conn][n] = Reply(cur[g], ok) /\ Len(o) \in Nat
          /\ \A j \in 1 .. Len(o) : outbox'[conn][j] = o[j]
      BY <3>1, <3>2
    <3>4. /\ Reply(cur[g], ok).of = cur[g] /\ Reply(cur[g], ok).id = cur[g].id
          /\ cur[g].boot = boot
      BY <2>1, <2>4 DEF Reply, Serving
    <3> HIDE DEF n
    <3>5. \A j : IsReply(j)' =>
             \/ IsReply(j) /\ outbox'[conn'][j] = outbox[conn][j] /\ j < n
             \/ j = n /\ outbox'[conn'][j] = Reply(cur[g], ok)
      BY <2>1, <3>3, SMTT(20) DEF IsReply, n
    <3>6. \A j : IsReply(j) => outbox[conn][j].id < cur[g].id
      BY <2>1, <2>4, <3>2 DEF Replying
    <3>7. n \in Nat
      BY <3>3 DEF n
    <3>8. ASSUME NEW j, IsReply(j)'
          PROVE LET line == outbox'[conn'][j] IN
                /\ line.of \in Requests /\ line.of.boot = boot' /\ line.of.id = line.id
                /\ ran'[line.of] = 1
                /\ \A k : IsReply(k)' /\ j < k => line.id < outbox'[conn'][k].id
                /\ \A r \in Requests : Holds(conn, r)' => line.id < r.id
      <4>1. CASE IsReply(j) /\ outbox'[conn'][j] = outbox[conn][j] /\ j < n
        BY <2>1, <2>2, <2>4, <3>2, <3>4, <3>5, <3>6, <4>1 DEF Replying
      <4>2. CASE j = n /\ outbox'[conn'][j] = Reply(cur[g], ok)
        <5>1. \A k : IsReply(k)' => ~ (j < k)
          BY <3>5, <3>7, <4>2 DEF IsReply
        <5> QED
          BY <2>1, <2>2, <2>4, <3>4, <4>2, <5>1
      <4> QED
        BY <3>5, <3>8, <4>1, <4>2
    <3> QED
      BY <1>0, <2>1, <3>1, <3>2, <3>8 DEF Replying
  <2> QED
    BY <2>3, <2>4
<1>7. CASE Emit
  <2>1. UNCHANGED <<boot, up, conn, srv, ran, inbox, cur>>
    BY <1>7 DEF Emit, client
  <2>2. \A g \in Conns : outbox'[g] = outbox[g]
                        \/ (g = conn /\ outbox'[g] = Append(outbox[g], Event(emitted')))
    BY <1>7 DEF Emit
  <2>3. ASSUME up, NEW j, IsReply(j)'
        PROVE  IsReply(j) /\ outbox'[conn'][j] = outbox[conn][j]
    <3>1. CASE outbox'[conn] = outbox[conn]
      BY <2>1, <2>3, <3>1 DEF IsReply
    <3>2. CASE outbox'[conn] = Append(outbox[conn], Event(emitted'))
      BY <1>0, <2>1, <2>3, <3>2 DEF IsReply, Event
    <3> QED
      BY <1>0, <2>2, <2>3, <3>1, <3>2
  <2>4. \A r : Holds(conn, r)' <=> Holds(conn, r)
    BY <2>1 DEF Holds
  <2> QED
    BY <2>1, <2>2, <2>3, <2>4 DEF Replying
<1> QED
  BY <1>1, <1>2, <1>3, <1>4, <1>5, <1>6, <1>7 DEF Next, Quiet

-------------------------------------------------------------------------------
\* The answers.

\* The line at the head of the menu's stream.
LEMMA Delivering ==
  ASSUME TypeOK, Deliver
  PROVE  /\ up /\ conn \in Conns /\ 1 \in 1 .. Len(outbox[conn])
         /\ Head(outbox[conn]) = outbox[conn][1] /\ outbox[conn][1] \in Line
         /\ UNCHANGED <<boot, nextId, up, conn, ran, inbox, cur, srv, since, emitted>>
         /\ Len(outbox[conn]) \in Nat /\ Len(outbox'[conn]) = Len(outbox[conn]) - 1
         /\ \A j \in 1 .. Len(outbox'[conn]) : outbox'[conn][j] = outbox[conn][j + 1]
<1>1. /\ up /\ conn \in Conns /\ outbox[conn] # <<>> /\ outbox[conn] \in Seq(Line)
      /\ outbox' = [outbox EXCEPT ![conn] = Tail(outbox[conn])]
  BY DEF Deliver, TypeOK
<1>2. outbox'[conn] = Tail(outbox[conn])
  BY <1>1, Basics
<1>3. /\ Len(outbox[conn]) \in Nat /\ Len(outbox'[conn]) = Len(outbox[conn]) - 1
      /\ \A j \in 1 .. Len(outbox'[conn]) : outbox'[conn][j] = outbox[conn][j + 1]
  <2>1. \A o \in Seq(Line) : o # <<>> =>
          /\ Len(o) \in Nat /\ Len(Tail(o)) = Len(o) - 1
          /\ \A j \in 1 .. Len(Tail(o)) : Tail(o)[j] = o[j + 1]
    OBVIOUS
  <2> QED
    BY <1>1, <1>2, <2>1
<1>4. /\ 1 \in 1 .. Len(outbox[conn]) /\ Head(outbox[conn]) = outbox[conn][1]
      /\ outbox[conn][1] \in Line
  BY <1>1
<1>5. UNCHANGED <<boot, nextId, up, conn, ran, inbox, cur, srv, since, emitted>>
  BY DEF Deliver
<1> QED
  BY <1>1, <1>3, <1>4, <1>5

\* What a delivery answers: the request that the reply is for.
LEMMA DeliveryAnswers ==
  ASSUME TypeOK, Replying, Deliver, NEW r \in Requests
  PROVE  \/ answer'[r] = answer[r]
         \/ /\ IsReply(1) /\ r.boot = boot /\ r.id = outbox[conn][1].id
            /\ answer'[r].of = r /\ ran[r] = 1 /\ seen' = seen
<1> DEFINE line == Head(outbox[conn])
<1>1. up /\ 1 \in 1 .. Len(outbox[conn]) /\ line = outbox[conn][1] /\ line \in Line
  BY Delivering
<1>2. CASE line.kind = "event"
  BY <1>2 DEF Deliver
<1>3. CASE line.kind = "reply" /\ r.boot = boot /\ r.id = line.id
  <2>1. IsReply(1)
    BY <1>1, <1>3 DEF IsReply
  <2>2. line.of \in Requests /\ line.of.boot = boot /\ line.of.id = line.id /\ ran[line.of] = 1
    BY <1>1, <2>1 DEF Replying
  <2>3. line.of = r
    BY <1>3, <2>2 DEF Requests
  <2>4. answer'[r] = answer[r] \/ answer'[r] = Told(IF line.ok THEN "ok" ELSE "error", line.of)
    BY <1>3 DEF Deliver, SettleAll
  <2>5. seen' = seen
    BY <1>3 DEF Deliver
  <2> QED
    BY <1>1, <1>3, <2>1, <2>2, <2>3, <2>4, <2>5 DEF Told
<1>4. CASE line.kind = "reply" /\ ~ (r.boot = boot /\ r.id = line.id)
  BY <1>4 DEF Deliver, SettleAll
<1> QED
  BY <1>1, <1>2, <1>3, <1>4 DEF Line

\* Nothing else answers a request: what is not delivered is lost.
LEMMA OnlyDeliveryAnswers ==
  ASSUME TypeOK, [Next]_vars, ~ Deliver, NEW r \in Requests
  PROVE  answer'[r] = answer[r] \/ ~ Answered(r)'
<1>1. CASE Request
  <2>1. answer' = answer \/ answer' = [answer EXCEPT ![Mine(nextId)] = Told("lost", NoReq)]
    BY <1>1 DEF Request
  <2>2. answer'[r] = answer[r] \/ answer'[r] = Told("lost", NoReq)
    BY <2>1 DEF TypeOK
  <2> QED
    BY <2>2 DEF Answered, Told
<1>2. CASE Notice
  <2>1. answer'[r] = answer[r] \/ answer'[r] = Told("lost", NoReq)
    BY <1>2 DEF Notice, SettleAll
  <2> QED
    BY <2>1 DEF Answered, Told
<1>3. CASE Connect \/ MenuRestarts \/ Emit \/ \E g \in Conns : Dispatch(g)
  BY <1>3 DEF Connect, MenuRestarts, Emit, Dispatch
<1>4. CASE Quiet
  BY <1>4, QuietHolds
<1> QED
  BY <1>1, <1>2, <1>3, <1>4 DEF Next, Quiet

LEMMA AnsweringStep ==
  Typed /\ Serving /\ Replying /\ Answering /\ [Next]_vars => Answering'
<1> SUFFICES ASSUME TypeOK, Serving, Replying, Answering, [Next]_vars PROVE Answering'
  BY DEF Typed
<1>1. CASE Deliver
  <2>1. /\ up /\ UNCHANGED <<boot, up, conn, ran, inbox, cur>>
        /\ \A j \in 1 .. Len(outbox'[conn]) : outbox'[conn][j] = outbox[conn][j + 1]
        /\ Len(outbox'[conn]) = Len(outbox[conn]) - 1 /\ Len(outbox[conn]) \in Nat
    BY <1>1, Delivering
  <2>2. ASSUME NEW j, IsReply(j)'
        PROVE  j \in Nat \ {0} /\ IsReply(j + 1) /\ outbox'[conn'][j] = outbox[conn][j + 1]
    <3>1. j \in 1 .. Len(outbox'[conn]) /\ outbox'[conn][j].kind = "reply"
      BY <2>1, <2>2 DEF IsReply
    <3>2. j + 1 \in 1 .. Len(outbox[conn]) /\ outbox'[conn][j] = outbox[conn][j + 1]
      BY <2>1, <3>1
    <3> QED
      BY <2>1, <3>1, <3>2 DEF IsReply
  <2>3. \A r : Holds(conn, r)' <=> Holds(conn, r)
    BY <2>1 DEF Holds
  <2>4. ASSUME NEW r \in Requests, Answered(r)'
        PROVE  /\ answer'[r].of = r /\ ran'[r] = 1
               /\ r.boot = boot' => /\ \A j : IsReply(j)' => r.id < outbox'[conn'][j].id
                                    /\ \A q \in Requests : Holds(conn, q)' => r.id < q.id
    <3>1. CASE answer'[r] = answer[r]
      <4>1. Answered(r)
        BY <2>4, <3>1 DEF Answered
      <4> QED
        BY <2>1, <2>2, <2>3, <3>1, <4>1 DEF Answering
    <3>2. CASE /\ IsReply(1) /\ r.boot = boot /\ r.id = outbox[conn][1].id
               /\ answer'[r].of = r /\ ran[r] = 1
      <4>1. ASSUME NEW j, IsReply(j)' PROVE r.id < outbox'[conn'][j].id
        <5>1. IsReply(j + 1) /\ 1 < j + 1 /\ outbox'[conn'][j] = outbox[conn][j + 1]
          BY <2>2, <4>1
        <5> QED
          BY <2>1, <3>2, <5>1 DEF Replying
      <4>2. \A q \in Requests : Holds(conn, q) => r.id < q.id
        BY <2>1, <3>2 DEF Replying
      <4> QED
        BY <2>1, <2>3, <3>2, <4>1, <4>2
    <3> QED
      BY <1>1, <3>1, <3>2, DeliveryAnswers
  <2> QED
    BY <2>4 DEF Answering
<1>2. CASE ~ Deliver
  <2>1. ASSUME NEW r \in Requests, Answered(r)' PROVE answer'[r] = answer[r] /\ Answered(r)
    BY <1>2, <2>1, OnlyDeliveryAnswers DEF Answered
  <2>2. \A r \in Requests : ran[r] = 1 => ran'[r] = 1
    <3>1. CASE \E g \in Conns : Dispatch(g)
      BY <3>1, DispatchReplies
    <3>2. CASE Quiet
      BY <3>2, QuietHolds
    <3>3. CASE Request \/ Connect \/ Notice \/ MenuRestarts \/ Emit
      BY <3>3 DEF Request, Connect, Notice, MenuRestarts, Emit
    <3> QED
      BY <1>2, <3>1, <3>2, <3>3 DEF Next, Quiet
  <2>3. \A r \in Requests : Answered(r)' => answer'[r].of = r /\ ran'[r] = 1
    BY <2>1, <2>2 DEF Answering
  <2>4. ASSUME up', NEW r \in Requests, Answered(r), r.boot = boot'
        PROVE  /\ \A j : IsReply(j)' => r.id < outbox'[conn'][j].id
               /\ \A q \in Requests : Holds(conn, q)' => r.id < q.id
    <3>1. CASE Request
      <4>1. UNCHANGED <<boot, up, conn, outbox>>
        BY <3>1 DEF Request
      <4>2. \A j : IsReply(j)' <=> IsReply(j)
        BY <4>1 DEF IsReply
      <4>3. Made(r) /\ r.id < nextId
        BY <2>4, <4>1, Basics DEF Answering, Serving, Made
      <4>4. conn \in Conns
        BY <2>4, <4>1 DEF TypeOK
      <4>5. \A q : Holds(conn, q)' => Holds(conn, q) \/ q = Mine(nextId)
        BY <3>1, <4>1, <4>4, RequestHolds
      <4>6. Mine(nextId).id = nextId
        BY DEF Mine
      <4> QED
        BY <2>4, <4>1, <4>2, <4>3, <4>5, <4>6 DEF Answering
    <3>2. CASE Connect
      <4>1. PICK c \in Conns : conn' = c /\ srv[c] = "none"
        BY <3>2 DEF Connect
      <4>2. ~ up /\ UNCHANGED <<outbox, inbox, cur>>
        BY <3>2 DEF Connect
      <4>3. outbox[c] = <<>>
        BY <4>2, Basics DEF Replying, TypeOK
      <4>4. \A j : ~ IsReply(j)'
        BY <4>1, <4>2, <4>3 DEF IsReply
      <4>5. inbox[c] = <<>> /\ cur[c] = NoReq
        BY <4>1 DEF Serving
      <4>6. \A q \in Requests : ~ Holds(conn, q)'
        BY <4>1, <4>2, <4>5, Basics DEF Holds
      <4> QED
        BY <4>4, <4>6
    <3>3. CASE Notice \/ MenuRestarts
      BY <2>4, <3>3 DEF Notice, MenuRestarts
    <3>4. CASE Quiet
      <4>1. UNCHANGED <<boot, up, conn, outbox>>
        BY <3>4, QuietHolds
      <4>2. conn \in Conns
        BY <2>4, <4>1 DEF TypeOK
      <4>3. \A q \in Requests : Holds(conn, q)' => Holds(conn, q)
        BY <3>4, <4>1, <4>2, QuietHolds
      <4>4. \A j : IsReply(j)' <=> IsReply(j)
        BY <4>1 DEF IsReply
      <4> QED
        BY <2>4, <4>1, <4>3, <4>4 DEF Answering
    <3>5. ASSUME NEW g \in Conns, Dispatch(g)
          PROVE  /\ \A j : IsReply(j)' => r.id < outbox'[conn'][j].id
                 /\ \A q \in Requests : Holds(conn, q)' => r.id < q.id
      <4>1. UNCHANGED <<boot, up, conn>> /\ cur[g] \in Requests /\ Holds(g, cur[g])
        BY <3>5, DispatchReplies
      <4>2. conn \in Conns /\ outbox[conn] \in Seq(Line)
        BY <2>4, <4>1 DEF TypeOK
      <4>3. \A q \in Requests : Holds(conn, q)' => Holds(conn, q)
        BY <3>5, <4>1, <4>2, DispatchReplies
      <4>4. ASSUME NEW j, IsReply(j)'
            PROVE  \/ IsReply(j) /\ outbox'[conn][j] = outbox[conn][j]
                   \/ g = conn /\ outbox'[conn][j].id = cur[g].id
        <5>1. CASE outbox' = outbox
          BY <4>1, <4>4, <5>1 DEF IsReply
        <5>2. ASSUME NEW ok, g = conn, outbox'[conn] = Append(outbox[conn], Reply(cur[g], ok))
              PROVE  \/ IsReply(j) /\ outbox'[conn][j] = outbox[conn][j]
                     \/ g = conn /\ outbox'[conn][j].id = cur[g].id
          BY <4>1, <4>2, <4>4, <5>2 DEF IsReply, Reply
        <5> QED
          BY <3>5, <5>1, <5>2, DispatchReplies
      <4> QED
        BY <2>4, <4>1, <4>3, <4>4 DEF Answering
    <3>6. CASE Emit
      <4>1. UNCHANGED <<boot, up, conn, inbox, cur>>
        BY <3>6 DEF Emit, client
      <4>2. conn \in Conns /\ outbox[conn] \in Seq(Line)
        BY <2>4, <4>1 DEF TypeOK
      <4>3. outbox'[conn] \in {outbox[conn], Append(outbox[conn], Event(emitted'))}
        BY <3>6, <4>2 DEF Emit
      <4>4. \A j : IsReply(j)' => IsReply(j) /\ outbox'[conn][j] = outbox[conn][j]
        BY <4>1, <4>2, <4>3 DEF IsReply, Event
      <4>5. \A q : Holds(conn, q)' <=> Holds(conn, q)
        BY <4>1 DEF Holds
      <4> QED
        BY <2>4, <4>1, <4>4, <4>5 DEF Answering
    <3> QED
      BY <1>2, <3>1, <3>2, <3>3, <3>4, <3>5, <3>6 DEF Next, Quiet
  <2> QED
    BY <2>1, <2>3, <2>4 DEF Answering
<1> QED
  BY <1>1, <1>2

-------------------------------------------------------------------------------
\* Who waits.

\* What the task of the menu's connection has it keeps, until it has served it or dies.
LEMMA QuietKeeps ==
  ASSUME TypeOK, Serving, Replying, Quiet, up, srv'[conn] # "closed"
  PROVE  srv[conn] # "closed" /\ \A r \in Requests : Holds(conn, r) => Holds(conn, r)'
<1>0. conn \in Conns /\ conn' = conn
  BY QuietHolds DEF TypeOK
<1>1. CASE \E g \in Conns : Accept(g) \/ HangUp(g)
  BY <1>0, <1>1, Basics DEF Accept, HangUp, client, Holds
<1>2. ASSUME NEW g \in Conns, Read(g)
      PROVE  srv[conn] # "closed" /\ \A r \in Requests : Holds(conn, r) => Holds(conn, r)'
  <2> DEFINE o == inbox[g]
  <2>1. /\ o # <<>> /\ o \in Seq(Requests) /\ srv[g] = "reading" /\ cur[g] = NoReq
        /\ cur' = [cur EXCEPT ![g] = Head(o)] /\ inbox' = [inbox EXCEPT ![g] = Tail(o)]
        /\ srv' = [srv EXCEPT ![g] = "handling"]
    BY <1>2, Basics DEF Read, Serving
  <2>2. /\ cur'[g] = Head(o) /\ inbox'[g] = Tail(o)
        /\ \A h \in Conns \ {g} : cur'[h] = cur[h] /\ inbox'[h] = inbox[h] /\ srv'[h] = srv[h]
    BY <2>1, Basics
  <2>3. /\ o[1] = Head(o) /\ Len(o) \in Nat /\ Len(Tail(o)) = Len(o) - 1
        /\ \A j \in 1 .. Len(Tail(o)) : Tail(o)[j] = o[j + 1]
    BY <2>1
  <2>4. CASE g # conn
    BY <1>0, <2>2, <2>4 DEF Holds
  <2>5. CASE g = conn
    <3>1. ASSUME NEW r \in Requests, Holds(g, r) PROVE Holds(g, r)'
      <4>1. PICK j \in 1 .. Len(o) : o[j] = r
        BY <2>1, <3>1, Basics DEF Holds
      <4> HIDE DEF o
      <4>2. CASE j = 1
        BY <2>2, <2>3, <4>1, <4>2 DEF Holds
      <4>3. CASE j # 1
        <5>1. j - 1 \in 1 .. Len(Tail(o)) /\ (j - 1) + 1 = j
          BY <2>3, <4>3
        <5>2. Tail(o)[j - 1] = r
          BY <2>3, <4>1, <5>1
        <5> QED
          BY <2>2, <5>1, <5>2 DEF Holds
      <4> QED
        BY <4>2, <4>3
    <3> QED
      BY <1>0, <2>1, <2>5, <3>1
  <2> QED
    BY <2>4, <2>5
<1>3. ~ DaemonDies
  BY <1>0 DEF DaemonDies, Replying
<1>4. CASE DaemonStarts \/ UNCHANGED vars
  BY <1>4 DEF DaemonStarts, vars, client, server, Holds
<1> QED
  BY <1>1, <1>2, <1>3, <1>4 DEF Quiet

\* A request is with the task from the moment it is written.
LEMMA RequestKeeps ==
  ASSUME TypeOK, Request, up
  PROVE  /\ \A r \in Requests : Holds(conn, r) => Holds(conn, r)'
         /\ srv[conn] # "closed" => \A r : r = Mine(nextId) => Holds(conn, r)'
<1> DEFINE o == inbox[conn]
           n == Mine(nextId)
<1>1. UNCHANGED <<conn, cur>> /\ conn \in Conns /\ o \in Seq(Requests)
  BY Basics DEF Request, TypeOK
<1>2. CASE srv[conn] = "closed"
  BY <1>1, <1>2 DEF Request, Holds
<1>3. CASE srv[conn] # "closed"
  <2>1. inbox'[conn] = Append(o, n)
    BY <1>1, <1>3, Basics DEF Request
  <2> HIDE DEF n
  <2>2. /\ Len(Append(o, n)) = Len(o) + 1 /\ Len(o) \in Nat /\ Append(o, n)[Len(o) + 1] = n
        /\ \A j \in 1 .. Len(o) : Append(o, n)[j] = o[j]
    BY <1>1
  <2>3. \E j \in 1 .. Len(inbox'[conn]) : inbox'[conn][j] = n
    <3>1. Len(o) + 1 \in 1 .. Len(inbox'[conn])
      BY <2>1, <2>2
    <3> QED
      BY <2>1, <2>2, <3>1
  <2>4. \A j \in 1 .. Len(o) : j \in 1 .. Len(inbox'[conn]) /\ inbox'[conn][j] = o[j]
    BY <2>1, <2>2
  <2>5. \E j \in 1 .. Len(inbox'[conn']) : inbox'[conn'][j] = n
    BY <1>1, <2>3
  <2>6. Mine(nextId) = n
    BY DEF n
  <2> QED
    BY <1>1, <2>4, <2>5, <2>6 DEF Holds
<1> QED
  BY <1>2, <1>3

LEMMA AwaitingStep ==
  TypeOK /\ Serving /\ Replying /\ Calling /\ Awaiting /\ [Next]_vars => Awaiting'
<1> SUFFICES ASSUME TypeOK, Serving, Replying, Calling, Awaiting, [Next]_vars, up'
             PROVE  Awaiting'
  BY DEF Awaiting
<1>0. up => conn \in Conns /\ outbox[conn] \in Seq(Line)
  BY DEF TypeOK
<1>1. CASE Request
  <2>1. up /\ UNCHANGED <<boot, up, conn, outbox, srv>> /\ pending' = pending \union {nextId}
    BY <1>1 DEF Request
  <2>2. \A j, i : (IsReply(j)' <=> IsReply(j)) /\ (ReplyTo(j, i)' <=> ReplyTo(j, i))
    BY <2>1 DEF IsReply, ReplyTo
  <2>3. \A j : IsReply(j) => outbox[conn][j].id < nextId
    <3>1. \A i \in pending : i < nextId
      BY Basics
    <3> QED
      BY <2>1, <3>1 DEF Awaiting
  <2>4. \A r \in Requests : Holds(conn, r)' => r.id \in pending'
    <3>1. Mine(nextId).id = nextId
      BY DEF Mine
    <3>2. \A r \in Requests : Holds(conn, r)' => Holds(conn, r) \/ r = Mine(nextId)
      BY <1>0, <1>1, <2>1, RequestHolds
    <3> QED
      BY <2>1, <3>1, <3>2 DEF Awaiting
  <2>5. ASSUME NEW i \in pending'
        PROVE  \/ \E j : ReplyTo(j, i)'
               \/ /\ \A j : IsReply(j)' => outbox'[conn'][j].id < i
                  /\ srv'[conn'] # "closed" => Holds(conn, Mine(i))'
    <3>1. Mine(i)' = Mine(i)
      BY <2>1 DEF Mine
    <3>2. CASE i = nextId
      <4>1. srv[conn] # "closed" => Holds(conn, Mine(i))'
        BY <1>1, <2>1, <3>1, <3>2, RequestKeeps
      <4> QED
        BY <2>1, <2>2, <2>3, <3>2, <4>1
    <3>3. CASE i \in pending
      <4>1. Holds(conn, Mine(i)) => Holds(conn, Mine(i))'
        <5>1. Mine(i) \in Requests
          BY <1>1, <3>3, Basics, IpcAssumption DEF Request, Mine, Requests, TypeOK
        <5> QED
          BY <1>1, <2>1, <3>1, <5>1, RequestKeeps
      <4> QED
        BY <2>1, <2>2, <3>3, <4>1 DEF Awaiting
    <3> QED
      BY <2>1, <3>2, <3>3
  <2> QED
    BY <2>1, <2>2, <2>4, <2>5 DEF Awaiting
<1>2. CASE Connect
  <2>1. PICK c \in Conns : conn' = c /\ srv[c] = "none"
    BY <1>2 DEF Connect
  <2>2. ~ up /\ UNCHANGED <<pending, outbox, inbox, cur>>
    BY <1>2 DEF Connect
  <2>3. outbox[c] = <<>> /\ inbox[c] = <<>> /\ cur[c] = NoReq
    <3>1. outbox[c] = <<>>
      BY <2>2, Basics DEF Replying, TypeOK
    <3> QED
      BY <2>1, <3>1 DEF Serving
  <2>4. \A j : ~ IsReply(j)'
    BY <2>1, <2>2, <2>3 DEF IsReply
  <2>5. \A r \in Requests : ~ Holds(conn, r)'
    BY <2>1, <2>2, <2>3, Basics DEF Holds
  <2>6. pending' = {}
    BY <2>2 DEF Calling, NoneWaitWhenDown
  <2> QED
    BY <2>4, <2>5, <2>6 DEF Awaiting
<1>3. CASE Deliver
  <2> DEFINE o == outbox[conn]
  <2>1. /\ up /\ UNCHANGED <<boot, up, conn, inbox, cur, srv>>
        /\ 1 \in 1 .. Len(o) /\ Head(o) = o[1] /\ o[1] \in Line
        /\ Len(o) \in Nat /\ Len(outbox'[conn]) = Len(o) - 1
        /\ \A j \in 1 .. Len(outbox'[conn]) : outbox'[conn][j] = o[j + 1]
    BY <1>3, Delivering
  <2>2. pending' = IF IsReply(1) THEN pending \ {o[1].id} ELSE pending
    BY <1>3, <2>1 DEF Deliver, SettleAll, IsReply, Line
  <2>3. \A j : IsReply(j) => j \in 1 .. Len(o) /\ o[j].kind = "reply"
    BY DEF IsReply
  <2> HIDE DEF o
  <2>4. ASSUME NEW j, IsReply(j)'
        PROVE  j \in Nat \ {0} /\ IsReply(j + 1) /\ outbox'[conn'][j] = o[j + 1]
    <3>1. j \in 1 .. Len(outbox'[conn]) /\ outbox'[conn][j].kind = "reply"
      BY <2>1, <2>4 DEF IsReply
    <3>2. j + 1 \in 1 .. Len(o) /\ outbox'[conn][j] = o[j + 1]
      BY <2>1, <3>1
    <3> QED
      BY <2>1, <3>1, <3>2 DEF IsReply, o
  <2>5. ASSUME NEW j, IsReply(j), j # 1
        PROVE  IsReply(j - 1)' /\ outbox'[conn'][j - 1] = o[j]
    <3>1. j \in 1 .. Len(o) /\ o[j].kind = "reply"
      BY <2>3, <2>5
    <3>2. j - 1 \in 1 .. Len(outbox'[conn]) /\ (j - 1) + 1 = j
      BY <2>1, <2>5, <3>1
    <3>3. outbox'[conn][j - 1] = o[j]
      BY <2>1, <3>2
    <3> QED
      BY <2>1, <3>1, <3>2, <3>3 DEF IsReply
  <2>6. ASSUME NEW j, IsReply(j)' PROVE outbox'[conn'][j].id \in pending'
    <3>1. IsReply(j + 1) /\ outbox'[conn'][j] = o[j + 1] /\ 1 < j + 1
      BY <2>4, <2>6
    <3>2. o[j + 1].id \in pending
      BY <2>1, <3>1 DEF Awaiting, o
    <3>3. IsReply(1) => o[1].id < o[j + 1].id
      BY <2>1, <3>1 DEF Replying, o
    <3>4. IsReply(1) => o[1].id \in Nat
      BY <2>1, Basics DEF Awaiting, o
    <3> QED
      BY <2>2, <3>1, <3>2, <3>3, <3>4
  <2>7. ASSUME NEW r \in Requests, Holds(conn, r)' PROVE r.id \in pending'
    <3>1. Holds(conn, r)
      BY <2>1, <2>7 DEF Holds
    <3>2. r.id \in pending /\ (IsReply(1) => o[1].id < r.id /\ o[1].id \in Nat)
      BY <2>1, <3>1, Basics DEF Awaiting, Replying, o
    <3> QED
      BY <2>2, <3>2, Basics
  <2>8. ASSUME NEW i \in pending'
        PROVE  \/ \E j : ReplyTo(j, i)'
               \/ /\ \A j : IsReply(j)' => outbox'[conn'][j].id < i
                  /\ srv'[conn'] # "closed" => Holds(conn, Mine(i))'
    <3>1. i \in pending /\ Mine(i)' = Mine(i)
      BY <2>1, <2>2 DEF Mine
    <3>2. ASSUME NEW j, ReplyTo(j, i) PROVE \E k : ReplyTo(k, i)'
      <4>1. IsReply(j) /\ o[j].id = i /\ j # 1
        BY <2>2, <3>2 DEF ReplyTo, o
      <4>2. IsReply(j - 1)' /\ outbox'[conn'][j - 1].id = i
        BY <2>5, <4>1
      <4> QED
        BY <4>2 DEF ReplyTo
    <3>3. CASE /\ \A j : IsReply(j) => outbox[conn][j].id < i
               /\ srv[conn] # "closed" => Holds(conn, Mine(i))
      <4>1. \A j : IsReply(j)' => outbox'[conn'][j].id < i
        BY <2>4, <3>3 DEF o
      <4>2. srv'[conn'] # "closed" => Holds(conn, Mine(i))'
        BY <2>1, <3>1, <3>3 DEF Holds
      <4> QED
        BY <4>1, <4>2
    <3> QED
      BY <2>1, <3>1, <3>2, <3>3 DEF Awaiting
  <2> QED
    BY <2>6, <2>7, <2>8 DEF Awaiting
<1>4. CASE Notice \/ MenuRestarts
  BY <1>4 DEF Notice, MenuRestarts
<1>5. CASE Quiet
  <2>1. UNCHANGED <<boot, up, conn, outbox>>
    BY <1>5, QuietHolds
  <2>2. UNCHANGED pending
    BY <1>5 DEF Quiet, Accept, Read, HangUp, DaemonDies, DaemonStarts, vars, client
  <2>3. \A r \in Requests : Holds(conn, r)' => Holds(conn, r)
    BY <1>0, <1>5, <2>1, QuietHolds
  <2>4. \A j, i : (IsReply(j)' <=> IsReply(j)) /\ (ReplyTo(j, i)' <=> ReplyTo(j, i))
    BY <2>1 DEF IsReply, ReplyTo
  <2>5. ASSUME srv'[conn] # "closed", NEW i \in pending, srv[conn] # "closed" => Holds(conn, Mine(i))
        PROVE  Holds(conn, Mine(i))'
    <3>1. Mine(i)' = Mine(i) /\ Mine(i) \in Requests
      BY <2>1, Basics, IpcAssumption DEF Mine, Requests, TypeOK
    <3> QED
      BY <1>5, <2>1, <2>5, <3>1, QuietKeeps
  <2> QED
    BY <2>1, <2>2, <2>3, <2>4, <2>5 DEF Awaiting
<1>6. ASSUME NEW g \in Conns, Dispatch(g) PROVE Awaiting'
  <2>1. UNCHANGED <<boot, up, conn>> /\ cur[g] \in Requests /\ Holds(g, cur[g])
    BY <1>6, DispatchReplies
  <2>2. \A r \in Requests : Holds(conn, r)' => Holds(conn, r)
    BY <1>0, <1>6, <2>1, DispatchReplies
  <2>3. /\ UNCHANGED <<pending, inbox>> /\ srv[g] = "handling"
        /\ srv' = [srv EXCEPT ![g] = "reading"] /\ cur' = [cur EXCEPT ![g] = NoReq]
    BY <1>6 DEF Dispatch, client
  <2>4. CASE g # conn
    <3>1. outbox' = outbox
      BY <1>6, <2>4, DispatchReplies
    <3>2. \A j, i : (IsReply(j)' <=> IsReply(j)) /\ (ReplyTo(j, i)' <=> ReplyTo(j, i))
      BY <2>1, <3>1 DEF IsReply, ReplyTo
    <3>3. srv'[conn] = srv[conn] /\ cur'[conn] = cur[conn]
      BY <1>0, <2>1, <2>3, <2>4, Basics
    <3>4. \A i : Holds(conn, Mine(i))' <=> Holds(conn, Mine(i))
      BY <2>1, <2>3, <3>3 DEF Holds, Mine
    <3> QED
      BY <2>1, <2>2, <2>3, <3>1, <3>2, <3>3, <3>4 DEF Awaiting
  <2>5. CASE g = conn
    <3> DEFINE o == outbox[conn]
    <3>8. PICK n \in Nat : n = Len(o) + 1
      BY <1>0, <2>1, <2>5, Basics DEF TypeOK
    <3>1. PICK ok \in BOOLEAN : outbox'[conn] = Append(o, Reply(cur[g], ok))
      BY <1>6, <2>5, DispatchReplies
    <3>2. /\ Len(outbox'[conn]) = n /\ outbox'[conn][n].id = cur[g].id
          /\ outbox'[conn][n].kind = "reply" /\ Len(o) \in Nat
          /\ \A j \in 1 .. Len(o) : outbox'[conn][j] = o[j]
      BY <1>0, <2>1, <2>5, <3>1, <3>8, Basics DEF Reply, TypeOK
    <3>3. \A j : IsReply(j)' =>
             \/ IsReply(j) /\ outbox'[conn'][j] = outbox[conn][j]
             \/ j = n /\ outbox'[conn'][j].id = cur[g].id
      BY <2>1, <3>2, <3>8, SMTT(20) DEF IsReply
    <3>4. \A j : IsReply(j) => IsReply(j)' /\ outbox'[conn'][j] = outbox[conn][j]
      BY <2>1, <3>2, <3>8, SMTT(20) DEF IsReply
    <3>5. IsReply(n)'
      BY <2>1, <3>2, <3>8 DEF IsReply
    <3>6. cur[g].id \in pending
      BY <2>1, <2>5 DEF Awaiting
    <3>7. ASSUME NEW i \in pending
          PROVE  \/ \E j : ReplyTo(j, i)'
                 \/ /\ \A j : IsReply(j)' => outbox'[conn'][j].id < i
                    /\ srv'[conn'] # "closed" => Holds(conn, Mine(i))'
      <4>1. CASE \E j : ReplyTo(j, i)
        BY <3>4, <4>1 DEF ReplyTo
      <4>2. CASE i = cur[g].id
        BY <2>1, <3>2, <3>5, <4>2 DEF ReplyTo
      <4>3. CASE i # cur[g].id /\ Holds(conn, Mine(i)) /\ \A j : IsReply(j) => outbox[conn][j].id < i
        <5>1. PICK j \in 1 .. Len(inbox[g]) : inbox[g][j] = Mine(i)
          BY <2>5, <4>3 DEF Holds, Mine
        <5>2. cur[g].id < i
          BY <5>1 DEF Serving, Mine
        <5>3. Holds(conn, Mine(i))'
          BY <2>1, <2>3, <2>5, <5>1 DEF Holds, Mine
        <5> QED
          BY <3>3, <4>3, <5>2, <5>3
      <4> QED
        BY <2>1, <2>3, <2>5, <4>1, <4>2, <4>3 DEF Awaiting
    <3> QED
      BY <2>1, <2>2, <2>3, <3>3, <3>6, <3>7 DEF Awaiting
  <2> QED
    BY <2>4, <2>5
<1>7. CASE Emit
  <2>1. UNCHANGED <<boot, pending, up, conn, srv, inbox, cur>>
    BY <1>7 DEF Emit, client
  <2>2. outbox'[conn] \in {outbox[conn], Append(outbox[conn], Event(emitted'))}
    BY <1>0, <1>7, <2>1 DEF Emit
  <2>3. \A j : /\ IsReply(j)' <=> IsReply(j)
               /\ IsReply(j) => outbox'[conn'][j] = outbox[conn][j]
    BY <1>0, <2>1, <2>2 DEF IsReply, Event
  <2>4. \A j, i : ReplyTo(j, i)' <=> ReplyTo(j, i)
    BY <2>3 DEF ReplyTo
  <2>5. \A r : Holds(conn, r)' <=> Holds(conn, r)
    BY <2>1 DEF Holds
  <2>6. \A i : Holds(conn, Mine(i))' <=> Holds(conn, Mine(i))
    BY <2>1 DEF Holds, Mine
  <2> QED
    BY <2>1, <2>3, <2>4, <2>5, <2>6 DEF Awaiting
<1> QED
  BY <1>1, <1>2, <1>3, <1>4, <1>5, <1>6, <1>7 DEF Next, Quiet

-------------------------------------------------------------------------------
\* The order.

\* A step that leaves the menu's stream and what it knows of the events alone.
LEMMA ChainedAlike ==
  ASSUME Chained,
         up' => /\ UNCHANGED <<up, conn, outbox, seen, emitted>>
                /\ since'[conn] = since[conn]
                /\ srv'[conn] \in {"reading", "handling"} => srv[conn] \in {"reading", "handling"}
                /\ srv'[conn] = "accepted" => srv[conn] = "accepted"
  PROVE  Chained'
<1> SUFFICES ASSUME up' PROVE Chained'
  BY DEF Chained
<1>1. /\ UNCHANGED <<up, conn, outbox, seen, emitted>>
      /\ since'[conn'] = since[conn]
      /\ srv'[conn'] \in {"reading", "handling"} => srv[conn] \in {"reading", "handling"}
      /\ srv'[conn'] = "accepted" => srv[conn] = "accepted"
  OBVIOUS
<1>2. Latest' = Latest
  BY <1>1 DEF Latest
<1>3. \A j : Before(j)' = Before(j)
  BY <1>1, <1>2 DEF Before
<1> QED
  BY <1>1, <1>3 DEF Chained

\* A line is added to the menu's stream.
LEMMA ChainGrows ==
  ASSUME TypeOK, Chained, up, UNCHANGED <<up, conn, seen, since>>, NEW line \in Line,
         srv[conn] \in {"reading", "handling"}, srv'[conn] \in {"reading", "handling"},
         outbox'[conn] = Append(outbox[conn], line), line.at = emitted',
         emitted' = IF line.kind = "event" THEN emitted + 1 ELSE emitted
  PROVE  Chained'
<1> DEFINE o == outbox[conn]
<1>1. o \in Seq(Line)
  BY DEF TypeOK
<1>8. PICK n \in Nat : n = Len(o) + 1
  BY <1>1
<1>2. /\ Len(outbox'[conn]) = n /\ outbox'[conn][n] = line /\ Len(o) \in Nat
      /\ \A j \in 1 .. Len(o) : outbox'[conn][j] = o[j]
  BY <1>1, <1>8
<1>3. emitted = Before(n)
  BY <1>8 DEF Chained
<1>4. \A j \in 1 .. n : Before(j)' = Before(j)
  BY <1>2, <1>8 DEF Before, Latest
<1>5. \A j \in 1 .. Len(o) :
         o[j].at = IF o[j].kind = "event" THEN Before(j) + 1 ELSE Before(j)
  BY DEF Chained
<1> HIDE DEF o
<1>6. \A j \in 1 .. n : outbox'[conn][j].at =
         IF outbox'[conn][j].kind = "event" THEN Before(j)' + 1 ELSE Before(j)'
  <2> SUFFICES ASSUME NEW j \in 1 .. n
               PROVE  outbox'[conn][j].at =
                        IF outbox'[conn][j].kind = "event" THEN Before(j)' + 1 ELSE Before(j)'
    OBVIOUS
  <2>1. CASE j = n
    BY <1>2, <1>3, <1>4, <2>1
  <2>2. CASE j # n
    <3>1. j \in 1 .. Len(o)
      BY <1>8, <2>2
    <3> QED
      BY <1>2, <1>4, <1>5, <3>1
  <2> QED
    BY <2>1, <2>2
<1>7. emitted' = Before(n + 1)'
  <2>1. conn' = conn /\ n + 1 # 1 /\ (n + 1) - 1 = n
    BY <1>2, <1>8
  <2> QED
    BY <1>2, <2>1 DEF Before
<1>9. UNCHANGED <<up, conn>> /\ Len(outbox'[conn']) = n /\ srv'[conn'] \in {"reading", "handling"}
  BY <1>2
<1> QED
  BY <1>6, <1>7, <1>9 DEF Chained

LEMMA ChainedStep ==
  TypeOK /\ Serving /\ Replying /\ Chained /\ [Next]_vars => Chained'
<1> SUFFICES ASSUME TypeOK, Serving, Replying, Chained, [Next]_vars PROVE Chained'
  OBVIOUS
<1>0. up => conn \in Conns
  BY DEF TypeOK
<1>1. CASE Request
  BY <1>1, ChainedAlike DEF Request
<1>2. CASE Connect
  <2>1. PICK c \in Conns : conn' = c /\ srv' = [srv EXCEPT ![c] = "accepted"]
    BY <1>2 DEF Connect
  <2>2. ~ up /\ outbox' = outbox /\ seen' = 0
    BY <1>2 DEF Connect
  <2>3. outbox'[c] = <<>> /\ srv'[c] = "accepted"
    BY <2>1, <2>2, Basics DEF Replying, TypeOK
  <2> QED
    BY <2>1, <2>2, <2>3 DEF Chained
<1>3. CASE Deliver
  <2> DEFINE o == outbox[conn]
  <2>1. /\ up /\ conn \in Conns /\ 1 \in 1 .. Len(o) /\ Head(o) = o[1] /\ o[1] \in Line
        /\ UNCHANGED <<up, conn, srv, since, emitted>>
        /\ Len(o) \in Nat /\ Len(outbox'[conn]) = Len(o) - 1
        /\ \A j \in 1 .. Len(outbox'[conn]) : outbox'[conn][j] = o[j + 1]
    BY <1>3, Delivering
  <2>2. o[1].at = IF o[1].kind = "event" THEN Latest + 1 ELSE Latest
    BY <2>1 DEF Chained, Before
  <2>3. Latest' = o[1].at
    <3>1. CASE o[1].kind = "event"
      <4>1. seen' = o[1].at
        BY <1>3, <2>1, <3>1 DEF Deliver
      <4>2. since[conn] \in Nat
        BY <2>1, IpcAssumption DEF TypeOK
      <4> QED
        BY <2>1, <2>2, <3>1, <4>1, <4>2, Basics DEF Latest
    <3>2. CASE o[1].kind # "event"
      <4>1. seen' = seen
        BY <1>3, <2>1, <3>2 DEF Deliver
      <4> QED
        BY <2>1, <2>2, <3>2, <4>1 DEF Latest
    <3> QED
      BY <3>1, <3>2
  <2>4. \A j \in 1 .. Len(o) : Before(j)' = Before(j + 1)
    <3> SUFFICES ASSUME NEW j \in 1 .. Len(o) PROVE Before(j)' = Before(j + 1)
      OBVIOUS
    <3>1. CASE j = 1
      BY <2>3, <3>1 DEF Before
    <3>2. CASE j # 1
      <4>1. j - 1 \in 1 .. Len(outbox'[conn]) /\ j + 1 # 1 /\ (j - 1) + 1 = j /\ (j + 1) - 1 = j
        BY <2>1, <3>2
      <4>2. outbox'[conn][j - 1] = o[j]
        BY <2>1, <4>1
      <4> QED
        BY <2>1, <3>2, <4>1, <4>2 DEF Before
    <3> QED
      BY <3>1, <3>2
  <2>5. ASSUME NEW j \in 1 .. Len(outbox'[conn])
        PROVE  outbox'[conn][j].at =
                 IF outbox'[conn][j].kind = "event" THEN Before(j)' + 1 ELSE Before(j)'
    <3>1. j + 1 \in 1 .. Len(o) /\ j \in 1 .. Len(o)
      BY <2>1
    <3>2. o[j + 1].at = IF o[j + 1].kind = "event" THEN Before(j + 1) + 1 ELSE Before(j + 1)
      BY <2>1, <3>1 DEF Chained
    <3> QED
      BY <2>1, <2>4, <3>1, <3>2
  <2>6. PICK n \in Nat : n = Len(o)
    BY <2>1
  <2>7. srv[conn] \in {"reading", "handling"} => emitted = Before(n)'
    <3>1. n \in 1 .. Len(o)
      BY <2>1, <2>6
    <3>2. srv[conn] \in {"reading", "handling"} => emitted = Before(n + 1)
      BY <2>1, <2>6 DEF Chained
    <3> QED
      BY <2>4, <3>1, <3>2
  <2>8. srv[conn] # "accepted"
    BY <2>1 DEF Chained
  <2>9. conn' = conn /\ Len(outbox'[conn']) + 1 = n
    BY <2>1, <2>6
  <2> QED
    BY <2>1, <2>5, <2>7, <2>8, <2>9 DEF Chained
<1>4. CASE Notice \/ MenuRestarts
  BY <1>4 DEF Notice, MenuRestarts, Chained
<1>5. ASSUME NEW g \in Conns, Accept(g) PROVE Chained'
  <2>1. /\ srv[g] = "accepted" /\ srv' = [srv EXCEPT ![g] = "reading"]
        /\ since' = [since EXCEPT ![g] = emitted]
        /\ UNCHANGED <<up, conn, outbox, seen, emitted>>
    BY <1>5 DEF Accept, client
  <2>2. CASE up /\ g = conn
    <3>1. seen = 0 /\ outbox[conn] = <<>>
      BY <2>1, <2>2 DEF Chained
    <3>2. since'[conn] = emitted /\ srv'[conn] = "reading"
      BY <2>1, <2>2, Basics
    <3>3. Before(1)' = emitted
      BY <2>1, <3>1, <3>2, Basics DEF Before, Latest
    <3> QED
      BY <2>1, <3>1, <3>2, <3>3 DEF Chained
  <2>3. CASE ~ (up /\ g = conn)
    BY <1>0, <2>1, <2>3, ChainedAlike, Basics
  <2> QED
    BY <2>2, <2>3
<1>6. CASE \E g \in Conns : Read(g) \/ HangUp(g)
  <2>1. PICK g \in Conns : \/ srv[g] = "reading" /\ srv' = [srv EXCEPT ![g] = "handling"]
                          \/ srv' = [srv EXCEPT ![g] = "closed"]
    BY <1>6 DEF Read, HangUp
  <2>2. UNCHANGED <<up, conn, outbox, seen, emitted, since>>
    BY <1>6 DEF Read, HangUp, client
  <2> QED
    BY <1>0, <2>1, <2>2, ChainedAlike, Basics
<1>7. CASE DaemonDies
  BY <1>0, <1>7, ChainedAlike, Basics DEF DaemonDies, client
<1>8. CASE DaemonStarts \/ UNCHANGED vars
  BY <1>8, ChainedAlike DEF DaemonStarts, vars, client, server
<1>9. ASSUME NEW g \in Conns, Dispatch(g) PROVE Chained'
  <2>1. /\ srv[g] = "handling" /\ srv' = [srv EXCEPT ![g] = "reading"]
        /\ UNCHANGED <<up, conn, seen, emitted, since>>
    BY <1>9 DEF Dispatch, client
  <2>2. CASE g = conn
    <3>1. PICK ok \in BOOLEAN : outbox'[conn] = Append(outbox[conn], Reply(cur[g], ok))
      BY <1>9, <2>2, DispatchReplies
    <3>2. /\ Reply(cur[g], ok) \in Line /\ Reply(cur[g], ok).at = emitted
          /\ Reply(cur[g], ok).kind = "reply"
      BY Basics, LinesAreLines DEF Reply
    <3>3. srv'[conn] = "reading" /\ up
      BY <2>1, <2>2, Basics DEF TypeOK
    <3> QED
      BY <2>1, <2>2, <3>1, <3>2, <3>3, ChainGrows
  <2>3. CASE g # conn
    <3>1. outbox' = outbox
      BY <1>9, <2>3, DispatchReplies
    <3> QED
      BY <1>0, <2>1, <2>3, <3>1, ChainedAlike, Basics
  <2> QED
    BY <2>2, <2>3
<1>10. CASE Emit
  <2>1. /\ emitted' = emitted + 1 /\ emitted < MaxEvents
        /\ UNCHANGED <<up, conn, seen, since, srv>>
    BY <1>10 DEF Emit, client
  <2>2. CASE up /\ srv[conn] \in {"reading", "handling"}
    <3>1. outbox'[conn] = Append(outbox[conn], Event(emitted'))
      BY <1>0, <1>10, <2>2 DEF Emit
    <3>2. /\ Event(emitted') \in Line /\ Event(emitted').at = emitted'
          /\ Event(emitted').kind = "event"
      BY <2>1, Basics, LinesAreLines, IpcAssumption DEF Event
    <3> QED
      BY <2>1, <2>2, <3>1, <3>2, ChainGrows
  <2>3. CASE up /\ srv[conn] \notin {"reading", "handling"}
    <3>1. outbox'[conn] = outbox[conn]
      BY <1>0, <1>10, <2>3 DEF Emit
    <3> QED
      BY <2>1, <2>3, <3>1 DEF Chained, Before, Latest
  <2>4. CASE ~ up
    BY <2>1, <2>4 DEF Chained
  <2> QED
    BY <2>2, <2>3, <2>4
<1> QED
  BY <1>1, <1>2, <1>3, <1>4, <1>5, <1>6, <1>7, <1>8, <1>9, <1>10 DEF Next

-------------------------------------------------------------------------------
\* The theorems.

LEMMA IpcStep == IpcInv /\ [Next]_vars => IpcInv'
BY TypedStep, CallingStep, ServingStep, ReplyingStep, AnsweringStep, AwaitingStep,
   ChainedStep
DEF IpcInv, Typed

LEMMA AlwaysIpc == Spec => []IpcInv
BY IpcInit, IpcStep, PTL DEF Spec

\* Every request of the living menu is pending or was called back exactly once, and what
\* it was told is the answer to that very request, whose handler ran once.
THEOREM EachAnsweredOnce == Spec => []AnsweredOnce
<1>1. IpcInv => AnsweredOnce
  BY DEF IpcInv, Calling, Answering, Answered, AnsweredOnce
<1> QED
  BY <1>1, AlwaysIpc, PTL

\* Nobody waits in vain: not on a connection that is gone; and as long as the daemon lives,
\* what the menu waits for is with the daemon, or the answer is on its way.
THEOREM NobodyWaitsInVain == Spec => []NoneWaitInVain
<1>1. IpcInv => NoneWaitInVain
  <2> SUFFICES ASSUME Calling, Awaiting PROVE NoneWaitInVain
    BY DEF IpcInv
  <2>1. NoneWaitWhenDown
    BY DEF Calling
  <2>2. ASSUME up, srv[conn] # "closed", NEW i \in pending
        PROVE  Holds(conn, Mine(i)) \/ \E j \in 1 .. Len(outbox[conn]) : ReplyTo(j, i)
    BY <2>2 DEF Awaiting, ReplyTo, IsReply
  <2> QED
    BY <2>1, <2>2 DEF NoneWaitInVain
<1> QED
  BY <1>1, AlwaysIpc, PTL

\* The wire is a queue, which is what LaunchFlow, InstallFlow and NetworkFlow take it for:
\* each answer under way is to a request that waits, and the answers to all that have
\* waited longer come before it.
THEOREM AnswersComeInTurn == Spec => []InTurn
<1>1. IpcInv => InTurn
  <2> SUFFICES ASSUME TypeOK, Replying, Awaiting, up, NEW j \in 1 .. Len(outbox[conn]),
                      IsReply(j)
               PROVE  /\ outbox[conn][j].id \in pending
                      /\ \A i \in pending : i < outbox[conn][j].id =>
                           \E k \in 1 .. j - 1 : ReplyTo(k, i)
    BY DEF IpcInv, Typed, InTurn
  <2>1. outbox[conn][j].id \in pending
    BY DEF Awaiting
  <2>2. ASSUME NEW i \in pending, i < outbox[conn][j].id
        PROVE  \E k \in 1 .. j - 1 : ReplyTo(k, i)
    <3>1. i \in Nat /\ outbox[conn][j].id \in Nat
      BY <2>1, Basics
    <3>2. PICK k : ReplyTo(k, i)
      BY <2>2, <3>1 DEF Awaiting
    <3>3. IsReply(k) /\ outbox[conn][k].id = i /\ k \in 1 .. Len(outbox[conn])
      BY <3>2 DEF ReplyTo, IsReply
    <3>4. j < k => outbox[conn][j].id < i
      BY <3>3 DEF Replying
    <3>5. k < j
      BY <2>2, <3>1, <3>3, <3>4
    <3> QED
      BY <3>2, <3>3, <3>5
  <2> QED
    BY <2>1, <2>2
<1> QED
  BY <1>1, AlwaysIpc, PTL

\* Replies are handled in the order of the requests, and each after all the events that
\* were emitted before it was written.
THEOREM OrderIsKept == Spec => OrderKept
<1>1. IpcInv /\ [Next]_vars =>
        [\A r \in Requests :
           answer[r].how = "none" /\ answer'[r].how \in {"ok", "error"} =>
             LET at == Head(outbox[conn]).at IN
             /\ at = (IF seen > since[conn] THEN seen ELSE since[conn])
             /\ \A s \in Requests : s.boot = r.boot /\ s.id > r.id =>
                  answer'[s].how \notin {"ok", "error"}]_vars
  <2> SUFFICES ASSUME IpcInv, Next, NEW r \in Requests, ~ Answered(r), Answered(r)'
               PROVE  /\ Head(outbox[conn]).at = Latest
                      /\ \A s \in Requests : s.boot = r.boot /\ s.id > r.id => ~ Answered(s)'
    BY DEF Answered, Latest
  <2>1. TypeOK /\ Replying /\ Answering /\ Chained
    BY DEF IpcInv, Typed
  <2>2. Deliver
    BY <2>1, OnlyDeliveryAnswers DEF Answered
  <2>3. /\ up /\ 1 \in 1 .. Len(outbox[conn]) /\ Head(outbox[conn]) = outbox[conn][1]
    BY <2>1, <2>2, Delivering
  <2>4. IsReply(1) /\ r.boot = boot /\ r.id = outbox[conn][1].id
    BY <2>1, <2>2, DeliveryAnswers DEF Answered
  <2>5. outbox[conn][1].at = Latest
    BY <2>1, <2>3, <2>4 DEF Chained, Before, IsReply
  <2>6. ASSUME NEW s \in Requests, s.boot = r.boot, s.id > r.id, Answered(s)' PROVE FALSE
    <3>1. CASE answer'[s] = answer[s]
      <4>1. Answered(s)
        BY <2>6, <3>1 DEF Answered
      <4>2. s.id < outbox[conn][1].id
        BY <2>1, <2>3, <2>4, <2>6, <4>1 DEF Answering
      <4> QED
        BY <2>1, <2>4, <2>6, <4>2, Basics
    <3>2. CASE s.id = outbox[conn][1].id
      BY <2>1, <2>4, <2>6, <3>2, Basics
    <3> QED
      BY <2>1, <2>2, <3>1, <3>2, DeliveryAnswers
  <2> QED
    BY <2>3, <2>5, <2>6
<1> QED
  BY <1>1, AlwaysIpc, PTL DEF Spec, OrderKept
===============================================================================
