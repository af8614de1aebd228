--------------------------------- MODULE Ipc ----------------------------------
(***************************************************************************)
(* The menu's client of the JSON-lines protocol (menu/core/ipc_client.gd)  *)
(* against the daemon's server (daemon/pentad/server.py): one connection   *)
(* after the other, requests and replies matched by id, events pushed in   *)
(* between, the daemon and the menu dying at any time and being restarted. *)
(*                                                                         *)
(* A connection is two FIFO streams and the server task that reads one and *)
(* writes the other.  The task outlives a menu that died: it serves what   *)
(* it had been sent before it sees the end of the stream.                  *)
(***************************************************************************)
EXTENDS Integers, Sequences

CONSTANTS MaxBoots,   \* bound: lives of the menu process
          MaxId,      \* bound: requests per life
          MaxConns,   \* bound: connections
          MaxEvents   \* bound: events the daemon emits

ASSUME IpcAssumption ==
  /\ MaxBoots \in Nat \ {0}
  /\ {MaxId, MaxConns, MaxEvents} \subseteq Nat

Requests == [boot : 1 .. MaxBoots, id : 1 .. MaxId]
Conns == 1 .. MaxConns
NoConn == 0
NoReq == [boot |-> 0, id |-> 0]

VARIABLES
  boot,       \* which life the menu is in
  nextId,     \* _next_id
  pending,    \* the keys of _pending
  up,         \* _connected
  conn,       \* the connection behind _peer
  seen,       \* last event handled on this connection
  inbox,      \* inbox[g]: lines on their way to the server
  outbox,     \* outbox[g]: lines on their way to the menu
  srv,        \* srv[g]: where g's server task is
  cur,        \* cur[g]: the request its handler works on
  since,      \* since[g]: events emitted before the task registered its writer
  listening,  \* the daemon accepts connections
  emitted,    \* events emitted so far
  ran,        \* ran[r]: times the handler of r ran to its end
  calls,      \* calls[r]: times the callback of r was called
  answer      \* answer[r]: what it was told, and about which request

client == <<boot, nextId, pending, up, conn, seen>>
server == <<inbox, outbox, srv, cur, since, listening, emitted>>
vars == <<client, server, ran, calls, answer>>

\* A line to the menu.  of and at never leave the daemon: the request a reply
\* is really for, and the events emitted before the line was written.
Reply(r, ok) == [kind |-> "reply", id |-> r.id, ok |-> ok, of |-> r, at |-> emitted]
Event(n) == [kind |-> "event", id |-> 0, ok |-> TRUE, of |-> NoReq, at |-> n]
Line == [kind : {"reply", "event"}, id : 0 .. MaxId, ok : BOOLEAN,
         of : Requests \union {NoReq}, at : 0 .. MaxEvents]

Mine(i) == [boot |-> boot, id |-> i]
Answers == [how : {"none", "ok", "error", "lost"}, of : Requests \union {NoReq}]
Told(how, r) == [how |-> how, of |-> r]

Init ==
  /\ boot = 1 /\ nextId = 1 /\ pending = {} /\ up = FALSE /\ conn = NoConn /\ seen = 0
  /\ inbox = [g \in Conns |-> <<>>]
  /\ outbox = [g \in Conns |-> <<>>]
  /\ srv = [g \in Conns |-> "none"]
  /\ cur = [g \in Conns |-> NoReq]
  /\ since = [g \in Conns |-> 0]
  /\ listening = TRUE /\ emitted = 0
  /\ ran = [r \in Requests |-> 0]
  /\ calls = [r \in Requests |-> 0]
  /\ answer = [r \in Requests |-> Told("none", NoReq)]

\* _settle for a set of requests: each still pending is dropped and called.
SettleAll(ids, how, of) ==
  LET now == ids \intersect pending IN
  /\ pending' = pending \ ids
  /\ calls' = [r \in Requests |->
       IF r.boot = boot /\ r.id \in now THEN calls[r] + 1 ELSE calls[r]]
  /\ answer' = [r \in Requests |->
       IF r.boot = boot /\ r.id \in now THEN Told(how, of) ELSE answer[r]]

-------------------------------------------------------------------------------
\* The menu.

\* request(): written to the peer (and lost there if the daemon has died
\* meanwhile), or answered at once.
Request ==
  /\ nextId =< MaxId
  /\ nextId' = nextId + 1
  /\ IF up
     THEN /\ pending' = pending \union {nextId}
          /\ inbox' = IF srv[conn] = "closed" THEN inbox
                      ELSE [inbox EXCEPT ![conn] = Append(@, Mine(nextId))]
          /\ UNCHANGED <<calls, answer>>
     ELSE /\ calls' = [calls EXCEPT ![Mine(nextId)] = @ + 1]
          /\ answer' = [answer EXCEPT ![Mine(nextId)] = Told("lost", NoReq)]
          /\ UNCHANGED <<pending, inbox>>
  /\ UNCHANGED <<boot, up, conn, seen, outbox, srv, cur, since, listening,
                 emitted, ran>>

\* _try_connect, and the _process that finds the peer connected.  The kernel
\* completes the connection before the server task exists.
Connect ==
  /\ ~ up
  /\ listening
  /\ \E g \in Conns :
       /\ srv[g] = "none"
       /\ \A h \in Conns : h < g => srv[h] # "none"
       /\ conn' = g
       /\ srv' = [srv EXCEPT ![g] = "accepted"]
  /\ up' = TRUE
  /\ seen' = 0
  /\ UNCHANGED <<boot, nextId, pending, inbox, outbox, cur, since, listening,
                 emitted, ran, calls, answer>>

\* Mutant: the next line is taken for the answer to the oldest request.
DeliverInTurn ==
  /\ up
  /\ outbox[conn] # <<>>
  /\ LET line == Head(outbox[conn]) IN
       /\ outbox' = [outbox EXCEPT ![conn] = Tail(@)]
       /\ SettleAll({i \in pending : \A j \in pending : i =< j},
                    IF line.ok THEN "ok" ELSE "error", line.of)
  /\ UNCHANGED <<boot, nextId, up, conn, seen, inbox, srv, cur, since, listening,
                 emitted, ran>>

\* _handle_line on the first line of the buffer.
Deliver ==
  /\ up
  /\ outbox[conn] # <<>>
  /\ LET line == Head(outbox[conn]) IN
       /\ outbox' = [outbox EXCEPT ![conn] = Tail(@)]
       /\ IF line.kind = "event"
          THEN /\ seen' = line.at
               /\ UNCHANGED <<pending, calls, answer>>
          ELSE /\ SettleAll({line.id}, IF line.ok THEN "ok" ELSE "error", line.of)
               /\ UNCHANGED seen
  /\ UNCHANGED <<boot, nextId, up, conn, inbox, srv, cur, since, listening,
                 emitted, ran>>

\* _process finds the peer gone: nobody is left waiting.
Notice ==
  /\ up
  /\ srv[conn] = "closed"
  /\ up' = FALSE
  /\ conn' = NoConn
  /\ outbox' = [outbox EXCEPT ![conn] = <<>>]
  /\ SettleAll(pending, "lost", NoReq)
  /\ UNCHANGED <<boot, nextId, seen, inbox, srv, cur, since, listening, emitted,
                 ran>>

\* The session script starts the menu again.
MenuRestarts ==
  /\ boot < MaxBoots
  /\ boot' = boot + 1
  /\ nextId' = 1
  /\ pending' = {}
  /\ up' = FALSE
  /\ conn' = NoConn
  /\ seen' = 0
  /\ outbox' = IF conn = NoConn THEN outbox ELSE [outbox EXCEPT ![conn] = <<>>]
  /\ UNCHANGED <<inbox, srv, cur, since, listening, emitted, ran, calls, answer>>

-------------------------------------------------------------------------------
\* The daemon.

Push(g, line) == IF g = conn THEN [outbox EXCEPT ![g] = Append(@, line)] ELSE outbox

Accept(g) ==
  /\ srv[g] = "accepted"
  /\ srv' = [srv EXCEPT ![g] = "reading"]
  /\ since' = [since EXCEPT ![g] = emitted]
  /\ UNCHANGED <<client, inbox, outbox, cur, listening, emitted, ran, calls, answer>>

\* readline() and the start of _dispatch.
Read(g) ==
  /\ srv[g] = "reading"
  /\ inbox[g] # <<>>
  /\ cur' = [cur EXCEPT ![g] = Head(inbox[g])]
  /\ inbox' = [inbox EXCEPT ![g] = Tail(@)]
  /\ srv' = [srv EXCEPT ![g] = "handling"]
  /\ UNCHANGED <<client, outbox, since, listening, emitted, ran, calls, answer>>

\* Mutant: a failing handler is logged and nothing is written.
DispatchSilent(g) ==
  /\ srv[g] = "handling"
  /\ srv' = [srv EXCEPT ![g] = "reading"]
  /\ ran' = [ran EXCEPT ![cur[g]] = @ + 1]
  /\ outbox' \in {outbox, Push(g, Reply(cur[g], TRUE))}
  /\ cur' = [cur EXCEPT ![g] = NoReq]
  /\ UNCHANGED <<client, inbox, since, listening, emitted, calls, answer>>

\* The rest of _dispatch: whether the handler returned or raised, one reply.
Dispatch(g) ==
  /\ srv[g] = "handling"
  /\ srv' = [srv EXCEPT ![g] = "reading"]
  /\ ran' = [ran EXCEPT ![cur[g]] = @ + 1]
  /\ \E ok \in BOOLEAN : outbox' = Push(g, Reply(cur[g], ok))
  /\ cur' = [cur EXCEPT ![g] = NoReq]
  /\ UNCHANGED <<client, inbox, since, listening, emitted, calls, answer>>

\* Mutant: events and replies are written by different tasks.
EmitAhead ==
  /\ emitted < MaxEvents
  /\ emitted' = emitted + 1
  /\ outbox' = [g \in Conns |->
       IF g = conn /\ srv[g] \in {"reading", "handling"}
       THEN <<Event(emitted')>> \o outbox[g] ELSE outbox[g]]
  /\ UNCHANGED <<client, inbox, srv, cur, since, listening, ran, calls, answer>>

\* emit(): to every registered writer.
Emit ==
  /\ listening
  /\ emitted < MaxEvents
  /\ emitted' = emitted + 1
  /\ outbox' = [g \in Conns |->
       IF g = conn /\ srv[g] \in {"reading", "handling"}
       THEN Append(outbox[g], Event(emitted')) ELSE outbox[g]]
  /\ UNCHANGED <<client, inbox, srv, cur, since, listening, ran, calls, answer>>

\* readline() returns nothing: the menu at the other end has died.
HangUp(g) ==
  /\ srv[g] = "reading"
  /\ inbox[g] = <<>>
  /\ g # conn
  /\ srv' = [srv EXCEPT ![g] = "closed"]
  /\ UNCHANGED <<client, inbox, outbox, cur, since, listening, emitted, ran,
                 calls, answer>>

DaemonDies ==
  /\ listening
  /\ listening' = FALSE
  /\ srv' = [g \in Conns |-> IF srv[g] = "none" THEN "none" ELSE "closed"]
  /\ inbox' = [g \in Conns |-> <<>>]
  /\ cur' = [g \in Conns |-> NoReq]
  /\ UNCHANGED <<client, outbox, since, emitted, ran, calls, answer>>

DaemonStarts ==
  /\ ~ listening
  /\ listening' = TRUE
  /\ UNCHANGED <<client, inbox, outbox, srv, cur, since, emitted, ran, calls,
                 answer>>

Next ==
  \/ Request
  \/ Connect
  \/ Deliver
  \/ Notice
  \/ MenuRestarts
  \/ \E g \in Conns : Accept(g) \/ Read(g) \/ Dispatch(g) \/ HangUp(g)
  \/ Emit
  \/ DaemonDies
  \/ DaemonStarts

\* The menu's frames and the daemon's loop run, and a handler returns (each
\* await in the daemon has a timeout or waits for a process that ends).
Fairness ==
  /\ WF_vars(Deliver) /\ WF_vars(Notice)
  /\ \A g \in Conns : WF_vars(Accept(g)) /\ WF_vars(Read(g)) /\ WF_vars(Dispatch(g))

Spec == Init /\ [][Next]_vars /\ Fairness

-------------------------------------------------------------------------------
TypeOK ==
  /\ boot \in 1 .. MaxBoots
  /\ nextId \in 1 .. MaxId + 1
  /\ pending \subseteq 1 .. nextId - 1
  /\ up \in BOOLEAN
  /\ conn \in (IF up THEN Conns ELSE {NoConn})
  /\ seen \in 0 .. emitted
  /\ inbox \in [Conns -> Seq(Requests)]
  /\ outbox \in [Conns -> Seq(Line)]
  /\ srv \in [Conns -> {"none", "accepted", "reading", "handling", "closed"}]
  /\ cur \in [Conns -> Requests \union {NoReq}]
  /\ since \in [Conns -> 0 .. MaxEvents]
  /\ listening \in BOOLEAN
  /\ emitted \in 0 .. MaxEvents
  /\ ran \in [Requests -> Nat]
  /\ calls \in [Requests -> Nat]
  /\ answer \in [Requests -> Answers]

\* "needs an answer to every request": a request is pending, or its callback
\* was called exactly once (those of a menu that died die with it), with the
\* answer to that request, also when ids start over with a new menu while the
\* old one's requests are still served.
AnsweredOnce ==
  \A r \in Requests :
    /\ r.boot = boot =>
         calls[r] = IF r.id < nextId /\ r.id \notin pending THEN 1 ELSE 0
    /\ answer[r].how \in {"ok", "error"} => answer[r].of = r /\ ran[r] = 1

\* The task of g has r before it, or in hand.
Holds(g, r) == cur[g] = r \/ \E j \in 1 .. Len(inbox[g]) : inbox[g][j] = r

\* The j-th line on its way to the menu is a reply, and to which request.
IsReply(j) == j \in 1 .. Len(outbox[conn]) /\ outbox[conn][j].kind = "reply"
ReplyTo(j, i) == IsReply(j) /\ outbox[conn][j].id = i

\* Nobody waits on a connection that is gone.
NoneWaitWhenDown == ~ up => pending = {}

\* Nobody waits in vain: not on a connection that is gone, and as long as the
\* daemon lives it still has each request that waits, or has written the answer.
NoneWaitInVain ==
  /\ NoneWaitWhenDown
  /\ up /\ srv[conn] # "closed" =>
       \A i \in pending :
         Holds(conn, Mine(i)) \/ \E j \in 1 .. Len(outbox[conn]) : ReplyTo(j, i)

\* What the modules of the screens take for granted: an answer under way is to a
\* request that waits, and the answers to all that have waited longer come before.
InTurn ==
  up => \A j \in 1 .. Len(outbox[conn]) : IsReply(j) =>
    /\ outbox[conn][j].id \in pending
    /\ \A i \in pending : i < outbox[conn][j].id => \E k \in 1 .. j - 1 : ReplyTo(k, i)

\* Events and replies keep the order they were written in: when a reply is
\* handled, the events handled before it are all those emitted before the reply
\* was written (since the server task took the connection), and no later request
\* has been answered.
OrderKept ==
  [][\A r \in Requests :
       answer[r].how = "none" /\ answer'[r].how \in {"ok", "error"} =>
         LET at == Head(outbox[conn]).at IN
         /\ at = (IF seen > since[conn] THEN seen ELSE since[conn])
         /\ \A s \in Requests : s.boot = r.boot /\ s.id > r.id =>
              answer'[s].how \notin {"ok", "error"}]_vars

\* Every request is answered, unless the menu itself goes.
EventuallyAnswered ==
  \A r \in Requests :
    (r.boot = boot /\ r.id \in pending) ~> (calls[r] = 1 \/ boot > r.boot)
===============================================================================
