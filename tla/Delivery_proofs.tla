---------------------------- MODULE Delivery_proofs ----------------------------
(***************************************************************************)
(* RangeFetch and Delivery, for every archive, member, width of the        *)
(* directory's fields, number of connections, image, stick, segment and    *)
(* number of failures: what was fetched is the member that was asked for,  *)
(* what the progress file counts is on a stick, and what the client of the *)
(* LAN server has is the image.                                            *)
(***************************************************************************)
EXTENDS Delivery, SequenceTheorems, TLAPS

-------------------------------------------------------------------------------
\* Runs of bytes.

LEMMA BytesSeq ==
  ASSUME NEW a \in Nat, NEW n \in Nat
  PROVE  Bytes(a, n) \in Seq(Nat) /\ Len(Bytes(a, n)) = n
BY DEF Bytes

LEMMA BytesAppend ==
  ASSUME NEW a \in Nat, NEW n \in Nat
  PROVE  Append(Bytes(a, n), a + n) = Bytes(a, n + 1)
BY DEF Bytes

LEMMA BytesConcat ==
  ASSUME NEW a \in Nat, NEW n \in Nat, NEW k \in Nat
  PROVE  Bytes(a, n) \o Bytes(a + n, k) = Bytes(a, n + k)
BY DEF Bytes

LEMMA BytesTail ==
  ASSUME NEW a \in Nat, NEW n \in Nat \ {0}
  PROVE  Head(Bytes(a, n)) = a /\ Tail(Bytes(a, n)) = Bytes(a + 1, n - 1)
<1> DEFINE s == Bytes(a, n)
<1>1. s \in Seq(Nat) /\ Len(s) = n /\ \A k \in 1 .. n : s[k] = a + k - 1
  BY DEF Bytes
<1>2. Head(s) = a
  BY <1>1
<1>3. Tail(s) \in Seq(Nat) /\ Len(Tail(s)) = n - 1 /\ \A k \in 1 .. n - 1 : Tail(s)[k] = s[k + 1]
  BY <1>1, HeadTailProperties
<1>4. \A k \in 1 .. n - 1 : s[k + 1] = (a + 1) + k - 1
  BY <1>1
<1> DEFINE t == Bytes(a + 1, n - 1)
<1>5. t \in Seq(Nat) /\ Len(t) = n - 1 /\ \A k \in 1 .. n - 1 : t[k] = (a + 1) + k - 1
  BY BytesSeq DEF Bytes
<1> HIDE DEF s, t
<1>6. Tail(s) = t
  <2>1. Len(Tail(s)) = Len(t) /\ Tail(s) \in Seq(Nat) /\ t \in Seq(Nat)
    BY <1>3, <1>5
  <2>2. \A k \in 1 .. Len(Tail(s)) : Tail(s)[k] = t[k]
    BY <1>1, <1>3, <1>4, <1>5
  <2> QED
    BY <2>1, <2>2, SeqEqual
<1> QED
  BY <1>2, <1>6 DEF s, t

LEMMA BytesNone ==
  ASSUME NEW a
  PROVE  Bytes(a, 0) = <<>>
BY DEF Bytes

-------------------------------------------------------------------------------
\* The directory.

LEMMA FoundIt ==
  ASSUME NEW m \in 1 .. Len(Archive)
  PROVE  Found(m).csize = Archive[m].comp /\ Found(m).lho = Archive[m].at
<1> Archive[m] \in Members
  BY FetchAssumption
<1> DEFINE r == Archive[m].raw
           c == Archive[m].comp
           o == Archive[m].at
<1>1. r \in Nat /\ c \in Nat /\ o \in Nat /\ FieldMax \in Nat \ {0}
  BY FetchAssumption DEF Members
<1>2. Moved(r) = IF r >= FieldMax THEN <<r>> ELSE <<>>
  BY DEF Moved
<1>3. Moved(c) = IF c >= FieldMax THEN <<c>> ELSE <<>>
  BY DEF Moved
<1>4. Moved(o) = IF o >= FieldMax THEN <<o>> ELSE <<>>
  BY DEF Moved
<1>5. Field(r) = FieldMax <=> r >= FieldMax
  BY <1>1 DEF Field
<1>6. Field(c) = FieldMax <=> c >= FieldMax
  BY <1>1 DEF Field
<1>7. Field(o) = FieldMax <=> o >= FieldMax
  BY <1>1 DEF Field
<1> DEFINE x == Moved(r) \o Moved(c) \o Moved(o)
<1>8. c >= FieldMax => x[(IF r >= FieldMax THEN 1 ELSE 0) + 1] = c
  BY <1>1, <1>2, <1>3, <1>4
<1>9. o >= FieldMax =>
        x[(IF r >= FieldMax THEN 1 ELSE 0) + (IF c >= FieldMax THEN 1 ELSE 0) + 1] = o
  BY <1>1, <1>2, <1>3, <1>4
<1> QED
  BY <1>1, <1>5, <1>6, <1>7, <1>8, <1>9 DEF Found, Cen, Field

-------------------------------------------------------------------------------
\* The ranges: they follow each other, and cover the member.

LEMMA ChunkCovers ==
  ASSUME NEW s \in Nat, NEW c \in Nat \ {0}
  PROVE  (s + c - 1) \div c \in Nat /\ c * ((s + c - 1) \div c) >= s
         /\ (s > 0 => (s + c - 1) \div c > 0)
OBVIOUS

\* How much of the member the first n ranges hold.
Covered(n) == Least(n * Chunk, size)

Jobbing == {"none", "todo", "run", "got", "ok", "failed"}
Tools == {"idle", "fetch", "join", "topup", "rejoin", "done"}

Types ==
  /\ want \in 1 .. Len(Archive)
  /\ conns \in 0 .. MaxConns /\ start \in Nat /\ size \in Nat
  /\ tmp \in BOOLEAN
  /\ part \in [Ids -> Seq(Nat)] /\ more \in [Ids -> Seq(Nat)]
  /\ job \in [Ids -> Jobbing]
  /\ pc \in Tools
  /\ next \in Nat /\ out \in Seq(Nat)

LEMMA Ranges ==
  ASSUME Types, conns # 0, NEW i \in Jobs
  PROVE  /\ i \in Ids /\ i \in Nat /\ i + 1 <= conns
         /\ First(i) \in Nat /\ Width(i) \in Nat \ {0}
         /\ Last(i) = First(i) + Width(i) - 1
         /\ First(i) = start + Covered(i)
         /\ Covered(i) \in Nat
         /\ Covered(i + 1) = Covered(i) + Width(i)
<1>1. conns \in Nat \ {0} /\ size \in Nat /\ start \in Nat
  BY FetchAssumption DEF Types
<1>2. Chunk \in Nat
  BY <1>1, ChunkCovers DEF Chunk
<1>3. i \in Ids /\ i \in Nat /\ i < conns /\ First(i) <= Last(i)
  BY FetchAssumption DEF Jobs, Ids
<1> DEFINE p == i * Chunk
<1>4. p \in Nat /\ (i + 1) * Chunk = p + Chunk
  BY <1>2, <1>3
<1>5. First(i) = start + p
  BY DEF First
<1>6. Last(i) = IF start + p + Chunk - 1 < start + size - 1 THEN start + p + Chunk - 1
                ELSE start + size - 1
  BY <1>5 DEF Last, Least
<1> HIDE DEF p
<1>7. start + p <= Last(i)
  BY <1>3, <1>5
<1>8. p < size
  BY <1>1, <1>2, <1>4, <1>6, <1>7
<1>9. Covered(i) = p
  BY <1>1, <1>4, <1>8 DEF Covered, Least, p
<1>10. Covered(i + 1) = IF p + Chunk < size THEN p + Chunk ELSE size
  BY <1>4 DEF Covered, Least
<1>11. Width(i) = Last(i) - First(i) + 1
  BY DEF Width
<1> QED
  BY <1>1, <1>2, <1>3, <1>4, <1>5, <1>6, <1>7, <1>8, <1>9, <1>10, <1>11

LEMMA AllCovered ==
  ASSUME Types, conns # 0, next <= conns, next \notin Jobs
  PROVE  Covered(next) = size
<1>1. conns \in Nat \ {0} /\ size \in Nat /\ start \in Nat /\ next \in Nat
  BY FetchAssumption DEF Types
<1>2. Chunk \in Nat /\ conns * Chunk >= size
  BY <1>1, ChunkCovers DEF Chunk
<1>3. CASE next = conns
  BY <1>1, <1>2, <1>3 DEF Covered, Least
<1>4. CASE next < conns
  <2> DEFINE p == next * Chunk
  <2>1. p \in Nat
    BY <1>1, <1>2
  <2>2. next \in Ids
    BY <1>1, <1>4, FetchAssumption DEF Ids, Types
  <2>3. ~ (First(next) <= Last(next))
    BY <1>4, <2>2 DEF Jobs
  <2>4. First(next) = start + p
    BY DEF First
  <2>5. Last(next) = IF start + p + Chunk - 1 < start + size - 1 THEN start + p + Chunk - 1
                     ELSE start + size - 1
    BY <2>4 DEF Last, Least
  <2>6. Chunk > 0 \/ size = 0
    BY <1>1, ChunkCovers DEF Chunk
  <2>7. Covered(next) = IF p < size THEN p ELSE size
    BY DEF Covered, Least
  <2> HIDE DEF p
  <2> QED
    BY <1>1, <1>2, <2>1, <2>3, <2>4, <2>5, <2>6, <2>7
<1> QED
  BY <1>1, <1>3, <1>4

-------------------------------------------------------------------------------
\* The invariant.

\* The numbers are those of the member, and there are some whenever they are used.
Located ==
  /\ conns # 0 => /\ start = Archive[want].at + Archive[want].head
                  /\ size = Archive[want].comp
  /\ tmp \/ pc \notin {"idle", "done"} => conns # 0

\* A download that is called good is whole.
Fetching ==
  pc = "fetch" => \A i \in Jobs :
    /\ job[i] \in {"run", "ok", "failed"}
    /\ job[i] = "ok" => Len(part[i]) = Width(i)

\* What comes in a top-up goes on where the part ends; what is appended of it fills
\* the part.
ToppingUp ==
  pc = "topup" => \A i \in Jobs : job[i] \in {"run", "got"} =>
    /\ more[i] = Bytes(From(i), Len(more[i]))
    /\ Len(part[i]) + Len(more[i]) <= Width(i)

\* Whole parts are joined, and the output is what the first of them hold.
Joining ==
  pc \in {"join", "rejoin"} =>
    /\ next <= conns
    /\ \A i \in Jobs : Len(part[i]) = Width(i)
    /\ out = Bytes(start, Covered(next))

FetchInv ==
  Types /\ Located /\ PartsGood /\ Fetching /\ ToppingUp /\ Joining /\ OutIsMember

LEMMA FetchInit == Init => FetchInv
BY FetchAssumption, SMTT(20)
DEF Init, FetchInv, Types, Located, PartsGood, Fetching, ToppingUp, Joining, OutIsMember,
    NoParts, NoJobs, Jobs, Jobbing, Tools, Ids

\* A step that leaves the numbers alone leaves the ranges alone.
LEMMA SameRanges ==
  ASSUME UNCHANGED args
  PROVE  /\ Jobs' = Jobs /\ Chunk' = Chunk /\ size' = size
         /\ \A i : First(i)' = First(i) /\ Last(i)' = Last(i) /\ Width(i)' = Width(i)
         /\ \A n : Covered(n)' = Covered(n)
BY DEF args, Jobs, Chunk, First, Last, Width, Covered

LEMMA GetKeeps ==
  ASSUME FetchInv, NEW c \in 1 .. MaxConns, Get(c)
  PROVE  FetchInv'
<1>1. Types'
  <2>1. want \in 1 .. Len(Archive) /\ Archive[want] \in Members
    BY FetchAssumption DEF FetchInv, Types
  <2>2. start' \in Nat /\ size' \in Nat
    BY <2>1, FoundIt DEF Get, Members
  <2>3. NoParts \in [Ids -> Seq(Nat)]
    BY DEF NoParts
  <2>4. job' \in [Ids -> Jobbing] /\ pc' \in Tools /\ tmp' \in BOOLEAN /\ conns' \in 0 .. MaxConns
    BY FetchAssumption DEF Get, Jobbing, Tools
  <2> QED
    BY <2>1, <2>2, <2>3, <2>4 DEF FetchInv, Types, Get
<1>2. Located'
  BY FetchAssumption, FoundIt DEF FetchInv, Types, Get, Located
<1>3. \A i \in Jobs' : part'[i] = <<>> /\ i \in Ids
  BY DEF Get, NoParts, Jobs
<1>4. PartsGood'
  <2> SUFFICES ASSUME NEW i \in Jobs'
               PROVE  Len(part'[i]) <= Width(i)' /\ part'[i] = Bytes(First(i)', Len(part'[i]))
    BY DEF PartsGood
  <2>1. size' \in Nat /\ start' \in Nat /\ conns' \in Nat \ {0} /\ i \in Nat
    BY <1>1, FetchAssumption DEF Types, Get, Jobs, Ids
  <2>2. Chunk' \in Nat
    BY <2>1, ChunkCovers DEF Chunk
  <2>3. First(i)' \in Int /\ Last(i)' \in Int /\ First(i)' <= Last(i)'
    <3>1. First(i)' \in Int
      BY <2>1, <2>2 DEF First
    <3>2. Last(i)' \in Int
      BY <2>1, <2>2, <3>1 DEF Last, Least
    <3>3. (First(i) <= Last(i))'
      BY DEF Jobs
    <3> QED
      BY <3>1, <3>2, <3>3
  <2>4. Width(i)' >= 0
    BY <2>3 DEF Width
  <2> QED
    BY <1>3, <2>4, BytesNone
<1>5. Fetching'
  BY <1>3 DEF Get, Fetching
<1>6. ToppingUp' /\ Joining' /\ OutIsMember'
  BY DEF Get, ToppingUp, Joining, OutIsMember
<1> QED
  BY <1>1, <1>2, <1>4, <1>5, <1>6 DEF FetchInv

LEMMA ReceiveKeeps ==
  ASSUME FetchInv, NEW i \in Jobs, Receive(i) \/ Received(i) \/ Drop(i)
  PROVE  FetchInv'
<1> conns # 0 /\ Types /\ Len(part[i]) \in Nat
  BY DEF FetchInv, Located, Types, Receive, Received, Drop, Jobs
<1>1. i \in Ids /\ First(i) \in Nat /\ Width(i) \in Nat \ {0}
  BY Ranges
<1>2. pc = "fetch" /\ pc' = pc /\ UNCHANGED <<args, tmp, more, next, out>>
  BY DEF Receive, Received, Drop, dir
<1>3. \A j \in Ids : j # i => part'[j] = part[j] /\ job'[j] = job[j]
  BY DEF Types, Receive, Received, Drop, dir
<1>4. /\ job'[i] \in {"run", "ok", "failed"}
      /\ job'[i] = "ok" => Len(part'[i]) = Width(i)
      /\ part'[i] \in Seq(Nat) /\ Len(part'[i]) <= Width(i)
      /\ part'[i] = Bytes(First(i), Len(part'[i]))
  <2>1. CASE Receive(i)
    <3>1. part'[i] = Append(part[i], First(i) + Len(part[i])) /\ job'[i] = job[i]
      BY <1>1, <2>1 DEF Receive, Types
    <3>2. part[i] = Bytes(First(i), Len(part[i])) /\ part[i] \in Seq(Nat) /\ Len(part[i]) < Width(i)
      BY <1>1, <2>1 DEF Receive, Types, FetchInv, PartsGood
    <3>3. part'[i] = Bytes(First(i), Len(part[i]) + 1)
      BY <1>1, <3>1, <3>2, BytesAppend
    <3>4. Len(part'[i]) = Len(part[i]) + 1 /\ part'[i] \in Seq(Nat)
      BY <1>1, <3>1, <3>2
    <3> QED
      BY <1>1, <2>1, <3>1, <3>2, <3>3, <3>4 DEF Receive
  <2>2. CASE Received(i)
    BY <1>1, <2>2 DEF Received, Types, FetchInv, PartsGood, dir
  <2>3. CASE Drop(i)
    <3>1. \/ part'[i] = <<>> /\ job'[i] = "run"
          \/ part'[i] = part[i] /\ job'[i] = "failed"
      BY <1>1, <2>3 DEF Drop, Types
    <3>2. Bytes(First(i), 0) = <<>> /\ Len(<<>>) = 0 /\ <<>> \in Seq(Nat)
      BY BytesNone
    <3>3. part[i] \in Seq(Nat) /\ Len(part[i]) <= Width(i) /\ part[i] = Bytes(First(i), Len(part[i]))
      BY <1>1 DEF Types, FetchInv, PartsGood
    <3>4. CASE part'[i] = <<>> /\ job'[i] = "run"
      <4>1. Len(part'[i]) = 0
        BY <3>4
      <4> QED
        BY <1>1, <3>2, <3>4, <4>1
    <3>5. CASE part'[i] = part[i] /\ job'[i] = "failed"
      BY <3>3, <3>5
    <3> QED
      BY <3>1, <3>4, <3>5
  <2> QED
    BY <2>1, <2>2, <2>3
<1>5. part' \in [Ids -> Seq(Nat)] /\ job' \in [Ids -> Jobbing]
  BY <1>3, <1>4 DEF Receive, Received, Drop, Types, Jobbing, dir
<1>6. Types' /\ Located'
  BY <1>2, <1>5 DEF FetchInv, Types, Located, args
<1>7. Jobs' = Jobs /\ \A j : First(j)' = First(j) /\ Width(j)' = Width(j)
  BY <1>2, SameRanges
<1>8. PartsGood' /\ Fetching'
  BY <1>2, <1>3, <1>4, <1>7 DEF FetchInv, PartsGood, Fetching, Jobs
<1>9. ToppingUp' /\ Joining' /\ OutIsMember'
  BY <1>2 DEF ToppingUp, Joining, OutIsMember
<1> QED
  BY <1>6, <1>8, <1>9 DEF FetchInv

LEMMA FetchedKeeps ==
  ASSUME FetchInv, Fetched
  PROVE  FetchInv'
<1>1. conns # 0 /\ Types
  BY DEF FetchInv, Located, Fetched
<1>2. Jobs' = Jobs /\ \A j : First(j)' = First(j) /\ Width(j)' = Width(j)
  BY SameRanges DEF Fetched
<1>3. part' = part /\ pc' \in {"idle", "join"}
  BY DEF Fetched, dir
<1>4. PartsGood'
  BY <1>2, <1>3 DEF FetchInv, PartsGood
<1>5. Types' /\ Located'
  <2>1. job' \in [Ids -> Jobbing] /\ pc' \in Tools /\ next' \in Nat /\ out' \in Seq(Nat)
    <3>1. NoJobs \in [Ids -> Jobbing] /\ job' = NoJobs
      BY DEF Fetched, NoJobs, Jobbing
    <3>2. \/ pc' = "idle" /\ UNCHANGED <<next, out>>
          \/ pc' = "join" /\ next' = 0 /\ out' = <<>>
      BY DEF Fetched
    <3>3. <<>> \in Seq(Nat) /\ next \in Nat /\ out \in Seq(Nat)
      BY <1>1 DEF Types
    <3>4. pc' \in Tools
      BY <3>2 DEF Tools
    <3>5. next' \in Nat /\ out' \in Seq(Nat)
      <4>1. CASE UNCHANGED <<next, out>>
        BY <3>3, <4>1
      <4>2. CASE next' = 0 /\ out' = <<>>
        BY <3>3, <4>2
      <4> QED
        BY <3>2, <4>1, <4>2
    <3> QED
      BY <3>1, <3>4, <3>5
  <2>2. UNCHANGED <<want, conns, start, size, tmp, part, more>>
    BY DEF Fetched, args, dir
  <2> QED
    BY <1>1, <1>3, <2>1, <2>2 DEF FetchInv, Types, Located
<1>6. Joining'
  <2> SUFFICES ASSUME pc' = "join" PROVE Joining'
    BY <1>3 DEF Joining
  <2>1. next' = 0 /\ out' = <<>> /\ conns' = conns /\ ~ Failed
    BY DEF Fetched, args
  <2>2. \A i \in Jobs : job[i] = "ok"
    BY <2>1 DEF FetchInv, Fetching, Fetched, Failed
  <2>3. \A i \in Jobs' : Len(part'[i]) = Width(i)'
    BY <1>2, <1>3, <2>2 DEF FetchInv, Fetching, Fetched
  <2>4. Covered(0)' = 0
    <3>1. conns \in Nat \ {0} /\ size \in Nat
      BY <1>1, FetchAssumption DEF Types
    <3>2. Chunk \in Nat
      BY <3>1, ChunkCovers DEF Chunk
    <3>3. Covered(0) = 0
      BY <3>1, <3>2 DEF Covered, Least
    <3> QED
      BY <3>3, SameRanges DEF Fetched
  <2>5. out' = Bytes(start', Covered(next)')
    BY <2>1, <2>4, BytesNone
  <2> QED
    BY <1>1, <1>5, <2>1, <2>3, <2>5 DEF Joining, Types
<1> QED
  BY <1>3, <1>4, <1>5, <1>6 DEF FetchInv, Fetching, ToppingUp, OutIsMember

LEMMA JoinKeeps ==
  ASSUME FetchInv, Join
  PROVE  FetchInv'
<1>1. conns # 0 /\ Types /\ next \in Jobs
  BY DEF FetchInv, Located, Join
<1>2. Jobs' = Jobs /\ \A j : First(j)' = First(j) /\ Width(j)' = Width(j) /\ Covered(j)' = Covered(j)
  BY SameRanges DEF Join
<1>3. /\ pc' = pc /\ pc \in {"join", "rejoin"}
      /\ next' = next + 1 /\ out' = out \o part[next]
      /\ UNCHANGED <<part, conns, start>>
  BY DEF Join, args, dir
<1>4. /\ next + 1 <= conns /\ First(next) = start + Covered(next)
      /\ Covered(next) \in Nat /\ Covered(next + 1) = Covered(next) + Width(next)
      /\ Width(next) \in Nat /\ start \in Nat /\ next \in Nat
  BY <1>1, Ranges DEF Types
<1>5. out = Bytes(start, Covered(next)) /\ part[next] = Bytes(start + Covered(next), Width(next))
  BY <1>1, <1>3, <1>4 DEF FetchInv, PartsGood, Joining
<1>6. out' = Bytes(start, Covered(next + 1))
  <2>1. Bytes(start, Covered(next)) \o Bytes(start + Covered(next), Width(next))
          = Bytes(start, Covered(next) + Width(next))
    BY <1>4, BytesConcat
  <2> QED
    BY <1>3, <1>4, <1>5, <2>1
<1>7. Joining'
  BY <1>1, <1>2, <1>3, <1>4, <1>6 DEF FetchInv, Joining
<1>8. out' \in Seq(Nat)
  <2>1. Covered(next + 1) \in Nat
    BY <1>4
  <2> QED
    BY <1>4, <1>6, <2>1, BytesSeq
<1>9. Types' /\ Located'
  <2>1. Located'
    BY <1>3 DEF FetchInv, Located, Join, args, dir
  <2>2. Types'
    BY <1>1, <1>3, <1>4, <1>8 DEF Types, Join, args, dir
  <2> QED
    BY <2>1, <2>2
<1>10. PartsGood'
  BY <1>2, <1>3 DEF FetchInv, PartsGood
<1> QED
  BY <1>3, <1>7, <1>9, <1>10 DEF FetchInv, Fetching, ToppingUp, OutIsMember

LEMMA JoinedKeeps ==
  ASSUME FetchInv, Joined
  PROVE  FetchInv'
<1>1. conns # 0 /\ Types /\ next \notin Jobs /\ next <= conns /\ pc \in {"join", "rejoin"}
  BY DEF FetchInv, Located, Joining, Joined
<1>2. out' = Bytes(start, size)
  BY <1>1, AllCovered DEF FetchInv, Joining, Joined
<1>3. start = Archive[want].at + Archive[want].head /\ size = Archive[want].comp
  BY <1>1 DEF FetchInv, Located
<1>4. OutIsMember'
  BY <1>2, <1>3 DEF OutIsMember, Joined
<1>5. Types' /\ Located'
  <2>1. NoParts \in [Ids -> Seq(Nat)]
    BY DEF NoParts
  <2>2. conns' = 0 /\ conns' \in 0 .. MaxConns /\ pc' = "done" /\ tmp' = FALSE
    BY FetchAssumption DEF Joined
  <2>3. Located'
    BY <2>2 DEF Located
  <2> QED
    BY <1>1, <2>1, <2>2, <2>3 DEF Types, Joined, Tools
<1>6. Jobs' = {}
  BY <1>1, FetchAssumption DEF Joined, Jobs, Ids
<1> QED
  BY <1>4, <1>5, <1>6 DEF FetchInv, PartsGood, Fetching, ToppingUp, Joining, Joined

LEMMA FinishKeeps ==
  ASSUME FetchInv, Finish
  PROVE  FetchInv'
<1>1. conns # 0 /\ Types
  BY DEF FetchInv, Located, Finish
<1>2. Jobs' = Jobs /\ \A j : First(j)' = First(j) /\ Width(j)' = Width(j)
  BY SameRanges DEF Finish
<1>3. pc' = "topup" /\ UNCHANGED <<want, conns, start, size, tmp, part, more, next, out>>
  BY DEF Finish, args, dir
<1>4. job' \in [Ids -> Jobbing] /\ \A i \in Ids : job'[i] \in {"none", "todo"}
  BY DEF Finish, Jobbing
<1>5. Types' /\ Located'
  BY <1>1, <1>3, <1>4 DEF FetchInv, Types, Located, Tools
<1>6. PartsGood' /\ ToppingUp'
  BY <1>2, <1>3, <1>4 DEF FetchInv, PartsGood, ToppingUp, Jobs
<1> QED
  BY <1>3, <1>5, <1>6 DEF FetchInv, Fetching, Joining, OutIsMember

\* What a step of one top-up does to its part and to what comes for it.
LEMMA TopUpStepKeeps ==
  ASSUME FetchInv, NEW i \in Jobs,
         pc = "topup", pc' = pc, UNCHANGED <<args, tmp, next, out>>,
         \A j \in Ids : j # i => part'[j] = part[j] /\ more'[j] = more[j] /\ job'[j] = job[j],
         part' \in [Ids -> Seq(Nat)], more' \in [Ids -> Seq(Nat)], job' \in [Ids -> Jobbing],
         Len(part'[i]) <= Width(i), part'[i] = Bytes(First(i), Len(part'[i])),
         job'[i] \in {"run", "got"} =>
            /\ more'[i] = Bytes(First(i) + Len(part'[i]), Len(more'[i]))
            /\ Len(part'[i]) + Len(more'[i]) <= Width(i)
  PROVE  FetchInv'
<1>1. conns # 0 /\ Types
  BY DEF FetchInv, Located
<1>2. Jobs' = Jobs /\ \A j : First(j)' = First(j) /\ Width(j)' = Width(j)
  BY SameRanges
<1>3. \A j : From(j)' = First(j) + Len(part'[j])
  BY <1>2 DEF From
<1>4. Types' /\ Located'
  BY <1>1 DEF FetchInv, Types, Located, args
<1>5. Jobs \subseteq Ids
  BY DEF Jobs
<1>6. PartsGood'
  BY <1>2, <1>5 DEF FetchInv, PartsGood
<1>7. ToppingUp'
  <2> SUFFICES ASSUME NEW j \in Jobs, job'[j] \in {"run", "got"}
               PROVE  /\ more'[j] = Bytes(First(j) + Len(part'[j]), Len(more'[j]))
                      /\ Len(part'[j]) + Len(more'[j]) <= Width(j)
    BY <1>2, <1>3 DEF ToppingUp
  <2>1. CASE j = i
    BY <2>1
  <2>2. CASE j # i
    BY <1>5, <2>2 DEF FetchInv, ToppingUp, From
  <2> QED
    BY <2>1, <2>2
<1> QED
  BY <1>4, <1>6, <1>7 DEF FetchInv, Fetching, Joining, OutIsMember

LEMMA TopUpKeeps ==
  ASSUME FetchInv, NEW i \in Jobs,
         TopUp(i) \/ ReceiveMore(i) \/ ReceivedMore(i) \/ DropMore(i) \/ AppendMore(i)
  PROVE  FetchInv'
<1>1. /\ conns # 0 /\ Types /\ pc = "topup"
      /\ pc' = pc /\ UNCHANGED <<args, tmp, next, out>>
  BY DEF FetchInv, Located, TopUp, ReceiveMore, ReceivedMore, DropMore, AppendMore, dir
<1>2. /\ i \in Ids /\ First(i) \in Nat /\ Width(i) \in Nat \ {0}
      /\ Last(i) = First(i) + Width(i) - 1
  BY <1>1, Ranges
<1>3. /\ part[i] \in Seq(Nat) /\ Len(part[i]) <= Width(i)
      /\ part[i] = Bytes(First(i), Len(part[i])) /\ Len(part[i]) \in Nat
      /\ more[i] \in Seq(Nat) /\ Len(more[i]) \in Nat
  BY <1>1, <1>2 DEF FetchInv, PartsGood, Types
<1>4. job[i] \in {"run", "got"} =>
        /\ more[i] = Bytes(First(i) + Len(part[i]), Len(more[i]))
        /\ Len(part[i]) + Len(more[i]) <= Width(i)
  BY <1>1 DEF FetchInv, ToppingUp, From
<1>5. Bytes(First(i) + Len(part[i]), 0) = <<>> /\ Len(<<>>) = 0 /\ <<>> \in Seq(Nat)
  BY BytesNone
<1> DEFINE p == Len(part[i])
           n == Len(more[i])
           w == Width(i)
<1>6. p \in Nat /\ n \in Nat /\ w \in Nat /\ First(i) \in Nat /\ Last(i) = First(i) + w - 1
  BY <1>2, <1>3
<1> HIDE DEF p, n, w
<1>7. CASE TopUp(i)
  <2>1. /\ part' = part /\ job' = [job EXCEPT ![i] = IF i \in Short THEN "run" ELSE "ok"]
        /\ more' = [more EXCEPT ![i] = IF i \in Short THEN <<>> ELSE @]
    BY <1>7 DEF TopUp
  <2>2. /\ job' \in [Ids -> Jobbing] /\ more' \in [Ids -> Seq(Nat)] /\ part' \in [Ids -> Seq(Nat)]
        /\ \A j \in Ids : j # i => part'[j] = part[j] /\ more'[j] = more[j] /\ job'[j] = job[j]
    BY <1>1, <1>5, <2>1 DEF Types, Jobbing
  <2>3. job'[i] = "run" => more'[i] = <<>>
    BY <1>1, <1>2, <2>1 DEF Types
  <2>4. job'[i] \in {"run", "ok"}
    BY <1>1, <1>2, <2>1 DEF Types
  <2>5. job'[i] \in {"run", "got"} =>
           /\ more'[i] = Bytes(First(i) + Len(part'[i]), Len(more'[i]))
           /\ Len(part'[i]) + Len(more'[i]) <= Width(i)
    <3>1. CASE job'[i] = "run"
      <4>1. Len(more'[i]) = 0
        BY <2>3, <3>1
      <4>2. Len(part'[i]) = Len(part[i]) /\ Len(part[i]) + 0 <= Width(i)
        BY <1>2, <1>3, <2>1
      <4> QED
        BY <1>5, <2>3, <3>1, <4>1, <4>2
    <3> QED
      BY <2>4, <3>1
  <2> QED
    BY <1>1, <1>3, <2>1, <2>2, <2>5, TopUpStepKeeps
<1>8. CASE ReceiveMore(i)
  <2>1. /\ part' = part /\ job' = job /\ job[i] = "run"
        /\ more' = [more EXCEPT ![i] = Append(@, First(i) + Len(part[i]) + Len(@))]
        /\ First(i) + Len(part[i]) + Len(more[i]) <= Last(i)
    BY <1>8 DEF ReceiveMore, From
  <2>2. /\ more'[i] = Append(more[i], First(i) + Len(part[i]) + Len(more[i]))
        /\ \A j \in Ids : j # i => more'[j] = more[j]
    BY <1>1, <1>2, <2>1 DEF Types
  <2>0. First(i) + Len(part[i]) + Len(more[i]) \in Nat
    BY <1>2, <1>3
  <2>3. more'[i] \in Seq(Nat) /\ Len(more'[i]) = Len(more[i]) + 1
    BY <1>3, <2>0, <2>2
  <2>4. more'[i] = Bytes(First(i) + Len(part[i]), Len(more[i]) + 1)
    <3>1. First(i) + Len(part[i]) \in Nat
      BY <1>2, <1>3
    <3>2. Append(Bytes(First(i) + Len(part[i]), Len(more[i])), First(i) + Len(part[i]) + Len(more[i]))
            = Bytes(First(i) + Len(part[i]), Len(more[i]) + 1)
      BY <1>3, <3>1, BytesAppend
    <3>3. more[i] = Bytes(First(i) + Len(part[i]), Len(more[i]))
      BY <1>4, <2>1
    <3> QED
      BY <2>2, <3>2, <3>3
  <2>5. more' \in [Ids -> Seq(Nat)] /\ part' \in [Ids -> Seq(Nat)] /\ job' \in [Ids -> Jobbing]
    BY <1>1, <2>1, <2>2, <2>3 DEF Types
  <2>6. Len(part'[i]) + Len(more'[i]) <= Width(i)
    <3>1. First(i) + p + n <= Last(i)
      BY <2>1 DEF p, n
    <3>2. p + (n + 1) <= w
      BY <1>6, <3>1
    <3>3. Len(part'[i]) = p /\ Len(more'[i]) = n + 1
      BY <2>1, <2>3 DEF p, n
    <3> QED
      BY <3>2, <3>3 DEF w
  <2> QED
    BY <1>1, <1>3, <2>1, <2>2, <2>3, <2>4, <2>5, <2>6, TopUpStepKeeps
<1>9. CASE ReceivedMore(i) \/ DropMore(i)
  <2>1. part' = part /\ more'[i] \in {more[i], <<>>} /\ job[i] = "run"
    BY <1>1, <1>2, <1>9 DEF ReceivedMore, DropMore, Types, dir
  <2>2. more' \in [Ids -> Seq(Nat)] /\ job' \in [Ids -> Jobbing]
    BY <1>1, <1>5, <1>9 DEF ReceivedMore, DropMore, Types, Jobbing, dir
  <2>3. \A j \in Ids : j # i => more'[j] = more[j] /\ job'[j] = job[j]
    BY <1>1, <1>9 DEF ReceivedMore, DropMore, Types, dir
  <2>4. /\ more'[i] = Bytes(First(i) + Len(part[i]), Len(more'[i]))
        /\ Len(part[i]) + Len(more'[i]) <= Width(i)
    <3>1. CASE more'[i] = more[i]
      BY <1>4, <2>1, <3>1
    <3>2. CASE more'[i] = <<>>
      BY <1>2, <1>3, <1>5, <3>2
    <3> QED
      BY <2>1, <3>1, <3>2
  <2>5. part' \in [Ids -> Seq(Nat)]
    BY <1>1, <2>1 DEF Types
  <2> QED
    BY <1>1, <1>3, <2>1, <2>2, <2>3, <2>4, <2>5, TopUpStepKeeps
<1>10. CASE AppendMore(i)
  <2>1. job[i] = "got"
    BY <1>10 DEF AppendMore
  <2>2. CASE more[i] # <<>>
    <3>1. /\ part' = [part EXCEPT ![i] = Append(@, Head(more[i]))]
          /\ more' = [more EXCEPT ![i] = Tail(@)] /\ job' = job
      BY <1>10, <2>2 DEF AppendMore
    <3>2. /\ part'[i] = Append(part[i], Head(more[i])) /\ more'[i] = Tail(more[i])
          /\ \A j \in Ids : j # i => part'[j] = part[j] /\ more'[j] = more[j]
      BY <1>1, <1>2, <3>1 DEF Types
    <3>3. Len(more[i]) \in Nat \ {0}
      BY <1>3, <2>2
    <3>4. First(i) + Len(part[i]) \in Nat
      BY <1>2, <1>3
    <3>5. /\ Head(more[i]) = First(i) + Len(part[i])
          /\ more'[i] = Bytes(First(i) + Len(part[i]) + 1, Len(more[i]) - 1)
      BY <1>4, <2>1, <3>2, <3>3, <3>4, BytesTail
    <3>6. part'[i] = Bytes(First(i), Len(part[i]) + 1)
      BY <1>2, <1>3, <3>2, <3>5, BytesAppend
    <3>7. Len(part'[i]) = Len(part[i]) + 1 /\ part'[i] \in Seq(Nat)
      <4>1. First(i) \in Nat /\ Len(part[i]) + 1 \in Nat
        BY <1>2, <1>3
      <4>2. LET b == Bytes(First(i), Len(part[i]) + 1)
            IN  b \in Seq(Nat) /\ Len(b) = Len(part[i]) + 1
        BY <4>1, BytesSeq
      <4> QED
        BY <3>6, <4>2
    <3>8. Len(more'[i]) = Len(more[i]) - 1 /\ more'[i] \in Seq(Nat)
      <4>1. First(i) + Len(part[i]) + 1 \in Nat /\ Len(more[i]) - 1 \in Nat
        BY <3>3, <3>4
      <4>2. LET b == Bytes(First(i) + Len(part[i]) + 1, Len(more[i]) - 1)
            IN  b \in Seq(Nat) /\ Len(b) = Len(more[i]) - 1
        BY <4>1, BytesSeq
      <4> QED
        BY <3>5, <4>2
    <3>9. part' \in [Ids -> Seq(Nat)] /\ more' \in [Ids -> Seq(Nat)] /\ job' \in [Ids -> Jobbing]
      BY <1>1, <3>1, <3>2, <3>7, <3>8 DEF Types
    <3>10. Len(part'[i]) + Len(more'[i]) <= Width(i) /\ Len(part'[i]) <= Width(i)
      <4>1. p + n <= w
        BY <1>4, <2>1 DEF p, n, w
      <4>2. n \in Nat \ {0}
        BY <3>3 DEF n
      <4>3. (p + 1) + (n - 1) <= w /\ p + 1 <= w
        BY <1>6, <4>1, <4>2
      <4>4. Len(part'[i]) = p + 1 /\ Len(more'[i]) = n - 1
        BY <3>7, <3>8 DEF p, n
      <4> QED
        BY <4>3, <4>4 DEF w
    <3>11. First(i) + Len(part'[i]) = First(i) + Len(part[i]) + 1
      BY <1>2, <1>3, <3>7
    <3> QED
      BY <1>1, <3>1, <3>2, <3>5, <3>6, <3>7, <3>8, <3>9, <3>10, <3>11, TopUpStepKeeps
  <2>3. CASE more[i] = <<>>
    <3>1. part' = part /\ more' = more /\ job' = [job EXCEPT ![i] = "ok"]
      BY <1>10, <2>3 DEF AppendMore
    <3>2. job'[i] = "ok" /\ \A j \in Ids : j # i => job'[j] = job[j]
      BY <1>1, <1>2, <3>1 DEF Types
    <3>3. part' \in [Ids -> Seq(Nat)] /\ more' \in [Ids -> Seq(Nat)] /\ job' \in [Ids -> Jobbing]
      BY <1>1, <3>1 DEF Types, Jobbing
    <3> QED
      BY <1>1, <1>3, <3>1, <3>2, <3>3, TopUpStepKeeps
  <2> QED
    BY <2>2, <2>3
<1> QED
  BY <1>7, <1>8, <1>9, <1>10

LEMMA ToppedUpKeeps ==
  ASSUME FetchInv, ToppedUp
  PROVE  FetchInv'
<1>1. conns # 0 /\ Types
  BY DEF FetchInv, Located, ToppedUp
<1>2. /\ Jobs' = Jobs /\ \A j : First(j)' = First(j) /\ Width(j)' = Width(j)
      /\ Covered(0)' = Covered(0)
  BY SameRanges DEF ToppedUp
<1>3. UNCHANGED <<want, conns, start, size, tmp, part, more>> /\ job' = NoJobs
  BY DEF ToppedUp, args, dir
<1>4. \/ pc' = "idle" /\ UNCHANGED <<next, out>>
      \/ /\ pc' = "rejoin" /\ next' = 0 /\ out' = <<>>
         /\ \A i \in Jobs : Len(part[i]) = Width(i)
  BY DEF ToppedUp
<1>5. PartsGood'
  BY <1>2, <1>3 DEF FetchInv, PartsGood
<1>6. NoJobs \in [Ids -> Jobbing] /\ <<>> \in Seq(Nat)
  BY DEF NoJobs, Jobbing
<1>7. CASE pc' = "idle" /\ UNCHANGED <<next, out>>
  <2>1. Types' /\ Located'
    BY <1>1, <1>3, <1>6, <1>7 DEF FetchInv, Types, Located, Tools
  <2> QED
    BY <1>5, <1>7, <2>1 DEF FetchInv, Fetching, ToppingUp, Joining, OutIsMember
<1>8. CASE /\ pc' = "rejoin" /\ next' = 0 /\ out' = <<>>
           /\ \A i \in Jobs : Len(part[i]) = Width(i)
  <2>1. out' \in Seq(Nat)
    BY <1>6, <1>8
  <2>2. Types' /\ Located'
    BY <1>1, <1>3, <1>6, <1>8, <2>1 DEF FetchInv, Types, Located, Tools
  <2>3. Covered(0) = 0
    <3>1. conns \in Nat \ {0} /\ size \in Nat
      BY <1>1, FetchAssumption DEF Types
    <3>2. Chunk \in Nat
      BY <3>1, ChunkCovers DEF Chunk
    <3> QED
      BY <3>1, <3>2 DEF Covered, Least
  <2>4. out' = Bytes(start', Covered(next)')
    BY <1>2, <1>8, <2>3, BytesNone
  <2>5. \A i \in Jobs' : Len(part'[i]) = Width(i)'
    BY <1>2, <1>3, <1>8
  <2>6. next' <= conns'
    BY <1>1, <1>3, <1>8, FetchAssumption DEF Types
  <2>7. Joining'
    BY <2>4, <2>5, <2>6 DEF Joining
  <2> QED
    BY <1>5, <1>8, <2>2, <2>7 DEF FetchInv, Fetching, ToppingUp, OutIsMember
<1> QED
  BY <1>4, <1>7, <1>8

LEMMA StopKeeps ==
  ASSUME FetchInv, Stop
  PROVE  FetchInv'
<1>1. conns # 0 /\ Types
  BY DEF FetchInv, Located, Stop
<1>2. Jobs' = Jobs /\ \A j : First(j)' = First(j) /\ Width(j)' = Width(j)
  BY SameRanges DEF Stop
<1>3. UNCHANGED <<want, conns, start, size, tmp, more, next, out>> /\ pc' = "idle" /\ job' = NoJobs
  BY DEF Stop, args
<1>4. \A i \in Ids : part'[i] \in {part[i], <<>>}
  BY DEF Stop
<1>5. <<>> \in Seq(Nat) /\ NoJobs \in [Ids -> Jobbing]
  BY DEF NoJobs, Jobbing
<1>6. part' \in [Ids -> Seq(Nat)]
  <2>1. CASE part' = part
    BY <1>1, <2>1 DEF Types
  <2>2. CASE part' # part
    <3>1. PICK k \in Jobs : part' = [i \in Ids |-> IF i <= k THEN <<>> ELSE part[i]]
      BY <2>2 DEF Stop
    <3> QED
      BY <1>1, <1>5, <3>1 DEF Types
  <2> QED
    BY <2>1, <2>2
<1>7. Types' /\ Located'
  BY <1>1, <1>3, <1>5, <1>6 DEF FetchInv, Types, Located, Tools
<1>8. PartsGood'
  <2> SUFFICES ASSUME NEW i \in Jobs
               PROVE  Len(part'[i]) <= Width(i) /\ part'[i] = Bytes(First(i), Len(part'[i]))
    BY <1>2 DEF PartsGood
  <2>1. i \in Ids /\ Width(i) \in Nat \ {0}
    BY <1>1, Ranges
  <2>2. CASE part'[i] = part[i]
    BY <2>2 DEF FetchInv, PartsGood
  <2>3. CASE part'[i] = <<>>
    <3>1. Len(part'[i]) = 0
      BY <2>3
    <3> QED
      BY <2>1, <2>3, <3>1, BytesNone
  <2> QED
    BY <1>4, <2>1, <2>2, <2>3
<1> QED
  BY <1>3, <1>7, <1>8 DEF FetchInv, Fetching, ToppingUp, Joining, OutIsMember

LEMMA FetchStep == FetchInv /\ [Next]_vars => FetchInv'
<1> SUFFICES ASSUME FetchInv, [Next]_vars PROVE FetchInv'
  OBVIOUS
<1>1. CASE \E c \in 1 .. MaxConns : Get(c)
  BY <1>1, GetKeeps
<1>2. CASE \E i \in Jobs : Receive(i) \/ Received(i) \/ Drop(i)
  BY <1>2, ReceiveKeeps
<1>3. CASE \E i \in Jobs :
             TopUp(i) \/ ReceiveMore(i) \/ ReceivedMore(i) \/ DropMore(i) \/ AppendMore(i)
  BY <1>3, TopUpKeeps
<1>4. CASE Fetched \/ Join \/ Joined \/ Finish \/ ToppedUp \/ Stop
  BY <1>4, FetchedKeeps, JoinKeeps, JoinedKeeps, FinishKeeps, ToppedUpKeeps, StopKeeps
<1>5. CASE UNCHANGED vars
  <2>1. UNCHANGED <<want, conns, start, size, tmp, part, more, job, pc, next, out>>
    BY <1>5 DEF vars, args, dir
  <2>2. /\ Jobs' = Jobs
        /\ \A j : First(j)' = First(j) /\ Width(j)' = Width(j) /\ From(j)' = From(j)
        /\ \A n : Covered(n)' = Covered(n)
    BY <2>1, SameRanges DEF args, From, First, Chunk
  <2>3. Types' /\ Located' /\ OutIsMember'
    BY <2>1 DEF FetchInv, Types, Located, OutIsMember
  <2>4. PartsGood' /\ Fetching'
    BY <2>1, <2>2 DEF FetchInv, PartsGood, Fetching
  <2>5. ToppingUp' /\ Joining'
    BY <2>1, <2>2 DEF FetchInv, ToppingUp, Joining
  <2> QED
    BY <2>3, <2>4, <2>5 DEF FetchInv
<1> QED
  BY <1>1, <1>2, <1>3, <1>4, <1>5 DEF Next, Progress

-------------------------------------------------------------------------------
\* The theorems.

\* Whatever retries, expired signatures and stops there were, the file that is there when
\* zipget or zipfinish has ended is the member: all of its bytes, in order.
THEOREM MemberFetched == Spec => []OutIsMember
<1>1. FetchInv => OutIsMember
  BY DEF FetchInv
<1> QED
  BY <1>1, FetchInit, FetchStep, PTL DEF Spec

\* What is left of a part when its download is cut short is the beginning of its range:
\* zipfinish may go on where it ends.
THEOREM PartsAreGood == Spec => []PartsGood
<1>1. FetchInv => PartsGood
  BY DEF FetchInv
<1> QED
  BY <1>1, FetchInit, FetchStep, PTL DEF Spec

\* zipfinish leaves every part at least as long as it was.
THEOREM TopUpsLoseNothing == Spec => NothingLost
<1>1. FetchInv /\ [Next]_vars
        => (pc = "topup" => \A i \in Ids : Len(part'[i]) >= Len(part[i]))
  <2> SUFFICES ASSUME FetchInv, [Next]_vars, pc = "topup", NEW i \in Ids
               PROVE  Len(part'[i]) >= Len(part[i])
    OBVIOUS
  <2>1. part[i] \in Seq(Nat) /\ Len(part[i]) \in Nat /\ part \in [Ids -> Seq(Nat)]
        /\ more \in [Ids -> Seq(Nat)] /\ Jobs \subseteq Ids
    BY DEF FetchInv, Types, Jobs
  <2>2. CASE part' = part
    BY <2>1, <2>2
  <2>3. CASE part' # part
    <3>1. PICK j \in Jobs : AppendMore(j) /\ more[j] # <<>>
      BY <2>3
      DEF Next, Progress, vars, dir, Get, Receive, Received, Drop, Fetched, Join, Joined, Finish,
          TopUp, ReceiveMore, ReceivedMore, DropMore, AppendMore, ToppedUp, Stop
    <3>2. part' = [part EXCEPT ![j] = Append(@, Head(more[j]))]
      BY <3>1 DEF AppendMore
    <3>3. part'[i] = part[i] \/ part'[i] = Append(part[i], Head(more[i]))
      BY <2>1, <3>2
    <3>4. Len(Append(part[i], Head(more[i]))) = Len(part[i]) + 1
      BY <2>1
    <3> QED
      BY <2>1, <3>3, <3>4
  <2> QED
    BY <2>2, <2>3
<1> QED
  BY <1>1, FetchInit, FetchStep, PTL DEF Spec, NothingLost

-------------------------------------------------------------------------------
\* Whole megabytes.

LEMMA Division ==
  ASSUME NEW n \in Nat, NEW d \in Nat \ {0}
  PROVE  /\ n \div d \in Nat /\ n % d \in 0 .. d - 1
         /\ n = d * (n \div d) + (n % d)
OBVIOUS

LEMMA Quotient ==
  ASSUME NEW k \in Nat, NEW n \in Nat, NEW d \in Nat \ {0}
  PROVE  (k * d + n) \div d = k + n \div d
<1>1. n \div d \in Nat /\ n % d \in 0 .. d - 1 /\ n = d * (n \div d) + (n % d)
  BY Division
<1> DEFINE q == n \div d
           r == n % d
           m == k * d + n
           p == m \div d
           t == m % d
<1>2. m \in Nat /\ p \in Nat /\ t \in 0 .. d - 1 /\ m = d * p + t
  <2>1. m \in Nat
    OBVIOUS
  <2> QED
    BY <2>1, Division
<1>3. d * p + t = d * (k + q) + r
  BY <1>1, <1>2
<1> HIDE DEF q, r, m, p, t
<1>4. q \in Nat /\ r \in 0 .. d - 1 /\ p \in Nat /\ t \in 0 .. d - 1
  BY <1>1, <1>2 DEF q, r
<1>5. p = k + q
  <2>1. CASE p > k + q
    <3>1. d * p >= d * (k + q) + d
      BY <2>1, <1>4
    <3> QED
      BY <3>1, <1>3, <1>4
  <2>2. CASE p < k + q
    <3>1. d * (k + q) >= d * p + d
      BY <2>2, <1>4
    <3> QED
      BY <3>1, <1>3, <1>4
  <2> QED
    BY <2>1, <2>2, <1>4
<1> QED
  BY <1>5 DEF p, q, m

-------------------------------------------------------------------------------
\* The stick.

FlashSteps == {"idle", "decompress", "locate", "loop", "written", "verify", "done"}

FlashTypes ==
  /\ raw \in Nat \union {-1} /\ saved \in Nat /\ offset \in Nat
  /\ on \in [Sticks -> SUBSET Int]
  /\ plugged \subseteq Sticks /\ used \subseteq Sticks
  /\ step \in FlashSteps

\* Progress is counted in whole megabytes, to the end of the image; there is none as long
\* as the image is not there.
Counted ==
  /\ saved <= raw \/ saved = 0
  /\ saved = raw \/ \E k \in Nat : saved = k * MB
  /\ raw = -1 => step = "idle"
  /\ raw = -1 \/ step = "decompress" => saved = 0
  /\ step \in {"loop", "written", "verify"} => offset = saved
  /\ step = "written" => offset < raw
  /\ step = "verify" => saved = raw

\* What dd has left behind, on all the sticks together.
Written == UNION {on[s] : s \in used}

\* It holds what was counted, and the segment that will be counted next once dd has ended.
Held ==
  /\ Flash!Whole(saved) \subseteq Written
  /\ step = "written" => Flash!Whole(offset + Flash!SegBytes) \subseteq Written
  /\ step = "done" => Flash!Whole(raw) \subseteq Written

FlashInv == FlashTypes /\ Counted /\ Held

LEMMA FlashConstants ==
  /\ Image \in Nat \ {0} /\ MB \in Nat \ {0} /\ SEGMENT_MB \in Nat \ {0}
  /\ SEGMENT_MB * MB \in Nat \ {0}
<1>1. Image \in Nat \ {0} /\ MB \in Nat \ {0} /\ SEGMENT_MB \in Nat \ {0}
  BY DeliveryAssumption DEF Flash!FlashAssumption
<1> QED
  BY <1>1

LEMMA WholeNone == Flash!Whole(0) = {}
<1>1. 0 \div MB = 0
  BY FlashConstants
<1> QED
  BY <1>1, FlashConstants DEF Flash!Whole

LEMMA FlashInit == Flash!Init => FlashInv
<1> SUFFICES ASSUME Flash!Init PROVE FlashInv
  OBVIOUS
<1>1. FlashTypes
  BY DEF Flash!Init, FlashTypes, FlashSteps
<1>2. 0 = 0 * MB
  BY FlashConstants
<1>3. Counted
  BY <1>2 DEF Flash!Init, Counted
<1>4. Held
  BY WholeNone DEF Flash!Init, Held
<1> QED
  BY <1>1, <1>3, <1>4 DEF FlashInv

\* Where a segment begins and ends.
LEMMA Segment ==
  ASSUME FlashInv, step \in {"loop", "written"}, offset < raw
  PROVE  /\ Flash!SegBytes \in Nat \ {0}
         /\ offset + Flash!SegBytes <= raw
         /\ offset + Flash!SegBytes = raw \/ \E k \in Nat : offset + Flash!SegBytes = k * MB
         /\ Flash!Whole(offset) \intersect Flash!Dd = {}
         /\ Flash!Whole(offset + Flash!SegBytes) = Flash!Whole(offset) \union Flash!Dd
<1> DEFINE n == Flash!SegBytes
<1>1. offset \in Nat /\ raw \in Nat /\ offset = saved
  BY DEF FlashInv, FlashTypes, Counted
<1>2. PICK k \in Nat : offset = k * MB
  BY <1>1 DEF FlashInv, Counted
<1>3. n \in Nat \ {0} /\ offset + n <= raw
      /\ (offset + n = raw \/ n = SEGMENT_MB * MB)
  BY <1>1, FlashConstants DEF Flash!SegBytes
<1>4. n = SEGMENT_MB * MB => offset + n = (k + SEGMENT_MB) * MB /\ k + SEGMENT_MB \in Nat
  BY <1>2, FlashConstants
<1> HIDE DEF n
<1>5. offset \div MB = k
  <2>1. (k * MB + 0) \div MB = k + 0 \div MB
    BY Quotient, FlashConstants
  <2>2. 0 \div MB = 0
    BY FlashConstants
  <2> QED
    BY <1>1, <1>2, <2>1, <2>2
<1>6. (offset + n) \div MB = k + n \div MB /\ n \div MB \in Nat
  <2>0. n \in Nat /\ MB \in Nat \ {0}
    BY <1>3, FlashConstants
  <2>1. (k * MB + n) \div MB = k + n \div MB
    BY <2>0, Quotient
  <2>2. n \div MB \in Nat
    BY <1>3, Division, FlashConstants
  <2> QED
    BY <1>2, <2>1, <2>2
<1> DEFINE a == k * MB
           b == (n \div MB) * MB
<1>7. a \in Nat /\ b \in Nat /\ (k + n \div MB) * MB = a + b
  BY <1>6, FlashConstants
<1>8. Flash!Whole(offset) = 0 .. a - 1 /\ Flash!Whole(offset + n) = 0 .. a + b - 1
      /\ Flash!Dd = a .. a + b - 1
  BY <1>5, <1>6, <1>7 DEF Flash!Whole, Flash!Dd, n
<1> HIDE DEF a, b
<1>9. Flash!Whole(offset) \intersect Flash!Dd = {}
      /\ Flash!Whole(offset + n) = Flash!Whole(offset) \union Flash!Dd
  BY <1>7, <1>8
<1> QED
  BY <1>3, <1>4, <1>9 DEF n

\* dd writes a segment, or leaves part of it behind, or ruins it.
LEMMA DdKeeps ==
  ASSUME FlashInv, step = "loop", offset < raw, NEW t \in Sticks,
         used' = used \union {t}, UNCHANGED <<raw, offset, saved>>,
         plugged' \subseteq Sticks,
         step' \in {"loop", "idle", "written"},
         on' \in {[on EXCEPT ![t] = @ \union Flash!Dd], [on EXCEPT ![t] = @ \ Flash!Dd]},
         step' = "written" => on' = [on EXCEPT ![t] = @ \union Flash!Dd]
  PROVE  FlashInv'
<1>1. on \in [Sticks -> SUBSET Int] /\ Flash!Dd \subseteq Int
  <2>1. Flash!SegBytes \in Nat /\ offset \in Nat /\ MB \in Nat \ {0}
    BY Segment, FlashConstants DEF FlashInv, FlashTypes
  <2>2. (offset \div MB) \in Nat /\ (Flash!SegBytes \div MB) \in Nat
    BY <2>1, Division
  <2>3. (offset \div MB) * MB \in Nat /\ (Flash!SegBytes \div MB) * MB \in Nat
    BY <2>1, <2>2
  <2> QED
    BY <2>3 DEF FlashInv, FlashTypes, Flash!Dd
<1>2. FlashTypes'
  BY <1>1 DEF FlashInv, FlashTypes, FlashSteps
<1>3. Counted'
  BY DEF FlashInv, Counted, FlashTypes
<1>4. Held'
  <2>1. offset = saved /\ Flash!Whole(saved) \subseteq Written
    BY DEF FlashInv, Counted, Held
  <2>2. Flash!Whole(saved) \intersect Flash!Dd = {}
    BY <2>1, Segment
  <2>3. \A s \in used : on[s] \ Flash!Dd \subseteq on'[s]
    BY <1>1 DEF FlashInv, FlashTypes
  <2>4. Written \ Flash!Dd \subseteq Written'
    BY <2>3 DEF Written
  <2>5. Flash!Whole(saved) \subseteq Written'
    BY <2>1, <2>2, <2>4
  <2>6. step' = "written" => Flash!Whole(offset + Flash!SegBytes) \subseteq Written'
    <3> SUFFICES ASSUME step' = "written"
                 PROVE  Flash!Whole(offset + Flash!SegBytes) \subseteq Written'
      OBVIOUS
    <3>1. Flash!Dd \subseteq on'[t] /\ t \in used'
      BY <1>1
    <3>2. Flash!Dd \subseteq Written'
      BY <3>1 DEF Written
    <3> QED
      BY <2>1, <2>5, <3>2, Segment
  <2> QED
    BY <2>5, <2>6 DEF Held, Flash!Whole, Flash!SegBytes
<1> QED
  BY <1>2, <1>3, <1>4 DEF FlashInv

LEMMA FlashStep == FlashInv /\ (Flash!Next \/ UNCHANGED flashVars) => FlashInv'
<1> SUFFICES ASSUME FlashInv, Flash!Next \/ UNCHANGED flashVars PROVE FlashInv'
  OBVIOUS
<1> USE DEF Flash!files, Flash!media, Flash!bounds
<1>1. CASE UNCHANGED flashVars
  BY <1>1 DEF flashVars, FlashInv, FlashTypes, Counted, Held, Written, Flash!Whole, Flash!SegBytes
<1>2. CASE Flash!Start
  <2>1. FlashTypes' /\ Counted'
    BY <1>2 DEF Flash!Start, FlashInv, FlashTypes, FlashSteps, Counted
  <2>2. Held'
    <3>1. step' \in {"decompress", "locate"} /\ UNCHANGED <<saved, on, used>>
      BY <1>2 DEF Flash!Start
    <3>2. Flash!Whole(saved)' = Flash!Whole(saved) /\ Written' = Written
      BY <3>1 DEF Flash!Whole, Written
    <3> QED
      BY <3>1, <3>2 DEF FlashInv, Held
  <2> QED
    BY <2>1, <2>2 DEF FlashInv
<1>3. CASE Flash!Decompress
  <2>1. saved = 0 /\ saved' = 0 /\ 0 = 0 * MB
    BY <1>3, FlashConstants DEF Flash!Decompress, FlashInv, Counted
  <2>2. FlashTypes' /\ Counted'
    BY <1>3, <2>1, FlashConstants DEF Flash!Decompress, FlashInv, FlashTypes, FlashSteps, Counted
  <2>3. Held'
    BY <1>3, <2>1, WholeNone DEF Flash!Decompress, Held, Written, Flash!Whole
  <2> QED
    BY <2>2, <2>3 DEF FlashInv
<1>4. CASE Flash!Locate \/ Flash!GiveUp
  BY <1>4
  DEF Flash!Locate, Flash!GiveUp, FlashInv, FlashTypes, FlashSteps, Counted, Held, Written,
      Flash!Whole
<1>5. CASE Flash!Write
  <2>1. PICK t \in Flash!Found : on' = [on EXCEPT ![t] = @ \union Flash!Dd]
                                 /\ used' = used \union {t}
    BY <1>5 DEF Flash!Write
  <2>2. t \in Sticks
    BY DEF Flash!Found, FlashInv, FlashTypes
  <2> QED
    BY <1>5, <2>1, <2>2, DdKeeps DEF Flash!Write, FlashInv, FlashTypes
<1>6. CASE Flash!Record
  <2>1. offset = saved /\ saved' = offset' /\ UNCHANGED <<raw, on, used, plugged>>
        /\ offset' = offset + Flash!SegBytes /\ step' = "loop" /\ step = "written"
    BY <1>6 DEF Flash!Record, FlashInv, Counted
  <2>2. CASE offset < raw
    <3>1. offset' \in Nat /\ offset' <= raw /\ (offset' = raw \/ \E k \in Nat : offset' = k * MB)
      BY <2>1, <2>2, Segment DEF FlashInv, FlashTypes
    <3>2. FlashTypes' /\ Counted'
      BY <2>1, <2>2, <3>1 DEF FlashInv, FlashTypes, FlashSteps, Counted
    <3>3. Held'
      BY <2>1 DEF FlashInv, Held, Written, Flash!Whole
    <3> QED
      BY <3>2, <3>3 DEF FlashInv
  <2> QED
    BY <2>1, <2>2 DEF FlashInv, Counted
<1>7. CASE Flash!Finish
  BY <1>7
  DEF Flash!Finish, FlashInv, FlashTypes, FlashSteps, Counted, Held, Written, Flash!Whole
<1>8. CASE Flash!Verify
  <2>1. 0 = 0 * MB
    BY FlashConstants
  <2>2. FlashTypes' /\ Counted'
    BY <1>8, <2>1 DEF Flash!Verify, FlashInv, FlashTypes, FlashSteps, Counted
  <2>3. Held'
    BY <1>8, WholeNone DEF Flash!Verify, FlashInv, Counted, Held, Written, Flash!Whole
  <2> QED
    BY <2>2, <2>3 DEF FlashInv
<1>9. CASE Flash!Drop
  <2>1. PICK t \in Flash!Found : Flash!Torn(t) /\ plugged' = plugged \ {t}
    BY <1>9 DEF Flash!Drop
  <2>2. t \in Sticks /\ plugged' \subseteq Sticks
    BY <2>1 DEF Flash!Found, FlashInv, FlashTypes
  <2> QED
    BY <1>9, <2>1, <2>2, DdKeeps DEF Flash!Drop, Flash!Torn
<1>10. CASE Flash!Stop
  <2>1. /\ plugged' = plugged /\ plugged \subseteq Sticks /\ offset' = offset
        /\ step' = "idle" /\ step \notin {"idle", "done"}
    BY <1>10 DEF Flash!Stop, FlashInv, FlashTypes
  <2>2. CASE step = "loop" /\ ~ UNCHANGED <<on, used>>
    <3>1. PICK t \in Flash!Found : Flash!Torn(t) /\ offset < raw
      BY <1>10, <2>2 DEF Flash!Stop
    <3>2. t \in Sticks
      BY DEF Flash!Found, FlashInv, FlashTypes
    <3>3. raw' = raw /\ saved' = saved
      BY <1>10, <2>2 DEF Flash!Stop
    <3> QED
      BY <2>1, <2>2, <3>1, <3>2, <3>3, DdKeeps DEF Flash!Torn
  <2>3. CASE step = "decompress"
    <3>1. saved = 0 /\ saved' = 0 /\ raw' \in 0 .. Image /\ UNCHANGED <<on, used>>
      BY <1>10, <2>3 DEF Flash!Stop, FlashInv, Counted
    <3>2. 0 = 0 * MB
      BY FlashConstants
    <3>3. FlashTypes' /\ Counted'
      BY <2>1, <3>1, <3>2, FlashConstants DEF FlashInv, FlashTypes, FlashSteps, Counted
    <3>4. Held'
      BY <2>1, <3>1, WholeNone DEF Held, Written, Flash!Whole
    <3> QED
      BY <3>3, <3>4 DEF FlashInv
  <2>4. CASE step # "decompress" /\ UNCHANGED <<on, used>>
    <3>1. raw' = raw /\ saved' \in {saved, 0}
      BY <1>10, <2>4 DEF Flash!Stop
    <3>2. 0 = 0 * MB
      BY FlashConstants
    <3>3. FlashTypes' /\ Counted'
      BY <2>1, <2>4, <3>1, <3>2 DEF FlashInv, FlashTypes, FlashSteps, Counted
    <3>4. Held'
      BY <2>1, <2>4, <3>1, WholeNone DEF FlashInv, Held, Written, Flash!Whole
    <3> QED
      BY <3>3, <3>4 DEF FlashInv
  <2> QED
    BY <1>10, <2>2, <2>3, <2>4 DEF Flash!Stop
<1>11. CASE \E s \in Sticks : Flash!Plug(s) \/ Flash!Pull(s)
  BY <1>11
  DEF Flash!Plug, Flash!Pull, FlashInv, FlashTypes, Counted, Held, Written, Flash!Whole,
      Flash!SegBytes
<1> QED
  BY <1>1, <1>2, <1>3, <1>4, <1>5, <1>6, <1>7, <1>8, <1>9, <1>10, <1>11
  DEF Flash!Next, Flash!Script

-------------------------------------------------------------------------------
\* The LAN.

Length == Archive[TheImage].comp

LEMMA LengthNat == Length \in Nat
<1>1. Archive[TheImage] \in Members
  BY FetchAssumption, DeliveryAssumption
<1> QED
  BY <1>1 DEF Length, Members

\* The copy is the beginning of the image, and the server goes on where it ends.
LanInv ==
  \E n \in 0 .. Length :
    /\ copy = Bytes(0, n)
    /\ client = "done" => n = Length
    /\ client \in {"asking", "getting"} => resumed \in 0 .. n
    /\ client = "getting" => position = n /\ left = Length - n

LEMMA LanInit == Lan!Init => LanInv
<1> SUFFICES ASSUME Lan!Init PROVE LanInv
  OBVIOUS
<1>1. copy = Bytes(0, 0)
  BY BytesNone DEF Lan!Init
<1> QED
  BY <1>1, LengthNat DEF Lan!Init, LanInv

LEMMA LanStep == LanInv /\ (Lan!Next \/ UNCHANGED lanVars) => LanInv'
<1> SUFFICES ASSUME LanInv, Lan!Next \/ UNCHANGED lanVars PROVE LanInv'
  OBVIOUS
<1>1. PICK n \in 0 .. Length :
        /\ copy = Bytes(0, n)
        /\ client = "done" => n = Length
        /\ client \in {"asking", "getting"} => resumed \in 0 .. n
        /\ client = "getting" => position = n /\ left = Length - n
  BY DEF LanInv
<1>2. Length \in Nat /\ n \in Nat /\ Len(copy) = n
  BY <1>1, LengthNat, BytesSeq
<1>3. CASE UNCHANGED lanVars
  BY <1>1, <1>3 DEF lanVars, LanInv
<1>4. CASE Lan!Run
  BY <1>1, <1>2, <1>4 DEF Lan!Run, LanInv
<1>5. CASE Lan!Answer
  BY <1>1, <1>2, <1>5 DEF Lan!Answer, LanInv, Length
<1>6. CASE Lan!Send
  <2>1. CASE left = 0
    BY <1>1, <1>2, <1>6, <2>1 DEF Lan!Send, LanInv
  <2>2. CASE left # 0
    <3>1. n + 1 \in 0 .. Length /\ client' = "getting" /\ resumed' \in 0 .. n + 1
          /\ position' = n + 1 /\ left' = Length - (n + 1)
      BY <1>1, <1>2, <1>6, <2>2 DEF Lan!Send
    <3>2. copy' = Bytes(0, n + 1)
      <4>1. Append(Bytes(0, n), 0 + n) = Bytes(0, n + 1)
        BY <1>2, BytesAppend
      <4>2. 0 + n = n /\ copy' = Append(copy, n)
        BY <1>1, <1>2, <1>6, <2>2 DEF Lan!Send
      <4> QED
        BY <1>1, <4>1, <4>2
    <3> QED
      BY <3>1, <3>2 DEF LanInv
  <2> QED
    BY <2>1, <2>2
<1>7. CASE Lan!Cut
  <2>1. CASE copy' = copy
    BY <1>1, <1>2, <1>7, <2>1 DEF Lan!Cut, LanInv
  <2>2. CASE copy' = SubSeq(copy, 1, resumed)
    <3>1. client' = "asking" \/ copy' = copy
      BY <1>7 DEF Lan!Cut
    <3>2. resumed' = resumed /\ resumed \in 0 .. n
      BY <1>1, <1>7 DEF Lan!Cut
    <3>3. SubSeq(Bytes(0, n), 1, resumed) = Bytes(0, resumed)
      BY <1>2, <3>2 DEF Bytes
    <3>4. resumed \in 0 .. Length
      BY <1>2, <3>2
    <3> QED
      BY <1>1, <2>1, <2>2, <3>1, <3>2, <3>3, <3>4 DEF LanInv
  <2> QED
    BY <1>7, <2>1, <2>2 DEF Lan!Cut
<1> QED
  BY <1>3, <1>4, <1>5, <1>6, <1>7 DEF Lan!Next

-------------------------------------------------------------------------------
\* All of it.

DeliveryInv == FetchInv /\ FlashInv /\ LanInv

LEMMA DeliveryStarts == DeliveryInit => DeliveryInv
BY FetchInit, FlashInit, LanInit DEF DeliveryInit, DeliveryInv

LEMMA DeliveryStep == DeliveryInv /\ [DeliveryNext]_all => DeliveryInv'
<1> SUFFICES ASSUME DeliveryInv, [DeliveryNext]_all PROVE DeliveryInv'
  OBVIOUS
<1>1. [Next]_vars
  BY DEF DeliveryNext, ToStick, ToLan, all
<1>2. Flash!Next \/ UNCHANGED flashVars
  BY DEF DeliveryNext, ToStick, ToLan, all
<1>3. Lan!Next \/ UNCHANGED lanVars
  BY DEF DeliveryNext, ToStick, ToLan, all
<1> QED
  BY <1>1, <1>2, <1>3, FetchStep, FlashStep, LanStep DEF DeliveryInv

\* zipget and zipfinish, with what comes after them: their output is the member.
THEOREM FetchedIsMember == DeliverySpec => []OutIsMember
<1>1. DeliveryInv => OutIsMember
  BY DEF DeliveryInv, FetchInv
<1> QED
  BY <1>1, DeliveryStarts, DeliveryStep, PTL DEF DeliverySpec

\* flash-resume.sh: whatever the progress file counts is written, and all whole megabytes of
\* RAW are when the script is done, for every size of the image, the megabyte and the
\* segment, any sticks, and however often one drops off and the script is stopped.
THEOREM CountedIsWritten == DeliverySpec => []MegabytesWritten
<1>1. DeliveryInv => MegabytesWritten
  BY DEF DeliveryInv, FlashInv, Held, Written, MegabytesWritten, Flash!NeverAhead
<1> QED
  BY <1>1, DeliveryStarts, DeliveryStep, PTL DEF DeliverySpec

\* lanserve.py: whatever was cut, and wherever curl goes on, the client ends with the image.
THEOREM LanIsImage == DeliverySpec => []LanCopyIsImage
<1>1. DeliveryInv => LanCopyIsImage
  BY DEF DeliveryInv, LanInv, Bytes, LanCopyIsImage, Lan!CopyIsImage, Length
<1> QED
  BY <1>1, DeliveryStarts, DeliveryStep, PTL DEF DeliverySpec
===============================================================================
