------------------------ MODULE LinearizabilityProofs ------------------------
(***************************************************************************)
(* What clients observe of Durability while view 0 lasts, proved for every *)
(* set of replicas and clients, every trace and network behaviour, when    *)
(* clients do not retransmit updates: RealTimeOrder, ReadsLatest and       *)
(* PendingUpdateSyncs.                                                     *)
(*                                                                         *)
(* The leader has one order of requests: its consensus log, the queue of   *)
(* the background replication and the update that its server is about to   *)
(* queue.  Each request enters it once and keeps its place, although three *)
(* handlers move it along.  LinInv relates to this order                   *)
(*  - the durability log and its index: they hold the updates of the order *)
(*    that are not executed, and the last one of each key (PendingInv);    *)
(*  - the store: the last update of each key among those executed or just  *)
(*    applied (StoreInv);                                                  *)
(*  - what is under way and what clients know: an answer tells of what is  *)
(*    in the order, or in the store (MessagesInv, ServerInv, ClientsInv).  *)
(* So what a read must not miss, which was answered before the read was    *)
(* sent, is in the order when the server looks.  If the last update of the *)
(* key is pending, the read is forwarded, and is decided only when the     *)
(* queue, and with it what the read must follow, is in the log.  Otherwise *)
(* the store has that update already, and keeps it or gets newer ones      *)
(* while the server still holds the read.                                  *)
(***************************************************************************)
EXTENDS DurabilityProofs

\* The update that the leader's server has yet to queue, and what it has queued.
Queuing ==
    IF server[Leader] # <<>> /\ IsNilext(server[Leader][1].req)
    THEN <<server[Leader][1].req>> ELSE <<>>

Queue == app[Leader].queue

\* The consensus replica of the leader has q, or will find it in its queue.
Queued(q) == Contains(decided, q) \/ Contains(Queue, q)

\* The operations of the log that the leader's store has seen.
Seen == executed[Leader] + IF applied[Leader] THEN 1 ELSE 0

Stored(v) == \E k \in 1 .. Seen : decided[k] = v

LastUpdate(k) == app[Leader].lastUpdateToKey[k]

StoredAt(k) == app[Leader].store[k]

\* What an answer to q with value v tells that the leader has done.
Vouched(q, v) ==
    /\ IsNilext(q) => Contains(LeaderOrder, q)
    /\ q.op = "write" => Stored(q)
    /\ q.op = "read" /\ v # NotFound => Stored(v) /\ v.key = q.key

\* The update that completed request e tells of: itself, or what it has read.
Tells(e) == IF e.req.op = "read" THEN e.value ELSE e.req

\* The updates of its key that read q must not miss.
Owed(q) ==
    {Tells(e) : e \in {x \in done : <<x.req, q>> \in precedes /\ x.req.key = q.key}} \ {NotFound}

\* Value v is not older than any of them.
UpToDate(q, v) ==
    \A u \in Owed(q) : v # NotFound /\ (v = u \/ InOrder(LeaderOrder, u, v))

\* Updates completed before q was sent.
CompletedBefore(q) == {p \in Updates : <<p, q>> \in precedes}

-------------------------------------------------------------------------------
(* The invariant                                                           *)

\* Its client waits for an answer of the leader to q.
Awaited(q) ==
    LET c == q.client[1]
    IN  client[c].pending /\ ~client[c].leaderAcked /\ q.id = client[c].id

\* Only the leader's server gets reads, nobody's writes; an update is new to it.
SoundRequest(m) ==
    /\ m.req.op # "write"
    /\ ~IsNilext(m.req) => m.to = Leader
    /\ IsNilext(m.req) /\ m.to = Leader => Awaited(m.req) /\ ~Contains(LeaderOrder, m.req)

\* A read that is forwarded is older than an update of its client yet to be queued,
\* and everything it must follow is in the queue.
SoundForward(m) ==
    /\ \A k \in 1 .. Len(Queuing) :
           m.req.client = Queuing[k].client => m.req.id < Queuing[k].id
    /\ m.req.op = "read" => \A u \in Owed(m.req) \cup CompletedBefore(m.req) : Queued(u)

SoundReply(m) ==
    /\ ~IsNilext(m.req) => m.from = Leader
    /\ m.from = Leader => Vouched(m.req, m.value)
    /\ m.req.op = "read" => UpToDate(m.req, m.value)

Sound(m) ==
    /\ Known(m.req)
    /\ m.type = "Request" => SoundRequest(m)
    /\ m.type \in {"ConsensusRequest", "ConsensusReply"} => ~IsNilext(m.req)
    /\ m.type = "ConsensusRequest" => SoundForward(m)
    /\ m.type = "Reply" => SoundReply(m)

MessagesInv == \A m \in msgs : Sound(m)

\* A read is held only if the store has what it must not miss.
ServerInv ==
    /\ \A r \in Replicas : server[r] # <<>> => r = Leader
    /\ server[Leader] # <<>> =>
           LET m == server[Leader][1]
           IN  /\ m.type = "Request" /\ Known(m.req) /\ m.req.op # "write"
               /\ m.req.op = "read" => \A u \in Owed(m.req) : Stored(u)

\* The leader orders each client's requests once and as they were sent.
OrderInv ==
    /\ \A p, q : InOrder(LeaderOrder, p, q) /\ p.client = q.client => p.id < q.id
    /\ \A q : Contains(LeaderOrder, q) => Known(q)
    /\ \A q : Contains(Queue, q) => IsNilext(q)

\* The leader's durability log is what it has ordered and not executed of the
\* updates, and its index names the last one of each key.
PendingInv ==
    /\ \A q \in Updates : Has(Leader, q) => Contains(LeaderOrder, q)
    /\ \A q : Contains(LeaderOrder, q) /\ IsNilext(q) =>
           /\ ExecutedAt(Leader, q) \/ Has(Leader, q)
           /\ q = LastUpdate(q.key) \/ InOrder(LeaderOrder, q, LastUpdate(q.key))
    /\ \A k \in Keys : LastUpdate(k) # NotFound => IsNilext(LastUpdate(k))

\* The store has of each key the last update the leader has executed or applied.
StoreInv ==
    /\ \A k \in 1 .. Seen : decided[k].op # "read" =>
           \E j \in k .. Seen : decided[j] = StoredAt(decided[k].key)
    /\ \A k \in Keys : StoredAt(k) # NotFound => Stored(StoredAt(k)) /\ StoredAt(k).key = k

\* What an ordered read must not miss is ordered before it.
ReadsInv ==
    \A k \in 1 .. Len(decided) : decided[k].op = "read" =>
        \A u \in Owed(decided[k]) : \E j \in 1 .. k - 1 : decided[j] = u

\* What clients know is true of the leader; what they completed is not pending, and
\* not ordered after what was sent later.
ClientsInv ==
    /\ \A c \in Clients :
           client[c].pending /\ IsNilext(Current(c)) /\ client[c].leaderAcked
               => Contains(LeaderOrder, Current(c))
    /\ \A d \in done :
           /\ Vouched(d.req, d.value)
           /\ d.req.op = "read" => UpToDate(d.req, d.value)
           /\ d.req.id = client[d.req.client[1]].id => ~client[d.req.client[1]].pending
    /\ \A pair \in precedes :
           /\ \E d \in done : d.req = pair[1]
           /\ pair[1].op # "read" /\ pair[2].op # "write" => ~InOrder(LeaderOrder, pair[2], pair[1])

LinInv ==
    MessagesInv /\ ServerInv /\ OrderInv /\ PendingInv /\ StoreInv /\ ReadsInv /\ ClientsInv


-------------------------------------------------------------------------------
(* Sequences put together                                                  *)

(* The elements of three sequences in a row, and their places.              *)
LEMMA ChainFacts ==
  ASSUME NEW S, NEW a \in Seq(S), NEW b \in Seq(S), NEW c \in Seq(S)
  PROVE  /\ a \o b \o c \in Seq(S)
         /\ Len(a \o b \o c) = Len(a) + Len(b) + Len(c)
         /\ \A i \in 1 .. Len(a \o b \o c) :
                (a \o b \o c)[i] = IF i <= Len(a) THEN a[i]
                                   ELSE IF i <= Len(a) + Len(b) THEN b[i - Len(a)]
                                   ELSE c[i - (Len(a) + Len(b))]
<1>0. /\ a \o b \in Seq(S) /\ Len(a \o b) = Len(a) + Len(b)
      /\ \A i \in 1 .. Len(a) + Len(b) : (a \o b)[i] = IF i <= Len(a) THEN a[i] ELSE b[i - Len(a)]
  BY ConcatProperties
<1>1. PICK s \in Seq(S) :
          /\ s = a \o b /\ Len(s) = Len(a) + Len(b)
          /\ \A i \in 1 .. Len(a) + Len(b) : s[i] = IF i <= Len(a) THEN a[i] ELSE b[i - Len(a)]
  BY <1>0
<1> DEFINE t == s \o c
<1>2. /\ t \in Seq(S) /\ Len(t) = Len(s) + Len(c)
      /\ \A i \in 1 .. Len(s) + Len(c) : t[i] = IF i <= Len(s) THEN s[i] ELSE c[i - Len(s)]
  BY <1>1, ConcatProperties
<1>3. Len(a) \in Nat /\ Len(b) \in Nat /\ Len(c) \in Nat
  OBVIOUS
<1> HIDE DEF t
<1>4. \A i \in 1 .. Len(t) :
          t[i] = IF i <= Len(a) THEN a[i]
                 ELSE IF i <= Len(a) + Len(b) THEN b[i - Len(a)]
                 ELSE c[i - (Len(a) + Len(b))]
  BY <1>1, <1>2, <1>3
<1>5. t = a \o b \o c
  BY <1>1 DEF t
<1> QED  BY <1>1, <1>2, <1>4, <1>5

(* ... none other is in it, and one of a part is before one of a later part. *)
LEMMA ChainHas ==
  ASSUME NEW S, NEW a \in Seq(S), NEW b \in Seq(S), NEW c \in Seq(S)
  PROVE  /\ \A x : Contains(a \o b \o c, x) <=> Contains(a, x) \/ Contains(b, x) \/ Contains(c, x)
         /\ \A x, y : Contains(a, x) /\ (Contains(b, y) \/ Contains(c, y)) => InOrder(a \o b \o c, x, y)
         /\ \A i \in 1 .. Len(a) : i \in 1 .. Len(a \o b \o c) /\ (a \o b \o c)[i] = a[i]
<1> DEFINE t == a \o b \o c
           A == Len(a)
           B == Len(b)
           C == Len(c)
<1>1. A \in Nat /\ B \in Nat /\ C \in Nat
  OBVIOUS
<1>2. /\ Len(t) = A + B + C
      /\ \A i \in 1 .. Len(t) :
             t[i] = IF i <= A THEN a[i] ELSE IF i <= A + B THEN b[i - A] ELSE c[i - (A + B)]
  BY ChainFacts
<1> HIDE DEF t, A, B, C
<1>3. \A i \in 1 .. A : i \in 1 .. Len(t) /\ t[i] = a[i]
  BY <1>1, <1>2
<1>4. \A i \in 1 .. B : A + i \in 1 .. Len(t) /\ A + i > A /\ t[A + i] = b[i]
  BY <1>1, <1>2
<1>5. \A i \in 1 .. C : A + B + i \in 1 .. Len(t) /\ A + B + i > A /\ t[A + B + i] = c[i]
  BY <1>1, <1>2
<1>6. ASSUME NEW i \in 1 .. Len(t)
      PROVE  Contains(a, t[i]) \/ Contains(b, t[i]) \/ Contains(c, t[i])
  <2>1. CASE i <= A
    <3>1. i \in 1 .. A /\ t[i] = a[i]
      BY <1>1, <1>2, <2>1
    <3> QED  BY <3>1 DEF Contains, A
  <2>2. CASE ~(i <= A) /\ i <= A + B
    <3>1. i - A \in 1 .. B /\ t[i] = b[i - A]
      BY <1>1, <1>2, <2>2
    <3> QED  BY <3>1 DEF Contains, B
  <2>3. CASE ~(i <= A) /\ ~(i <= A + B)
    <3>1. i - (A + B) \in 1 .. C /\ t[i] = c[i - (A + B)]
      BY <1>1, <1>2, <2>3
    <3> QED  BY <3>1 DEF Contains, C
  <2> QED  BY <2>1, <2>2, <2>3
<1>7. ASSUME NEW x
      PROVE  Contains(t, x) <=> Contains(a, x) \/ Contains(b, x) \/ Contains(c, x)
  <2>1. ASSUME Contains(t, x) PROVE Contains(a, x) \/ Contains(b, x) \/ Contains(c, x)
    <3>1. PICK i \in 1 .. Len(t) : t[i] = x
      BY <2>1 DEF Contains
    <3> QED  BY <1>6, <3>1
  <2>2. Contains(a, x) => Contains(t, x)
    BY <1>3 DEF Contains, A
  <2>3. Contains(b, x) => Contains(t, x)
    BY <1>4 DEF Contains, B
  <2>4. Contains(c, x) => Contains(t, x)
    BY <1>5 DEF Contains, C
  <2> QED  BY <2>1, <2>2, <2>3, <2>4
<1>8. ASSUME NEW x, NEW y, Contains(a, x), Contains(b, y) \/ Contains(c, y)
      PROVE  InOrder(t, x, y)
  <2>1. PICK i \in 1 .. A : a[i] = x
    BY <1>8 DEF Contains, A
  <2>2. PICK j \in 1 .. Len(t) : j > A /\ t[j] = y
    BY <1>4, <1>5, <1>8 DEF Contains, B, C
  <2>3. i \in 1 .. Len(t) /\ t[i] = x /\ i < j
    BY <1>1, <1>3, <2>1, <2>2
  <2> QED  BY <2>2, <2>3 DEF InOrder
<1> QED  BY <1>3, <1>7, <1>8 DEF t, A

\* t is s with q after position k.
Inserted(t, s, k, q) ==
    /\ Len(t) = Len(s) + 1
    /\ \A i \in 1 .. Len(t) : t[i] = IF i <= k THEN s[i] ELSE IF i = k + 1 THEN q ELSE s[i - 1]

(* Inserting keeps what was there in its order.                             *)
LEMMA InsertedFacts ==
  ASSUME NEW S, NEW s \in Seq(S), NEW t \in Seq(S), NEW k \in 0 .. Len(s), NEW q,
         Inserted(t, s, k, q)
  PROVE  /\ \A x : Contains(t, x) <=> Contains(s, x) \/ x = q
         /\ \A x, y : InOrder(s, x, y) => InOrder(t, x, y)
         /\ \A i \in 1 .. k : InOrder(t, s[i], q)
         /\ \A x, y : InOrder(t, x, y) => \/ InOrder(s, x, y)
                                          \/ x = q /\ \E i \in k + 1 .. Len(s) : s[i] = y
                                          \/ y = q /\ \E i \in 1 .. k : s[i] = x
<1> DEFINE To(i) == IF i <= k THEN i ELSE i + 1
           From(i) == IF i <= k THEN i ELSE i - 1
<1>1. Len(s) \in Nat /\ k \in Nat /\ k <= Len(s) /\ Len(t) = Len(s) + 1
  BY DEF Inserted
<1>2. \A i \in 1 .. Len(s) : To(i) \in 1 .. Len(t) /\ t[To(i)] = s[i]
  BY <1>1 DEF Inserted
<1>3. \A i, j \in 1 .. Len(s) : i < j => To(i) < To(j)
  BY <1>1
<1>4. k + 1 \in 1 .. Len(t) /\ t[k + 1] = q
  BY <1>1 DEF Inserted
<1>5. \A i \in 1 .. Len(t) : i # k + 1 => From(i) \in 1 .. Len(s) /\ t[i] = s[From(i)]
  BY <1>1 DEF Inserted
<1>6. \A i, j \in 1 .. Len(t) : i # k + 1 /\ j # k + 1 /\ i < j => From(i) < From(j)
  BY <1>1
<1>7. /\ \A i \in 1 .. Len(t) : i < k + 1 => From(i) \in 1 .. k
      /\ \A i \in 1 .. Len(t) : i > k + 1 => From(i) \in k + 1 .. Len(s)
      /\ \A i \in 1 .. k : To(i) < k + 1 /\ i \in 1 .. Len(s)
  BY <1>1
<1> HIDE DEF To, From
<1>8. \A x : Contains(t, x) <=> Contains(s, x) \/ x = q
  BY <1>2, <1>4, <1>5 DEF Contains
<1>9. \A x, y : InOrder(s, x, y) => InOrder(t, x, y)
  BY <1>2, <1>3 DEF InOrder
<1>10. ASSUME NEW i \in 1 .. k PROVE InOrder(t, s[i], q)
  BY <1>2, <1>4, <1>7 DEF InOrder
<1>11. ASSUME NEW x, NEW y, InOrder(t, x, y)
       PROVE  \/ InOrder(s, x, y)
              \/ x = q /\ \E i \in k + 1 .. Len(s) : s[i] = y
              \/ y = q /\ \E i \in 1 .. k : s[i] = x
  <2>1. PICK i, j \in 1 .. Len(t) : i < j /\ t[i] = x /\ t[j] = y
    BY <1>11 DEF InOrder
  <2>2. CASE i = k + 1
    <3>1. j > k + 1 /\ j # k + 1
      BY <1>1, <2>1, <2>2
    <3>2. From(j) \in k + 1 .. Len(s) /\ s[From(j)] = y
      BY <1>5, <1>7, <2>1, <3>1
    <3> QED  BY <1>4, <2>1, <2>2, <3>2
  <2>3. CASE j = k + 1
    <3>1. i < k + 1 /\ i # k + 1
      BY <1>1, <2>1, <2>3
    <3>2. From(i) \in 1 .. k /\ s[From(i)] = x
      BY <1>5, <1>7, <2>1, <3>1
    <3> QED  BY <1>4, <2>1, <2>3, <3>2
  <2>4. CASE i # k + 1 /\ j # k + 1
    BY <1>5, <1>6, <2>1, <2>4 DEF InOrder
  <2> QED  BY <2>2, <2>3, <2>4
<1> QED  BY <1>8, <1>9, <1>10, <1>11

(* The ways in which the leader's order grows: a new last element, or one    *)
(* after the first part.                                                    *)
LEMMA AppendIsInserted ==
  ASSUME NEW S, NEW s \in Seq(S), NEW q \in S
  PROVE  Append(s, q) \in Seq(S) /\ Inserted(Append(s, q), s, Len(s), q)
BY DEF Inserted

LEMMA ChainInserted ==
  ASSUME NEW S, NEW a \in Seq(S), NEW c \in Seq(S), NEW q \in S
  PROVE  Inserted(Append(a, q) \o <<>> \o c, a \o <<>> \o c, Len(a), q)
<1> DEFINE s == a \o <<>> \o c
           d == Append(a, q)
           t == d \o <<>> \o c
           A == Len(a)
<1>1. A \in Nat /\ Len(c) \in Nat /\ <<>> \in Seq(S) /\ Len(<<>>) = 0
  OBVIOUS
<1>2. /\ d \in Seq(S) /\ Len(d) = A + 1 /\ d[A + 1] = q
      /\ \A i \in 1 .. A : d[i] = a[i]
  OBVIOUS
<1>7. PICK e \in Seq(S) : e = d
  BY <1>2
<1> HIDE DEF d
<1>3. /\ Len(s) = A + Len(c)
      /\ \A i \in 1 .. Len(s) : s[i] = IF i <= A THEN a[i] ELSE c[i - A]
  <2>1. /\ Len(s) = A + Len(<<>>) + Len(c)
        /\ \A i \in 1 .. Len(s) : s[i] = IF i <= A THEN a[i] ELSE IF i <= A + Len(<<>>) THEN <<>>[i - A]
                                         ELSE c[i - (A + Len(<<>>))]
    BY <1>1, ChainFacts
  <2> HIDE DEF s
  <2> QED  BY <1>1, <2>1
<1>4. /\ Len(t) = A + 1 + Len(c)
      /\ \A i \in 1 .. Len(t) : t[i] = IF i <= A + 1 THEN d[i] ELSE c[i - (A + 1)]
  <2> DEFINE u == e \o <<>> \o c
  <2>1. /\ Len(u) = Len(e) + Len(<<>>) + Len(c)
        /\ \A i \in 1 .. Len(u) : u[i] = IF i <= Len(e) THEN e[i]
                                         ELSE IF i <= Len(e) + Len(<<>>) THEN <<>>[i - Len(e)]
                                         ELSE c[i - (Len(e) + Len(<<>>))]
    BY <1>1, ChainFacts
  <2>2. t = u
    BY <1>7
  <2>3. Len(e) = A + 1 /\ Len(<<>>) = 0
    BY <1>2, <1>7
  <2> HIDE DEF t, u, A
  <2>4. /\ Len(u) = A + 1 + Len(c)
        /\ \A i \in 1 .. Len(u) : u[i] = IF i <= A + 1 THEN e[i] ELSE c[i - (A + 1)]
    BY <1>1, <2>1, <2>3
  <2> QED  BY <1>7, <2>2, <2>4
<1> HIDE DEF s, t
<1>5. Len(t) = Len(s) + 1
  BY <1>1, <1>3, <1>4
<1>6. ASSUME NEW i \in 1 .. Len(t)
      PROVE  t[i] = IF i <= A THEN s[i] ELSE IF i = A + 1 THEN q ELSE s[i - 1]
  <2>1. CASE i <= A
    BY <1>1, <1>2, <1>3, <1>4, <2>1
  <2>2. CASE i = A + 1
    BY <1>1, <1>2, <1>4, <2>2
  <2>3. CASE ~(i <= A) /\ i # A + 1
    <3>1. /\ i - 1 \in 1 .. Len(s) /\ ~(i - 1 <= A) /\ ~(i <= A + 1)
          /\ (i - 1) - A = i - (A + 1)
      BY <1>1, <1>3, <1>4, <2>3
    <3> QED  BY <1>3, <1>4, <2>3, <3>1
  <2> QED  BY <2>1, <2>2, <2>3
<1> QED  BY <1>5, <1>6 DEF Inserted, s, t, d

(* Moving the head of the second part to the end of the first, or the third  *)
(* to the second, changes nothing.                                          *)
LEMMA ChainMoved ==
  ASSUME NEW S, NEW a \in Seq(S), NEW b \in Seq(S), NEW c \in Seq(S), NEW q \in S
  PROVE  /\ b # <<>> => Append(a, Head(b)) \o Tail(b) \o c = a \o b \o c
         /\ a \o Append(b, q) \o <<>> = a \o b \o <<q>>
         /\ a \o b \o <<q>> = Append(a \o b \o <<>>, q)
<1>1. ASSUME b # <<>> PROVE Append(a, Head(b)) \o Tail(b) \o c = a \o b \o c
  <2>1. Head(b) \in S /\ Tail(b) \in Seq(S) /\ b = <<Head(b)>> \o Tail(b)
    BY <1>1, HeadTailProperties
  <2>2. <<Head(b)>> \in Seq(S)
    BY <2>1
  <2>3. Append(a, Head(b)) = a \o <<Head(b)>>
    BY <2>1, AppendIsConcat
  <2>4. (a \o <<Head(b)>>) \o Tail(b) = a \o (<<Head(b)>> \o Tail(b))
    BY <2>1, <2>2, ConcatAssociative
  <2> QED  BY <2>1, <2>3, <2>4
<1>2. <<q>> \in Seq(S) /\ a \o b \in Seq(S) /\ <<>> \in Seq(S)
  BY ConcatProperties
<1>3. Append(b, q) = b \o <<q>> /\ b \o <<q>> \in Seq(S)
  BY <1>2, AppendIsConcat, ConcatProperties
<1>4. a \o (b \o <<q>>) = (a \o b) \o <<q>>
  BY <1>2, ConcatAssociative
<1>5. (a \o b) \o <<q>> \in Seq(S)
  BY <1>2, ConcatProperties
<1>6. ((a \o b) \o <<q>>) \o <<>> = (a \o b) \o <<q>>
  BY <1>5, ConcatEmptySeq
<1>7. (a \o b) \o <<>> = a \o b
  BY <1>2, ConcatEmptySeq
<1>8. Append(a \o b, q) = (a \o b) \o <<q>>
  BY <1>2, AppendIsConcat
<1> QED  BY <1>1, <1>3, <1>4, <1>6, <1>7, <1>8

-------------------------------------------------------------------------------
(* What the invariants say of a state                                      *)

(* The parts of the leader's order.                                         *)
LEMMA OrderParts ==
  TypeOK =>
    /\ decided \in Seq(Requests) /\ Queue \in Seq(Requests) /\ Queuing \in Seq(Requests)
    /\ \A k \in 1 .. Len(Queuing) : Queuing[k] \in Updates /\ IsNilext(Queuing[k])
    /\ LeaderOrder = decided \o Queue \o Queuing
    /\ LeaderOrder \in Seq(Requests)
    /\ \A x : Contains(LeaderOrder, x) <=> Queued(x) \/ Contains(Queuing, x)
    /\ \A x : Contains(LeaderOrder, x) => x \in Requests
    /\ \A x, y : InOrder(LeaderOrder, x, y) => Contains(LeaderOrder, x) /\ Contains(LeaderOrder, y)
    /\ \A i \in 1 .. Len(decided) : i \in 1 .. Len(LeaderOrder) /\ LeaderOrder[i] = decided[i]
    /\ \A x, y : Contains(decided, x) /\ (Contains(Queue, y) \/ Contains(Queuing, y))
                    => InOrder(LeaderOrder, x, y)
<1> SUFFICES ASSUME TypeOK
             PROVE  /\ decided \in Seq(Requests) /\ Queue \in Seq(Requests) /\ Queuing \in Seq(Requests)
                    /\ \A k \in 1 .. Len(Queuing) : Queuing[k] \in Updates /\ IsNilext(Queuing[k])
                    /\ LeaderOrder = decided \o Queue \o Queuing
                    /\ LeaderOrder \in Seq(Requests)
                    /\ \A x : Contains(LeaderOrder, x) <=> Queued(x) \/ Contains(Queuing, x)
                    /\ \A x : Contains(LeaderOrder, x) => x \in Requests
                    /\ \A x, y : InOrder(LeaderOrder, x, y)
                                    => Contains(LeaderOrder, x) /\ Contains(LeaderOrder, y)
                    /\ \A i \in 1 .. Len(decided) :
                           i \in 1 .. Len(LeaderOrder) /\ LeaderOrder[i] = decided[i]
                    /\ \A x, y : Contains(decided, x) /\ (Contains(Queue, y) \/ Contains(Queuing, y))
                                    => InOrder(LeaderOrder, x, y)
  OBVIOUS
<1>1. app[Leader] \in AppStates(Updates) /\ server[Leader] \in Seq(Messages)
  BY LeaderIsReplica DEF TypeOK
<1>2. decided \in Seq(Requests) /\ Queue \in Seq(Requests)
  BY <1>1, AppFields DEF TypeOK, Queue, Updates
<1>3. /\ Queuing \in Seq(Requests)
      /\ \A k \in 1 .. Len(Queuing) : Queuing[k] \in Updates /\ IsNilext(Queuing[k])
  <2>1. CASE server[Leader] # <<>> /\ IsNilext(server[Leader][1].req)
    <3>1. server[Leader][1] \in Messages
      BY <1>1, <2>1
    <3>2. PICK q \in Requests : q = server[Leader][1].req
      BY <3>1, MessageFacts
    <3>3. q \in Updates /\ IsNilext(q)
      BY <2>1, <3>2, RequestsFacts
    <3>4. Queuing = <<q>>
      BY <2>1, <3>2 DEF Queuing
    <3> QED  BY <3>3, <3>4
  <2>2. CASE ~(server[Leader] # <<>> /\ IsNilext(server[Leader][1].req))
    <3>1. Queuing = <<>>
      BY <2>2, Zenon DEF Queuing
    <3> QED  BY <3>1
  <2> QED  BY <2>1, <2>2
<1>4. LeaderOrder = decided \o Queue \o Queuing
  BY DEF LeaderOrder, Queue, Queuing
<1>5. LeaderOrder \in Seq(Requests)
  BY <1>2, <1>3, <1>4, ChainFacts
<1>6. \A x : Contains(LeaderOrder, x) <=> Queued(x) \/ Contains(Queuing, x)
  BY <1>2, <1>3, <1>4, ChainHas DEF Queued
<1>7. \A x : Contains(LeaderOrder, x) => x \in Requests
  BY <1>5 DEF Contains
<1>8. \A x, y : InOrder(LeaderOrder, x, y) => Contains(LeaderOrder, x) /\ Contains(LeaderOrder, y)
  BY DEF InOrder, Contains
<1>9. \A i \in 1 .. Len(decided) : i \in 1 .. Len(LeaderOrder) /\ LeaderOrder[i] = decided[i]
  BY <1>2, <1>3, <1>4, ChainHas
<1>10. \A x, y : Contains(decided, x) /\ (Contains(Queue, y) \/ Contains(Queuing, y))
                    => InOrder(LeaderOrder, x, y)
  BY <1>2, <1>3, <1>4, ChainHas
<1> QED  BY <1>2, <1>3, <1>4, <1>5, <1>6, <1>7, <1>8, <1>9, <1>10

(* Nothing is twice in the leader's order.                                  *)
LEMMA OrderDistinct ==
  ASSUME TypeOK, OrderInv
  PROVE  /\ Distinct(LeaderOrder)
         /\ \A x, y : InOrder(LeaderOrder, x, y) => x # y /\ ~InOrder(LeaderOrder, y, x)
<1>1. LeaderOrder \in Seq(Requests)
  BY OrderParts
<1>2. PICK o \in Seq(Requests) : o = LeaderOrder
  BY <1>1
<1>3. \A p : InOrder(o, p, p) => p.id < p.id
  BY <1>2 DEF OrderInv
<1>4. \A i \in 1 .. Len(o) : o[i].id \in Nat
  BY RequestsFacts
<1>5. ASSUME NEW i \in 1 .. Len(o), NEW j \in 1 .. Len(o), i < j, o[i] = o[j]
      PROVE  FALSE
  <2>1. InOrder(o, o[i], o[i])
    BY <1>5 DEF InOrder
  <2> QED  BY <1>3, <1>4, <2>1
<1>6. Distinct(o)
  BY <1>5 DEF Distinct
<1>7. ASSUME NEW x, NEW y, InOrder(o, x, y) PROVE x # y /\ ~InOrder(o, y, x)
  <2>1. PICK i, j \in 1 .. Len(o) : i < j /\ o[i] = x /\ o[j] = y
    BY <1>7 DEF InOrder
  <2>2. x # y
    BY <1>5, <2>1
  <2>3. ASSUME InOrder(o, y, x) PROVE FALSE
    <3>1. PICK k, l \in 1 .. Len(o) : k < l /\ o[k] = y /\ o[l] = x
      BY <2>3 DEF InOrder
    <3>2. k = j /\ l = i
      BY <1>6, <2>1, <3>1 DEF Distinct
    <3> QED  BY <2>1, <3>1, <3>2
  <2> QED  BY <2>2, <2>3
<1> QED  BY <1>2, <1>6, <1>7

(* What the store has seen lies between what is executed and what is ordered. *)
LEMMA SeenFacts ==
  ASSUME AppInv
  PROVE  /\ executed[Leader] \in Nat /\ Seen \in Nat /\ Len(decided) \in Nat
         /\ executed[Leader] <= Seen /\ Seen <= Len(decided)
         /\ \A q : ExecutedAt(Leader, q) => Stored(q)
         /\ \A q : Stored(q) => Contains(decided, q)
         /\ \A q : Contains(decided, q) => Contains(LeaderOrder, q)
<1>1. executed[Leader] \in Nat /\ decided \in Seq(Requests) /\ applied[Leader] \in BOOLEAN
  BY LeaderIsReplica DEF AppInv, TypeOK
<1>2. executed[Leader] <= Len(decided) /\ (applied[Leader] => executed[Leader] < Len(decided))
  BY LeaderIsReplica DEF AppInv, Executing, Limit
<1>3. Seen \in Nat /\ executed[Leader] <= Seen /\ Seen <= Len(decided)
  BY <1>1, <1>2 DEF Seen
<1>4. Len(decided) \in Nat
  BY <1>1
<1>5. \A q : ExecutedAt(Leader, q) => Stored(q)
  BY <1>1, <1>3 DEF ExecutedAt, Stored
<1>6. \A q : Stored(q) => Contains(decided, q)
  BY <1>3, <1>4 DEF Stored, Contains
<1>7. \A q : Contains(decided, q) => Contains(LeaderOrder, q)
  BY OrderParts DEF AppInv, Queued
<1> QED  BY <1>1, <1>3, <1>4, <1>5, <1>6, <1>7

(* What precedes something executed is executed.                            *)
LEMMA ExecutedFirst ==
  ASSUME AppInv, OrderInv, NEW p, NEW q, InOrder(LeaderOrder, p, q), ExecutedAt(Leader, q)
  PROVE  ExecutedAt(Leader, p)
<1>1. PICK i, j \in 1 .. Len(LeaderOrder) : i < j /\ LeaderOrder[i] = p /\ LeaderOrder[j] = q
  BY DEF InOrder
<1>2. PICK k \in 1 .. executed[Leader] : decided[k] = q
  BY DEF ExecutedAt
<1>3. /\ executed[Leader] \in Nat /\ executed[Leader] <= Len(decided) /\ Len(decided) \in Nat
  BY SeenFacts
<1>4. \A l \in 1 .. Len(decided) : l \in 1 .. Len(LeaderOrder) /\ LeaderOrder[l] = decided[l]
  BY OrderParts DEF AppInv
<1>5. Len(LeaderOrder) \in Nat /\ Distinct(LeaderOrder)
  BY OrderParts, OrderDistinct DEF AppInv
<1>6. k = j
  BY <1>1, <1>2, <1>3, <1>4, <1>5 DEF Distinct
<1>7. i \in 1 .. executed[Leader] /\ i \in 1 .. Len(decided)
  BY <1>1, <1>2, <1>3, <1>6
<1> QED  BY <1>1, <1>4, <1>7 DEF ExecutedAt

(* The updates that a read must not miss are in the leader's order.         *)
LEMMA OwedFacts ==
  ASSUME AppInv, LinInv, NEW q, NEW u \in Owed(q)
  PROVE  /\ u \in Updates /\ u.key = q.key /\ u # NotFound
         /\ Contains(LeaderOrder, u)
         /\ ~IsNilext(u) => Stored(u)
<1>1. PICK e \in done : <<e.req, q>> \in precedes /\ e.req.key = q.key /\ u = Tells(e) /\ u # NotFound
  BY DEF Owed
<1>2. e.req \in Requests /\ e.value \in Values /\ Vouched(e.req, e.value)
  BY DEF AppInv, TypeOK, LinInv, ClientsInv
<1>3. CASE e.req.op = "read"
  <2>1. u = e.value /\ Stored(u) /\ u.key = q.key
    BY <1>1, <1>2, <1>3 DEF Tells, Vouched
  <2>2. u \in Updates
    BY <1>1, <1>2, <2>1 DEF Values
  <2>3. Contains(LeaderOrder, u)
    BY <2>1, SeenFacts
  <2> QED  BY <1>1, <2>1, <2>2, <2>3
<1>4. CASE e.req.op # "read"
  <2>1. u = e.req /\ u \in Updates
    BY <1>1, <1>2, <1>4 DEF Tells, Updates
  <2>2. IsNilext(u) \/ u.op = "write"
    BY <1>2, <1>4, <2>1, RequestsFacts DEF IsNilext, Ops
  <2>3. (IsNilext(u) => Contains(LeaderOrder, u)) /\ (u.op = "write" => Stored(u))
    BY <1>2, <2>1 DEF Vouched
  <2>4. Contains(LeaderOrder, u)
    BY <2>2, <2>3, SeenFacts
  <2> QED  BY <1>1, <2>1, <2>2, <2>3, <2>4
<1> QED  BY <1>3, <1>4

(* ... and so are those completed before it was sent.                       *)
LEMMA CompletedFacts ==
  ASSUME AppInv, LinInv, NEW q, NEW u \in Updates, <<u, q>> \in precedes
  PROVE  Contains(LeaderOrder, u) /\ (u.op = "write" => Stored(u))
<1>1. <<u, q>>[1] = u
  OBVIOUS
<1>2. PICK d \in done : d.req = u
  BY <1>1 DEF LinInv, ClientsInv
<1>3. Vouched(u, d.value)
  BY <1>2 DEF LinInv, ClientsInv
<1>4. u \in Requests /\ (IsNilext(u) \/ u.op = "write")
  BY RequestsFacts DEF Updates, IsNilext, Ops
<1>5. u.op = "write" => Stored(u)
  BY <1>3 DEF Vouched
<1>6. IsNilext(u) => Contains(LeaderOrder, u)
  BY <1>3 DEF Vouched
<1> QED  BY <1>4, <1>5, <1>6, SeenFacts

(* If the store has seen what a read must not miss, its value is up to date. *)
LEMMA StoreUpToDate ==
  ASSUME AppInv, LinInv, NEW q \in Requests, \A u \in Owed(q) : Stored(u)
  PROVE  /\ UpToDate(q, StoredAt(q.key))
         /\ q.op = "read" => Vouched(q, StoredAt(q.key))
<1> DEFINE v == StoredAt(q.key)
<1>1. q.key \in Keys
  BY RequestsFacts
<1>2. ASSUME NEW u \in Owed(q) PROVE v # NotFound /\ (v = u \/ InOrder(LeaderOrder, u, v))
  <2>1. u \in Updates /\ u.key = q.key /\ u.op # "read"
    BY OwedFacts DEF Updates
  <2>2. PICK k \in 1 .. Seen : decided[k] = u
    BY DEF Stored
  <2>3. PICK j \in k .. Seen : decided[j] = v
    BY <2>1, <2>2 DEF LinInv, StoreInv
  <2>4. Seen \in Nat /\ Seen <= Len(decided) /\ Len(decided) \in Nat
    BY SeenFacts
  <2>5. k \in 1 .. Len(decided) /\ j \in 1 .. Len(decided) /\ (k = j \/ k < j)
    BY <2>2, <2>3, <2>4
  <2>6. v \in Requests
    BY <2>3, <2>5 DEF AppInv, TypeOK
  <2>7. k < j => InOrder(LeaderOrder, u, v)
    BY <2>2, <2>3, <2>5, OrderParts DEF AppInv, InOrder
  <2> HIDE DEF v
  <2> QED  BY <2>2, <2>3, <2>5, <2>6, <2>7, NotFoundAssumption
<1>3. v # NotFound => Stored(v) /\ v.key = q.key
  BY <1>1 DEF LinInv, StoreInv
<1> QED  BY <1>2, <1>3 DEF UpToDate, Vouched, IsNilext

-------------------------------------------------------------------------------
(* What a step keeps                                                       *)

\* The leader's order, queue, store and what clients know only grow; what a request
\* that was sent must follow is settled.
Grows ==
    /\ \A x : Contains(LeaderOrder, x) => Contains(LeaderOrder, x)'
    /\ \A x, y : InOrder(LeaderOrder, x, y) => InOrder(LeaderOrder, x, y)'
    /\ \A x : Stored(x) => Stored(x)'
    /\ \A x : Queued(x) => Queued(x)'
    /\ \A q \in Requests : Known(q) =>
           Known(q)' /\ Owed(q)' = Owed(q) /\ CompletedBefore(q)' = CompletedBefore(q)

(* Answers stay true.                                                       *)
LEMMA VouchedStays ==
  ASSUME Grows, NEW q, NEW v, Vouched(q, v)
  PROVE  Vouched(q, v)'
BY DEF Grows, Vouched

LEMMA UpToDateStays ==
  ASSUME Grows, NEW q \in Requests, Known(q), NEW v, UpToDate(q, v)
  PROVE  UpToDate(q, v)'
BY DEF Grows, UpToDate

(* A message stays sound unless the leader takes up the update it carries or *)
(* an update of its client.                                                 *)
LEMMA SoundStays ==
  ASSUME AppInv, LinInv, Grows, NEW m \in msgs,
         m.type = "Request" /\ m.to = Leader /\ IsNilext(m.req) =>
             Awaited(m.req)' /\ ~Contains(LeaderOrder, m.req)',
         m.type = "ConsensusRequest" =>
             \A k \in 1 .. Len(Queuing') :
                 m.req.client = Queuing'[k].client => m.req.id < Queuing'[k].id
  PROVE  Sound(m)'
<1>1. m \in Messages /\ Sound(m)
  BY DEF AppInv, TypeOK, LinInv, MessagesInv
<1>2. m.req \in Requests /\ Known(m.req)
  BY <1>1, MessageFacts DEF Sound
<1>3. Known(m.req)' /\ Owed(m.req)' = Owed(m.req) /\ CompletedBefore(m.req)' = CompletedBefore(m.req)
  BY <1>2 DEF Grows
<1>4. m.type = "Request" => SoundRequest(m)'
  BY <1>1 DEF Sound, SoundRequest, Leader
<1>5. m.type = "ConsensusRequest" => SoundForward(m)'
  BY <1>1, <1>3 DEF Sound, SoundForward, Grows
<1>6. m.type = "Reply" => SoundReply(m)'
  BY <1>1, <1>2, VouchedStays, UpToDateStays DEF Sound, SoundReply, Leader
<1> QED  BY <1>1, <1>3, <1>4, <1>5, <1>6 DEF Sound

(* ... and so, in most steps, do all.                                       *)
LEMMA MessagesStay ==
  ASSUME AppInv, LinInv, Grows, UNCHANGED client, Queuing' \in {Queuing, <<>>},
         \A x : Contains(LeaderOrder, x)' => Contains(LeaderOrder, x) \/ ~IsNilext(x),
         NEW m \in msgs
  PROVE  Sound(m)'
<1>1. Sound(m)
  BY DEF LinInv, MessagesInv
<1>2. \A x : Awaited(x) => Awaited(x)'
  BY DEF Awaited
<1>3. m.type = "ConsensusRequest" =>
             \A k \in 1 .. Len(Queuing') :
                 m.req.client = Queuing'[k].client => m.req.id < Queuing'[k].id
  BY <1>1 DEF Sound, SoundForward
<1> QED  BY <1>1, <1>2, <1>3, SoundStays DEF Sound, SoundRequest

(* What the leader's server holds.                                          *)
LEMMA ServerStays ==
  ASSUME AppInv, LinInv, Grows, UNCHANGED server
  PROVE  ServerInv'
<1>1. CASE server[Leader] = <<>>
  BY <1>1 DEF LinInv, ServerInv, Leader
<1>2. CASE server[Leader] # <<>>
  <2>1. PICK m : m = server[Leader][1] /\ m \in Messages
    BY <1>2, LeaderIsReplica DEF AppInv, TypeOK
  <2>2. m.type = "Request" /\ Known(m.req) /\ m.req.op # "write" /\ m.req \in Requests
        /\ (m.req.op = "read" => \A u \in Owed(m.req) : Stored(u))
    BY <1>2, <2>1, MessageFacts DEF LinInv, ServerInv
  <2>3. Known(m.req)' /\ Owed(m.req)' = Owed(m.req)
    BY <2>2 DEF Grows
  <2>4. m.req.op = "read" => \A u \in Owed(m.req)' : Stored(u)'
    BY <2>2, <2>3 DEF Grows
  <2>5. m = server'[Leader][1] /\ Leader' = Leader
    BY <2>1 DEF Leader
  <2> QED  BY <2>2, <2>3, <2>4, <2>5 DEF LinInv, ServerInv
<1> QED  BY <1>1, <1>2

(* The reads that are ordered.                                              *)
LEMMA ReadsStay ==
  ASSUME AppInv, LinInv, Grows, LogGrows,
         \A k \in 1 .. Len(decided') : k \notin 1 .. Len(decided) /\ decided'[k].op = "read" =>
             \A u \in Owed(decided[k])' : \E j \in 1 .. k - 1 : decided'[j] = u
  PROVE  ReadsInv'
<1> SUFFICES ASSUME NEW k \in 1 .. Len(decided'), decided'[k].op = "read",
                    NEW u \in Owed(decided[k])'
             PROVE  \E j \in 1 .. k - 1 : decided'[j] = u
  BY DEF ReadsInv
<1>1. CASE k \in 1 .. Len(decided)
  <2>1. PICK q : q = decided[k] /\ q = decided'[k]
    BY <1>1 DEF LogGrows
  <2>2. q \in Requests /\ Contains(LeaderOrder, q)
    <3>1. Contains(decided, q)
      BY <1>1, <2>1 DEF Contains
    <3> QED  BY <3>1, SeenFacts, OrderParts DEF AppInv
  <2>3. Known(q)
    BY <2>2 DEF LinInv, OrderInv
  <2>4. u \in Owed(q)
    <3>1. u \in Owed(q)'
      BY <2>1 DEF Owed
    <3> QED  BY <2>2, <2>3, <3>1 DEF Grows
  <2>5. PICK j \in 1 .. k - 1 : decided[j] = u
    BY <1>1, <2>1, <2>4 DEF LinInv, ReadsInv
  <2>6. j \in 1 .. Len(decided)
    BY <1>1, SeenFacts
  <2> QED  BY <2>5, <2>6 DEF LogGrows
<1>2. CASE k \notin 1 .. Len(decided)
  BY <1>2
<1> QED  BY <1>1, <1>2

(* Clients that do nothing.                                                 *)
LEMMA SameClients ==
  ASSUME UNCHANGED <<client, done, precedes>>
  PROVE  \A q \in Requests : Known(q) =>
             Known(q)' /\ Owed(q)' = Owed(q) /\ CompletedBefore(q)' = CompletedBefore(q)
BY DEF Known, Owed, Tells, CompletedBefore

LEMMA ClientsStay ==
  ASSUME AppInv, DurableInv, LinInv, Grows, UNCHANGED <<client, done, precedes>>,
         \A pair \in precedes : pair[1].op # "read" /\ pair[2].op # "write" =>
             ~InOrder(LeaderOrder, pair[2], pair[1])'
  PROVE  ClientsInv'
<1>1. ASSUME NEW c \in Clients, client'[c].pending, IsNilext(Current(c)'), client'[c].leaderAcked
      PROVE  Contains(LeaderOrder', Current(c)')
  <2>1. PICK q : q = Current(c) /\ q = Current(c)'
    BY DEF Current
  <2>2. Contains(LeaderOrder, q)
    BY <1>1, <2>1 DEF LinInv, ClientsInv
  <2> QED  BY <2>1, <2>2 DEF Grows
<1>2. ASSUME NEW d \in done
      PROVE  /\ Vouched(d.req, d.value)'
             /\ d.req.op = "read" => UpToDate(d.req, d.value)'
  <2>1. d.req \in Requests /\ Known(d.req)
    BY DEF AppInv, TypeOK, DurableInv, CompletedSettled
  <2> QED  BY <2>1, VouchedStays, UpToDateStays DEF LinInv, ClientsInv
<1> QED  BY <1>1, <1>2 DEF LinInv, ClientsInv

\* Nothing happens at the leader.
LeaderSame ==
    /\ UNCHANGED <<decided, server>>
    /\ app'[Leader] = app[Leader]
    /\ executed'[Leader] = executed[Leader]
    /\ applied'[Leader] = applied[Leader]

(* The terms of the invariant are then the same,                            *)
LEMMA LeaderTerms ==
  ASSUME LeaderSame
  PROVE  /\ LeaderOrder' = LeaderOrder /\ Queue' = Queue /\ Queuing' = Queuing /\ Seen' = Seen
         /\ \A x : Has(Leader, x)' = Has(Leader, x) /\ ExecutedAt(Leader, x)' = ExecutedAt(Leader, x)
         /\ \A x : Stored(x)' = Stored(x) /\ Queued(x)' = Queued(x)
         /\ \A k : LastUpdate(k)' = LastUpdate(k) /\ StoredAt(k)' = StoredAt(k)
<1>1. Leader' = Leader
  BY DEF Leader
<1>2. Queue' = Queue /\ Queuing' = Queuing /\ Seen' = Seen
  BY <1>1 DEF LeaderSame, Queue, Queuing, Seen
<1>3. LeaderOrder' = LeaderOrder
  BY <1>1 DEF LeaderSame, LeaderOrder
<1>4. \A x : Has(Leader, x)' = Has(Leader, x) /\ ExecutedAt(Leader, x)' = ExecutedAt(Leader, x)
  BY <1>1 DEF LeaderSame, Has, ExecutedAt
<1>5. \A x : Stored(x)' = Stored(x) /\ Queued(x)' = Queued(x)
  BY <1>2 DEF LeaderSame, Stored, Queued
<1>6. \A k : LastUpdate(k)' = LastUpdate(k) /\ StoredAt(k)' = StoredAt(k)
  BY <1>1 DEF LeaderSame, LastUpdate, StoredAt
<1> QED  BY <1>2, <1>3, <1>4, <1>5, <1>6

(* ... and what it says of the leader holds on.                             *)
LEMMA LeaderStays ==
  ASSUME AppInv, LinInv, LeaderSame,
         \A q \in Requests : Known(q) =>
             Known(q)' /\ Owed(q)' = Owed(q) /\ CompletedBefore(q)' = CompletedBefore(q)
  PROVE  Grows /\ ServerInv' /\ OrderInv' /\ PendingInv' /\ StoreInv' /\ ReadsInv'
<1>1. /\ LeaderOrder' = LeaderOrder /\ Queue' = Queue /\ Queuing' = Queuing /\ Seen' = Seen
      /\ \A x : Has(Leader, x)' = Has(Leader, x) /\ ExecutedAt(Leader, x)' = ExecutedAt(Leader, x)
      /\ \A x : Stored(x)' = Stored(x) /\ Queued(x)' = Queued(x)
      /\ \A k : LastUpdate(k)' = LastUpdate(k) /\ StoredAt(k)' = StoredAt(k)
  BY LeaderTerms
<1>2. Grows
  BY <1>1 DEF Grows
<1>3. ServerInv'
  BY <1>2, ServerStays DEF LeaderSame
<1>4. OrderInv'
  <2>1. \A x : Contains(LeaderOrder, x) => x \in Requests
    BY OrderParts DEF AppInv
  <2>2. \A x : Contains(LeaderOrder, x) => Known(x)'
    BY <2>1 DEF LinInv, OrderInv
  <2> QED  BY <1>1, <2>2 DEF LinInv, OrderInv
<1>5. PendingInv'
  BY <1>1 DEF LinInv, PendingInv
<1>6. StoreInv'
  BY <1>1 DEF LinInv, StoreInv, LeaderSame
<1>7. ReadsInv'
  BY <1>2, SameLogGrows, ReadsStay DEF LeaderSame
<1> QED  BY <1>2, <1>3, <1>4, <1>5, <1>6, <1>7

-------------------------------------------------------------------------------
(* Steps of clients, and of others than the leader                         *)

(* A client has one identifier for writes and one for the rest.             *)
LEMMA ClientFacts ==
  ASSUME NEW p \in Requests, NEW q \in Requests
  PROVE  /\ p.client[1] = q.client[1] /\ p.id = q.id => p = q
         /\ p.op = "write" /\ q.op # "write" => p.client # q.client
<1>1. p = Request(p.client[1], p.id) /\ q = Request(q.client[1], q.id)
  BY RequestsFacts
<1>2. p.client[1] = q.client[1] /\ p.id = q.id => p = q
  BY <1>1
<1>3. ASSUME p.op = "write", q.op # "write", p.client = q.client PROVE FALSE
  <2>1. PICK a, i : p = Request(a, i)
    BY <1>1
  <2>2. PICK b, j : q = Request(b, j)
    BY <1>1
  <2>3. PICK d \in BOOLEAN : d = (Trace[a][i].op = "write")
    BY Zenon
  <2>4. PICK e \in BOOLEAN : e = (Trace[b][j].op = "write")
    BY Zenon
  <2>5. p.client = <<a, d>> /\ p.op = Trace[a][i].op
    BY <2>1, <2>3 DEF Request
  <2>6. q.client = <<b, e>> /\ q.op = Trace[b][j].op
    BY <2>2, <2>4 DEF Request
  <2>7. d = e
    <3>1. p.client[2] = d /\ q.client[2] = e
      <4>1. <<a, d>>[2] = d /\ <<b, e>>[2] = e
        OBVIOUS
      <4> QED  BY <2>5, <2>6, <4>1, Zenon
    <3>2. p.client[2] = q.client[2]
      BY <1>3, Zenon
    <3> QED  BY <3>1, <3>2, Zenon
  <2>8. d /\ ~e
    BY <1>3, <2>3, <2>4, <2>5, <2>6
  <2> QED  BY <2>7, <2>8
<1> QED  BY <1>2, <1>3

(* Where the leader does nothing and clients neither.                       *)
LEMMA LinQuiet ==
  ASSUME AppInv, DurableInv, LinInv, LeaderSame, UNCHANGED <<client, done, precedes>>,
         \A m \in msgs' : m \in msgs \/ Sound(m)'
  PROVE  LinInv'
<1>1. Grows /\ ServerInv' /\ OrderInv' /\ PendingInv' /\ StoreInv' /\ ReadsInv'
  BY SameClients, LeaderStays
<1>2. LeaderOrder' = LeaderOrder /\ Queuing' = Queuing
  BY LeaderTerms
<1>3. ClientsInv'
  BY <1>1, <1>2, ClientsStay DEF LinInv, ClientsInv
<1>4. MessagesInv'
  BY <1>1, <1>2, MessagesStay DEF MessagesInv
<1> QED  BY <1>1, <1>3, <1>4 DEF LinInv

(* HandleRequest of a follower.                                             *)
LEMMA LinFollowerRequest ==
  ASSUME AppInv, DurableInv, LinInv, NEW r \in Up, r # Leader, HandleRequest(r)
  PROVE  LinInv'
<1>1. PICK m \in msgs : HandleRequestOf(r, m)
  BY DEF HandleRequest, HandleRequestOf
<1>2. m.type = "Request" /\ m.to = r /\ server[r] = <<>> /\ Sound(m) /\ r \in Replicas
  BY <1>1, DurabilityAssumption DEF HandleRequestOf, LinInv, MessagesInv
<1>3. IsNilext(m.req) /\ Known(m.req)
  BY <1>2 DEF Sound, SoundRequest
<1>4. /\ app' = [app EXCEPT ![r] = MakeDurable(@, m.req)]
      /\ server' = [server EXCEPT ![r] = <<>>]
      /\ Network({m}, {Reply(r, m, NotFound)})
      /\ UNCHANGED <<applied, decided, executed, client, done, precedes, aborted>>
  BY <1>1, <1>3 DEF HandleRequestOf, logVars, clientVars
<1>5. server' = server
  BY <1>2, <1>4 DEF AppInv, TypeOK
<1>6. LeaderSame
  BY <1>4, <1>5, LeaderIsReplica DEF LeaderSame, AppInv, TypeOK
<1>7. \A x \in msgs' : x \in msgs \/ x = Reply(r, m, NotFound)
  BY <1>4 DEF Network
<1>8. Sound(Reply(r, m, NotFound))'
  <2>1. PICK x : x = Reply(r, m, NotFound)
    OBVIOUS
  <2>5. x.type = "Reply" /\ x.from = r /\ x.req = m.req
    BY <2>1 DEF Reply
  <2>2. Known(x.req)' /\ IsNilext(x.req) /\ x.req.op # "read"
    BY <1>3, <1>4, <2>5 DEF Known, IsNilext
  <2>3. Leader' = Leader
    BY DEF Leader
  <2>4. Sound(x)'
    BY <2>2, <2>3, <2>5 DEF Sound, SoundReply
  <2> QED  BY <2>1, <2>4
<1> QED  BY <1>4, <1>6, <1>7, <1>8, LinQuiet

(* A follower executes, or the leader's server fails.                       *)
LEMMA LinFollower ==
  ASSUME AppInv, DurableInv, LinInv, NEW r \in Up,
         \/ r # Leader /\ (ApplyUpdate(r) \/ EraseUpdate(r) \/ ExecuteRead(r))
         \/ HandleConsensusReply(r)
  PROVE  LinInv'
<1>1. r \in Replicas /\ Leader \in Replicas
  BY DurabilityAssumption, LeaderIsReplica
<1>2. CASE HandleConsensusReply(r)
  <2>1. LeaderSame /\ UNCHANGED <<client, done, precedes>> /\ \E m \in msgs : Network({m}, {})
    BY <1>2 DEF HandleConsensusReply, LeaderSame, logVars, clientVars
  <2>2. \A x \in msgs' : x \in msgs
    BY <2>1 DEF Network
  <2> QED  BY <2>1, <2>2, LinQuiet
<1>3. CASE r # Leader /\ ApplyUpdate(r)
  <2>1. LeaderSame /\ UNCHANGED <<client, done, precedes, msgs>>
    BY <1>1, <1>3 DEF ApplyUpdate, LeaderSame, logVars, clientVars, AppInv, TypeOK
  <2> QED  BY <2>1, LinQuiet
<1>4. CASE r # Leader /\ EraseUpdate(r)
  <2>1. LeaderSame /\ UNCHANGED <<client, done, precedes>> /\ Network({}, {})
    BY <1>1, <1>4 DEF EraseUpdate, LeaderSame, logVars, clientVars, AppInv, TypeOK, Log!Execute
  <2>2. \A x \in msgs' : x \in msgs
    BY <2>1 DEF Network
  <2> QED  BY <2>1, <2>2, LinQuiet
<1>5. CASE r # Leader /\ ExecuteRead(r)
  <2>1. LeaderSame /\ UNCHANGED <<client, done, precedes>> /\ Network({}, {})
    BY <1>1, <1>5 DEF ExecuteRead, LeaderSame, serverVars, clientVars, AppInv, TypeOK, Log!Execute
  <2>2. \A x \in msgs' : x \in msgs
    BY <2>1 DEF Network
  <2> QED  BY <2>1, <2>2, LinQuiet
<1> QED  BY <1>2, <1>3, <1>4, <1>5

(* What was completed stays true.                                           *)
LEMMA DoneStays ==
  ASSUME AppInv, DurableInv, LinInv, Grows, NEW d \in done
  PROVE  /\ Vouched(d.req, d.value)'
         /\ d.req.op = "read" => UpToDate(d.req, d.value)'
<1>1. d.req \in Requests /\ Known(d.req)
  BY DEF AppInv, TypeOK, DurableInv, CompletedSettled
<1> QED  BY <1>1, VouchedStays, UpToDateStays DEF LinInv, ClientsInv

(* A request that is sent again, or by the way of the consensus replica.    *)
LEMMA SentSound ==
  ASSUME AppInv, NEW q \in Requests, NEW n, NEW m \in SendRequest(q, n), Known(q)',
         IsNilext(q) => Awaited(q)' /\ ~Contains(LeaderOrder, q)',
         Queuing' = Queuing
  PROVE  Sound(m)'
<1>1. m.req = q /\ m.type \in {"Request", "ConsensusRequest"}
  BY DEF SendRequest
<1>2. Leader' = Leader
  BY DEF Leader
<1>3. m.type = "Request" => q.op # "write" /\ (~IsNilext(q) => m.to = Leader)
  BY DEF SendRequest
<1>4. m.type = "ConsensusRequest" => q.op = "write"
  BY DEF SendRequest
<1>5. ASSUME q.op = "write", NEW k \in 1 .. Len(Queuing') PROVE q.client # Queuing'[k].client
  <2>1. Queuing[k] \in Updates /\ IsNilext(Queuing[k])
    BY <1>5, OrderParts DEF AppInv
  <2> QED  BY <1>5, <2>1, ClientFacts DEF IsNilext, Updates
<1>6. m.type = "Request" => SoundRequest(m)'
  BY <1>1, <1>2, <1>3 DEF SoundRequest
<1>7. m.type = "ConsensusRequest" => SoundForward(m)'
  BY <1>1, <1>4, <1>5 DEF SoundForward
<1>8. m.type = "ConsensusRequest" => ~IsNilext(q)
  BY <1>4 DEF IsNilext
<1> QED  BY <1>1, <1>6, <1>7, <1>8 DEF Sound

(* Invoke.                                                                  *)
LEMMA LinInvoke ==
  ASSUME AppInv, DurableInv, LinInv, NEW c \in Clients, Invoke(c)
  PROVE  LinInv'
<1> DEFINE i == client[c].id + 1
<1>1. i \in 1 .. Len(Trace[c]) /\ \A b \in Clients : client[b].id \in Nat
  BY DEF AppInv, TypeOK, Invoke, ClientsSent
<1>2. PICK q \in Requests : q = Request(c, i) /\ q.id = i /\ q.client[1] = c
  BY <1>1, RequestFacts
<1>3. /\ ~client[c].pending
      /\ client' = [client EXCEPT ![c] = [id |-> i, pending |-> TRUE, sent |-> 1,
                                        responses |-> 0, leaderAcked |-> FALSE]]
      /\ precedes' = precedes \cup {<<d.req, q>> : d \in done}
      /\ UNCHANGED <<app, server, applied, decided, executed, done>>
      /\ Network({}, SendRequest(q, 1))
  BY <1>2 DEF Invoke, serverVars, logVars
<1>4. /\ client'[c].id = i /\ ~client'[c].leaderAcked /\ client'[c].pending
      /\ \A b \in Clients : b # c => client'[b] = client[b]
  BY <1>3 DEF AppInv, TypeOK
<1>5. \A x \in Requests : Known(x) => Known(x)' /\ x # q
  BY <1>1, <1>2, <1>4, RequestsFacts DEF Known
<1>6. Known(q)' /\ Awaited(q)'
  BY <1>1, <1>2, <1>4 DEF Known, Awaited
<1>7. ~Contains(LeaderOrder, q)
  BY <1>5 DEF LinInv, OrderInv
<1>8. LeaderSame
  BY <1>3 DEF LeaderSame
<1>9. \A x \in Requests : Known(x) =>
          Known(x)' /\ Owed(x)' = Owed(x) /\ CompletedBefore(x)' = CompletedBefore(x)
  <2> SUFFICES ASSUME NEW x \in Requests, Known(x)
               PROVE  Owed(x)' = Owed(x) /\ CompletedBefore(x)' = CompletedBefore(x)
    BY <1>5
  <2>1. \A y : <<y, x>> \in precedes' <=> <<y, x>> \in precedes
    BY <1>3, <1>5
  <2> QED  BY <1>3, <2>1 DEF Owed, Tells, CompletedBefore
<1>10. Grows /\ ServerInv' /\ OrderInv' /\ PendingInv' /\ StoreInv' /\ ReadsInv'
  BY <1>8, <1>9, LeaderStays
<1>11. LeaderOrder' = LeaderOrder /\ Queuing' = Queuing
  BY <1>8, LeaderTerms
<1>12. ASSUME NEW m \in msgs' PROVE Sound(m)'
  <2>1. CASE m \in msgs
    <3>1. m \in Messages /\ Sound(m)
      BY <2>1 DEF AppInv, TypeOK, LinInv, MessagesInv
    <3>2. m.req \in Requests /\ m.req.client[1] \in Clients
      BY <3>1, MessageFacts, RequestsFacts
    <3>3. Awaited(m.req) => Awaited(m.req)'
      BY <1>3, <1>4, <3>2 DEF Awaited
    <3>4. m.type = "ConsensusRequest" =>
             \A k \in 1 .. Len(Queuing') :
                 m.req.client = Queuing'[k].client => m.req.id < Queuing'[k].id
      BY <1>11, <3>1 DEF Sound, SoundForward
    <3>5. m.type = "Request" /\ m.to = Leader /\ IsNilext(m.req) =>
             Awaited(m.req)' /\ ~Contains(LeaderOrder, m.req)'
      BY <1>11, <3>1, <3>3 DEF Sound, SoundRequest
    <3> QED  BY <1>10, <2>1, <3>4, <3>5, SoundStays
  <2>2. CASE m \notin msgs
    <3>1. m \in SendRequest(q, 1)
      BY <1>3, <2>2 DEF Network
    <3> QED  BY <1>6, <1>7, <1>11, <3>1, SentSound
  <2> QED  BY <2>1, <2>2
<1>13. ClientsInv'
  <2>1. ASSUME NEW b \in Clients, client'[b].pending, IsNilext(Current(b)'), client'[b].leaderAcked
        PROVE  Contains(LeaderOrder', Current(b)')
    <3>1. b # c /\ client'[b] = client[b]
      BY <1>4, <2>1
    <3>2. PICK x : x = Current(b) /\ x = Current(b)'
      BY <3>1 DEF Current
    <3> QED  BY <1>11, <2>1, <3>1, <3>2 DEF LinInv, ClientsInv
  <2>2. ASSUME NEW d \in done
        PROVE  d.req.id = client'[d.req.client[1]].id => ~client'[d.req.client[1]].pending
    <3>1. d.req \in Requests /\ Known(d.req) /\ d.req.client[1] \in Clients /\ d.req.id \in Nat
      BY RequestsFacts DEF AppInv, TypeOK, DurableInv, CompletedSettled
    <3>2. CASE d.req.client[1] = c
      BY <1>1, <1>4, <3>1, <3>2 DEF Known
    <3>3. CASE d.req.client[1] # c
      BY <1>4, <3>1, <3>3 DEF LinInv, ClientsInv
    <3> QED  BY <3>2, <3>3
  <2>3. ASSUME NEW pair \in precedes'
        PROVE  /\ \E d \in done : d.req = pair[1]
               /\ pair[1].op # "read" /\ pair[2].op # "write" => ~InOrder(LeaderOrder, pair[2], pair[1])
    <3>1. CASE pair \in precedes
      BY <3>1 DEF LinInv, ClientsInv
    <3>2. CASE pair \notin precedes
      <4>1. PICK d \in done : pair = <<d.req, q>>
        BY <1>3, <3>2
      <4>2. ~InOrder(LeaderOrder, q, d.req)
        BY <1>7, OrderParts DEF AppInv
      <4> QED  BY <4>1, <4>2
    <3> QED  BY <3>1, <3>2
  <2>4. \A d \in done : Vouched(d.req, d.value)' /\ (d.req.op = "read" => UpToDate(d.req, d.value)')
    BY <1>10, DoneStays
  <2> QED  BY <1>3, <1>11, <2>1, <2>2, <2>3, <2>4 DEF ClientsInv
<1> QED  BY <1>10, <1>12, <1>13 DEF LinInv, MessagesInv

(* ResendRequest.                                                           *)
LEMMA LinResendRequest ==
  ASSUME UpdatesOnce, AppInv, DurableInv, LinInv, NEW c \in Clients, ResendRequest(c)
  PROVE  LinInv'
<1>1. client[c].pending
  BY DEF ResendRequest
<1>2. PICK q \in Requests : q = Current(c) /\ q.id = client[c].id /\ q.client[1] = c
  BY <1>1, CurrentFacts
<1>3. ~IsNilext(q)
  <2>1. client[c].sent \in Nat /\ client[c].sent # 0 /\ client[c].sent <= Resends[q.op]
    BY <1>1, <1>2 DEF AppInv, TypeOK, ClientsSent, ResendRequest
  <2> QED  BY <2>1 DEF UpdatesOnce, IsNilext
<1>4. /\ client' = [client EXCEPT ![c].sent = @ + 1]
      /\ Network({}, SendRequest(q, client[c].sent + 1))
      /\ UNCHANGED <<app, server, applied, decided, executed, done, precedes>>
  BY <1>2 DEF ResendRequest, serverVars, logVars
<1>5. \A b \in Clients : /\ client'[b].id = client[b].id
                         /\ client'[b].pending = client[b].pending
                         /\ client'[b].leaderAcked = client[b].leaderAcked
  BY <1>4 DEF AppInv, TypeOK
<1>6. \A x \in Requests : Known(x)' = Known(x) /\ Awaited(x)' = Awaited(x)
  BY <1>5, RequestsFacts DEF Known, Awaited
<1>7. \A x \in Requests : Known(x) =>
          Known(x)' /\ Owed(x)' = Owed(x) /\ CompletedBefore(x)' = CompletedBefore(x)
  BY <1>4, <1>6 DEF Owed, Tells, CompletedBefore
<1>8. LeaderSame
  BY <1>4 DEF LeaderSame
<1>9. Grows /\ ServerInv' /\ OrderInv' /\ PendingInv' /\ StoreInv' /\ ReadsInv'
  BY <1>7, <1>8, LeaderStays
<1>10. LeaderOrder' = LeaderOrder /\ Queuing' = Queuing
  BY <1>8, LeaderTerms
<1>11. ASSUME NEW m \in msgs' PROVE Sound(m)'
  <2>1. CASE m \in msgs
    <3>1. m \in Messages /\ Sound(m) /\ m.req \in Requests
      BY <2>1, MessageFacts DEF AppInv, TypeOK, LinInv, MessagesInv
    <3>2. m.type = "ConsensusRequest" =>
             \A k \in 1 .. Len(Queuing') :
                 m.req.client = Queuing'[k].client => m.req.id < Queuing'[k].id
      BY <1>10, <3>1 DEF Sound, SoundForward
    <3>3. m.type = "Request" /\ m.to = Leader /\ IsNilext(m.req) =>
             Awaited(m.req)' /\ ~Contains(LeaderOrder, m.req)'
      BY <1>6, <1>10, <3>1 DEF Sound, SoundRequest
    <3> QED  BY <1>9, <2>1, <3>2, <3>3, SoundStays
  <2>2. CASE m \notin msgs
    <3>1. m \in SendRequest(q, client[c].sent + 1)
      BY <1>4, <2>2 DEF Network
    <3>2. Known(q)'
      BY <1>2, <1>6, RequestsFacts DEF Known
    <3> QED  BY <1>3, <1>10, <3>1, <3>2, SentSound
  <2> QED  BY <2>1, <2>2
<1>12. ClientsInv'
  <2>1. ASSUME NEW b \in Clients, client'[b].pending, IsNilext(Current(b)'), client'[b].leaderAcked
        PROVE  Contains(LeaderOrder', Current(b)')
    <3>1. PICK x : x = Current(b) /\ x = Current(b)'
      BY <1>5 DEF Current
    <3>2. client[b].pending /\ client[b].leaderAcked /\ IsNilext(x)
      BY <1>5, <2>1, <3>1, Zenon
    <3>3. Contains(LeaderOrder, x)
      BY <3>1, <3>2, Zenon DEF LinInv, ClientsInv
    <3> QED  BY <1>10, <3>1, <3>3
  <2>2. ASSUME NEW d \in done
        PROVE  d.req.id = client'[d.req.client[1]].id => ~client'[d.req.client[1]].pending
    <3>1. d.req.client[1] \in Clients
      BY RequestsFacts DEF AppInv, TypeOK
    <3> QED  BY <1>5, <3>1 DEF LinInv, ClientsInv
  <2>3. \A d \in done : Vouched(d.req, d.value)' /\ (d.req.op = "read" => UpToDate(d.req, d.value)')
    BY <1>9, DoneStays
  <2> QED  BY <1>4, <1>10, <2>1, <2>2, <2>3 DEF LinInv, ClientsInv
<1> QED  BY <1>9, <1>11, <1>12 DEF LinInv, MessagesInv

(* HandleReply of a given reply m, for what it does to the client.          *)
LEMMA ReplyFacts ==
  ASSUME AppInv, DurableInv, LinInv, NEW c \in Clients, NEW m \in msgs, HandleReplyTo(c, m)
  PROVE  /\ \A b \in Clients : /\ client'[b].id = client[b].id
                               /\ client'[b].pending => client[b].pending
                               /\ client'[b].leaderAcked = (client[b].leaderAcked \/ (b = c /\ m.from = Leader))
         /\ \A b \in Clients : b # c => client'[b].pending = client[b].pending
         /\ ~client'[c].leaderAcked => client'[c].pending
         /\ \A d \in done' : d \in done \/ /\ d = [req |-> m.req, value |-> m.value]
                                           /\ ~client'[c].pending /\ client'[c].leaderAcked
         /\ done \subseteq done'
         /\ \A d \in done : d.req # m.req
<1> DEFINE s == Counted(c, m)
<1>1. client \in [Clients -> ClientStates] /\ client[c] \in ClientStates
  BY DEF AppInv, TypeOK, ClientStates
<1>2. /\ m.req = Current(c) /\ client[c].pending
      /\ client' = [client EXCEPT ![c] = [s EXCEPT !.pending = ~Enough(s, m.req)]]
      /\ done' = done \cup IF Enough(s, m.req) THEN {[req |-> m.req, value |-> m.value]} ELSE {}
  BY DEF HandleReplyTo
<1>3. PICK b \in BOOLEAN : b = (client[c].leaderAcked \/ m.from = Leader)
  BY Zenon
<1>4. PICK e \in BOOLEAN : e = ~Enough(s, m.req)
  BY Zenon
<1>5. PICK z \in ClientStates : z = client[c]
  BY <1>1
<1>6. PICK n \in Nat : n = z.responses + 1
  BY DEF ClientStates
<1>7. s = [z EXCEPT !.responses = n, !.leaderAcked = b]
  <2>1. s = [client[c] EXCEPT !.responses = @ + 1, !.leaderAcked = b]
    BY <1>3, Zenon DEF Counted
  <2> HIDE DEF s
  <2> QED  BY <1>5, <1>6, <2>1
<1> HIDE DEF s
<1>8. PICK t \in ClientStates : /\ t = [s EXCEPT !.pending = e]
                               /\ t.id = z.id /\ t.leaderAcked = b /\ t.pending = e /\ s.leaderAcked = b
  <2> DEFINE y == [z EXCEPT !.responses = n, !.leaderAcked = b]
  <2>1. y \in ClientStates /\ y.id = z.id /\ y.leaderAcked = b
    BY DEF ClientStates
  <2> HIDE DEF y
  <2>2. PICK x \in ClientStates : x = y
    BY <2>1
  <2> DEFINE t == [x EXCEPT !.pending = e]
  <2>3. t \in ClientStates /\ t.id = x.id /\ t.leaderAcked = x.leaderAcked /\ t.pending = e
    BY DEF ClientStates
  <2>4. x = s
    BY <1>7, <2>2 DEF y
  <2>5. t = [s EXCEPT !.pending = e]
    BY <2>4
  <2> HIDE DEF t
  <2> QED  BY <2>1, <2>2, <2>3, <2>4, <2>5
<1>9. client' = [client EXCEPT ![c] = t]
  BY <1>2, <1>4, <1>8, Zenon
<1>10. client'[c] = t /\ \A a \in Clients : a # c => client'[a] = client[a]
  BY <1>1, <1>9
<1>11. ~b => e
  BY <1>4, <1>8, Zenon DEF Enough
<1>12. \A d \in done' : d \in done \/ (d = [req |-> m.req, value |-> m.value] /\ ~e /\ b)
  <2>1. CASE e
    BY <1>2, <1>4, <2>1, Zenon
  <2>2. CASE ~e
    <3>1. Enough(s, m.req) /\ b
      BY <1>4, <1>11, <2>2, Zenon
    <3>2. done' = done \cup {[req |-> m.req, value |-> m.value]}
      BY <1>2, <3>1
    <3> QED  BY <2>2, <3>1, <3>2
  <2> QED  BY <2>1, <2>2
<1>13. done \subseteq done'
  BY <1>2
<1>14. ASSUME NEW d \in done PROVE d.req # m.req
  <2>1. m.req.id = client[c].id /\ m.req.client[1] = c
    BY <1>2, CurrentFacts
  <2> QED  BY <1>2, <2>1 DEF LinInv, ClientsInv
<1>15. ASSUME NEW a \in Clients
       PROVE  /\ client'[a].id = client[a].id
              /\ client'[a].pending => client[a].pending
              /\ client'[a].leaderAcked = (client[a].leaderAcked \/ (a = c /\ m.from = Leader))
  <2>1. CASE a = c
    <3>1. client'[a].id = client[a].id
      BY <1>5, <1>8, <1>10, <2>1
    <3>2. client[a].pending
      BY <1>2, <2>1
    <3>3. client'[a].leaderAcked = b
      BY <1>8, <1>10, <2>1
    <3>4. b = (client[a].leaderAcked \/ (a = c /\ m.from = Leader))
      BY <1>3, <2>1, Zenon
    <3> QED  BY <3>1, <3>2, <3>3, <3>4, Zenon
  <2>2. CASE a # c
    BY <1>1, <1>10, <2>2 DEF ClientStates
  <2> QED  BY <2>1, <2>2
<1>16. \A a \in Clients : a # c => client'[a].pending = client[a].pending
  BY <1>10
<1>17. client'[c].pending = e /\ client'[c].leaderAcked = b
  BY <1>8, <1>10
<1> QED  BY <1>11, <1>12, <1>13, <1>14, <1>15, <1>16, <1>17, Zenon

(* HandleReply.                                                             *)
LEMMA LinHandleReply ==
  ASSUME AppInv, DurableInv, LinInv, NEW c \in Clients, HandleReply(c)
  PROVE  LinInv'
<1>1. PICK m \in msgs : HandleReplyTo(c, m)
  BY Zenon DEF HandleReply, HandleReplyTo, Counted
<1>2. /\ \A b \in Clients : /\ client'[b].id = client[b].id
                            /\ client'[b].pending => client[b].pending
                            /\ client'[b].leaderAcked = (client[b].leaderAcked \/ (b = c /\ m.from = Leader))
      /\ \A b \in Clients : b # c => client'[b].pending = client[b].pending
      /\ ~client'[c].leaderAcked => client'[c].pending
      /\ \A d \in done' : d \in done \/ /\ d = [req |-> m.req, value |-> m.value]
                                        /\ ~client'[c].pending /\ client'[c].leaderAcked
      /\ done \subseteq done'
      /\ \A d \in done : d.req # m.req
  BY <1>1, ReplyFacts
<1>3. /\ m.type = "Reply" /\ client[c].pending /\ m.req = Current(c)
      /\ UNCHANGED <<app, server, applied, decided, executed, precedes>>
      /\ msgs' \subseteq msgs
  BY <1>1 DEF HandleReplyTo, serverVars, logVars
<1>4. PICK q \in Requests : q = m.req /\ q = Current(c) /\ q.id = client[c].id /\ q.client[1] = c
  BY <1>3, CurrentFacts
<1>5. SoundReply(m) /\ Known(q)
  BY <1>3, <1>4 DEF LinInv, MessagesInv, Sound
<1>6. \A x : <<q, x>> \notin precedes
  <2> SUFFICES ASSUME NEW x, <<q, x>> \in precedes PROVE FALSE
    OBVIOUS
  <2>1. <<q, x>>[1] = q
    OBVIOUS
  <2>2. PICK d \in done : d.req = q
    BY <2>1 DEF LinInv, ClientsInv
  <2> QED  BY <1>2, <1>4, <2>2
<1>7. ASSUME NEW x \in Requests, Known(x)
      PROVE  Known(x)' /\ Owed(x)' = Owed(x) /\ CompletedBefore(x)' = CompletedBefore(x)
  <2>1. Known(x)'
    BY <1>2, <1>7, RequestsFacts DEF Known
  <2>2. \A d \in done' : <<d.req, x>> \in precedes => d \in done
    BY <1>2, <1>4, <1>6
  <2>3. Owed(x)' = Owed(x)
    BY <1>2, <1>3, <2>2 DEF Owed, Tells
  <2> QED  BY <1>3, <2>1, <2>3 DEF CompletedBefore
<1>8. LeaderSame
  BY <1>3 DEF LeaderSame
<1>9. Grows /\ ServerInv' /\ OrderInv' /\ PendingInv' /\ StoreInv' /\ ReadsInv'
  BY <1>7, <1>8, LeaderStays
<1>10. LeaderOrder' = LeaderOrder /\ Queuing' = Queuing
  BY <1>8, LeaderTerms
<1>11. ASSUME NEW y \in msgs' PROVE Sound(y)'
  <2>1. y \in msgs /\ y \in Messages /\ Sound(y) /\ y.req \in Requests
    BY <1>3, MessageFacts DEF AppInv, TypeOK, LinInv, MessagesInv
  <2>2. y.type = "ConsensusRequest" =>
             \A k \in 1 .. Len(Queuing') :
                 y.req.client = Queuing'[k].client => y.req.id < Queuing'[k].id
    BY <1>10, <2>1 DEF Sound, SoundForward
  <2>3. ASSUME y.type = "Request", y.to = Leader, IsNilext(y.req)
        PROVE  Awaited(y.req)' /\ ~Contains(LeaderOrder, y.req)'
    <3>1. Awaited(y.req) /\ ~Contains(LeaderOrder, y.req) /\ y.req.client[1] \in Clients
      BY <2>1, <2>3, RequestsFacts DEF Sound, SoundRequest
    <3>2. CASE y.req.client[1] # c
      <4>1. Awaited(y.req)'
        BY <1>2, <3>1, <3>2, Zenon DEF Awaited
      <4> QED  BY <1>10, <3>1, <4>1
    <3>3. CASE y.req.client[1] = c
      <4>1. y.req.id = client[c].id /\ ~client[c].leaderAcked
        BY <3>1, <3>3 DEF Awaited
      <4>2. y.req = q
        BY <1>4, <2>1, <3>3, <4>1, ClientFacts
      <4>3. m.from # Leader
        <5>1. Settled(m.from, q)
          BY <1>3, <1>4, <2>3, <4>2 DEF DurableInv, OneCopy
        <5> QED  BY <2>1, <2>3, <4>2, <5>1 DEF Settled, NoRequest
      <4>4. ~client'[c].leaderAcked /\ client'[c].pending
        BY <1>2, <4>1, <4>3, Zenon
      <4>5. Awaited(y.req)'
        BY <1>2, <3>3, <4>1, <4>4, Zenon DEF Awaited
      <4> QED  BY <1>10, <3>1, <4>5
    <3> QED  BY <3>2, <3>3
  <2> QED  BY <1>9, <2>1, <2>2, <2>3, SoundStays
<1>12. client'[c].leaderAcked /\ IsNilext(q) => Contains(LeaderOrder, q)
  <2>1. m.from = Leader /\ IsNilext(q) => Contains(LeaderOrder, q)
    BY <1>4, <1>5 DEF SoundReply, Vouched
  <2>2. client[c].leaderAcked /\ IsNilext(q) => Contains(LeaderOrder, q)
    BY <1>3, <1>4 DEF LinInv, ClientsInv
  <2> QED  BY <1>2, <2>1, <2>2, Zenon
<1>13. ClientsInv'
  <2>1. ASSUME NEW b \in Clients, client'[b].pending, IsNilext(Current(b)'), client'[b].leaderAcked
        PROVE  Contains(LeaderOrder', Current(b)')
    <3>1. PICK x : x = Current(b) /\ x = Current(b)'
      BY <1>2 DEF Current
    <3>2. CASE b = c
      <4>1. x = q /\ IsNilext(q)
        BY <1>4, <2>1, <3>1, <3>2
      <4>2. Contains(LeaderOrder, q)
        BY <1>12, <2>1, <3>2, <4>1, Zenon
      <4> QED  BY <1>10, <3>1, <4>1, <4>2
    <3>3. CASE b # c
      <4>1. client[b].pending /\ client[b].leaderAcked /\ IsNilext(x)
        BY <1>2, <2>1, <3>1, <3>3, Zenon
      <4>2. Contains(LeaderOrder, x)
        BY <3>1, <4>1, Zenon DEF LinInv, ClientsInv
      <4> QED  BY <1>10, <3>1, <4>2
    <3> QED  BY <3>2, <3>3
  <2>2. ASSUME NEW d \in done
        PROVE  d.req.id = client'[d.req.client[1]].id => ~client'[d.req.client[1]].pending
    <3>1. d.req.client[1] \in Clients
      BY RequestsFacts DEF AppInv, TypeOK
    <3> QED  BY <1>2, <3>1 DEF LinInv, ClientsInv
  <2>3. \A d \in done : Vouched(d.req, d.value)' /\ (d.req.op = "read" => UpToDate(d.req, d.value)')
    BY <1>9, DoneStays
  <2>4. ASSUME NEW d \in done', d \notin done
        PROVE  /\ Vouched(d.req, d.value)'
               /\ d.req.op = "read" => UpToDate(d.req, d.value)'
               /\ ~client'[d.req.client[1]].pending
    <3>1. d.req = q /\ d.value = m.value /\ ~client'[c].pending /\ client'[c].leaderAcked
      BY <1>2, <1>4, <2>4
    <3>2. IsNilext(q) => Contains(LeaderOrder, q)
      BY <1>12, <3>1
    <3>3. Vouched(q, m.value)
      <4>1. CASE m.from = Leader
        BY <1>4, <1>5, <4>1 DEF SoundReply
      <4>2. CASE m.from # Leader
        BY <1>4, <1>5, <3>2, <4>2 DEF SoundReply, Vouched, IsNilext
      <4> QED  BY <4>1, <4>2
    <3>4. q.op = "read" => UpToDate(q, m.value)
      BY <1>4, <1>5 DEF SoundReply
    <3>5. Vouched(q, m.value)' /\ (q.op = "read" => UpToDate(q, m.value)')
      BY <1>5, <1>9, <3>3, <3>4, VouchedStays, UpToDateStays
    <3>6. Vouched(d.req, d.value)'
      BY <3>1, <3>5 DEF Vouched
    <3>7. d.req.op = "read" => UpToDate(d.req, d.value)'
      BY <3>1, <3>5 DEF UpToDate
    <3> QED  BY <1>4, <3>1, <3>6, <3>7
  <2>5. ASSUME NEW pair \in precedes'
        PROVE  /\ \E d \in done' : d.req = pair[1]
               /\ pair[1].op # "read" /\ pair[2].op # "write" => ~InOrder(LeaderOrder, pair[2], pair[1])'
    BY <1>2, <1>3, <1>10 DEF LinInv, ClientsInv
  <2>6. \A d \in done' : /\ Vouched(d.req, d.value)'
                         /\ d.req.op = "read" => UpToDate(d.req, d.value)'
                         /\ d.req.id = client'[d.req.client[1]].id => ~client'[d.req.client[1]].pending
    BY <2>2, <2>3, <2>4, Zenon
  <2> QED  BY <2>1, <2>5, <2>6 DEF ClientsInv
<1> QED  BY <1>9, <1>11, <1>13 DEF LinInv, MessagesInv

-------------------------------------------------------------------------------
(* Steps of the leader's durability server                                 *)

(* What is last in the order is after the rest.                             *)
LEMMA AppendOrder ==
  ASSUME NEW S, NEW s \in Seq(S), NEW q \in S
  PROVE  /\ \A x : Contains(Append(s, q), x) <=> Contains(s, x) \/ x = q
         /\ \A x, y : InOrder(s, x, y) => InOrder(Append(s, q), x, y)
         /\ \A x : Contains(s, x) => InOrder(Append(s, q), x, q)
         /\ \A x, y : InOrder(Append(s, q), x, y) => InOrder(s, x, y) \/ (y = q /\ Contains(s, x))
<1>1. PICK t \in Seq(S) : t = Append(s, q) /\ Inserted(t, s, Len(s), q)
  BY AppendIsInserted
<1>2. PICK k \in 0 .. Len(s) : k = Len(s)
  OBVIOUS
<1>3. Inserted(t, s, k, q)
  BY <1>1, <1>2
<1>4. /\ \A x : Contains(t, x) <=> Contains(s, x) \/ x = q
      /\ \A x, y : InOrder(s, x, y) => InOrder(t, x, y)
      /\ \A i \in 1 .. k : InOrder(t, s[i], q)
      /\ \A x, y : InOrder(t, x, y) => \/ InOrder(s, x, y)
                                       \/ x = q /\ \E i \in k + 1 .. Len(s) : s[i] = y
                                       \/ y = q /\ \E i \in 1 .. k : s[i] = x
  BY <1>3, InsertedFacts
<1>5. \A i : i \notin k + 1 .. Len(s)
  BY <1>2
<1>6. \A x : Contains(s, x) <=> \E i \in 1 .. k : s[i] = x
  BY <1>2 DEF Contains
<1> QED  BY <1>1, <1>4, <1>5, <1>6

(* HandleRequest of an update.                                              *)
LEMMA LinLeaderUpdate ==
  ASSUME AppInv, DurableInv, LinInv, AppInv', DurableInv', NEW m \in msgs,
         m.type = "Request", m.to = Leader, IsNilext(m.req), server[Leader] = <<>>,
         app' = [app EXCEPT ![Leader] = MakeDurable(@, m.req)],
         server' = [server EXCEPT ![Leader] = <<m>>],
         Network({m}, {Reply(Leader, m, NotFound)}),
         UNCHANGED <<applied, decided, executed, client, done, precedes>>
  PROVE  LinInv'
<1> DEFINE a == app[Leader]
           o == LeaderOrder
<1>1. m \in Messages /\ Sound(m) /\ a \in AppStates(Updates) /\ Distinct(a.durabilityLog)
  BY LeaderIsReplica DEF AppInv, TypeOK, Indexed, LinInv, MessagesInv
<1>2. PICK q \in Updates : q = m.req
  BY <1>1, MessageFacts, RequestsFacts
<1>3. /\ IsNilext(q) /\ q.op = "nilext" /\ Known(q) /\ Awaited(q) /\ ~Contains(o, q)
      /\ q \in Requests /\ q.client[1] \in Clients
  BY <1>1, <1>2, RequestsFacts DEF Sound, SoundRequest, IsNilext, Updates
<1> DEFINE b == MakeDurable(a, q)
<1>4. /\ b \in AppStates(Updates)
      /\ \A x : Contains(b.durabilityLog, x) <=> Contains(a.durabilityLog, x) \/ x = q
      /\ b.store = a.store
      /\ b.lastUpdateToKey = [a.lastUpdateToKey EXCEPT ![q.key] = q]
  BY <1>1, MakeDurableFacts
<1>5. b.queue = a.queue
  BY <1>1 DEF MakeDurable, AppStates
<1>6. app'[Leader] = b /\ server'[Leader] = <<m>> /\ Leader' = Leader
  BY <1>2, LeaderIsReplica DEF AppInv, TypeOK, Leader
<1> HIDE DEF b
<1>7. Queuing = <<>> /\ Queuing' = <<q>> /\ Queue' = Queue /\ Seen' = Seen
  <2>1. server'[Leader'] # <<>> /\ server'[Leader'][1] = m
    BY <1>6
  <2> QED  BY <1>2, <1>3, <1>5, <1>6, <2>1 DEF Queuing, Queue, Seen
<1>8. /\ \A x : Has(Leader, x)' <=> Has(Leader, x) \/ x = q
      /\ \A x : ExecutedAt(Leader, x)' = ExecutedAt(Leader, x)
      /\ \A x : Stored(x)' = Stored(x) /\ Queued(x)' = Queued(x)
      /\ \A k : StoredAt(k)' = StoredAt(k)
      /\ \A k \in Keys : LastUpdate(k)' = IF k = q.key THEN q ELSE LastUpdate(k)
  <2>1. \A x : Has(Leader, x)' <=> Has(Leader, x) \/ x = q
    BY <1>4, <1>6 DEF Has
  <2>2. \A x : ExecutedAt(Leader, x)' = ExecutedAt(Leader, x)
    BY <1>6 DEF ExecutedAt
  <2>3. \A x : Stored(x)' = Stored(x) /\ Queued(x)' = Queued(x)
    BY <1>7 DEF Stored, Queued
  <2>4. \A k : StoredAt(k)' = StoredAt(k)
    BY <1>4, <1>6 DEF StoredAt
  <2>5. \A k \in Keys : LastUpdate(k)' = IF k = q.key THEN q ELSE LastUpdate(k)
    BY <1>1, <1>4, <1>6, AppFields DEF LastUpdate
  <2> QED  BY <2>1, <2>2, <2>3, <2>4, <2>5
<1>9. /\ \A x : Contains(o', x) <=> Contains(o, x) \/ x = q
      /\ \A x, y : InOrder(o, x, y) => InOrder(o', x, y)
      /\ \A x : Contains(o, x) => InOrder(o', x, q)
      /\ \A x, y : InOrder(o', x, y) => InOrder(o, x, y) \/ (y = q /\ Contains(o, x))
      /\ \A x : Contains(o, x) => x \in Requests /\ Known(x)
  <2>1. o = decided \o Queue \o <<>> /\ decided \in Seq(Requests) /\ Queue \in Seq(Requests)
        /\ \A x : Contains(o, x) => x \in Requests
    BY <1>7, OrderParts DEF AppInv
  <2>2. o' = decided \o Queue \o <<q>>
    <3>1. o' = decided' \o Queue' \o Queuing'
      BY DEF LeaderOrder, Queue, Queuing
    <3> QED  BY <1>7, <3>1
  <2>3. decided \o Queue \o <<>> \in Seq(Requests)
    BY <2>1, OrderParts DEF AppInv
  <2>4. o' = Append(o, q) /\ o \in Seq(Requests)
    BY <1>3, <2>1, <2>2, <2>3, ChainMoved
  <2>5. PICK s \in Seq(Requests) : s = o
    BY <2>4
  <2>6. o' = Append(s, q)
    BY <2>4, <2>5
  <2> HIDE DEF o
  <2>7. /\ \A x : Contains(o', x) <=> Contains(o, x) \/ x = q
        /\ \A x, y : InOrder(o, x, y) => InOrder(o', x, y)
        /\ \A x : Contains(o, x) => InOrder(o', x, q)
        /\ \A x, y : InOrder(o', x, y) => InOrder(o, x, y) \/ (y = q /\ Contains(o, x))
    BY <1>3, <2>5, <2>6, AppendOrder
  <2>8. \A x : Contains(o, x) => Known(x)
    BY DEF LinInv, OrderInv, o
  <2> QED  BY <2>1, <2>7, <2>8
<1>10. Grows
  BY <1>8, <1>9, SameClients DEF Grows
<1>11. ASSUME NEW x \in Requests, Known(x), x.client[1] = q.client[1], x # q
       PROVE  x.id < q.id
  <2>1. x.id <= client[q.client[1]].id /\ q.id = client[q.client[1]].id
    BY <1>3, <1>11 DEF Known, Awaited
  <2>2. x.id # q.id
    BY <1>3, <1>11, ClientFacts
  <2> QED  BY <1>3, <1>11, <2>1, <2>2, RequestsFacts
<1>12. ASSUME NEW x \in msgs' PROVE Sound(x)'
  <2>1. CASE x \in msgs
    <3>1. x \in Messages /\ Sound(x) /\ x.req \in Requests
      BY <2>1, MessageFacts DEF AppInv, TypeOK, LinInv, MessagesInv
    <3>2. ASSUME x.type = "Request", x.to = Leader, IsNilext(x.req)
          PROVE  Awaited(x.req)' /\ ~Contains(o, x.req)'
      <4>1. Has(Leader, q)'
        BY <1>8
      <4>2. NoRequest(Leader, q)'
        BY <1>6, <4>1, LeaderIsReplica DEF DurableInv, OneCopy
      <4>3. x.req # q
        BY <3>2, <4>2 DEF NoRequest
      <4>4. Awaited(x.req)'
        BY <3>1, <3>2 DEF Sound, SoundRequest, Awaited
      <4>5. ~Contains(o, x.req)
        BY <3>1, <3>2 DEF Sound, SoundRequest
      <4> QED  BY <1>9, <4>3, <4>4, <4>5
    <3>3. ASSUME x.type = "ConsensusRequest", NEW k \in 1 .. Len(Queuing'),
                 x.req.client = Queuing'[k].client
          PROVE  x.req.id < Queuing'[k].id
      <4>1. Queuing'[k] = q
        BY <1>7
      <4>2. Known(x.req) /\ ~IsNilext(x.req)
        BY <3>1, <3>3 DEF Sound
      <4> QED  BY <1>3, <1>11, <3>1, <3>3, <4>1, <4>2
    <3> QED  BY <1>10, <2>1, <3>2, <3>3, SoundStays
  <2>2. CASE x \notin msgs
    <3>1. x.type = "Reply" /\ x.from = Leader /\ x.req = q
      BY <1>2, <2>2 DEF Network, Reply
    <3>2. Known(q)' /\ Contains(o, q)'
      BY <1>3, <1>9, <1>10 DEF Grows
    <3>3. Vouched(x.req, x.value)'
      BY <1>3, <3>1, <3>2 DEF Vouched
    <3>4. SoundReply(x)'
      BY <1>3, <1>6, <3>1, <3>3 DEF SoundReply
    <3>5. Known(x.req)'
      BY <3>1, <3>2 DEF Known
    <3> QED  BY <3>1, <3>4, <3>5 DEF Sound
  <2> QED  BY <2>1, <2>2
<1>13. ServerInv'
  <2>1. \A r \in Replicas : server'[r] # <<>> => r = Leader
    BY DEF AppInv, TypeOK, LinInv, ServerInv
  <2>2. server'[Leader][1] = m /\ Known(m.req)'
    BY <1>2, <1>3, <1>6, <1>10 DEF Grows, Known
  <2> QED  BY <1>2, <1>3, <1>6, <2>1, <2>2 DEF ServerInv
<1>14. OrderInv'
  <2>1. ASSUME NEW x, NEW y, InOrder(o', x, y), x.client = y.client PROVE x.id < y.id
    <3>1. CASE InOrder(o, x, y)
      BY <2>1, <3>1 DEF LinInv, OrderInv
    <3>2. CASE y = q /\ Contains(o, x)
      BY <1>3, <1>9, <1>11, <2>1, <3>2
    <3> QED  BY <1>9, <2>1, <3>1, <3>2
  <2>2. \A x : Contains(o', x) => Known(x)'
    BY <1>3, <1>9, <1>10 DEF Grows
  <2>3. \A x : Contains(Queue', x) => IsNilext(x)
    BY <1>7 DEF LinInv, OrderInv
  <2> QED  BY <2>1, <2>2, <2>3 DEF OrderInv
<1>15. PendingInv'
  <2>1. \A x \in Updates : Has(Leader, x)' => Contains(o', x)
    BY <1>8, <1>9 DEF LinInv, PendingInv
  <2>2. ASSUME NEW x, Contains(o', x), IsNilext(x)
        PROVE  /\ ExecutedAt(Leader, x)' \/ Has(Leader, x)'
               /\ x = LastUpdate(x.key)' \/ InOrder(o', x, LastUpdate(x.key)')
    <3>1. CASE x = q
      BY <1>3, <1>8, <3>1, RequestsFacts
    <3>2. CASE x # q
      <4>1. Contains(o, x) /\ x.key \in Keys
        BY <1>9, <2>2, <3>2, RequestsFacts
      <4>2. /\ ExecutedAt(Leader, x) \/ Has(Leader, x)
            /\ x = LastUpdate(x.key) \/ InOrder(o, x, LastUpdate(x.key))
        BY <2>2, <4>1 DEF LinInv, PendingInv
      <4>3. CASE x.key = q.key
        BY <1>8, <1>9, <4>1, <4>2, <4>3
      <4>4. CASE x.key # q.key
        BY <1>8, <1>9, <4>1, <4>2, <4>4
      <4> QED  BY <4>3, <4>4
    <3> QED  BY <3>1, <3>2
  <2>3. \A k \in Keys : LastUpdate(k)' # NotFound => IsNilext(LastUpdate(k)')
    BY <1>3, <1>8 DEF LinInv, PendingInv
  <2> QED  BY <1>6, <2>1, <2>2, <2>3 DEF PendingInv
<1>16. StoreInv'
  BY <1>7, <1>8 DEF LinInv, StoreInv
<1>17. ReadsInv'
  BY <1>10, SameLogGrows, ReadsStay
<1>18. ClientsInv'
  <2>1. ASSUME NEW pair \in precedes, pair[1].op # "read", pair[2].op # "write", InOrder(o', pair[2], pair[1])
        PROVE  FALSE
    <3>1. ~InOrder(o, pair[2], pair[1])
      BY <2>1 DEF LinInv, ClientsInv
    <3>2. pair[1] = q
      BY <1>9, <2>1, <3>1
    <3>3. PICK d \in done : d.req = q
      BY <3>2 DEF LinInv, ClientsInv
    <3>4. Contains(o, q)
      BY <1>3, <3>3 DEF LinInv, ClientsInv, Vouched
    <3> QED  BY <1>3, <3>4
  <2> QED  BY <1>10, <2>1, ClientsStay
<1> QED  BY <1>12, <1>13, <1>14, <1>15, <1>16, <1>17, <1>18 DEF LinInv, MessagesInv

\* The order, the index of the updates and the clients are the same, the queue and
\* the store have what they had.
OrderKept ==
    /\ LeaderOrder' = LeaderOrder
    /\ LogGrows
    /\ UNCHANGED <<client, done, precedes>>
    /\ Queuing' \in {Queuing, <<>>}
    /\ \A x : Contains(Queue, x)' => IsNilext(x)
    /\ \A x : (Stored(x) => Stored(x)') /\ (Queued(x) => Queued(x)')
    /\ \A k \in Keys : LastUpdate(k)' = LastUpdate(k)
    /\ \A x \in Updates : Has(Leader, x)' => Has(Leader, x)
    /\ \A x \in Updates : ExecutedAt(Leader, x) \/ Has(Leader, x)
           => ExecutedAt(Leader, x)' \/ Has(Leader, x)'

(* What such a step keeps.                                                  *)
LEMMA OrderKeptFacts ==
  ASSUME AppInv, DurableInv, LinInv, OrderKept
  PROVE  /\ Grows /\ OrderInv' /\ PendingInv' /\ ClientsInv'
         /\ \A m \in msgs : Sound(m)'
<1> USE DEF OrderKept
<1>1. Grows
  BY SameClients DEF Grows
<1>2. \A x : Contains(LeaderOrder, x) => x \in Requests
  BY OrderParts DEF AppInv
<1>3. OrderInv'
  <2>1. \A x : Contains(LeaderOrder, x) => Known(x)'
    BY <1>1, <1>2 DEF Grows, LinInv, OrderInv
  <2> QED  BY <2>1 DEF LinInv, OrderInv
<1>4. PendingInv'
  <2>1. \A x \in Updates : Has(Leader, x)' => Contains(LeaderOrder', x)
    BY DEF LinInv, PendingInv
  <2>2. ASSUME NEW x, Contains(LeaderOrder', x), IsNilext(x)
        PROVE  /\ ExecutedAt(Leader, x)' \/ Has(Leader, x)'
               /\ x = LastUpdate(x.key)' \/ InOrder(LeaderOrder', x, LastUpdate(x.key)')
    <3>1. Contains(LeaderOrder, x) /\ x \in Updates /\ x.key \in Keys
      BY <1>2, <2>2, RequestsFacts
    <3>2. /\ ExecutedAt(Leader, x) \/ Has(Leader, x)
          /\ x = LastUpdate(x.key) \/ InOrder(LeaderOrder, x, LastUpdate(x.key))
      BY <2>2, <3>1 DEF LinInv, PendingInv
    <3> QED  BY <3>1, <3>2
  <2>3. \A k \in Keys : LastUpdate(k)' # NotFound => IsNilext(LastUpdate(k)')
    BY DEF LinInv, PendingInv
  <2>4. Leader' = Leader
    BY DEF Leader
  <2> QED  BY <2>1, <2>2, <2>3, <2>4 DEF PendingInv
<1>5. ClientsInv'
  BY <1>1, ClientsStay DEF LinInv, ClientsInv
<1>6. \A m \in msgs : Sound(m)'
  BY <1>1, MessagesStay
<1> QED  BY <1>1, <1>3, <1>4, <1>5, <1>6

(* HandleRequest of a read that is forwarded to the consensus replica.      *)
LEMMA LinForwardRead ==
  ASSUME AppInv, DurableInv, LinInv, NEW m \in msgs,
         m.type = "Request", m.to = Leader, ~IsNilext(m.req), server[Leader] = <<>>,
         Network({m}, {ToConsensus(m)}),
         UNCHANGED <<app, server, applied, decided, executed, client, done, precedes>>
  PROVE  LinInv'
<1>1. m \in Messages /\ Sound(m)
  BY DEF AppInv, TypeOK, LinInv, MessagesInv
<1>2. PICK q \in Requests : q = m.req
  BY <1>1, MessageFacts
<1>3. Known(q) /\ q.op = "read"
  BY <1>1, <1>2, RequestsFacts DEF Sound, SoundRequest, IsNilext, Ops
<1>4. LeaderSame
  BY DEF LeaderSame
<1>5. \A x \in Requests : Known(x) =>
          Known(x)' /\ Owed(x)' = Owed(x) /\ CompletedBefore(x)' = CompletedBefore(x)
  BY SameClients
<1>6. Queuing = <<>> /\ Queuing' = Queuing /\ \A x : Queued(x)' = Queued(x)
  BY <1>4, LeaderTerms DEF Queuing
<1>7. \A u \in Owed(q) \cup CompletedBefore(q) : Queued(u)
  <2>1. \A x : Contains(LeaderOrder, x) => Queued(x)
    BY <1>6, OrderParts DEF AppInv, Contains
  <2>2. \A u \in Owed(q) : Contains(LeaderOrder, u)
    BY OwedFacts
  <2>3. \A u \in CompletedBefore(q) : Contains(LeaderOrder, u)
    BY CompletedFacts DEF CompletedBefore
  <2> QED  BY <2>1, <2>2, <2>3
<1>8. ASSUME NEW x, x = ToConsensus(m) PROVE Sound(x)'
  <2>1. x.type = "ConsensusRequest" /\ x.req = q
    BY <1>2, <1>8 DEF ToConsensus
  <2>2. \A u \in Owed(q)' \cup CompletedBefore(q)' : Queued(u)'
    BY <1>3, <1>5, <1>6, <1>7
  <2>3. \A u \in Owed(x.req)' \cup CompletedBefore(x.req)' : Queued(u)'
    BY <2>1, <2>2 DEF Owed, CompletedBefore
  <2>4. SoundForward(x)'
    BY <1>6, <2>3 DEF SoundForward
  <2>5. Known(x.req)' /\ ~IsNilext(x.req)
    BY <1>2, <1>3, <1>5, <2>1 DEF Known, IsNilext
  <2> QED  BY <2>1, <2>4, <2>5 DEF Sound
<1>9. \A x \in msgs' : x \in msgs \/ Sound(x)'
  BY <1>8 DEF Network
<1> QED  BY <1>4, <1>9, LinQuiet

(* HandleRequest of a read that is answered from the store: no update of the *)
(* key is pending.                                                          *)
LEMMA LinHoldRead ==
  ASSUME AppInv, DurableInv, LinInv, NEW m \in msgs,
         m.type = "Request", m.to = Leader, ~IsNilext(m.req), server[Leader] = <<>>,
         ~MustOrder(app[Leader], m.req.key),
         server' = [server EXCEPT ![Leader] = <<m>>],
         Network({m}, {}),
         UNCHANGED <<app, applied, decided, executed, client, done, precedes>>
  PROVE  LinInv'
<1>1. m \in Messages /\ Sound(m)
  BY DEF AppInv, TypeOK, LinInv, MessagesInv
<1>2. PICK q \in Requests : q = m.req
  BY <1>1, MessageFacts
<1>3. Known(q) /\ q.op = "read" /\ q.key \in Keys
  BY <1>1, <1>2, RequestsFacts DEF Sound, SoundRequest, IsNilext, Ops
<1>4. server'[Leader] = <<m>> /\ Leader' = Leader
  BY LeaderIsReplica DEF AppInv, TypeOK, Leader
<1>5. Queuing = <<>> /\ Queuing' = <<>> /\ Queue' = Queue /\ Seen' = Seen
  <2>1. server'[Leader'] # <<>> /\ server'[Leader'][1] = m
    BY <1>4
  <2> QED  BY <1>4, <2>1 DEF Queuing, Queue, Seen
<1>6. LeaderOrder' = LeaderOrder
  <2>1. LeaderOrder = decided \o Queue \o Queuing /\ LeaderOrder' = decided' \o Queue' \o Queuing'
    BY DEF LeaderOrder, Queue, Queuing
  <2> QED  BY <1>5, <2>1
<1>7. /\ \A x : Has(Leader, x)' = Has(Leader, x) /\ ExecutedAt(Leader, x)' = ExecutedAt(Leader, x)
      /\ \A x : Stored(x)' = Stored(x) /\ Queued(x)' = Queued(x)
      /\ \A k : LastUpdate(k)' = LastUpdate(k) /\ StoredAt(k)' = StoredAt(k)
  BY <1>4, <1>5 DEF Has, ExecutedAt, Stored, Queued, LastUpdate, StoredAt
<1>8. \A x : Contains(Queue, x)' => IsNilext(x)
  BY <1>5 DEF LinInv, OrderInv
<1>9. OrderKept
  BY <1>5, <1>6, <1>7, <1>8, SameLogGrows DEF OrderKept
<1>10. Grows /\ OrderInv' /\ PendingInv' /\ ClientsInv' /\ \A x \in msgs : Sound(x)'
  BY <1>9, OrderKeptFacts
<1>11. ASSUME NEW u \in Owed(q) PROVE Stored(u)
  <2>1. /\ u \in Updates /\ u.key = q.key /\ Contains(LeaderOrder, u)
        /\ ~IsNilext(u) => Stored(u)
    BY OwedFacts
  <2>2. ASSUME IsNilext(u) PROVE Stored(u)
    <3> DEFINE z == LastUpdate(q.key)
    <3>1. u = z \/ InOrder(LeaderOrder, u, z)
      BY <2>1, <2>2 DEF LinInv, PendingInv
    <3>2. Contains(LeaderOrder, z)
      BY <2>1, <3>1, OrderParts DEF AppInv
    <3>3. z \in Requests /\ z # NotFound
      BY <3>2, OrderParts, NotFoundAssumption DEF AppInv
    <3>4. IsNilext(z)
      BY <1>3, <3>3 DEF LinInv, PendingInv
    <3>5. ~Has(Leader, z)
      BY <1>2 DEF MustOrder, Has, LastUpdate
    <3>6. ExecutedAt(Leader, z)
      BY <3>2, <3>4, <3>5 DEF LinInv, PendingInv
    <3> HIDE DEF z
    <3>7. ExecutedAt(Leader, u)
      BY <3>1, <3>6, ExecutedFirst DEF LinInv
    <3> QED  BY <3>7, SeenFacts
  <2> QED  BY <2>1, <2>2
<1>12. ServerInv'
  <2>1. \A r \in Replicas : server'[r] # <<>> => r = Leader
    BY DEF AppInv, TypeOK, LinInv, ServerInv
  <2>2. \A u \in Owed(q)' : Stored(u)'
    BY <1>3, <1>7, <1>10, <1>11 DEF Grows
  <2>3. \A u \in Owed(m.req)' : Stored(u)'
    BY <1>2, <2>2 DEF Owed
  <2>4. Known(m.req)'
    BY <1>2, <1>3, <1>10 DEF Grows, Known
  <2>5. server'[Leader'] # <<>> /\ server'[Leader'][1] = m
    BY <1>4
  <2>6. m.req.op # "write"
    BY <1>2, <1>3
  <2> QED  BY <1>4, <2>1, <2>3, <2>4, <2>5, <2>6 DEF ServerInv
<1>13. StoreInv'
  BY <1>5, <1>7 DEF LinInv, StoreInv
<1>14. ReadsInv'
  BY <1>10, SameLogGrows, ReadsStay
<1>15. MessagesInv'
  BY <1>10 DEF Network, MessagesInv
<1> QED  BY <1>10, <1>12, <1>13, <1>14, <1>15 DEF LinInv

(* HandleRequest.                                                           *)
LEMMA LinHandleRequest ==
  ASSUME AppInv, DurableInv, LinInv, AppInv', DurableInv', NEW r \in Up, HandleRequest(r)
  PROVE  LinInv'
<1>1. CASE r # Leader
  BY <1>1, LinFollowerRequest
<1>2. CASE r = Leader
  <2>1. PICK m \in msgs :
          /\ m.type = "Request" /\ m.to = Leader /\ server[Leader] = <<>>
          /\ \/ /\ IsNilext(m.req)
                /\ app' = [app EXCEPT ![Leader] = MakeDurable(@, m.req)]
                /\ server' = [server EXCEPT ![Leader] = <<m>>]
                /\ Network({m}, {Reply(Leader, m, NotFound)})
             \/ /\ ~IsNilext(m.req)
                /\ Network({m}, {ToConsensus(m)})
                /\ UNCHANGED <<app, server>>
             \/ /\ ~IsNilext(m.req) /\ ~MustOrder(app[Leader], m.req.key)
                /\ server' = [server EXCEPT ![Leader] = <<m>>]
                /\ Network({m}, {})
                /\ UNCHANGED app
          /\ UNCHANGED <<applied, decided, executed, client, done, precedes>>
    BY <1>2 DEF HandleRequest, logVars, clientVars
  <2> QED  BY <2>1, LinLeaderUpdate, LinForwardRead, LinHoldRead
<1> QED  BY <1>1, <1>2

(* An answer of the leader.                                                 *)
LEMMA LeaderReplySound ==
  ASSUME Grows, NEW q \in Requests, Known(q), NEW v, Vouched(q, v),
         q.op = "read" => UpToDate(q, v), NEW m, m.req = q
  PROVE  Sound(Reply(Leader, m, v))'
<1>1. PICK x : x = Reply(Leader, m, v) /\ x = Reply(Leader, m, v)'
  BY DEF Reply, Leader
<1>2. x.type = "Reply" /\ x.from = Leader /\ x.req = q /\ x.value = v /\ Leader' = Leader
  BY <1>1 DEF Reply, Leader
<1>3. Known(q)' /\ Vouched(q, v)' /\ (q.op = "read" => UpToDate(q, v)')
  BY VouchedStays, UpToDateStays DEF Grows
<1>4. Known(x.req)'
  BY <1>2, <1>3 DEF Known
<1>5. Vouched(x.req, x.value)'
  BY <1>2, <1>3 DEF Vouched
<1>6. x.req.op = "read" => UpToDate(x.req, x.value)'
  BY <1>2, <1>3 DEF UpToDate
<1>7. SoundReply(x)'
  BY <1>2, <1>5, <1>6 DEF SoundReply
<1>8. Sound(x)'
  BY <1>2, <1>4, <1>7 DEF Sound
<1> QED  BY <1>1, <1>8

(* FinishRequest.                                                           *)
LEMMA LinFinishRequest ==
  ASSUME AppInv, DurableInv, LinInv, NEW r \in Up, FinishRequest(r)
  PROVE  LinInv'
<1> DEFINE a == app[Leader]
<1>1. r = Leader /\ server[Leader] # <<>> /\ r \in Replicas
  BY DurabilityAssumption DEF FinishRequest, LinInv, ServerInv
<1>2. PICK m \in Messages : m = server[Leader][1]
  BY <1>1 DEF AppInv, TypeOK
<1>3. PICK q \in Requests : q = m.req
  BY MessageFacts
<1>4. Known(q) /\ q.op # "write" /\ (q.op = "read" => \A u \in Owed(q) : Stored(u))
  BY <1>1, <1>2, <1>3 DEF LinInv, ServerInv
<1>5. /\ server' = [server EXCEPT ![Leader] = <<>>]
      /\ UNCHANGED <<applied, decided, executed, client, done, precedes>>
  BY <1>1 DEF FinishRequest, logVars, clientVars
<1>6. server'[Leader] = <<>> /\ Leader' = Leader /\ Queuing' = <<>> /\ Seen' = Seen /\ LogGrows
  <2>1. server'[Leader] = <<>>
    BY <1>5, LeaderIsReplica DEF AppInv, TypeOK
  <2> QED  BY <1>5, <2>1, SameLogGrows DEF Leader, Queuing, Seen
<1>7. ServerInv'
  <2>1. \A p \in Replicas : server'[p] # <<>> => p = Leader
    BY <1>5 DEF AppInv, TypeOK, LinInv, ServerInv
  <2> QED  BY <1>6, <2>1 DEF ServerInv
<1>8. CASE IsNilext(q)
  <2> DEFINE b == AddToQueue(a, q)
  <2>1. app' = [app EXCEPT ![Leader] = b] /\ Network({}, {})
    BY <1>1, <1>2, <1>3, <1>8 DEF FinishRequest
  <2>2. q \in Updates /\ a \in AppStates(Updates)
    BY <1>8, RequestsFacts, LeaderIsReplica DEF AppInv, TypeOK
  <2>3. /\ b.durabilityLog = a.durabilityLog /\ b.lastUpdateToKey = a.lastUpdateToKey
        /\ b.store = a.store /\ b.queue = Append(a.queue, q)
    BY <2>2, QueueFacts DEF AddToQueue, AppStates
  <2>4. app'[Leader] = b
    BY <2>1, LeaderIsReplica DEF AppInv, TypeOK
  <2> HIDE DEF b
  <2>5. Queuing = <<q>> /\ Queue' = Append(Queue, q)
    BY <1>1, <1>2, <1>3, <1>6, <1>8, <2>3, <2>4 DEF Queuing, Queue
  <2>6. LeaderOrder' = LeaderOrder
    <3>1. LeaderOrder = decided \o Queue \o Queuing /\ LeaderOrder' = decided' \o Queue' \o Queuing'
      BY DEF LeaderOrder, Queue, Queuing
    <3>2. decided \in Seq(Requests) /\ Queue \in Seq(Requests)
      BY OrderParts DEF AppInv
    <3>3. decided \o Append(Queue, q) \o <<>> = decided \o Queue \o <<q>>
      BY <3>2, ChainMoved
    <3> QED  BY <1>5, <1>6, <2>5, <3>1, <3>3
  <2>7. /\ \A x : Contains(Queue, x) => Contains(Queue', x)
        /\ \A x : Contains(Queue', x) => Contains(Queue, x) \/ x = q
    <3>1. PICK s \in Seq(Requests) : s = Queue
      BY OrderParts DEF AppInv
    <3> HIDE DEF Queue
    <3>2. \A x : Contains(Append(s, q), x) <=> Contains(s, x) \/ x = q
      BY AppendOrder
    <3> QED  BY <2>5, <3>1, <3>2
  <2>8. OrderKept
    <3>1. \A x : Contains(Queue, x)' => IsNilext(x)
      BY <1>8, <2>7 DEF LinInv, OrderInv, Contains
    <3>2. \A x : (Stored(x) => Stored(x)') /\ (Queued(x) => Queued(x)')
      BY <1>5, <1>6, <2>7 DEF Stored, Queued
    <3>3. \A k \in Keys : LastUpdate(k)' = LastUpdate(k)
      BY <1>6, <2>3, <2>4 DEF LastUpdate
    <3>4. \A x : Has(Leader, x)' = Has(Leader, x) /\ ExecutedAt(Leader, x)' = ExecutedAt(Leader, x)
      BY <1>5, <1>6, <2>3, <2>4 DEF Has, ExecutedAt
    <3> QED  BY <1>5, <1>6, <2>6, <3>1, <3>2, <3>3, <3>4 DEF OrderKept
  <2>9. Grows /\ OrderInv' /\ PendingInv' /\ ClientsInv' /\ \A x \in msgs : Sound(x)'
    BY <2>8, OrderKeptFacts
  <2>10. StoreInv'
    <3>1. \A k : StoredAt(k)' = StoredAt(k)
      BY <1>6, <2>3, <2>4 DEF StoredAt
    <3>2. \A x : Stored(x)' = Stored(x)
      BY <1>5, <1>6 DEF Stored
    <3> QED  BY <1>5, <1>6, <3>1, <3>2 DEF LinInv, StoreInv
  <2>11. ReadsInv'
    BY <1>5, <1>6, <2>9, ReadsStay
  <2>12. MessagesInv'
    BY <2>1, <2>9 DEF Network, MessagesInv
  <2> QED  BY <1>7, <2>9, <2>10, <2>11, <2>12 DEF LinInv
<1>9. CASE ~IsNilext(q)
  <2>1. app' = app /\ Network({}, {Reply(Leader, m, StoredAt(q.key))})
    BY <1>1, <1>2, <1>3, <1>9 DEF FinishRequest, StoredAt
  <2>2. q.op = "read"
    BY <1>4, <1>9, RequestsFacts DEF IsNilext, Ops
  <2>3. Queuing = <<>> /\ Queue' = Queue
    BY <1>2, <1>3, <1>6, <1>9, <2>1 DEF Queuing, Queue
  <2>4. LeaderOrder' = LeaderOrder
    <3>1. LeaderOrder = decided \o Queue \o Queuing /\ LeaderOrder' = decided' \o Queue' \o Queuing'
      BY DEF LeaderOrder, Queue, Queuing
    <3> QED  BY <1>5, <1>6, <2>3, <3>1
  <2>5. /\ \A x : Has(Leader, x)' = Has(Leader, x) /\ ExecutedAt(Leader, x)' = ExecutedAt(Leader, x)
        /\ \A x : Stored(x)' = Stored(x) /\ Queued(x)' = Queued(x)
        /\ \A k : LastUpdate(k)' = LastUpdate(k) /\ StoredAt(k)' = StoredAt(k)
    BY <1>5, <1>6, <2>1, <2>3 DEF Has, ExecutedAt, Stored, Queued, LastUpdate, StoredAt
  <2>6. \A x : Contains(Queue, x)' => IsNilext(x)
    BY <2>3 DEF LinInv, OrderInv, Contains
  <2>7. OrderKept
    BY <1>5, <1>6, <2>4, <2>5, <2>6 DEF OrderKept
  <2>8. Grows /\ OrderInv' /\ PendingInv' /\ ClientsInv' /\ \A x \in msgs : Sound(x)'
    BY <2>7, OrderKeptFacts
  <2>9. StoreInv'
    BY <1>5, <1>6, <2>5 DEF LinInv, StoreInv
  <2>10. ReadsInv'
    BY <1>5, <1>6, <2>8, ReadsStay
  <2>11. UpToDate(q, StoredAt(q.key)) /\ Vouched(q, StoredAt(q.key))
    BY <1>4, <2>2, StoreUpToDate
  <2>12. PICK v : v = StoredAt(q.key)
    OBVIOUS
  <2>13. Sound(Reply(Leader, m, v))'
    BY <1>3, <1>4, <2>8, <2>11, <2>12, LeaderReplySound
  <2>14. MessagesInv'
    <3>1. \A x \in msgs' : x \in msgs \/ x = Reply(Leader, m, v)
      BY <2>1, <2>12 DEF Network
    <3>2. Reply(Leader, m, v)' = Reply(Leader, m, v)
      BY DEF Reply, Leader
    <3>3. \A x : x = Reply(Leader, m, v) => Sound(x)'
      BY <2>13, <3>2 DEF Reply, Leader
    <3> QED  BY <2>8, <3>1, <3>3 DEF MessagesInv
  <2> QED  BY <1>7, <2>8, <2>9, <2>10, <2>14 DEF LinInv
<1> QED  BY <1>8, <1>9

-------------------------------------------------------------------------------
(* Steps of the leader's consensus replica                                 *)

(* A step that continues the log leaves what is executed or stored.         *)
LEMMA StoredStays ==
  ASSUME AppInv, LogGrows, NEW v, Stored(v), Seen' \in Nat, Seen <= Seen'
  PROVE  Stored(v)'
<1>1. PICK k \in 1 .. Seen : decided[k] = v
  BY DEF Stored
<1>2. Seen \in Nat /\ Seen <= Len(decided) /\ Len(decided) \in Nat
  BY SeenFacts
<1>3. k \in 1 .. Len(decided) /\ k \in 1 .. Seen'
  BY <1>2
<1>4. decided'[k] = v
  BY <1>1, <1>3 DEF LogGrows
<1> QED  BY <1>3, <1>4 DEF Stored

(* The head of the queue is next in the order.                              *)
LEMMA HeadFacts ==
  ASSUME AppInv, LinInv, Queue # <<>>
  PROVE  /\ Head(Queue) \in Requests /\ IsNilext(Head(Queue)) /\ Tail(Queue) \in Seq(Requests)
         /\ \A x : Contains(Queue, x) <=> x = Head(Queue) \/ Contains(Tail(Queue), x)
         /\ Log!Newer(Head(Queue))
<1>1. PICK s \in Seq(Requests) : s = Queue
  BY OrderParts DEF AppInv
<1>2. /\ Head(s) \in Requests /\ Tail(s) \in Seq(Requests) /\ Len(s) \in Nat /\ Len(s) > 0
      /\ Len(Tail(s)) = Len(s) - 1 /\ Head(s) = s[1]
      /\ \A i \in 1 .. Len(Tail(s)) : Tail(s)[i] = s[i + 1]
  BY <1>1
<1>3. PICK t \in Seq(Requests) : t = Tail(s)
  BY <1>2
<1>4. \A i \in 1 .. Len(s) : i = 1 \/ (i - 1 \in 1 .. Len(t) /\ t[i - 1] = s[i])
  BY <1>2, <1>3
<1>5. \A i \in 1 .. Len(t) : i + 1 \in 1 .. Len(s) /\ t[i] = s[i + 1]
  BY <1>2, <1>3
<1>6. \A x : Contains(s, x) <=> x = Head(s) \/ Contains(t, x)
  <2>1. 1 \in 1 .. Len(s)
    BY <1>2
  <2>2. \A x : Contains(s, x) => x = s[1] \/ Contains(t, x)
    BY <1>4 DEF Contains
  <2>3. \A x : x = s[1] \/ Contains(t, x) => Contains(s, x)
    BY <1>5, <2>1 DEF Contains
  <2> QED  BY <1>2, <2>2, <2>3
<1>7. Contains(Queue, Head(s)) /\ IsNilext(Head(s))
  BY <1>1, <1>6 DEF LinInv, OrderInv
<1>8. Log!Newer(Head(s))
  <2> SUFFICES ASSUME NEW k \in DOMAIN decided, decided[k].client = Head(s).client
               PROVE  decided[k].id < Head(s).id
    BY DEF Log!Newer
  <2>1. Contains(decided, decided[k])
    BY DEF AppInv, TypeOK, Contains
  <2>2. InOrder(LeaderOrder, decided[k], Head(s))
    BY <1>7, <2>1, OrderParts DEF AppInv
  <2> QED  BY <2>2 DEF LinInv, OrderInv
<1> QED  BY <1>1, <1>2, <1>3, <1>6, <1>7, <1>8

(* BgRepl.                                                                  *)
LEMMA LinBgRepl ==
  ASSUME AppInv, DurableInv, LinInv, BgRepl
  PROVE  LinInv'
<1> DEFINE a == app[Leader]
           b == [a EXCEPT !.queue = Tail(@)]
<1>1. a.queue # <<>> /\ Queue = a.queue
  BY DEF BgRepl, Queue
<1>2. PICK q : q = Head(Queue)
  OBVIOUS
<1>3. /\ q \in Requests /\ IsNilext(q) /\ Tail(Queue) \in Seq(Requests)
      /\ \A x : Contains(Queue, x) <=> x = q \/ Contains(Tail(Queue), x)
      /\ Log!Newer(q)
  BY <1>1, <1>2, HeadFacts
<1>4. /\ Log!Decide(q) /\ app' = [app EXCEPT ![Leader] = b]
      /\ UNCHANGED <<server, applied, client, done, precedes, msgs>>
  BY <1>1, <1>2, <1>3 DEF BgRepl, clientVars
<1>5. LogGrows /\ executed' = executed /\ decided' = Append(decided, q)
  BY <1>3, <1>4, DecideFacts DEF Log!Decide
<1>6. a \in AppStates(Updates)
  BY LeaderIsReplica DEF AppInv, TypeOK
<1>7. /\ b.durabilityLog = a.durabilityLog /\ b.lastUpdateToKey = a.lastUpdateToKey
      /\ b.store = a.store /\ b.queue = Tail(Queue)
  BY <1>1, <1>6, QueueFacts DEF AppStates
<1>8. app'[Leader] = b /\ Leader' = Leader
  BY <1>4, LeaderIsReplica DEF AppInv, TypeOK, Leader
<1> HIDE DEF b
<1>9. Queue' = Tail(Queue) /\ Queuing' = Queuing /\ Seen' = Seen
  BY <1>4, <1>5, <1>7, <1>8 DEF Queue, Queuing, Seen
<1>10. decided \in Seq(Requests) /\ Queue \in Seq(Requests) /\ Queuing \in Seq(Requests)
       /\ LeaderOrder = decided \o Queue \o Queuing
  BY OrderParts DEF AppInv
<1>11. LeaderOrder' = LeaderOrder
  <2>1. LeaderOrder' = decided' \o Queue' \o Queuing'
    BY DEF LeaderOrder, Queue, Queuing
  <2>2. Append(decided, Head(Queue)) \o Tail(Queue) \o Queuing = decided \o Queue \o Queuing
    <3>1. PICK d, s, t \in Seq(Requests) : d = decided /\ s = Queue /\ t = Queuing
      BY <1>10
    <3>2. s # <<>>
      BY <1>1, <3>1
    <3>3. Append(d, Head(s)) \o Tail(s) \o t = d \o s \o t
      BY <1>3, <3>2, ChainMoved
    <3> QED  BY <3>1, <3>3
  <2> QED  BY <1>2, <1>5, <1>9, <1>10, <2>1, <2>2
<1>12. /\ \A x : Contains(decided', x) <=> Contains(decided, x) \/ x = q
       /\ \A k \in 1 .. Len(decided') : k \in 1 .. Len(decided) \/ decided'[k] = q
  BY <1>3, <1>5, <1>10, AppendOrder
<1>13. Seen \in Nat /\ Seen <= Len(decided) /\ Len(decided) \in Nat
  BY SeenFacts
<1>14. \A k \in 1 .. Seen : k \in 1 .. Len(decided) /\ decided'[k] = decided[k]
  BY <1>5, <1>13 DEF LogGrows
<1>15. OrderKept
  <2>1. \A x : Contains(Queue, x)' => IsNilext(x)
    BY <1>3, <1>9 DEF LinInv, OrderInv
  <2>2. \A x : (Stored(x) => Stored(x)') /\ (Queued(x) => Queued(x)')
    BY <1>3, <1>9, <1>12, <1>14 DEF Stored, Queued
  <2>3. \A k \in Keys : LastUpdate(k)' = LastUpdate(k)
    BY <1>7, <1>8 DEF LastUpdate
  <2>4. \A x : Has(Leader, x)' = Has(Leader, x)
    BY <1>7, <1>8 DEF Has
  <2>5. \A x : ExecutedAt(Leader, x) => ExecutedAt(Leader, x)'
    <3>1. executed' \in [Replicas -> Nat] /\ executed[Leader] <= executed'[Leader]
      BY <1>5, SeenFacts DEF AppInv, TypeOK
    <3>2. \A x : ExecutedAt(Leader, x) => \E k \in 1 .. executed'[Leader] : decided'[k] = x
      BY <1>5, <3>1, LeaderIsReplica, ExecutedStays DEF ExecutedAt
    <3> QED  BY <1>8, <3>2 DEF ExecutedAt
  <2> QED  BY <1>4, <1>5, <1>9, <1>11, <2>1, <2>2, <2>3, <2>4, <2>5 DEF OrderKept
<1>16. Grows /\ OrderInv' /\ PendingInv' /\ ClientsInv' /\ \A x \in msgs : Sound(x)'
  BY <1>15, OrderKeptFacts
<1>17. ServerInv'
  BY <1>4, <1>16, ServerStays
<1>18. StoreInv'
  <2>1. \A k : StoredAt(k)' = StoredAt(k)
    BY <1>7, <1>8 DEF StoredAt
  <2>2. \A k \in 1 .. Seen : \A j \in k .. Seen : decided'[j] = decided[j]
    BY <1>13, <1>14
  <2> QED  BY <1>9, <1>14, <1>15, <2>1, <2>2 DEF LinInv, StoreInv, OrderKept
<1>19. ReadsInv'
  BY <1>3, <1>5, <1>12, <1>16, ReadsStay DEF IsNilext
<1> QED  BY <1>4, <1>16, <1>17, <1>18, <1>19 DEF LinInv, MessagesInv

(* The next operation of the leader, and what its log holds before it.      *)
LEMMA NextFacts ==
  ASSUME AppInv, LinInv, executed[Leader] < Limit(Leader)
  PROVE  /\ NextOp(Leader) \in Requests /\ NextOp(Leader).key \in Keys
         /\ NextOp(Leader) # NotFound /\ Known(NextOp(Leader))
         /\ NextOp(Leader) = decided[executed[Leader] + 1]
         /\ executed[Leader] + 1 \in 1 .. Len(decided) /\ executed[Leader] \in Nat
<1>1. /\ executed[Leader] + 1 \in 1 .. Len(decided)
      /\ NextOp(Leader) \in Requests /\ NextOp(Leader).key \in Keys /\ NextOp(Leader) # NotFound
  BY LeaderIsReplica, NextOpFacts
<1>2. Contains(decided, NextOp(Leader))
  BY <1>1 DEF NextOp, Contains
<1>3. Known(NextOp(Leader))
  BY <1>2, SeenFacts DEF LinInv, OrderInv
<1> QED  BY <1>1, <1>3, SeenFacts DEF NextOp

(* ApplyUpdate of the leader.                                               *)
LEMMA LinApplyUpdate ==
  ASSUME AppInv, DurableInv, LinInv, Leader \in Up, ApplyUpdate(Leader)
  PROVE  LinInv'
<1> DEFINE a == app[Leader]
<1>1. executed[Leader] < Limit(Leader) /\ NextOp(Leader).op # "read" /\ ~applied[Leader]
  BY DEF ApplyUpdate, CanExecute, Limit
<1>2. PICK q \in Requests : q = NextOp(Leader)
  BY <1>1, NextFacts
<1>3. /\ q.key \in Keys /\ q # NotFound /\ q = decided[executed[Leader] + 1]
      /\ executed[Leader] + 1 \in 1 .. Len(decided) /\ executed[Leader] \in Nat /\ q \in Updates
  BY <1>1, <1>2, NextFacts DEF Updates
<1>4. /\ UNCHANGED <<server, decided, executed, client, done, precedes, msgs>>
      /\ app' = [app EXCEPT ![Leader] = Apply(a, q)]
      /\ applied' = [applied EXCEPT ![Leader] = TRUE]
  BY <1>2 DEF ApplyUpdate, clientVars, logVars, Upcall
<1>5. a \in AppStates(Updates) /\ a.store \in [Keys -> Values]
  BY LeaderIsReplica, AppFields DEF AppInv, TypeOK
<1>6. /\ app'[Leader].durabilityLog = a.durabilityLog
      /\ app'[Leader].lastUpdateToKey = a.lastUpdateToKey
      /\ app'[Leader].store = [a.store EXCEPT ![q.key] = q]
      /\ app'[Leader].queue = a.queue
      /\ applied'[Leader] /\ Leader' = Leader
  <2>1. app'[Leader] = Apply(a, q)
    BY <1>4, LeaderIsReplica DEF AppInv, TypeOK
  <2>2. Apply(a, q).queue = a.queue
    BY <1>5 DEF Apply, AppStates
  <2>3. applied'[Leader]
    BY <1>4, LeaderIsReplica DEF AppInv, TypeOK
  <2> QED  BY <1>3, <1>5, <2>1, <2>2, <2>3, ApplyFacts DEF Leader
<1>7. Seen = executed[Leader] /\ Seen' = Seen + 1 /\ Seen' \in 1 .. Len(decided) /\ Seen \in Nat
  BY <1>1, <1>3, <1>4, <1>6 DEF Seen
<1>8. Queue' = Queue /\ Queuing' = Queuing /\ LogGrows
  BY <1>4, <1>6, SameLogGrows DEF Queue, Queuing
<1>9. LeaderOrder' = LeaderOrder
  <2>1. LeaderOrder = decided \o Queue \o Queuing /\ LeaderOrder' = decided' \o Queue' \o Queuing'
    BY DEF LeaderOrder, Queue, Queuing
  <2> QED  BY <1>4, <1>8, <2>1
<1>10. \A x : Stored(x)' <=> Stored(x) \/ x = q
  BY <1>3, <1>4, <1>7 DEF Stored
<1>11. OrderKept
  <2>1. \A x : Contains(Queue, x)' => IsNilext(x)
    BY <1>8 DEF LinInv, OrderInv, Contains
  <2>2. /\ \A k \in Keys : LastUpdate(k)' = LastUpdate(k)
        /\ \A x : Has(Leader, x)' = Has(Leader, x) /\ ExecutedAt(Leader, x)' = ExecutedAt(Leader, x)
    BY <1>4, <1>6 DEF LastUpdate, Has, ExecutedAt
  <2>3. \A x : Queued(x)' = Queued(x)
    BY <1>4, <1>8 DEF Queued
  <2> QED  BY <1>4, <1>8, <1>9, <1>10, <2>1, <2>2, <2>3 DEF OrderKept
<1>12. Grows /\ OrderInv' /\ PendingInv' /\ ClientsInv' /\ \A x \in msgs : Sound(x)'
  BY <1>11, OrderKeptFacts
<1>13. ServerInv'
  BY <1>4, <1>12, ServerStays
<1>14. \A k \in Keys : StoredAt(k)' = IF k = q.key THEN q ELSE StoredAt(k)
  BY <1>3, <1>5, <1>6 DEF StoredAt
<1>15. StoreInv'
  <2>1. ASSUME NEW k \in 1 .. Seen', decided[k].op # "read"
        PROVE  \E j \in k .. Seen' : decided[j] = StoredAt(decided[k].key)'
    <3>1. PICK x \in Keys : x = decided[k].key /\ k \in 1 .. Len(decided)
      <4>1. k \in 1 .. Len(decided)
        BY <1>7
      <4>2. decided[k] \in Requests
        BY <4>1 DEF AppInv, TypeOK
      <4> QED  BY <4>1, <4>2, RequestsFacts
    <3>2. PICK j \in k .. Seen' : decided[j] = StoredAt(x)'
      <4>1. CASE x = q.key
        <5>1. Seen' \in k .. Seen' /\ decided[Seen'] = q
          BY <1>3, <1>7
        <5> QED  BY <1>14, <4>1, <5>1
      <4>2. CASE x # q.key
        <5>1. k \in 1 .. Seen
          BY <1>3, <1>7, <3>1, <4>2
        <5>2. PICK j \in k .. Seen : decided[j] = StoredAt(x)
          BY <2>1, <3>1, <5>1 DEF LinInv, StoreInv
        <5>3. j \in k .. Seen'
          BY <1>7
        <5> QED  BY <1>14, <4>2, <5>2, <5>3
      <4> QED  BY <4>1, <4>2
    <3> QED  BY <1>4, <3>1, <3>2 DEF StoredAt
  <2>2. ASSUME NEW k \in Keys, StoredAt(k)' # NotFound
        PROVE  Stored(StoredAt(k))' /\ StoredAt(k)'.key = k
    <3>1. PICK v : v = StoredAt(k)' /\ Stored(v)' /\ v.key = k
      <4>1. CASE k = q.key
        BY <1>10, <1>14, <4>1
      <4>2. CASE k # q.key
        BY <1>10, <1>14, <2>2, <4>2 DEF LinInv, StoreInv
      <4> QED  BY <4>1, <4>2
    <3> QED  BY <3>1 DEF Stored
  <2> QED  BY <1>4, <2>1, <2>2 DEF StoreInv
<1>16. ReadsInv'
  BY <1>4, <1>8, <1>12, ReadsStay
<1> QED  BY <1>4, <1>12, <1>13, <1>15, <1>16 DEF LinInv, MessagesInv

(* EraseUpdate of the leader.                                               *)
LEMMA LinEraseUpdate ==
  ASSUME AppInv, DurableInv, LinInv, Leader \in Up, EraseUpdate(Leader)
  PROVE  LinInv'
<1> DEFINE a == app[Leader]
           e == [req |-> NextOp(Leader), n |-> 0]
<1>1. applied[Leader] /\ executed[Leader] < Limit(Leader) /\ NextOp(Leader).op # "read"
  BY LeaderIsReplica DEF EraseUpdate, AppInv, Executing
<1>2. PICK q \in Requests : q = NextOp(Leader)
  BY <1>1, NextFacts
<1>3. /\ Known(q) /\ q = decided[executed[Leader] + 1] /\ q.op # "read"
      /\ executed[Leader] + 1 \in 1 .. Len(decided) /\ executed[Leader] \in Nat
  BY <1>1, <1>2, NextFacts
<1>4. /\ UNCHANGED <<server, client, done, precedes>>
      /\ app' = [app EXCEPT ![Leader] = Erase(a, q)]
      /\ applied' = [applied EXCEPT ![Leader] = FALSE]
      /\ Log!Execute(Leader, executed[Leader] + 1)
      /\ \A x \in msgs' : x \in msgs \/ (x = Reply(Leader, e, NotFound) /\ q.op = "write")
  BY <1>2 DEF EraseUpdate, clientVars, Upcall, Network
<1>5. decided' = decided /\ executed' = [executed EXCEPT ![Leader] = executed[Leader] + 1]
  BY <1>4 DEF Log!Execute
<1>6. a \in AppStates(Updates) /\ Distinct(a.durabilityLog)
  BY LeaderIsReplica DEF AppInv, TypeOK, Indexed
<1>7. /\ IsWithout(app'[Leader].durabilityLog, a.durabilityLog, q)
      /\ app'[Leader].lastUpdateToKey = a.lastUpdateToKey
      /\ app'[Leader].store = a.store
      /\ app'[Leader].queue = a.queue
      /\ ~applied'[Leader] /\ Leader' = Leader
      /\ executed'[Leader] = executed[Leader] + 1
  <2>1. app'[Leader] = Erase(a, q)
    BY <1>4, LeaderIsReplica DEF AppInv, TypeOK
  <2>2. Erase(a, q).queue = a.queue
    BY <1>6 DEF Erase, AppStates
  <2>3. ~applied'[Leader] /\ executed'[Leader] = executed[Leader] + 1
    BY <1>4, <1>5, LeaderIsReplica DEF AppInv, TypeOK
  <2> QED  BY <1>6, <2>1, <2>2, <2>3, EraseFacts DEF Leader
<1>8. Seen = executed[Leader] + 1 /\ Seen' = Seen
  BY <1>1, <1>3, <1>7 DEF Seen
<1>9. Queue' = Queue /\ Queuing' = Queuing /\ LogGrows
  BY <1>4, <1>5, <1>7, SameLogGrows DEF Queue, Queuing
<1>10. LeaderOrder' = LeaderOrder
  <2>1. LeaderOrder = decided \o Queue \o Queuing /\ LeaderOrder' = decided' \o Queue' \o Queuing'
    BY DEF LeaderOrder, Queue, Queuing
  <2> QED  BY <1>5, <1>9, <2>1
<1>11. /\ \A x : Stored(x)' = Stored(x) /\ Queued(x)' = Queued(x)
       /\ \A k : LastUpdate(k)' = LastUpdate(k) /\ StoredAt(k)' = StoredAt(k)
  BY <1>5, <1>7, <1>8, <1>9 DEF Stored, Queued, LastUpdate, StoredAt
<1>12. /\ \A x : Has(Leader, x)' <=> Has(Leader, x) /\ x # q
       /\ \A x : ExecutedAt(Leader, x) => ExecutedAt(Leader, x)'
       /\ ExecutedAt(Leader, q)'
  <2>1. \A x : Has(Leader, x)' <=> Has(Leader, x) /\ x # q
    BY <1>7 DEF Has, IsWithout
  <2>2. \A k \in 1 .. executed[Leader] : k \in 1 .. executed[Leader] + 1
    BY <1>3
  <2>3. executed[Leader] + 1 \in 1 .. executed[Leader] + 1
    BY <1>3
  <2> QED  BY <1>3, <1>5, <1>7, <2>1, <2>2, <2>3 DEF ExecutedAt
<1>13. OrderKept
  <2>1. \A x : Contains(Queue, x)' => IsNilext(x)
    BY <1>9 DEF LinInv, OrderInv, Contains
  <2> QED  BY <1>4, <1>9, <1>10, <1>11, <1>12, <2>1 DEF OrderKept
<1>14. Grows /\ OrderInv' /\ PendingInv' /\ ClientsInv' /\ \A x \in msgs : Sound(x)'
  BY <1>13, OrderKeptFacts
<1>15. ServerInv'
  BY <1>4, <1>14, ServerStays
<1>16. StoreInv'
  BY <1>5, <1>8, <1>11 DEF LinInv, StoreInv
<1>17. ReadsInv'
  BY <1>5, <1>9, <1>14, ReadsStay
<1>18. MessagesInv'
  <2> SUFFICES ASSUME NEW x \in msgs' PROVE Sound(x)'
    BY DEF MessagesInv
  <2>1. CASE x \in msgs
    BY <1>14, <2>1
  <2>2. CASE x = Reply(Leader, e, NotFound) /\ q.op = "write"
    <3>1. Stored(q)
      <4>1. Seen \in 1 .. Seen
        BY <1>3, <1>8
      <4> QED  BY <1>3, <1>8, <4>1 DEF Stored
    <3>2. Vouched(q, NotFound)
      BY <2>2, <3>1 DEF Vouched, IsNilext
    <3>3. PICK y : y = e /\ y.req = q
      <4>1. e.req = q
        BY <1>2
      <4> HIDE DEF e
      <4> QED  BY <4>1
    <3>4. Sound(Reply(Leader, y, NotFound))'
      BY <1>3, <1>14, <3>2, <3>3, LeaderReplySound
    <3>5. x = Reply(Leader, y, NotFound) /\ Leader' = Leader
      BY <2>2, <3>3 DEF Leader
    <3> QED  BY <3>4, <3>5 DEF Reply, Leader
  <2> QED  BY <1>4, <2>1, <2>2
<1> QED  BY <1>14, <1>15, <1>16, <1>17, <1>18 DEF LinInv

(* ExecuteRead of the leader.                                               *)
LEMMA LinExecuteRead ==
  ASSUME AppInv, DurableInv, LinInv, Leader \in Up, ExecuteRead(Leader)
  PROVE  LinInv'
<1> DEFINE e == [req |-> NextOp(Leader), n |-> 0]
<1>1. executed[Leader] < Limit(Leader) /\ NextOp(Leader).op = "read"
  BY DEF ExecuteRead, CanExecute, Limit
<1>2. PICK q \in Requests : q = NextOp(Leader)
  BY <1>1, NextFacts
<1>3. /\ Known(q) /\ q = decided[executed[Leader] + 1] /\ q.op = "read"
      /\ executed[Leader] + 1 \in 1 .. Len(decided) /\ executed[Leader] \in Nat
  BY <1>1, <1>2, NextFacts
<1>4. PICK v : v = StoredAt(q.key)
  OBVIOUS
<1>5. /\ UNCHANGED <<app, server, applied, client, done, precedes>>
      /\ Log!Execute(Leader, executed[Leader] + 1)
      /\ \A x \in msgs' : x \in msgs \/ x = Reply(Leader, e, v)
  BY <1>2, <1>4 DEF ExecuteRead, clientVars, serverVars, Network, StoredAt
<1>6. ~applied[Leader]
  BY <1>1, LeaderIsReplica DEF AppInv, Executing
<1>7. decided' = decided /\ executed'[Leader] = executed[Leader] + 1 /\ Leader' = Leader
  BY <1>5, LeaderIsReplica DEF Log!Execute, AppInv, TypeOK, Leader
<1>8. Seen = executed[Leader] /\ Seen' = Seen + 1 /\ Seen \in Nat
  BY <1>3, <1>5, <1>6, <1>7 DEF Seen
<1>9. Queue' = Queue /\ Queuing' = Queuing /\ LogGrows
  BY <1>5, <1>7, SameLogGrows DEF Queue, Queuing
<1>10. LeaderOrder' = LeaderOrder
  <2>1. LeaderOrder = decided \o Queue \o Queuing /\ LeaderOrder' = decided' \o Queue' \o Queuing'
    BY DEF LeaderOrder, Queue, Queuing
  <2> QED  BY <1>7, <1>9, <2>1
<1>11. \A k \in 1 .. Seen : k \in 1 .. Seen'
  BY <1>8
<1>12. /\ \A x : (Stored(x) => Stored(x)') /\ Queued(x)' = Queued(x)
       /\ \A x : Has(Leader, x)' = Has(Leader, x) /\ (ExecutedAt(Leader, x) => ExecutedAt(Leader, x)')
       /\ \A k : LastUpdate(k)' = LastUpdate(k) /\ StoredAt(k)' = StoredAt(k)
  BY <1>5, <1>7, <1>8, <1>9, <1>11 DEF Stored, Queued, Has, ExecutedAt, LastUpdate, StoredAt
<1>13. OrderKept
  <2>1. \A x : Contains(Queue, x)' => IsNilext(x)
    BY <1>9 DEF LinInv, OrderInv, Contains
  <2> QED  BY <1>5, <1>9, <1>10, <1>12, <2>1 DEF OrderKept
<1>14. Grows /\ OrderInv' /\ PendingInv' /\ ClientsInv' /\ \A x \in msgs : Sound(x)'
  BY <1>13, OrderKeptFacts
<1>15. ServerInv'
  BY <1>5, <1>14, ServerStays
<1>16. StoreInv'
  <2>1. ASSUME NEW k \in 1 .. Seen', decided[k].op # "read"
        PROVE  \E j \in k .. Seen' : decided[j] = StoredAt(decided[k].key)
    <3>1. k \in 1 .. Seen
      BY <1>3, <1>8, <2>1
    <3>2. PICK j \in k .. Seen : decided[j] = StoredAt(decided[k].key)
      BY <2>1, <3>1 DEF LinInv, StoreInv
    <3> QED  BY <1>8, <3>1, <3>2
  <2> QED  BY <1>7, <1>12, <2>1 DEF LinInv, StoreInv
<1>17. ReadsInv'
  BY <1>7, <1>9, <1>14, ReadsStay
<1>18. UpToDate(q, v) /\ Vouched(q, v)
  <2>1. ASSUME NEW u \in Owed(q) PROVE Stored(u)
    <3>1. PICK k \in 1 .. Len(decided) : k = executed[Leader] + 1 /\ k - 1 = executed[Leader]
      BY <1>3
    <3>2. q = decided[k]
      BY <1>3, <3>1
    <3>3. PICK j \in 1 .. k - 1 : decided[j] = u
      BY <1>3, <3>2 DEF LinInv, ReadsInv
    <3> QED  BY <1>8, <3>1, <3>3 DEF Stored
  <2> QED  BY <1>3, <1>4, <2>1, StoreUpToDate
<1>19. MessagesInv'
  <2> SUFFICES ASSUME NEW x \in msgs' PROVE Sound(x)'
    BY DEF MessagesInv
  <2>1. CASE x \in msgs
    BY <1>14, <2>1
  <2>2. CASE x = Reply(Leader, e, v)
    <3>1. PICK y : y = e /\ y.req = q
      <4>1. e.req = q
        BY <1>2
      <4> HIDE DEF e
      <4> QED  BY <4>1
    <3>2. Sound(Reply(Leader, y, v))'
      BY <1>3, <1>14, <1>18, <3>1, LeaderReplySound
    <3>3. x = Reply(Leader, y, v) /\ Leader' = Leader
      BY <2>2, <3>1 DEF Leader
    <3> QED  BY <3>2, <3>3 DEF Reply, Leader
  <2> QED  BY <1>5, <2>1, <2>2
<1> QED  BY <1>14, <1>15, <1>16, <1>17, <1>19 DEF LinInv

(* What is decided while the queue is empty is before the update that the    *)
(* server has yet to queue, and after the rest.                             *)
LEMMA InsertOrder ==
  ASSUME NEW S, NEW a \in Seq(S), NEW c \in Seq(S), NEW q \in S
  PROVE  LET s == a \o <<>> \o c
             t == Append(a, q) \o <<>> \o c
         IN  /\ \A x : Contains(t, x) <=> Contains(s, x) \/ x = q
             /\ \A x, y : InOrder(s, x, y) => InOrder(t, x, y)
             /\ \A x, y : InOrder(t, x, y) => \/ InOrder(s, x, y)
                                              \/ x = q /\ Contains(c, y)
                                              \/ y = q /\ Contains(a, x)
<1> DEFINE s == a \o <<>> \o c
           t == Append(a, q) \o <<>> \o c
<1>1. Inserted(t, s, Len(a), q)
  BY ChainInserted
<1>2. <<>> \in Seq(S) /\ Len(<<>>) = 0 /\ Len(a) \in Nat /\ Len(c) \in Nat
  OBVIOUS
<1>3. /\ s \in Seq(S) /\ Len(s) = Len(a) + Len(<<>>) + Len(c)
      /\ \A i \in 1 .. Len(s) : s[i] = IF i <= Len(a) THEN a[i]
                                ELSE IF i <= Len(a) + Len(<<>>) THEN <<>>[i - Len(a)]
                                ELSE c[i - (Len(a) + Len(<<>>))]
  BY <1>2, ChainFacts
<1>4. t \in Seq(S)
  <2> DEFINE aq == Append(a, q)
  <2>0. aq \in Seq(S)
    OBVIOUS
  <2> HIDE DEF aq
  <2>1. PICK b \in Seq(S) : b = aq
    BY <2>0
  <2>2. b \o <<>> \o c \in Seq(S)
    BY <1>2, ChainFacts
  <2> QED  BY <2>1, <2>2 DEF aq
<1> HIDE DEF s, t
<1>5. PICK u, v \in Seq(S) : u = s /\ v = t
  BY <1>3, <1>4
<1>6. PICK k \in 0 .. Len(u) : k = Len(a)
  BY <1>2, <1>3, <1>5
<1>7. Inserted(v, u, k, q)
  BY <1>1, <1>5, <1>6
<1>8. /\ \A x : Contains(v, x) <=> Contains(u, x) \/ x = q
      /\ \A x, y : InOrder(u, x, y) => InOrder(v, x, y)
      /\ \A x, y : InOrder(v, x, y) => \/ InOrder(u, x, y)
                                       \/ x = q /\ \E i \in k + 1 .. Len(u) : u[i] = y
                                       \/ y = q /\ \E i \in 1 .. k : u[i] = x
  BY <1>7, InsertedFacts
<1>9. ASSUME NEW i \in k + 1 .. Len(u) PROVE Contains(c, u[i])
  <2>1. i \in 1 .. Len(s) /\ i - k \in 1 .. Len(c) /\ ~(i <= Len(a)) /\ ~(i <= Len(a) + Len(<<>>))
        /\ i - (Len(a) + Len(<<>>)) = i - k
    BY <1>2, <1>3, <1>5, <1>6
  <2>2. u[i] = c[i - k]
    BY <1>3, <1>5, <2>1
  <2> QED  BY <2>1, <2>2 DEF Contains
<1>10. ASSUME NEW i \in 1 .. k PROVE Contains(a, u[i])
  <2>1. i \in 1 .. Len(s) /\ i \in 1 .. Len(a)
    BY <1>2, <1>3, <1>5, <1>6
  <2>2. u[i] = a[i]
    BY <1>2, <1>3, <1>5, <2>1
  <2> QED  BY <2>1, <2>2 DEF Contains
<1>11. /\ \A x : Contains(v, x) <=> Contains(u, x) \/ x = q
       /\ \A x, y : InOrder(u, x, y) => InOrder(v, x, y)
       /\ \A x, y : InOrder(v, x, y) => \/ InOrder(u, x, y)
                                        \/ x = q /\ Contains(c, y)
                                        \/ y = q /\ Contains(a, x)
  BY <1>8, <1>9, <1>10
<1>12. /\ \A x : Contains(t, x) <=> Contains(s, x) \/ x = q
       /\ \A x, y : InOrder(s, x, y) => InOrder(t, x, y)
       /\ \A x, y : InOrder(t, x, y) => \/ InOrder(s, x, y)
                                        \/ x = q /\ Contains(c, y)
                                        \/ y = q /\ Contains(a, x)
  BY <1>5, <1>11
<1> QED  BY <1>12, Zenon DEF s, t

(* HandleConsensusRequest of what is newer than all that is decided.        *)
LEMMA LinDecide ==
  ASSUME AppInv, DurableInv, LinInv, NEW m \in msgs, m.type = "ConsensusRequest",
         Queue = <<>>, Log!Decide(m.req), msgs' \subseteq msgs,
         UNCHANGED <<app, server, applied, client, done, precedes>>
  PROVE  LinInv'
<1> DEFINE o == LeaderOrder
<1>1. m \in Messages /\ Sound(m)
  BY DEF AppInv, TypeOK, LinInv, MessagesInv
<1>2. PICK q \in Requests : q = m.req
  BY <1>1, MessageFacts
<1>3. /\ ~IsNilext(q) /\ Known(q) /\ Log!Decide(q) /\ Log!Newer(q)
      /\ \A k \in 1 .. Len(Queuing) : q.client = Queuing[k].client => q.id < Queuing[k].id
      /\ q.op = "read" => \A u \in Owed(q) \cup CompletedBefore(q) : Queued(u)
  BY <1>1, <1>2 DEF Sound, SoundForward, Log!Decide
<1>4. LogGrows /\ executed' = executed /\ decided' = Append(decided, q) /\ Leader' = Leader
  BY <1>3, DecideFacts DEF Log!Decide, Leader
<1>5. Queue' = <<>> /\ Queuing' = Queuing /\ Seen' = Seen
  BY <1>4 DEF Queue, Queuing, Seen
<1>6. /\ decided \in Seq(Requests) /\ Queuing \in Seq(Requests) /\ o = decided \o <<>> \o Queuing
      /\ \A x : Contains(o, x) => x \in Requests /\ Known(x)
  BY OrderParts DEF AppInv, LinInv, OrderInv
<1>7. o' = Append(decided, q) \o <<>> \o Queuing
  <2>1. o' = decided' \o Queue' \o Queuing'
    BY DEF LeaderOrder, Queue, Queuing
  <2> QED  BY <1>4, <1>5, <2>1
<1> HIDE DEF o
<1>8. /\ \A x : Contains(o', x) <=> Contains(o, x) \/ x = q
      /\ \A x, y : InOrder(o, x, y) => InOrder(o', x, y)
      /\ \A x, y : InOrder(o', x, y) => \/ InOrder(o, x, y)
                                        \/ x = q /\ Contains(Queuing, y)
                                        \/ y = q /\ Contains(decided, x)
  <2>1. PICK d, c \in Seq(Requests) : d = decided /\ c = Queuing
    BY <1>6
  <2>2. o = d \o <<>> \o c /\ o' = Append(d, q) \o <<>> \o c
    BY <1>6, <1>7, <2>1
  <2>3. LET s == d \o <<>> \o c
            t == Append(d, q) \o <<>> \o c
        IN  /\ \A x : Contains(t, x) <=> Contains(s, x) \/ x = q
            /\ \A x, y : InOrder(s, x, y) => InOrder(t, x, y)
            /\ \A x, y : InOrder(t, x, y) => \/ InOrder(s, x, y)
                                             \/ x = q /\ Contains(c, y)
                                             \/ y = q /\ Contains(d, x)
    BY InsertOrder
  <2> QED  BY <2>1, <2>2, <2>3, Zenon
<1>9. /\ \A x : Contains(decided', x) <=> Contains(decided, x) \/ x = q
      /\ \A k \in 1 .. Len(decided') : k \in 1 .. Len(decided) \/ (k = Len(decided) + 1 /\ decided'[k] = q)
  BY <1>4, <1>6, AppendOrder
<1>10. Seen \in Nat /\ Seen <= Len(decided) /\ Len(decided) \in Nat
  BY SeenFacts
<1>11. \A k \in 1 .. Seen : k \in 1 .. Len(decided) /\ decided'[k] = decided[k]
  BY <1>4, <1>10 DEF LogGrows
<1>12. /\ \A x : Stored(x)' = Stored(x) /\ (Queued(x) => Queued(x)')
       /\ \A k : LastUpdate(k)' = LastUpdate(k) /\ StoredAt(k)' = StoredAt(k)
       /\ \A x : Has(Leader, x)' = Has(Leader, x)
  BY <1>4, <1>5, <1>9, <1>11 DEF Stored, Queued, LastUpdate, StoredAt, Has
<1>13. Grows
  BY <1>8, <1>12, SameClients DEF Grows, o
<1>14. \A x : ExecutedAt(Leader, x) => ExecutedAt(Leader, x)'
  <2>1. executed' \in [Replicas -> Nat] /\ executed[Leader] <= executed'[Leader]
    BY <1>4, SeenFacts DEF AppInv, TypeOK
  <2>2. \A x : ExecutedAt(Leader, x) => \E k \in 1 .. executed'[Leader] : decided'[k] = x
    BY <1>4, <2>1, LeaderIsReplica, ExecutedStays DEF ExecutedAt
  <2> QED  BY <1>4, <2>2 DEF ExecutedAt
<1>15. MessagesInv'
  <2>1. \A x : Contains(LeaderOrder, x)' => Contains(LeaderOrder, x) \/ ~IsNilext(x)
    BY <1>3, <1>8 DEF o
  <2> QED  BY <1>5, <1>13, <2>1, MessagesStay DEF MessagesInv
<1>16. ServerInv'
  BY <1>13, ServerStays
<1>17. OrderInv'
  <2>1. ASSUME NEW x, NEW y, InOrder(o', x, y), x.client = y.client PROVE x.id < y.id
    <3>1. CASE InOrder(o, x, y)
      BY <2>1, <3>1 DEF LinInv, OrderInv, o
    <3>2. CASE x = q /\ Contains(Queuing, y)
      BY <1>3, <2>1, <3>2 DEF Contains
    <3>3. CASE y = q /\ Contains(decided, x)
      BY <1>3, <1>6, <2>1, <3>3 DEF Contains, Log!Newer
    <3> QED  BY <1>8, <2>1, <3>1, <3>2, <3>3
  <2>2. \A x : Contains(o', x) => Known(x)'
    BY <1>3, <1>6, <1>8, <1>13 DEF Grows
  <2>3. \A x : Contains(Queue', x) => IsNilext(x)
    BY <1>5 DEF LinInv, OrderInv
  <2> QED  BY <2>1, <2>2, <2>3 DEF OrderInv, o
<1>18. PendingInv'
  <2>1. \A x \in Updates : Has(Leader, x)' => Contains(o', x)
    BY <1>8, <1>12 DEF LinInv, PendingInv, o
  <2>2. ASSUME NEW x, Contains(o', x), IsNilext(x)
        PROVE  /\ ExecutedAt(Leader, x)' \/ Has(Leader, x)'
               /\ x = LastUpdate(x.key)' \/ InOrder(o', x, LastUpdate(x.key)')
    <3>1. Contains(o, x)
      BY <1>3, <1>8, <2>2
    <3>2. /\ ExecutedAt(Leader, x) \/ Has(Leader, x)
          /\ x = LastUpdate(x.key) \/ InOrder(o, x, LastUpdate(x.key))
      BY <2>2, <3>1 DEF LinInv, PendingInv, o
    <3> QED  BY <1>8, <1>12, <1>14, <3>2
  <2>3. \A k \in Keys : LastUpdate(k)' # NotFound => IsNilext(LastUpdate(k)')
    BY <1>12 DEF LinInv, PendingInv
  <2> QED  BY <1>4, <2>1, <2>2, <2>3 DEF PendingInv, o
<1>19. StoreInv'
  <2>1. \A k \in 1 .. Seen : \A j \in k .. Seen : decided'[j] = decided[j]
    BY <1>10, <1>11
  <2> QED  BY <1>5, <1>11, <1>12, <2>1 DEF LinInv, StoreInv
<1>20. ReadsInv'
  <2>1. ASSUME NEW k \in 1 .. Len(decided'), k \notin 1 .. Len(decided), decided'[k].op = "read",
               NEW u \in Owed(decided[k])'
        PROVE  \E j \in 1 .. k - 1 : decided'[j] = u
    <3>1. k = Len(decided) + 1 /\ decided'[k] = q /\ k - 1 = Len(decided)
      BY <1>9, <1>10, <2>1
    <3>2. u \in Owed(q)
      <4>1. u \in Owed(q)'
        BY <2>1, <3>1 DEF Owed
      <4> QED  BY <1>3, <1>13, <4>1 DEF Grows
    <3>3. Contains(decided, u)
      BY <1>3, <2>1, <3>1, <3>2 DEF Queued, Contains
    <3>4. PICK j \in 1 .. Len(decided) : decided[j] = u
      BY <3>3 DEF Contains
    <3> QED  BY <1>4, <3>1, <3>4 DEF LogGrows
  <2> QED  BY <1>4, <1>13, <2>1, ReadsStay
<1>21. ClientsInv'
  <2>1. ASSUME NEW pair \in precedes, pair[1].op # "read", pair[2].op # "write", InOrder(o', pair[2], pair[1])
        PROVE  FALSE
    <3>1. ~InOrder(o, pair[2], pair[1])
      BY <2>1 DEF LinInv, ClientsInv, o
    <3>2. CASE pair[2] = q /\ Contains(Queuing, pair[1])
      <4>1. q.op = "read"
        BY <1>3, <2>1, <3>2, RequestsFacts DEF IsNilext, Ops
      <4>2. pair[1] \in Updates /\ <<pair[1], q>> \in precedes
        <5>1. PICK p, x \in Requests : pair = <<p, x>>
          BY DEF AppInv, TypeOK
        <5>2. pair[1] = p /\ pair[2] = x
          BY <5>1
        <5> QED  BY <2>1, <3>2, <5>1, <5>2 DEF Updates
      <4>3. Queued(pair[1])
        BY <1>3, <4>1, <4>2 DEF CompletedBefore
      <4>4. Contains(decided, pair[1])
        BY <4>3 DEF Queued, Contains
      <4>5. InOrder(o, pair[1], pair[1])
        BY <3>2, <4>4, OrderParts DEF AppInv, o
      <4> QED  BY <4>5, OrderDistinct DEF AppInv, LinInv, o
    <3>3. CASE pair[1] = q /\ Contains(decided, pair[2])
      <4>1. q.op = "write"
        BY <1>3, <2>1, <3>3, RequestsFacts DEF IsNilext, Ops
      <4>2. PICK d \in done : d.req = q
        BY <3>3 DEF LinInv, ClientsInv
      <4>3. Stored(q)
        BY <4>1, <4>2 DEF LinInv, ClientsInv, Vouched
      <4>4. Contains(decided, q)
        BY <4>3, SeenFacts
      <4>5. q.id < q.id
        BY <1>3, <1>6, <4>4 DEF Contains, Log!Newer
      <4> QED  BY <4>5, RequestsFacts
    <3> QED  BY <1>8, <2>1, <3>1, <3>2, <3>3
  <2> QED  BY <1>13, <2>1, ClientsStay DEF o
<1> QED  BY <1>15, <1>16, <1>17, <1>18, <1>19, <1>20, <1>21 DEF LinInv

\* HandleConsensusRequest of message m, which is answered if it was executed.
AnsweredRequest(m) ==
    /\ m.type = "ConsensusRequest" /\ Drained
    /\ \/ Log!Decide(m.req) /\ Network({m}, {})
       \/ /\ \/ Network({m}, {})
             \/ Network({m}, {[type |-> "ConsensusReply", req |-> m.req, n |-> m.n]})
             \/ /\ m.req.op # "read" /\ ExecutedAt(Leader, m.req)
                /\ Network({m}, {Reply(Leader, m, NotFound)})
          /\ UNCHANGED logVars
    /\ UNCHANGED <<serverVars, applied, clientVars>>

(* Handling a consensus request takes one from the network.                 *)
LEMMA AnsweredRequestPicked ==
  ASSUME HandleConsensusRequest
  PROVE  \E m \in msgs : AnsweredRequest(m)
<1> DEFINE Resent(m) == IF m.req.op = "read"
                         THEN {[type |-> "ConsensusReply", req |-> m.req, n |-> m.n]}
                         ELSE {Reply(Leader, m, NotFound)}
<1>1. PICK m \in msgs :
           /\ m.type = "ConsensusRequest" /\ Drained
           /\ \/ Log!Decide(m.req) /\ Network({m}, {})
              \/ Network({m}, {}) /\ UNCHANGED logVars
              \/ ExecutedAt(Leader, m.req) /\ Network({m}, Resent(m)) /\ UNCHANGED logVars
           /\ UNCHANGED <<serverVars, applied, clientVars>>
  BY DEF HandleConsensusRequest, ExecutedAt
<1>2. CASE Log!Decide(m.req) /\ Network({m}, {})
  BY <1>1, <1>2, Zenon DEF AnsweredRequest
<1>3. CASE Network({m}, {}) /\ UNCHANGED logVars
  BY <1>1, <1>3, Zenon DEF AnsweredRequest
<1>4. CASE ExecutedAt(Leader, m.req) /\ Network({m}, Resent(m)) /\ UNCHANGED logVars
  <2>1. CASE m.req.op = "read"
    BY <1>1, <1>4, <2>1, Zenon DEF AnsweredRequest
  <2>2. CASE m.req.op # "read"
    BY <1>1, <1>4, <2>2, Zenon DEF AnsweredRequest
  <2> QED  BY <2>1, <2>2
<1> HIDE DEF Resent
<1> QED  BY <1>1, <1>2, <1>3, <1>4

(* HandleConsensusRequest.                                                  *)
LEMMA LinHandleConsensusRequest ==
  ASSUME AppInv, DurableInv, LinInv, HandleConsensusRequest
  PROVE  LinInv'
<1>1. PICK m \in msgs : AnsweredRequest(m)
  BY AnsweredRequestPicked
<1>2. m \in Messages /\ Sound(m) /\ m.type = "ConsensusRequest"
  BY <1>1 DEF AppInv, TypeOK, LinInv, MessagesInv, AnsweredRequest
<1>3. PICK q \in Requests : q = m.req
  BY <1>2, MessageFacts
<1>4. ~IsNilext(q) /\ Known(q)
  BY <1>2, <1>3 DEF Sound
<1>5. UNCHANGED <<app, server, applied, client, done, precedes>> /\ Queue = <<>>
  BY <1>1 DEF AnsweredRequest, serverVars, clientVars, Drained, Queue
<1>6. CASE Log!Decide(m.req) /\ Network({m}, {})
  <2>1. msgs' \subseteq msgs
    BY <1>6 DEF Network
  <2> QED  BY <1>2, <1>5, <1>6, <2>1, LinDecide
<1>7. ASSUME UNCHANGED logVars PROVE LeaderSame /\ Grows
  <2>1. LeaderSame
    BY <1>5, <1>7 DEF LeaderSame, logVars
  <2> QED  BY <1>5, <2>1, SameClients, LeaderStays
<1>8. CASE Network({m}, {}) /\ UNCHANGED logVars
  <2>1. msgs' \subseteq msgs
    BY <1>8 DEF Network
  <2> QED  BY <1>5, <1>7, <1>8, <2>1, LinQuiet
<1>9. CASE /\ Network({m}, {[type |-> "ConsensusReply", req |-> m.req, n |-> m.n]})
           /\ UNCHANGED logVars
  <2>1. PICK x : x = [type |-> "ConsensusReply", req |-> q, n |-> m.n]
    OBVIOUS
  <2>2. x.type = "ConsensusReply" /\ x.req = q
    BY <2>1
  <2>3. Known(q)'
    BY <1>4, <1>7, <1>9 DEF Grows
  <2>4. Sound(x)'
    BY <1>4, <2>2, <2>3 DEF Sound, Known
  <2>5. \A y \in msgs' : y \in msgs \/ y = x
    BY <1>3, <1>9, <2>1 DEF Network
  <2>6. \A y \in msgs' : y \in msgs \/ Sound(y)'
    BY <2>4, <2>5
  <2> QED  BY <1>5, <1>7, <1>9, <2>6, LinQuiet
<1>10. CASE /\ m.req.op # "read" /\ ExecutedAt(Leader, m.req)
            /\ Network({m}, {Reply(Leader, m, NotFound)}) /\ UNCHANGED logVars
  <2>1. Vouched(q, NotFound)
    BY <1>3, <1>4, <1>10, SeenFacts DEF Vouched
  <2>2. Sound(Reply(Leader, m, NotFound))'
    BY <1>3, <1>4, <1>7, <1>10, <2>1, LeaderReplySound
  <2>3. PICK x : x = Reply(Leader, m, NotFound) /\ x = Reply(Leader, m, NotFound)'
    BY DEF Reply, Leader
  <2>4. Sound(x)'
    BY <2>2, <2>3
  <2>5. \A y \in msgs' : y \in msgs \/ y = x
    BY <1>10, <2>3 DEF Network
  <2>6. \A y \in msgs' : y \in msgs \/ Sound(y)'
    BY <2>4, <2>5
  <2> QED  BY <1>5, <1>7, <1>10, <2>6, LinQuiet
<1> QED  BY <1>1, <1>6, <1>8, <1>9, <1>10 DEF AnsweredRequest

-------------------------------------------------------------------------------
(* LinInv is inductive if updates are not retransmitted                    *)

(* Nothing is ordered, stored or completed at first.                        *)
LEMMA LinInitially == Init => LinInv
<1> SUFFICES ASSUME Init PROVE LinInv
  OBVIOUS
<1>1. AppInv
  BY AppInitially
<1>2. /\ msgs = {} /\ done = {} /\ precedes = {} /\ decided = <<>>
      /\ executed[Leader] = 0 /\ applied[Leader] = FALSE
      /\ \A r \in Replicas : server[r] = <<>>
      /\ app[Leader] = NewApp /\ server[Leader] = <<>>
      /\ \A c \in Clients : ~client[c].pending
  BY LeaderIsReplica DEF Init, Log!Init
<1>3. Len(decided) = 0 /\ Seen = 0 /\ Queuing = <<>> /\ Queue = <<>>
      /\ \A q : ~Has(Leader, q)
      /\ \A k \in Keys : LastUpdate(k) = NotFound /\ StoredAt(k) = NotFound
  BY <1>2 DEF Seen, Queuing, Queue, NewApp, LastUpdate, StoredAt, Has, Contains
<1>4. \A q : ~Contains(LeaderOrder, q) /\ ~Contains(Queue, q)
  BY <1>1, <1>2, <1>3, OrderParts DEF AppInv, Contains, Queued
<1>5. \A p, q : ~InOrder(LeaderOrder, p, q)
  BY <1>1, <1>4, OrderParts DEF AppInv
<1>6. MessagesInv /\ ServerInv /\ OrderInv
  BY <1>2, <1>4, <1>5 DEF MessagesInv, ServerInv, OrderInv
<1>7. PendingInv
  BY <1>3, <1>4 DEF PendingInv
<1>8. StoreInv /\ ReadsInv
  BY <1>3 DEF StoreInv, ReadsInv
<1>9. ClientsInv
  BY <1>2 DEF ClientsInv
<1> QED  BY <1>6, <1>7, <1>8, <1>9 DEF LinInv

(* Every action and the stutter keep LinInv.                                *)
LEMMA LinInductive ==
  ASSUME UpdatesOnce
  PROVE  AppInv /\ DurableInv /\ LinInv /\ [Next]_vars => LinInv'
<1> SUFFICES ASSUME AppInv, DurableInv, LinInv, [Next]_vars PROVE LinInv'
  OBVIOUS
<1>1. CASE UNCHANGED vars
  <2>1. UNCHANGED <<app, server, applied, decided, executed, client, msgs, done, precedes>>
    BY <1>1 DEF vars
  <2>2. LeaderSame
    BY <2>1 DEF LeaderSame
  <2> QED  BY <2>1, <2>2, LinQuiet
<1>2. ASSUME NEW c \in Clients, Invoke(c) \/ ResendRequest(c) \/ HandleReply(c)
      PROVE  LinInv'
  BY <1>2, LinInvoke, LinResendRequest, LinHandleReply
<1>3. AppInv' /\ DurableInv'
  BY AppInductive, DurableInductive
<1>4. ASSUME NEW r \in Up, HandleRequest(r) \/ FinishRequest(r) \/ HandleConsensusReply(r)
      PROVE  LinInv'
  BY <1>3, <1>4, LinHandleRequest, LinFinishRequest, LinFollower
<1>5. ASSUME NEW r \in Up, ApplyUpdate(r) \/ EraseUpdate(r) \/ ExecuteRead(r)
      PROVE  LinInv'
  <2>1. CASE r # Leader
    BY <1>5, <2>1, LinFollower
  <2>2. CASE r = Leader
    BY <1>5, <2>2, LinApplyUpdate, LinEraseUpdate, LinExecuteRead
  <2> QED  BY <2>1, <2>2
<1> QED  BY <1>1, <1>2, <1>4, <1>5, LinBgRepl, LinHandleConsensusRequest DEF Next

(* The invariants hold in every reachable state.                            *)
LEMMA LinHolds ==
  ASSUME UpdatesOnce
  PROVE  Spec => [](Inv /\ LinInv)
<1>1. Init => Inv /\ LinInv
  BY AppInitially, DurableInitially, LinInitially DEF Inv
<1>2. Inv /\ LinInv /\ [Next]_vars => Inv' /\ LinInv'
  BY AppInductive, DurableInductive, LinInductive DEF Inv
<1> QED  BY <1>1, <1>2, PTL DEF Spec

-------------------------------------------------------------------------------
(* What this means for clients                                             *)

(* What is before another in the leader's order.                            *)
LEMMA BeforeInOrder ==
  ASSUME TypeOK, NEW p, NEW q, Before(p, q)
  PROVE  InOrder(LeaderOrder, p, q)
<1>1. PICK s \in Seq(Requests) : s = LeaderOrder
  BY OrderParts
<1>2. PICK k \in 1 .. Len(s) : s[k] = q /\ \E j \in 1 .. k - 1 : s[j] = p
  BY <1>1 DEF Before
<1>3. PICK j \in 1 .. k - 1 : s[j] = p
  BY <1>2
<1>4. j \in 1 .. Len(s) /\ j < k
  OBVIOUS
<1> QED  BY <1>1, <1>2, <1>3, <1>4 DEF InOrder

(* What was completed before another request was sent is ordered before it by    *)
(* the leader, in its log, its queue or its server: updates pass through the     *)
(* server in the order of their sending, and what the replica handles itself     *)
(* waits for the queue to be drained (durabilityreplica.cc:201, replica.cc:567). *)
(* A write may overtake an update, and is not covered.                           *)
THEOREM RealTimeOrderHolds ==
  ASSUME UpdatesOnce
  PROVE  Spec => []RealTimeOrder
<1>1. Inv /\ LinInv => RealTimeOrder
  BY BeforeInOrder DEF Inv, AppInv, LinInv, ClientsInv, RealTimeOrder
<1> QED  BY <1>1, LinHolds, PTL

(* A read returns nothing older than an update that was completed before it was  *)
(* sent, nor than what such a read returned: the leader's server answers from    *)
(* the store only if the last update of the key is no longer pending, and what   *)
(* consensus executes is in the store before it stops being pending, while       *)
(* others are ordered behind them (replica.h:173, durabilityreplica.cc:183).     *)
THEOREM ReadsLatestHolds ==
  ASSUME UpdatesOnce
  PROVE  Spec => []ReadsLatest
<1>1. Inv /\ LinInv => ReadsLatest
  <2> SUFFICES ASSUME Inv, LinInv, NEW d \in done, NEW e \in done, d.req.op = "read",
                      e.req.key = d.req.key, <<e.req, d.req>> \in precedes,
                      Tells(e) # NotFound
               PROVE  d.value # NotFound /\ ~Before(d.value, Tells(e))
    BY DEF ReadsLatest, Tells
  <2>1. Tells(e) \in Owed(d.req)
    BY DEF Owed
  <2>2. UpToDate(d.req, d.value)
    BY DEF LinInv, ClientsInv
  <2>3. /\ d.value # NotFound
        /\ d.value = Tells(e) \/ InOrder(LeaderOrder, Tells(e), d.value)
    BY <2>1, <2>2 DEF UpToDate
  <2>4. ~InOrder(LeaderOrder, d.value, Tells(e))
    BY <2>3, OrderDistinct DEF Inv, AppInv, LinInv
  <2> QED  BY <2>3, <2>4, BeforeInOrder DEF Inv, AppInv
<1> QED  BY <1>1, LinHolds, PTL

(* While the leader has an update that it has not executed, a read of its key is *)
(* ordered: the index of the durability log names the last update of the key,    *)
(* which is then pending too, since the leader executes a key's updates in the   *)
(* order in which they became durable (replica.h:166).                           *)
THEOREM PendingUpdateSyncsHolds ==
  ASSUME UpdatesOnce
  PROVE  Spec => []PendingUpdateSyncs
<1>1. Inv /\ LinInv => PendingUpdateSyncs
  <2> SUFFICES ASSUME Inv, LinInv, NEW q \in ToSet(app[Leader].durabilityLog),
                      ~ExecutedAt(Leader, q)
               PROVE  MustOrder(app[Leader], q.key)
    BY DEF PendingUpdateSyncs
  <2>1. app[Leader] \in AppStates(Updates)
    BY LeaderIsReplica DEF Inv, AppInv, TypeOK
  <2>2. PICK s \in Seq(Updates) : s = app[Leader].durabilityLog
    BY <2>1, AppFields
  <2>3. PICK i \in 1 .. Len(s) : s[i] = q
    BY <2>2 DEF ToSet
  <2>4. q \in Updates /\ Has(Leader, q)
    BY <2>2, <2>3 DEF Has, Contains
  <2>5. IsNilext(q) /\ q.key \in Keys
    BY <2>4, LeaderIsReplica, RequestsFacts DEF Inv, DurableInv, OneCopy, Updates
  <2>6. PICK u : u = LastUpdate(q.key)
    OBVIOUS
  <2>7. Contains(LeaderOrder, q) /\ (q = u \/ InOrder(LeaderOrder, q, u))
    BY <2>4, <2>5, <2>6 DEF LinInv, PendingInv
  <2>8. ASSUME InOrder(LeaderOrder, q, u) PROVE Has(Leader, u)
    <3>1. Contains(LeaderOrder, u) /\ u \in Requests
      BY <2>8, OrderParts DEF Inv, AppInv
    <3>2. IsNilext(u)
      BY <2>5, <2>6, <3>1, NotFoundAssumption DEF LinInv, PendingInv
    <3>3. ~ExecutedAt(Leader, u)
      BY <2>8, ExecutedFirst DEF Inv, LinInv
    <3> QED  BY <3>1, <3>2, <3>3 DEF LinInv, PendingInv
  <2>9. Has(Leader, u)
    BY <2>4, <2>7, <2>8 DEF LinInv, PendingInv
  <2> QED  BY <2>6, <2>9 DEF MustOrder, Has, LastUpdate
<1> QED  BY <1>1, LinHolds, PTL

===============================================================================
