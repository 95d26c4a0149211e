--------------------------- MODULE DurabilityProofs ---------------------------
(***************************************************************************)
(* What is proved of Durability for every set of replicas and clients,     *)
(* every trace, bound and network behaviour.                               *)
(*                                                                         *)
(* AppInv, for any retransmission: a replica executes what is decided, a   *)
(* follower what the leader has executed; its application's index names,   *)
(* for each key, an update still in the durability log or one whose value  *)
(* is stored, since the consensus thread applies an update before it       *)
(* erases it.                                                              *)
(*                                                                         *)
(* CopiesInv, also for any retransmission: a client counts a reply at most *)
(* once for each copy it sent and server that has the update, which no     *)
(* replica loses before it has executed it. So the servers that have an    *)
(* update whose client was told so, times the copies sent, are no fewer    *)
(* than the replies that the client waits for.                             *)
(*                                                                         *)
(* DurableInv, when clients do not retransmit updates: the copy of an      *)
(* update for a server is in flight, in its durability log or executed,    *)
(* and once it is in the log it stays in its place there until it is       *)
(* executed. So the replies that a client counts without looking at their  *)
(* senders come from as many servers, and a completed update is at a       *)
(* supermajority. An update sent after it was completed reaches each of    *)
(* these servers later, and stands behind it in their logs. Every f+1      *)
(* replicas therefore have a log with the update, and requiredVotes of     *)
(* them order the two as they were issued.                                 *)
(*                                                                         *)
(* This is why a client waits for FastQuorumSize acknowledgements:         *)
(* whatever the size of the group, what as many durability logs agree on   *)
(* is decided in the same way by any f+1 of them, which is all a view      *)
(* change asks.  These facts about DurabilityOrder come first.             *)
(***************************************************************************)
EXTENDS Durability, FiniteSetTheorems, SequenceTheorems, TLAPS

LEMMA ReplicasFinite == IsFiniteSet(Replicas) /\ Cardinality(Replicas) = N
<1>1. N \in Nat
  BY ConfigAssumption
<1>2. 0 \in Int /\ N - 1 \in Int
  BY <1>1
<1>3. IsFiniteSet(0 .. N - 1) /\ Cardinality(0 .. N - 1) = IF 0 > N - 1 THEN 0 ELSE N - 1 - 0 + 1
  BY <1>2, FS_Interval
<1> QED  BY <1>1, <1>3 DEF Replicas

(* Two sets of replicas have in common at least what their sizes exceed N. *)
LEMMA Overlap ==
  ASSUME NEW A \in SUBSET Replicas, NEW V \in SUBSET Replicas
  PROVE  /\ IsFiniteSet(A) /\ IsFiniteSet(V)
         /\ Cardinality(A) \in Nat /\ Cardinality(V) \in Nat
         /\ Cardinality(A \cap V) \in Nat
         /\ Cardinality(A \cap V) >= Cardinality(A) + Cardinality(V) - N
<1>1. IsFiniteSet(A) /\ IsFiniteSet(V)
  BY ReplicasFinite, FS_Subset
<1>2. IsFiniteSet(A \cap V)
  BY <1>1, FS_Intersection
<1>3. /\ IsFiniteSet(A \cup V)
      /\ Cardinality(A \cup V) = Cardinality(A) + Cardinality(V) - Cardinality(A \cap V)
  BY <1>1, FS_Union
<1>4. A \cup V \in SUBSET Replicas
  OBVIOUS
<1>5. Cardinality(A \cup V) <= N
  BY <1>4, ReplicasFinite, FS_Subset
<1>6. /\ Cardinality(A) \in Nat /\ Cardinality(V) \in Nat
      /\ Cardinality(A \cap V) \in Nat /\ Cardinality(A \cup V) \in Nat
  BY <1>1, <1>2, <1>3, FS_CardinalityType
<1>7. N \in Nat
  BY ConfigAssumption
<1> HIDE <1>4
<1>8. Cardinality(A \cap V) >= Cardinality(A) + Cardinality(V) - N
  BY <1>3, <1>5, <1>6, <1>7
<1> QED  BY <1>1, <1>6, <1>8

(* The supermajority has requiredVotes members, or more, in every f+1 replicas   *)
(* (the quorum of client.cc:91 and the requiredVotes of replica.cc:1250 fit).    *)
THEOREM SupermajorityOverlap ==
  ASSUME NEW A \in SUBSET Replicas, Cardinality(A) >= FastQuorumSize,
         NEW V \in SUBSET Replicas, Cardinality(V) >= QuorumSize
  PROVE  Cardinality(A \cap V) >= RequiredVotes
<1>1. F \in Nat \ {0} /\ N = 2 * F + 1
  BY ConfigAssumption
<1>2. PICK h \in Nat : h = (F + 1) \div 2
  BY <1>1
<1>3. FastQuorumSize = F + h + 1 /\ RequiredVotes = h + 1 /\ QuorumSize = F + 1
  BY <1>1, <1>2 DEF FastQuorumSize, RequiredVotes, QuorumSize
<1>4. /\ Cardinality(A) \in Nat /\ Cardinality(V) \in Nat
      /\ Cardinality(A \cap V) \in Nat
      /\ Cardinality(A \cap V) >= Cardinality(A) + Cardinality(V) - N
  BY Overlap
<1> QED  BY <1>1, <1>2, <1>3, <1>4

(* The agreement of a supermajority on an order becomes an edge of the graph      *)
(* that the new leader sorts, whichever logs it merges (replica.cc:1216, 1253).   *)
THEOREM SupermajorityEdge ==
  ASSUME NEW logs, NEW p, NEW q, p # q,
         NEW A \in SUBSET Replicas, Cardinality(A) >= FastQuorumSize,
         \A r \in A : Supports(logs[r], p, q),
         NEW V \in SUBSET Replicas, Cardinality(V) >= QuorumSize
  PROVE  Edge(logs, V, p, q)
<1> DEFINE S == {r \in V : Supports(logs[r], p, q)}
<1>1. A \cap V \in SUBSET S /\ S \in SUBSET Replicas
  OBVIOUS
<1>2. IsFiniteSet(S) /\ Cardinality(S) \in Nat
  BY <1>1, Overlap
<1>3. Cardinality(A \cap V) <= Cardinality(S)
  BY <1>1, <1>2, FS_Subset
<1>4. Cardinality(A \cap V) >= RequiredVotes /\ Cardinality(A \cap V) \in Nat
  BY SupermajorityOverlap, Overlap
<1>5. RequiredVotes \in Int
  BY ConfigAssumption DEF RequiredVotes, FastQuorumSize
<1>6. Cardinality(S) >= RequiredVotes
  BY <1>2, <1>3, <1>4, <1>5
<1> QED  BY <1>6 DEF Edge, Votes

(* The replicas outside the supermajority cannot make the opposite edge, when    *)
(* f+1 logs are merged: the order is kept unless members of the supermajority    *)
(* vote both ways, as the code lets a log do that lacks one of the requests.     *)
THEOREM NoOppositeEdge ==
  ASSUME NEW logs, NEW p, NEW q,
         NEW A \in SUBSET Replicas, Cardinality(A) >= FastQuorumSize,
         \A r \in A : ~Supports(logs[r], q, p),
         NEW V \in SUBSET Replicas, Cardinality(V) = QuorumSize
  PROVE  ~Edge(logs, V, q, p)
<1> DEFINE S == {r \in V : Supports(logs[r], q, p)}
<1>1. F \in Nat \ {0} /\ N = 2 * F + 1
  BY ConfigAssumption
<1>2. PICK h \in Nat : h = (F + 1) \div 2 /\ 2 * h <= F + 1 /\ F + 1 <= 2 * h + 1
  BY <1>1
<1>3. FastQuorumSize = F + h + 1 /\ RequiredVotes = h + 1 /\ QuorumSize = F + 1
  BY <1>1, <1>2 DEF FastQuorumSize, RequiredVotes, QuorumSize
<1>4. S \in SUBSET (V \ A) /\ V \ A \in SUBSET Replicas
  OBVIOUS
<1>5. IsFiniteSet(V \ A) /\ Cardinality(V \ A) \in Nat
  BY <1>4, Overlap
<1>6. Cardinality(S) <= Cardinality(V \ A) /\ Cardinality(S) \in Nat
  BY <1>4, <1>5, FS_Subset, FS_CardinalityType
<1>7. Cardinality(V \ A) = Cardinality(V) - Cardinality(V \cap A)
  BY Overlap, FS_Difference
<1>8. A \cap V = V \cap A
  OBVIOUS
<1>9. Cardinality(V \cap A) >= RequiredVotes /\ Cardinality(V \cap A) \in Nat
  <2>1. Cardinality(V) >= QuorumSize
    BY <1>1, <1>3
  <2>2. Cardinality(A \cap V) >= RequiredVotes /\ Cardinality(A \cap V) \in Nat
    BY <2>1, SupermajorityOverlap, Overlap
  <2> QED  BY <2>2, <1>8
<1>10. Cardinality(S) <= F - h
  BY <1>1, <1>2, <1>3, <1>5, <1>6, <1>7, <1>9
<1>11. ~(Cardinality(S) >= RequiredVotes)
  BY <1>1, <1>2, <1>3, <1>6, <1>10
<1> QED  BY <1>11 DEF Edge, Votes

-------------------------------------------------------------------------------
(* Sequences without repetitions                                           *)

Distinct(s) == \A i, j \in 1 .. Len(s) : s[i] = s[j] => i = j

\* p is before q in s.
InOrder(s, p, q) == \E i, j \in 1 .. Len(s) : i < j /\ s[i] = p /\ s[j] = q

\* t is s without e, in the same order.
IsWithout(t, s, e) ==
    /\ \A x : Contains(t, x) <=> Contains(s, x) /\ x # e
    /\ \A p, q : p # e /\ q # e => (InOrder(t, p, q) <=> InOrder(s, p, q))

(* t, which is s without its position k, is s without s[k].                 *)
LEMMA SameOrder ==
  ASSUME NEW S, NEW s \in Seq(S), NEW t \in Seq(S), NEW e,
         NEW k \in 1 .. Len(s), s[k] = e, Distinct(s),
         Len(t) = Len(s) - 1,
         \A i \in 1 .. Len(t) : t[i] = IF i < k THEN s[i] ELSE s[i + 1]
  PROVE  Distinct(t) /\ IsWithout(t, s, e)
<1> DEFINE From(i) == IF i < k THEN i ELSE i + 1
           To(j) == IF j < k THEN j ELSE j - 1
<1>1. Len(s) \in Nat /\ Len(t) \in Nat
  OBVIOUS
<1>2. \A i \in 1 .. Len(t) : From(i) \in 1 .. Len(s) /\ From(i) # k /\ t[i] = s[From(i)]
  BY <1>1
<1>3. \A j \in 1 .. Len(s) : j # k => To(j) \in 1 .. Len(t) /\ From(To(j)) = j
  BY <1>1
<1>4. \A i, j \in 1 .. Len(t) : (From(i) = From(j) => i = j) /\ (i < j <=> From(i) < From(j))
  BY <1>1
<1> HIDE DEF From, To
<1>5. Distinct(t)
  BY <1>2, <1>4 DEF Distinct
<1>6. \A x : Contains(t, x) <=> Contains(s, x) /\ x # e
  <2>1. ASSUME NEW x, Contains(t, x) PROVE Contains(s, x) /\ x # e
    BY <2>1, <1>2 DEF Contains, Distinct
  <2>2. ASSUME NEW x, Contains(s, x), x # e PROVE Contains(t, x)
    <3>1. PICK j \in 1 .. Len(s) : s[j] = x
      BY <2>2 DEF Contains
    <3>2. j # k
      BY <3>1, <2>2
    <3> QED  BY <3>1, <3>2, <1>2, <1>3 DEF Contains
  <2> QED  BY <2>1, <2>2
<1>7. ASSUME NEW p, NEW q, p # e, q # e PROVE InOrder(t, p, q) <=> InOrder(s, p, q)
  <2>1. ASSUME InOrder(t, p, q) PROVE InOrder(s, p, q)
    <3>1. PICK i, j \in 1 .. Len(t) : i < j /\ t[i] = p /\ t[j] = q
      BY <2>1 DEF InOrder
    <3> QED  BY <3>1, <1>2, <1>4 DEF InOrder
  <2>2. ASSUME InOrder(s, p, q) PROVE InOrder(t, p, q)
    <3>1. PICK i, j \in 1 .. Len(s) : i < j /\ s[i] = p /\ s[j] = q
      BY <2>2 DEF InOrder
    <3>2. i # k /\ j # k
      BY <3>1, <1>7
    <3>3. To(i) \in 1 .. Len(t) /\ To(j) \in 1 .. Len(t) /\ To(i) < To(j)
      BY <3>1, <3>2, <1>3, <1>4
    <3>4. t[To(i)] = p /\ t[To(j)] = q
      BY <3>1, <3>2, <3>3, <1>2, <1>3
    <3> QED  BY <3>3, <3>4 DEF InOrder
  <2> QED  BY <2>1, <2>2
<1> QED  BY <1>5, <1>6, <1>7 DEF IsWithout

(* What remains of a log without repetitions when e is removed.              *)
LEMMA RemoveFirstFacts ==
  ASSUME NEW S, NEW s \in Seq(S), NEW e, Distinct(s)
  PROVE  /\ RemoveFirst(s, e) \in Seq(S)
         /\ Distinct(RemoveFirst(s, e))
         /\ IsWithout(RemoveFirst(s, e), s, e)
<1>1. CASE ~Contains(s, e)
  <2>1. RemoveFirst(s, e) = s
    BY <1>1 DEF RemoveFirst, Contains
  <2>2. \A x : Contains(s, x) => x # e
    BY <1>1
  <2> QED  BY <2>1, <2>2 DEF IsWithout
<1>2. CASE Contains(s, e)
  <2>1. PICK k \in 1 .. Len(s) : s[k] = e
    BY <1>2 DEF Contains
  <2> DEFINE I == {i \in 1 .. Len(s) : s[i] = e}
  <2>2. I = {k}
    BY <2>1 DEF Distinct
  <2>3. Min(I) = k
    BY <2>1, <2>2 DEF Min
  <2>4. SelectInSeq(s, LAMBDA v : v = e) = k
    BY <2>2, <2>3 DEF SelectInSeq
  <2>5. RemoveFirst(s, e) = RemoveAt(s, k)
    BY <2>1, <2>4 DEF RemoveFirst
  <2> DEFINE a == SubSeq(s, 1, k - 1)
             b == SubSeq(s, k + 1, Len(s))
             t == a \o b
  <2>6. RemoveFirst(s, e) = t
    BY <2>5 DEF RemoveAt
  <2>7. Len(s) \in Nat /\ k \in 1 .. Len(s)
    OBVIOUS
  <2>8. /\ a \in Seq(S) /\ Len(a) = k - 1
        /\ \A i \in 1 .. k - 1 : a[i] = s[i]
    <3>1. 1 \in Int /\ k - 1 \in Int /\ \A i \in 1 .. k - 1 : s[i] \in S
      BY <2>7
    <3>2. /\ a \in Seq(S) /\ Len(a) = IF 1 <= k - 1 THEN (k - 1) - 1 + 1 ELSE 0
          /\ \A i \in 1 .. (k - 1) - 1 + 1 : a[i] = s[1 + i - 1]
      BY <3>1, SubSeqProperties
    <3> HIDE DEF a
    <3> QED  BY <2>7, <3>2
  <2>9. /\ b \in Seq(S) /\ Len(b) = Len(s) - k
        /\ \A i \in 1 .. Len(s) - k : b[i] = s[k + i]
    <3>1. k + 1 \in Int /\ Len(s) \in Int /\ \A i \in k + 1 .. Len(s) : s[i] \in S
      BY <2>7
    <3>2. /\ b \in Seq(S) /\ Len(b) = IF k + 1 <= Len(s) THEN Len(s) - (k + 1) + 1 ELSE 0
          /\ \A i \in 1 .. Len(s) - (k + 1) + 1 : b[i] = s[k + 1 + i - 1]
      BY <3>1, SubSeqProperties
    <3> HIDE DEF b
    <3> QED  BY <2>7, <3>2
  <2> HIDE DEF a, b
  <2>10. /\ t \in Seq(S) /\ Len(t) = Len(s) - 1
         /\ \A i \in 1 .. Len(t) : t[i] = IF i < k THEN a[i] ELSE b[i - (k - 1)]
    <3>1. /\ t \in Seq(S) /\ Len(t) = Len(a) + Len(b)
          /\ \A i \in 1 .. Len(a) + Len(b) : t[i] = IF i <= Len(a) THEN a[i] ELSE b[i - Len(a)]
      BY <2>8, <2>9, ConcatProperties
    <3> HIDE DEF t
    <3> QED  BY <2>7, <2>8, <2>9, <3>1
  <2>11. ASSUME NEW i \in 1 .. Len(t) PROVE t[i] = IF i < k THEN s[i] ELSE s[i + 1]
    <3>1. t[i] = IF i < k THEN a[i] ELSE b[i - (k - 1)]
      BY <2>10
    <3> HIDE DEF t
    <3>2. i \in 1 .. Len(s) - 1
      BY <2>10
    <3>3. CASE i < k
      BY <2>7, <2>8, <3>1, <3>2, <3>3
    <3>4. CASE ~(i < k)
      <4>1. i - (k - 1) \in 1 .. Len(s) - k /\ k + (i - (k - 1)) = i + 1
        BY <2>7, <3>2, <3>4
      <4> QED  BY <2>9, <3>1, <3>4, <4>1
    <3> QED  BY <3>3, <3>4
  <2>12. PICK u \in Seq(S) : /\ u = t
                           /\ Len(u) = Len(s) - 1
                           /\ \A i \in 1 .. Len(u) : u[i] = IF i < k THEN s[i] ELSE s[i + 1]
    BY <2>10, <2>11
  <2> HIDE DEF t, I
  <2>13. Distinct(u) /\ IsWithout(u, s, e)
    BY <2>1, <2>12, SameOrder
  <2> QED  BY <2>6, <2>12, <2>13
<1> QED  BY <1>1, <1>2

(* Appending what s does not have keeps the order of the others.            *)
LEMMA AppendFacts ==
  ASSUME NEW S, NEW s \in Seq(S), NEW e \in S, Distinct(s), ~Contains(s, e)
  PROVE  /\ Append(s, e) \in Seq(S)
         /\ Distinct(Append(s, e))
         /\ \A x : Contains(Append(s, e), x) <=> Contains(s, x) \/ x = e
         /\ \A p, q : InOrder(s, p, q) => InOrder(Append(s, e), p, q)
         /\ \A p : Contains(s, p) => InOrder(Append(s, e), p, e)
<1> DEFINE t == Append(s, e)
<1>1. /\ Len(s) \in Nat /\ t \in Seq(S) /\ Len(t) = Len(s) + 1 /\ t[Len(s) + 1] = e
      /\ \A i \in 1 .. Len(s) : t[i] = s[i]
      /\ \A i \in 1 .. Len(t) : i \in 1 .. Len(s) \/ i = Len(s) + 1
      /\ 1 .. Len(s) \subseteq 1 .. Len(t)
  OBVIOUS
<1> HIDE DEF t
<1>2. Distinct(t)
  BY <1>1 DEF Distinct, Contains
<1>3. \A x : Contains(t, x) <=> Contains(s, x) \/ x = e
  <2>1. Contains(t, e)
    BY <1>1 DEF Contains
  <2> QED  BY <1>1, <2>1 DEF Contains
<1>4. \A p, q : InOrder(s, p, q) => InOrder(t, p, q)
  BY <1>1 DEF InOrder
<1>5. \A p : Contains(s, p) => InOrder(t, p, e)
  BY <1>1 DEF InOrder, Contains
<1> QED  BY <1>1, <1>2, <1>3, <1>4, <1>5 DEF t

(* A log with p and not q before it votes for the edge from p to q.         *)
LEMMA OrderedPositions ==
  ASSUME NEW S, NEW s \in Seq(S), Distinct(s), NEW p, NEW q, Contains(s, p),
         Contains(s, q) => InOrder(s, p, q)
  PROVE  Supports(s, p, q)
<1>1. Position(s, p) \in 1 .. Len(s) /\ s[Position(s, p)] = p
  BY DEF Position, Contains
<1>2. CASE ~Contains(s, q)
  <2>1. Position(s, q) = 0
    BY <1>2 DEF Position
  <2> QED  BY <1>1, <2>1 DEF Supports
<1>3. CASE Contains(s, q)
  <2>1. PICK i, j \in 1 .. Len(s) : i < j /\ s[i] = p /\ s[j] = q
    BY <1>3 DEF InOrder
  <2>2. Position(s, q) \in 1 .. Len(s) /\ s[Position(s, q)] = q
    BY <1>3 DEF Position, Contains
  <2>3. Position(s, p) = i /\ Position(s, q) = j
    BY <1>1, <2>1, <2>2 DEF Distinct
  <2> QED  BY <2>1, <2>3 DEF Supports
<1> QED  BY <1>2, <1>3

-------------------------------------------------------------------------------
(* Requests and messages                                                   *)

(* A position of a client's trace makes a request of that client.           *)
LEMMA RequestFacts ==
  ASSUME NEW c \in Clients, NEW i \in 1 .. Len(Trace[c])
  PROVE  /\ Request(c, i) \in Requests
         /\ Request(c, i).id = i
         /\ Request(c, i).client[1] = c
         /\ Request(c, i).op \in Ops
         /\ Request(c, i).key \in Keys
<1> DEFINE R == [op : Ops, key : Keys]
<1>1. Trace[c] \in Seq(R)
  BY DurabilityAssumption
<1> HIDE DEF R
<1>2. Trace[c][i] \in R /\ i \in DOMAIN Trace[c]
  BY <1>1
<1> USE DEF R
<1>3. Request(c, i) \in Requests
  BY <1>2 DEF Requests
<1> QED  BY <1>2, <1>3 DEF Request

(* Every request comes from a position of its client's trace.               *)
LEMMA RequestsFacts ==
  ASSUME NEW q \in Requests
  PROVE  /\ q.op \in Ops
         /\ q.key \in Keys
         /\ q.client[1] \in Clients
         /\ q.id \in 1 .. Len(Trace[q.client[1]])
         /\ q.id \in Nat
         /\ q = Request(q.client[1], q.id)
         /\ IsNilext(q) => q \in Updates
<1>1. PICK c \in Clients : \E i \in DOMAIN Trace[c] : q = Request(c, i)
  BY DEF Requests
<1>2. Trace[c] \in Seq([op : Ops, key : Keys])
  BY DurabilityAssumption
<1>3. PICK i \in 1 .. Len(Trace[c]) : q = Request(c, i)
  BY <1>1, <1>2
<1>4. IsNilext(q) => q \in Updates
  BY DEF IsNilext, Updates
<1> QED  BY <1>3, <1>4, RequestFacts

(* The fields of the messages.                                              *)
LEMMA MessageFacts ==
  ASSUME NEW m \in Messages
  PROVE  /\ m.req \in Requests
         /\ m.n \in Nat
         /\ m.type = "Request" =>
                m.to \in Replicas /\ m = [type |-> "Request", to |-> m.to, req |-> m.req, n |-> m.n]
         /\ m.type = "Reply" =>
                /\ m.from \in Replicas /\ m.value \in Values
                /\ m = [type |-> "Reply", from |-> m.from, req |-> m.req,
                        value |-> m.value, n |-> m.n]
<1>1. CASE m \in [type : {"Request"}, to : Replicas, req : Requests, n : Nat]
  BY <1>1
<1>2. CASE m \in [type : {"ConsensusRequest"}, req : Requests, n : Nat]
  BY <1>2
<1>3. CASE m \in [type : {"ConsensusReply"}, req : Requests, n : Nat]
  BY <1>3
<1>4. CASE m \in [type : {"Reply"}, from : Replicas, req : Requests, value : Values, n : Nat]
  BY <1>4
<1> QED  BY <1>1, <1>2, <1>3, <1>4 DEF Messages

(* The leader of view 0.                                                    *)
LEMMA LeaderIsReplica == Leader \in Replicas
BY ConfigAssumption DEF Leader, GetLeaderIndex, Replicas

-------------------------------------------------------------------------------
(* The invariant                                                           *)

ClientStates == [id : Nat, pending : BOOLEAN, sent : Nat, responses : Nat, leaderAcked : BOOLEAN]

\* The durability log of r has q.
Has(r, q) == Contains(app[r].durabilityLog, q)

\* The server of r has nothing to receive of update q, its client nothing of r.
NoRequest(r, q) == \A m \in msgs : ~(m.type = "Request" /\ m.to = r /\ m.req = q)

NoReply(r, q) == \A m \in msgs : ~(m.type = "Reply" /\ m.from = r /\ m.req = q)

\* Replica r has q, and q has its place there.
Settled(r, q) == (Has(r, q) \/ ExecutedAt(r, q)) /\ NoRequest(r, q)

\* ... and p has it before q.
Ordered(r, p, q) ==
    /\ Settled(r, p)
    /\ Has(r, p) /\ Has(r, q) => InOrder(app[r].durabilityLog, p, q)

\* The client of q has sent it.
Known(q) == q.id <= client[q.client[1]].id

SettledAt(q) == {r \in Replicas : Settled(r, q)}

CountedAt(q) == {r \in Replicas : Settled(r, q) /\ NoReply(r, q)}

OrderedAt(p, q) == {r \in Replicas : Ordered(r, p, q)}

Limit(r) == IF r = Leader THEN Len(decided) ELSE executed[Leader]

\* Replicas execute what is decided, followers what the leader has executed.
Executing ==
    \A r \in Replicas :
        /\ executed[r] <= Limit(r)
        /\ applied[r] => executed[r] < Limit(r) /\ NextOp(r).op # "read"

\* Each application's index names an update of the key that is pending or applied.
Indexed ==
    \A r \in Replicas :
        /\ Distinct(app[r].durabilityLog)
        /\ \A k \in Keys :
               LET q == app[r].lastUpdateToKey[k]
               IN  q # NotFound => q.key = k /\ (Has(r, q) \/ app[r].store[k] # NotFound)
        /\ applied[r] => app[r].store[NextOp(r).key] # NotFound

ClientsSent ==
    \A c \in Clients : client[c].id \in 0 .. Len(Trace[c]) /\
        (client[c].pending => client[c].id # 0 /\ client[c].sent # 0)

AppInv == TypeOK /\ Executing /\ Indexed /\ ClientsSent

\* Without retransmissions, a copy of an update is with its server once.
OneCopy ==
    /\ \A m \in msgs : IsNilext(m.req) =>
           /\ m.type \in {"Request", "Reply"} /\ m.n = 1 /\ Known(m.req)
           /\ m.type = "Reply" => m.value = NotFound /\ Settled(m.from, m.req)
    /\ \A r \in Replicas, q \in Updates :
           Has(r, q) => IsNilext(q) /\ Known(q) /\ NoRequest(r, q)

\* What the client has counted, it has counted of different servers.
Counts ==
    \A c \in Clients :
        client[c].pending /\ IsNilext(Current(c)) =>
            client[c].responses <= Cardinality(CountedAt(Current(c)))

CompletedSettled ==
    \A d \in done :
        /\ Known(d.req)
        /\ IsNilext(d.req) => Cardinality(SettledAt(d.req)) >= FastQuorumSize

CompletedOrdered ==
    \A pair \in precedes :
        /\ Known(pair[1]) /\ Known(pair[2]) /\ pair[1] # pair[2]
        /\ IsNilext(pair[1]) /\ IsNilext(pair[2]) =>
               Cardinality(OrderedAt(pair[1], pair[2])) >= FastQuorumSize

DurableInv == OneCopy /\ Counts /\ CompletedSettled /\ CompletedOrdered

Inv == AppInv /\ DurableInv

-------------------------------------------------------------------------------
(* The application                                                         *)

(* The fields of an application's state.                                    *)
LEMMA AppFields ==
  ASSUME NEW a \in AppStates(Updates)
  PROVE  /\ a.store \in [Keys -> Values] /\ a.lastUpdateToKey \in [Keys -> Values]
         /\ a.durabilityLog \in Seq(Updates) /\ a.queue \in Seq(Updates)
BY DEF AppStates, Values

(* makeDurable moves q to the end of the durability log and indexes it.     *)
LEMMA MakeDurableFacts ==
  ASSUME NEW a \in AppStates(Updates), NEW q \in Updates, Distinct(a.durabilityLog)
  PROVE  /\ MakeDurable(a, q) \in AppStates(Updates)
         /\ Distinct(MakeDurable(a, q).durabilityLog)
         /\ \A x : Contains(MakeDurable(a, q).durabilityLog, x)
                <=> Contains(a.durabilityLog, x) \/ x = q
         /\ \A x, y : x # q /\ y # q /\ InOrder(a.durabilityLog, x, y)
                => InOrder(MakeDurable(a, q).durabilityLog, x, y)
         /\ \A x : x # q /\ Contains(a.durabilityLog, x)
                => InOrder(MakeDurable(a, q).durabilityLog, x, q)
         /\ MakeDurable(a, q).store = a.store
         /\ MakeDurable(a, q).lastUpdateToKey = [a.lastUpdateToKey EXCEPT ![q.key] = q]
<1> DEFINE s == a.durabilityLog
           t == RemoveFirst(s, q)
           b == MakeDurable(a, q)
<1>1. q.key \in Keys
  BY RequestsFacts DEF Updates
<1>2. s \in Seq(Updates)
  BY AppFields
<1>3. t \in Seq(Updates) /\ Distinct(t) /\ IsWithout(t, s, q)
  BY <1>2, RemoveFirstFacts
<1>4. ~Contains(t, q)
  BY <1>3 DEF IsWithout
<1> DEFINE l == Append(t, q)
           u == [a.lastUpdateToKey EXCEPT ![q.key] = q]
<1> HIDE DEF t
<1>5. b = [a EXCEPT !.durabilityLog = l, !.lastUpdateToKey = u]
  BY DEF MakeDurable, t
<1> HIDE DEF l, u, b
<1>6. /\ b.durabilityLog = l /\ b.store = a.store
       /\ b.lastUpdateToKey = u
       /\ b.queue = a.queue
       /\ b = [store |-> b.store, lastUpdateToKey |-> b.lastUpdateToKey,
               durabilityLog |-> b.durabilityLog, queue |-> b.queue]
  BY <1>5 DEF AppStates
<1> USE DEF l, u
<1>7. /\ Append(t, q) \in Seq(Updates)
      /\ Distinct(Append(t, q))
      /\ \A x : Contains(Append(t, q), x) <=> Contains(t, x) \/ x = q
      /\ \A x, y : InOrder(t, x, y) => InOrder(Append(t, q), x, y)
      /\ \A x : Contains(t, x) => InOrder(Append(t, q), x, q)
  BY <1>3, <1>4, AppendFacts
<1>8. b.lastUpdateToKey \in [Keys -> Values]
  BY <1>1, <1>6, AppFields DEF Values, Updates
<1>9. b \in AppStates(Updates)
  BY <1>6, <1>7, <1>8, AppFields DEF AppStates, Values
<1> QED  BY <1>3, <1>6, <1>7, <1>9 DEF b, IsWithout

(* erase removes q from the durability log only.                            *)
LEMMA EraseFacts ==
  ASSUME NEW a \in AppStates(Updates), NEW q, Distinct(a.durabilityLog)
  PROVE  /\ Erase(a, q) \in AppStates(Updates)
         /\ Distinct(Erase(a, q).durabilityLog)
         /\ IsWithout(Erase(a, q).durabilityLog, a.durabilityLog, q)
         /\ Erase(a, q).store = a.store
         /\ Erase(a, q).lastUpdateToKey = a.lastUpdateToKey
<1>1. a.durabilityLog \in Seq(Updates)
  BY AppFields
<1>2. /\ RemoveFirst(a.durabilityLog, q) \in Seq(Updates)
      /\ Distinct(RemoveFirst(a.durabilityLog, q))
      /\ IsWithout(RemoveFirst(a.durabilityLog, q), a.durabilityLog, q)
  BY <1>1, RemoveFirstFacts
<1>3. /\ Erase(a, q).durabilityLog = RemoveFirst(a.durabilityLog, q)
      /\ Erase(a, q).store = a.store
      /\ Erase(a, q).lastUpdateToKey = a.lastUpdateToKey
      /\ Erase(a, q) \in AppStates(Updates)
  BY <1>2 DEF Erase, AppStates
<1> QED  BY <1>2, <1>3

(* Executing an update stores a value for its key.                          *)
LEMMA ApplyFacts ==
  ASSUME NEW a \in AppStates(Updates), NEW q \in Updates
  PROVE  /\ Apply(a, q) \in AppStates(Updates)
         /\ Apply(a, q).durabilityLog = a.durabilityLog
         /\ Apply(a, q).lastUpdateToKey = a.lastUpdateToKey
         /\ Apply(a, q).store = [a.store EXCEPT ![q.key] = q]
<1>1. q.key \in Keys
  BY RequestsFacts DEF Updates
<1> QED  BY <1>1 DEF Apply, AppStates, Values

(* Queueing an update for consensus touches neither log nor index.          *)
LEMMA QueueFacts ==
  ASSUME NEW a \in AppStates(Updates), NEW b,
         \/ \E q \in Updates : b = AddToQueue(a, q)
         \/ a.queue # <<>> /\ b = [a EXCEPT !.queue = Tail(@)]
  PROVE  /\ b \in AppStates(Updates)
         /\ b.durabilityLog = a.durabilityLog
         /\ b.lastUpdateToKey = a.lastUpdateToKey
         /\ b.store = a.store
<1>1. a.queue \in Seq(Updates)
  BY AppFields
<1>2. CASE \E q \in Updates : b = AddToQueue(a, q)
  <2>1. PICK q \in Updates : b = AddToQueue(a, q)
    BY <1>2
  <2>2. Append(a.queue, q) \in Seq(Updates)
    BY <1>1
  <2> QED  BY <2>1, <2>2 DEF AddToQueue, AppStates
<1>3. CASE a.queue # <<>> /\ b = [a EXCEPT !.queue = Tail(@)]
  <2>1. Tail(a.queue) \in Seq(Updates)
    BY <1>1, <1>3
  <2> QED  BY <1>3, <2>1 DEF AppStates
<1> QED  BY <1>2, <1>3

-------------------------------------------------------------------------------
(* AppInv is inductive, whatever is retransmitted                          *)

(* The handlers, of a given message.                                       *)

Counted(c, m) ==
    [client[c] EXCEPT !.responses = @ + 1, !.leaderAcked = @ \/ m.from = Leader]

HandleReplyTo(c, m) ==
    /\ m.type = "Reply" /\ client[c].pending /\ m.req = Current(c)
    /\ client' = [client EXCEPT ![c] = [Counted(c, m) EXCEPT !.pending = ~Enough(Counted(c, m), m.req)]]
    /\ done' = done \cup IF Enough(Counted(c, m), m.req)
                         THEN {[req |-> m.req, value |-> m.value]} ELSE {}
    /\ msgs' = {x \in msgs \ {m} : ~Useless(x, done')}
    /\ UNCHANGED <<serverVars, applied, logVars, precedes>>

HandleRequestOf(r, m) ==
    /\ m.type = "Request" /\ m.to = r
    /\ Running(r)
    /\ server[r] = <<>>
    /\ \/ /\ IsNilext(m.req)
          /\ app' = [app EXCEPT ![r] = MakeDurable(@, m.req)]
          /\ server' = [server EXCEPT ![r] = IF r = Leader THEN <<m>> ELSE <<>>]
          /\ Network({m}, {Reply(r, m, NotFound)})
       \/ /\ ~IsNilext(m.req)
          /\ \/ Network({m}, {ToConsensus(m)}) /\ server' = server
             \/ Network({m}, {}) /\ server' = [server EXCEPT ![r] = <<m>>]
          /\ UNCHANGED app
    /\ UNCHANGED <<applied, logVars, clientVars, aborted>>

ConsensusRequestOf(m) ==
    /\ m.type = "ConsensusRequest"
    /\ LeaderIdle /\ Drained
    /\ \/ Log!Decide(m.req) /\ Network({m}, {})
       \/ /\ \/ Network({m}, {})
             \/ Network({m}, {[type |-> "ConsensusReply", req |-> m.req, n |-> m.n]})
             \/ m.req.op # "read" /\ Network({m}, {Reply(Leader, m, NotFound)})
          /\ UNCHANGED logVars
    /\ UNCHANGED <<serverVars, applied, clientVars>>

(* The network keeps, adds or removes messages.                             *)
LEMMA NetworkFacts ==
  ASSUME NEW gone, NEW sent, msgs \subseteq Messages, sent \subseteq Messages,
         Network(gone, sent)
  PROVE  msgs' \subseteq Messages /\ msgs' \subseteq (msgs \ gone) \cup sent
BY DEF Network

\* The log of the leader is continued.
LogGrows ==
    /\ decided' \in Seq(Requests)
    /\ Len(decided) <= Len(decided')
    /\ \A k \in 1 .. Len(decided) : decided'[k] = decided[k]

(* Deciding a request appends it to what is decided.                        *)
LEMMA DecideFacts ==
  ASSUME AppInv, NEW q \in Requests, Log!Decide(q)
  PROVE  LogGrows /\ executed' = executed
<1>1. decided \in Seq(Requests)
  BY DEF AppInv, TypeOK
<1>2. decided' = Append(decided, q) /\ executed' = executed
  BY DEF Log!Decide
<1> QED  BY <1>1, <1>2 DEF LogGrows

(* Where no replica executes, the bound on it can only grow.                *)
LEMMA SameLogGrows ==
  ASSUME AppInv, decided' = decided
  PROVE  LogGrows
BY DEF AppInv, TypeOK, LogGrows

(* What a step leaves that executes nothing.                               *)
LEMMA NothingExecuted ==
  ASSUME AppInv, LogGrows, executed' = executed, applied' = applied
  PROVE  Executing' /\ \A r \in Replicas : applied[r] => NextOp(r)' = NextOp(r)
<1>1. decided \in Seq(Requests) /\ executed \in [Replicas -> Nat] /\ Leader \in Replicas
  BY LeaderIsReplica DEF AppInv, TypeOK
<1>2. Len(decided) \in Nat /\ Len(decided') \in Nat /\ Len(decided) <= Len(decided')
  BY <1>1 DEF LogGrows
<1>3. executed[Leader] <= Len(decided)
  BY <1>1 DEF AppInv, Executing, Limit
<1>4. ASSUME NEW r \in Replicas
      PROVE  /\ executed'[r] <= Limit(r)'
             /\ applied[r] => executed'[r] < Limit(r)' /\ NextOp(r)' = NextOp(r)
                                /\ NextOp(r).op # "read"
  <2>1. executed[r] \in Nat /\ executed[Leader] \in Nat
    BY <1>1
  <2>2. executed[r] <= Limit(r) /\ (applied[r] => executed[r] < Limit(r) /\ NextOp(r).op # "read")
    BY DEF AppInv, Executing
  <2>3. Limit(r) <= Limit(r)' /\ Limit(r) <= Len(decided)
    BY <1>2, <1>3, <2>1 DEF Limit, Leader
  <2>4. Limit(r) \in Nat /\ Limit(r)' \in Nat
    BY <1>2, <2>1 DEF Limit, Leader
  <2>5. applied[r] => executed[r] + 1 \in 1 .. Len(decided)
    BY <1>2, <2>1, <2>2, <2>3, <2>4
  <2>6. applied[r] => NextOp(r)' = NextOp(r)
    BY <2>5 DEF NextOp, LogGrows
  <2> QED  BY <1>2, <2>1, <2>2, <2>3, <2>4, <2>6
<1> QED  BY <1>4 DEF Executing, NextOp

(* ... and changes no application but for its queue.                       *)
LEMMA NothingIndexed ==
  ASSUME AppInv, LogGrows, executed' = executed, applied' = applied,
         \A r \in Replicas : /\ app'[r].durabilityLog = app[r].durabilityLog
                             /\ app'[r].lastUpdateToKey = app[r].lastUpdateToKey
                             /\ app'[r].store = app[r].store
  PROVE  Executing' /\ Indexed'
<1>1. Executing' /\ \A r \in Replicas : applied[r] => NextOp(r)' = NextOp(r)
  BY NothingExecuted
<1>2. Indexed
  BY DEF AppInv
<1> QED  BY <1>1, <1>2 DEF Indexed, Has

(* Invoke keeps AppInv.                                                     *)
LEMMA AppInvoke ==
  ASSUME AppInv, NEW c \in Clients, Invoke(c)
  PROVE  AppInv'
<1> DEFINE i == client[c].id + 1
<1>1. i \in 1 .. Len(Trace[c]) /\ client[c].id \in Nat
  BY DEF AppInv, TypeOK, Invoke, ClientsSent
<1>2. Request(c, i) \in Requests
  BY <1>1, RequestFacts
<1>3. SendRequest(Request(c, i), 1) \subseteq Messages
  <2>1. Leader \in Replicas /\ Up \subseteq Replicas
    BY LeaderIsReplica, DurabilityAssumption
  <2> QED  BY <1>2, <2>1 DEF SendRequest, Messages
<1>4. msgs' \subseteq Messages
  BY <1>3, NetworkFacts DEF AppInv, TypeOK, Invoke
<1>5. /\ client' = [client EXCEPT ![c] = [id |-> i, pending |-> TRUE, sent |-> 1,
                                        responses |-> 0, leaderAcked |-> FALSE]]
      /\ precedes' = precedes \cup {<<d.req, Request(c, i)>> : d \in done}
      /\ UNCHANGED <<app, server, aborted, applied, decided, executed, done>>
  BY DEF Invoke, serverVars, logVars
<1>6. client' \in [Clients -> [id : Nat, pending : BOOLEAN, sent : Nat,
                              responses : Nat, leaderAcked : BOOLEAN]]
  BY <1>1, <1>5 DEF AppInv, TypeOK
<1>7. precedes' \subseteq Requests \X Requests
  BY <1>2, <1>5 DEF AppInv, TypeOK
<1>8. TypeOK'
  BY <1>4, <1>5, <1>6, <1>7 DEF AppInv, TypeOK
<1>9. ClientsSent'
  BY <1>1, <1>5 DEF AppInv, TypeOK, ClientsSent
<1>10. Executing' /\ Indexed'
  BY <1>5, SameLogGrows, NothingIndexed
<1> QED  BY <1>8, <1>9, <1>10 DEF AppInv

(* The request that a pending client waits for.                             *)
LEMMA CurrentFacts ==
  ASSUME AppInv, NEW c \in Clients, client[c].pending
  PROVE  /\ client[c].id \in 1 .. Len(Trace[c])
         /\ Current(c) \in Requests /\ Current(c).id = client[c].id
         /\ Current(c).client[1] = c
<1>1. client[c].id \in 1 .. Len(Trace[c])
  BY DEF AppInv, ClientsSent
<1> QED  BY <1>1, RequestFacts DEF Current

(* ResendRequest keeps AppInv.                                              *)
LEMMA AppResendRequest ==
  ASSUME AppInv, NEW c \in Clients, ResendRequest(c)
  PROVE  AppInv'
<1>1. Current(c) \in Requests
  BY CurrentFacts DEF ResendRequest
<1>2. client[c].sent \in Nat
  BY DEF AppInv, TypeOK
<1>3. SendRequest(Current(c), client[c].sent + 1) \subseteq Messages
  <2>1. Leader \in Replicas /\ Up \subseteq Replicas
    BY LeaderIsReplica, DurabilityAssumption
  <2> QED  BY <1>1, <1>2, <2>1 DEF SendRequest, Messages
<1>4. msgs' \subseteq Messages
  BY <1>3, NetworkFacts DEF AppInv, TypeOK, ResendRequest
<1>5. /\ client' = [client EXCEPT ![c].sent = @ + 1]
      /\ UNCHANGED <<app, server, aborted, applied, decided, executed, done, precedes>>
  BY DEF ResendRequest, serverVars, logVars
<1>6. TypeOK'
  <2>1. [client[c] EXCEPT !.sent = @ + 1] \in ClientStates
    <3>1. client[c] \in ClientStates
      BY DEF AppInv, TypeOK, ClientStates
    <3> QED  BY <3>1 DEF ClientStates
  <2>2. client' = [client EXCEPT ![c] = [client[c] EXCEPT !.sent = @ + 1]]
    BY <1>5
  <2>3. client' \in [Clients -> ClientStates]
    BY <2>1, <2>2 DEF AppInv, TypeOK, ClientStates
  <2> QED  BY <1>4, <1>5, <2>3 DEF AppInv, TypeOK, ClientStates
<1>7. ClientsSent'
  BY <1>2, <1>5 DEF AppInv, TypeOK, ClientsSent
<1>8. Executing' /\ Indexed'
  BY <1>5, SameLogGrows, NothingIndexed
<1> QED  BY <1>6, <1>7, <1>8 DEF AppInv

(* HandleReply keeps AppInv.                                                *)
LEMMA AppHandleReply ==
  ASSUME AppInv, NEW c \in Clients, HandleReply(c)
  PROVE  AppInv'
<1>1. PICK m \in msgs : HandleReplyTo(c, m)
  BY Zenon DEF HandleReply, HandleReplyTo, Counted
<1>2. m \in Messages /\ m.type = "Reply"
  BY <1>1 DEF AppInv, TypeOK, HandleReplyTo
<1>3. m.req \in Requests /\ m.value \in Values
  BY <1>2, MessageFacts
<1>4. /\ done' \subseteq done \cup {[req |-> m.req, value |-> m.value]}
      /\ msgs' \subseteq msgs
      /\ UNCHANGED <<app, server, aborted, applied, decided, executed, precedes>>
  BY <1>1 DEF HandleReplyTo, serverVars, logVars
<1>5. done' \subseteq [req : Requests, value : Values]
  BY <1>3, <1>4 DEF AppInv, TypeOK
<1>6. /\ client' \in [Clients -> ClientStates]
      /\ \A d \in Clients : client'[d].id = client[d].id /\ client'[d].sent = client[d].sent
                             /\ (client'[d].pending => client[d].pending)
  <2> DEFINE t == [Counted(c, m) EXCEPT !.pending = ~Enough(Counted(c, m), m.req)]
  <2>1. client[c] \in ClientStates /\ client \in [Clients -> ClientStates]
    BY DEF AppInv, TypeOK, ClientStates
  <2>2. /\ Counted(c, m) \in ClientStates
        /\ Counted(c, m).id = client[c].id /\ Counted(c, m).sent = client[c].sent
    <3>1. (client[c].leaderAcked \/ m.from = Leader) \in BOOLEAN
      OBVIOUS
    <3>2. PICK b \in BOOLEAN : b = (client[c].leaderAcked \/ m.from = Leader)
      BY <3>1, Zenon
    <3>3. Counted(c, m) = [client[c] EXCEPT !.responses = @ + 1, !.leaderAcked = b]
      BY <3>2, Zenon DEF Counted
    <3>4. PICK s \in ClientStates : s = client[c]
      BY <2>1
    <3>5. s.responses + 1 \in Nat
      BY DEF ClientStates
    <3>6. PICK k \in Nat : k = s.responses + 1
      BY <3>5
    <3>7. Counted(c, m) = [s EXCEPT !.responses = k, !.leaderAcked = b]
      BY <3>3, <3>4, <3>6
    <3>8. /\ [s EXCEPT !.responses = k, !.leaderAcked = b] \in ClientStates
          /\ [s EXCEPT !.responses = k, !.leaderAcked = b].id = s.id
          /\ [s EXCEPT !.responses = k, !.leaderAcked = b].sent = s.sent
      BY DEF ClientStates
    <3> QED  BY <3>4, <3>7, <3>8
  <2>3. t \in ClientStates /\ t.id = client[c].id /\ t.sent = client[c].sent
    BY <2>2 DEF ClientStates, Enough
  <2>4. client' = [client EXCEPT ![c] = t] /\ client[c].pending
    BY <1>1 DEF HandleReplyTo
  <2> HIDE DEF t
  <2>5. client' \in [Clients -> ClientStates]
    BY <2>1, <2>3, <2>4
  <2>6. \A d \in Clients : client'[d] = IF d = c THEN t ELSE client[d]
    BY <2>1, <2>4
  <2>7. \A d \in Clients : client'[d].id = client[d].id /\ client'[d].sent = client[d].sent
    BY <2>3, <2>6
  <2>8. \A d \in Clients : client'[d].pending => client[d].pending
    BY <2>4, <2>6, Zenon
  <2> QED  BY <2>5, <2>7, <2>8, Zenon
<1>7. TypeOK'
  BY <1>4, <1>5, <1>6 DEF AppInv, TypeOK, ClientStates
<1>8. ClientsSent'
  BY <1>6 DEF AppInv, ClientsSent
<1>9. Executing' /\ Indexed'
  BY <1>4, SameLogGrows, NothingIndexed
<1> QED  BY <1>7, <1>8, <1>9 DEF AppInv

(* HandleRequest keeps AppInv.                                              *)
LEMMA AppHandleRequest ==
  ASSUME AppInv, NEW r \in Up, HandleRequest(r)
  PROVE  AppInv'
<1>1. PICK m \in msgs : HandleRequestOf(r, m)
  BY DEF HandleRequest, HandleRequestOf
<1> DEFINE q == m.req
<1>2. m \in Messages /\ r \in Replicas /\ msgs \subseteq Messages
  BY DurabilityAssumption DEF AppInv, TypeOK
<1>3. q \in Requests /\ m.n \in Nat /\ (IsNilext(q) => q \in Updates)
  BY <1>2, MessageFacts, RequestsFacts
<1>4. Reply(r, m, NotFound) \in Messages /\ ToConsensus(m) \in Messages
  BY <1>2, <1>3 DEF Reply, ToConsensus, Messages, Values
<1>5. UNCHANGED <<applied, decided, executed, client, done, precedes, aborted>>
  BY <1>1 DEF HandleRequestOf, logVars, clientVars
<1>6. msgs' \subseteq Messages
  BY <1>1, <1>2, <1>4, NetworkFacts DEF HandleRequestOf
<1>7. server' \in [Replicas -> Seq(Messages)]
  <2>1. <<m>> \in Seq(Messages) /\ <<>> \in Seq(Messages)
    BY <1>2
  <2> QED  BY <1>1, <1>2, <2>1 DEF HandleRequestOf, AppInv, TypeOK
<1>8. ClientsSent'
  BY <1>5 DEF AppInv, ClientsSent
<1>9. LogGrows
  BY <1>5, SameLogGrows
<1>10. CASE IsNilext(q)
  <2>1. app' = [app EXCEPT ![r] = MakeDurable(app[r], q)]
    BY <1>1, <1>10 DEF HandleRequestOf
  <2> DEFINE b == MakeDurable(app[r], q)
  <2>2. app[r] \in AppStates(Updates) /\ Distinct(app[r].durabilityLog)
    BY <1>2 DEF AppInv, TypeOK, Indexed
  <2>3. /\ b \in AppStates(Updates) /\ Distinct(b.durabilityLog)
        /\ \A x : Contains(b.durabilityLog, x) <=> Contains(app[r].durabilityLog, x) \/ x = q
        /\ b.store = app[r].store
        /\ b.lastUpdateToKey = [app[r].lastUpdateToKey EXCEPT ![q.key] = q]
    BY <1>3, <1>10, <2>2, MakeDurableFacts
  <2> HIDE DEF b
  <2>4. /\ app' \in [Replicas -> AppStates(Updates)]
        /\ app'[r] = b
        /\ \A p \in Replicas : p # r => app'[p] = app[p]
    BY <1>2, <2>1, <2>3 DEF AppInv, TypeOK, b
  <2>5. TypeOK'
    BY <1>5, <1>6, <1>7, <2>4 DEF AppInv, TypeOK
  <2>6. Executing' /\ \A p \in Replicas : applied[p] => NextOp(p)' = NextOp(p)
    BY <1>5, <1>9, NothingExecuted
  <2>7. app[r].lastUpdateToKey \in [Keys -> Values]
    BY <2>2, AppFields
  <2>8. Indexed'
    BY <1>2, <1>5, <2>3, <2>4, <2>6, <2>7 DEF AppInv, Indexed, Has
  <2> QED  BY <1>8, <2>5, <2>6, <2>8 DEF AppInv
<1>11. CASE ~IsNilext(q)
  <2>1. app' = app
    BY <1>1, <1>11 DEF HandleRequestOf
  <2>2. TypeOK'
    BY <1>5, <1>6, <1>7, <2>1 DEF AppInv, TypeOK
  <2>3. Executing' /\ Indexed'
    BY <1>5, <1>9, <2>1, NothingIndexed
  <2> QED  BY <1>8, <2>2, <2>3 DEF AppInv
<1> QED  BY <1>10, <1>11

(* FinishRequest keeps AppInv.                                              *)
LEMMA AppFinishRequest ==
  ASSUME AppInv, NEW r \in Up, FinishRequest(r)
  PROVE  AppInv'
<1> DEFINE m == server[r][1]
<1>1. r \in Replicas /\ server[r] \in Seq(Messages) /\ server[r] # <<>> /\ msgs \subseteq Messages
  BY DurabilityAssumption DEF AppInv, TypeOK, FinishRequest
<1>2. m \in Messages
  BY <1>1
<1>3. m.req \in Requests /\ m.n \in Nat /\ m.req.key \in Keys /\ (IsNilext(m.req) => m.req \in Updates)
  BY <1>2, MessageFacts, RequestsFacts
<1>4. /\ UNCHANGED <<applied, decided, executed, client, done, precedes, aborted>>
      /\ server' = [server EXCEPT ![r] = <<>>]
  BY DEF FinishRequest, logVars, clientVars
<1>5. server' \in [Replicas -> Seq(Messages)]
  <2>1. <<>> \in Seq(Messages)
    OBVIOUS
  <2> QED  BY <1>4, <2>1 DEF AppInv, TypeOK
<1>6. app[r] \in AppStates(Updates)
  BY <1>1 DEF AppInv, TypeOK
<1>7. ClientsSent'
  BY <1>4 DEF AppInv, ClientsSent
<1>8. CASE IsNilext(m.req)
  <2> DEFINE b == AddToQueue(app[r], m.req)
  <2>1. app' = [app EXCEPT ![r] = b] /\ Network({}, {})
    BY <1>8 DEF FinishRequest
  <2>2. /\ b \in AppStates(Updates) /\ b.durabilityLog = app[r].durabilityLog
        /\ b.lastUpdateToKey = app[r].lastUpdateToKey /\ b.store = app[r].store
    BY <1>3, <1>6, <1>8, QueueFacts
  <2> HIDE DEF b
  <2>3. /\ app' \in [Replicas -> AppStates(Updates)]
        /\ \A p \in Replicas : app'[p] = IF p = r THEN b ELSE app[p]
    BY <1>1, <2>1, <2>2 DEF AppInv, TypeOK
  <2>4. Executing' /\ Indexed'
    BY <1>4, <2>2, <2>3, SameLogGrows, NothingIndexed
  <2>5. msgs' \subseteq Messages
    BY <1>1, <2>1, NetworkFacts
  <2>6. TypeOK'
    BY <1>4, <1>5, <2>3, <2>5 DEF AppInv, TypeOK
  <2> QED  BY <1>7, <2>4, <2>6 DEF AppInv
<1>9. CASE ~IsNilext(m.req)
  <2>1. app' = app /\ Network({}, {Reply(r, m, app[r].store[m.req.key])})
    BY <1>9 DEF FinishRequest
  <2>2. app[r].store[m.req.key] \in Values
    BY <1>3, <1>6, AppFields
  <2>3. Reply(r, m, app[r].store[m.req.key]) \in Messages
    BY <1>1, <1>3, <2>2 DEF Reply, Messages
  <2>4. msgs' \subseteq Messages
    BY <1>1, <2>1, <2>3, NetworkFacts
  <2>5. TypeOK'
    BY <1>4, <1>5, <2>1, <2>4 DEF AppInv, TypeOK
  <2>6. Executing' /\ Indexed'
    BY <1>4, <2>1, SameLogGrows, NothingIndexed
  <2> QED  BY <1>7, <2>5, <2>6 DEF AppInv
<1> QED  BY <1>8, <1>9

(* HandleConsensusReply keeps AppInv.                                       *)
LEMMA AppHandleConsensusReply ==
  ASSUME AppInv, NEW r \in Up, HandleConsensusReply(r)
  PROVE  AppInv'
<1>1. /\ UNCHANGED <<app, server, applied, decided, executed, client, done, precedes>>
      /\ aborted' = TRUE
      /\ \E m \in msgs : Network({m}, {})
  BY DEF HandleConsensusReply, logVars, clientVars
<1>2. msgs' \subseteq Messages
  BY <1>1 DEF Network, AppInv, TypeOK
<1>3. TypeOK' /\ ClientsSent'
  BY <1>1, <1>2 DEF AppInv, TypeOK, ClientsSent
<1>4. Executing' /\ Indexed'
  BY <1>1, SameLogGrows, NothingIndexed
<1> QED  BY <1>3, <1>4 DEF AppInv

(* BgRepl keeps AppInv.                                                     *)
LEMMA AppBgRepl ==
  ASSUME AppInv, BgRepl
  PROVE  AppInv'
<1> DEFINE a == app[Leader]
           q == Head(a.queue)
           b == [a EXCEPT !.queue = Tail(@)]
<1>1. Leader \in Replicas /\ a \in AppStates(Updates) /\ a.queue # <<>>
  BY LeaderIsReplica DEF AppInv, TypeOK, BgRepl
<1>2. a.queue \in Seq(Updates) /\ q \in Requests
  <2>1. a.queue \in Seq(Updates)
    BY <1>1, AppFields
  <2> HIDE DEF a
  <2> QED  BY <1>1, <2>1 DEF Updates
<1>3. /\ UNCHANGED <<server, aborted, applied, client, done, precedes, msgs>>
      /\ app' = [app EXCEPT ![Leader] = b]
      /\ Log!Decide(q) \/ UNCHANGED <<decided, executed>>
  BY DEF BgRepl, clientVars, logVars
<1>4. /\ b \in AppStates(Updates) /\ b.durabilityLog = a.durabilityLog
      /\ b.lastUpdateToKey = a.lastUpdateToKey /\ b.store = a.store
  BY <1>1, QueueFacts
<1>5. LogGrows /\ executed' = executed
  BY <1>2, <1>3, DecideFacts, SameLogGrows
<1> HIDE DEF b
<1>6. /\ app' \in [Replicas -> AppStates(Updates)]
      /\ \A p \in Replicas : app'[p] = IF p = Leader THEN b ELSE app[p]
  BY <1>1, <1>3, <1>4 DEF AppInv, TypeOK
<1>7. Executing' /\ Indexed'
  BY <1>3, <1>4, <1>5, <1>6, NothingIndexed
<1>8. TypeOK' /\ ClientsSent'
  BY <1>3, <1>5, <1>6 DEF AppInv, TypeOK, ClientsSent, LogGrows
<1> QED  BY <1>7, <1>8 DEF AppInv

(* Handling a consensus request takes one from the network.                 *)
LEMMA ConsensusRequestPicked ==
  ASSUME HandleConsensusRequest
  PROVE  \E m \in msgs : ConsensusRequestOf(m)
<1> DEFINE Resent(m) == IF m.req.op = "read"
                         THEN {[type |-> "ConsensusReply", req |-> m.req, n |-> m.n]}
                         ELSE {Reply(Leader, m, NotFound)}
<1>1. PICK m \in msgs :
           /\ m.type = "ConsensusRequest"
           /\ LeaderIdle /\ Drained
           /\ \/ Log!Decide(m.req) /\ Network({m}, {})
              \/ \E sent \in {{}, Resent(m)} : Network({m}, sent) /\ UNCHANGED logVars
           /\ UNCHANGED <<serverVars, applied, clientVars>>
    BY DEF HandleConsensusRequest
<1>2. CASE Network({m}, {}) /\ UNCHANGED logVars
    BY <1>1, <1>2, Zenon DEF ConsensusRequestOf
<1>3. CASE Network({m}, Resent(m)) /\ UNCHANGED logVars
  <2>1. CASE m.req.op = "read"
      BY <1>1, <1>3, <2>1, Zenon DEF ConsensusRequestOf
  <2>2. CASE m.req.op # "read"
      BY <1>1, <1>3, <2>2, Zenon DEF ConsensusRequestOf
  <2> QED  BY <2>1, <2>2
<1>4. CASE Log!Decide(m.req) /\ Network({m}, {})
    BY <1>1, <1>4, Zenon DEF ConsensusRequestOf
<1> HIDE DEF Resent
<1> QED  BY <1>1, <1>2, <1>3, <1>4

(* HandleConsensusRequest keeps AppInv.                                     *)
LEMMA AppHandleConsensusRequest ==
  ASSUME AppInv, HandleConsensusRequest
  PROVE  AppInv'
<1>1. PICK m \in msgs : ConsensusRequestOf(m)
  BY ConsensusRequestPicked
<1>2. m \in Messages /\ msgs \subseteq Messages
  BY DEF AppInv, TypeOK
<1>3. m.req \in Requests /\ m.n \in Nat
  BY <1>2, MessageFacts
<1>4. /\ UNCHANGED <<app, server, aborted, applied, client, done, precedes>>
      /\ Log!Decide(m.req) \/ UNCHANGED <<decided, executed>>
  BY <1>1 DEF ConsensusRequestOf, serverVars, clientVars, logVars
<1>5. /\ [type |-> "ConsensusReply", req |-> m.req, n |-> m.n] \in Messages
      /\ Reply(Leader, m, NotFound) \in Messages
  BY <1>3, LeaderIsReplica DEF Reply, Messages, Values
<1>6. msgs' \subseteq Messages
  <2>1. PICK sent \in SUBSET Messages : Network({m}, sent)
    BY <1>1, <1>5 DEF ConsensusRequestOf
  <2> QED  BY <1>2, <2>1, NetworkFacts
<1>7. LogGrows /\ executed' = executed
  BY <1>3, <1>4, DecideFacts, SameLogGrows
<1>8. Executing' /\ Indexed'
  BY <1>4, <1>7, NothingIndexed
<1>9. TypeOK' /\ ClientsSent'
  BY <1>4, <1>6, <1>7 DEF AppInv, TypeOK, ClientsSent, LogGrows
<1> QED  BY <1>8, <1>9 DEF AppInv

(* The next operation of a replica that may execute.                        *)
LEMMA NextOpFacts ==
  ASSUME AppInv, NEW r \in Replicas, executed[r] < Limit(r)
  PROVE  /\ executed[r] + 1 \in 1 .. Len(decided)
         /\ NextOp(r) \in Requests
         /\ NextOp(r).key \in Keys
         /\ NextOp(r) # NotFound
         /\ NextOp(r).op # "read" => NextOp(r) \in Updates
<1>1. /\ decided \in Seq(Requests) /\ executed[r] \in Nat /\ executed[Leader] \in Nat
      /\ executed[Leader] <= Len(decided)
  BY LeaderIsReplica DEF AppInv, TypeOK, Executing, Limit
<1>2. executed[r] + 1 \in 1 .. Len(decided)
  BY <1>1 DEF Limit, Leader
<1>3. NextOp(r) \in Requests
  BY <1>1, <1>2 DEF NextOp
<1> QED  BY <1>2, <1>3, RequestsFacts, NotFoundAssumption DEF Updates

(* What a step leaves in which replica r executes its next operation.      *)
LEMMA OneExecuted ==
  ASSUME AppInv, NEW r \in Replicas, Log!Execute(r, executed[r] + 1),
         applied' = [applied EXCEPT ![r] = FALSE]
  PROVE  /\ Executing'
         /\ executed' \in [Replicas -> Nat]
         /\ decided' = decided
         /\ \A p \in Replicas : p # r => NextOp(p)' = NextOp(p) /\ applied'[p] = applied[p]
         /\ ~applied'[r]
<1>1. /\ decided \in Seq(Requests) /\ executed \in [Replicas -> Nat]
      /\ Leader \in Replicas /\ applied \in [Replicas -> BOOLEAN]
  BY LeaderIsReplica DEF AppInv, TypeOK
<1>2. /\ executed' = [executed EXCEPT ![r] = executed[r] + 1]
      /\ executed[r] + 1 <= Limit(r)
      /\ decided' = decided
  BY DEF Log!Execute, Limit
<1>3. executed' \in [Replicas -> Nat]
  BY <1>1, <1>2
<1>4. \A p \in Replicas : p # r => NextOp(p)' = NextOp(p) /\ applied'[p] = applied[p]
  BY <1>1, <1>2 DEF NextOp
<1>5. ~applied'[r]
  BY <1>1
<1>6. ASSUME NEW p \in Replicas
      PROVE  /\ executed'[p] <= Limit(p)'
             /\ applied'[p] => executed'[p] < Limit(p)' /\ NextOp(p)'.op # "read"
  <2>1. executed[p] <= Limit(p) /\ (applied[p] => executed[p] < Limit(p) /\ NextOp(p).op # "read")
    BY DEF AppInv, Executing
  <2>2. executed[p] \in Nat /\ executed[r] \in Nat /\ executed[Leader] \in Nat /\ Len(decided) \in Nat
    BY <1>1
  <2>3. /\ executed'[p] = IF p = r THEN executed[r] + 1 ELSE executed[p]
        /\ executed'[Leader] = IF Leader = r THEN executed[r] + 1 ELSE executed[Leader]
    BY <1>1, <1>2
  <2>4. Leader' = Leader
    BY DEF Leader
  <2>5. Limit(p)' = IF p = Leader THEN Len(decided) ELSE executed'[Leader]
    BY <1>2, <2>4 DEF Limit
  <2> QED  BY <1>2, <1>4, <1>5, <2>1, <2>2, <2>3, <2>5 DEF Limit
<1>7. Executing'
  BY <1>6 DEF Executing
<1> QED  BY <1>2, <1>3, <1>4, <1>5, <1>7

(* ApplyUpdate keeps AppInv.                                                *)
LEMMA AppApplyUpdate ==
  ASSUME AppInv, NEW r \in Up, ApplyUpdate(r)
  PROVE  AppInv'
<1> DEFINE q == NextOp(r)
           b == Apply(app[r], q)
<1>1. r \in Replicas /\ app[r] \in AppStates(Updates) /\ applied \in [Replicas -> BOOLEAN]
  BY DurabilityAssumption DEF AppInv, TypeOK
<1>2. executed[r] < Limit(r) /\ q.op # "read"
  BY DEF ApplyUpdate, CanExecute, Limit
<1>3. q \in Updates /\ q.key \in Keys /\ q # NotFound
  BY <1>1, <1>2, NextOpFacts
<1>4. /\ UNCHANGED <<server, aborted, decided, executed, client, done, precedes, msgs>>
      /\ app' = [app EXCEPT ![r] = b]
      /\ applied' = [applied EXCEPT ![r] = TRUE]
  BY DEF ApplyUpdate, clientVars, logVars, Upcall
<1>5. /\ b \in AppStates(Updates) /\ b.durabilityLog = app[r].durabilityLog
      /\ b.lastUpdateToKey = app[r].lastUpdateToKey
      /\ b.store = [app[r].store EXCEPT ![q.key] = q]
  BY <1>1, <1>3, ApplyFacts
<1>6. app[r].store \in [Keys -> Values]
  BY <1>1, AppFields
<1> HIDE DEF b
<1>7. /\ app' \in [Replicas -> AppStates(Updates)]
      /\ \A p \in Replicas : app'[p] = IF p = r THEN b ELSE app[p]
      /\ applied' \in [Replicas -> BOOLEAN]
      /\ \A p \in Replicas : applied'[p] = IF p = r THEN TRUE ELSE applied[p]
  BY <1>1, <1>4, <1>5 DEF AppInv, TypeOK
<1>8. TypeOK' /\ ClientsSent'
  BY <1>4, <1>7 DEF AppInv, TypeOK, ClientsSent
<1>9. \A p \in Replicas : NextOp(p)' = NextOp(p) /\ Limit(p)' = Limit(p) /\ executed'[p] = executed[p]
  BY <1>4 DEF NextOp, Limit, Leader
<1>10. Executing'
  <2>1. ASSUME NEW p \in Replicas
        PROVE  /\ executed[p] <= Limit(p)
               /\ applied'[p] => executed[p] < Limit(p) /\ NextOp(p).op # "read"
    BY <1>2, <1>7 DEF AppInv, Executing
  <2> QED  BY <1>9, <2>1 DEF Executing
<1>11. Indexed'
  <2>1. ASSUME NEW p \in Replicas, p # r
        PROVE  app'[p] = app[p] /\ applied'[p] = applied[p]
    BY <1>7, <2>1
  <2>2. /\ Distinct(app'[r].durabilityLog)
        /\ \A x : Has(r, x)' <=> Has(r, x)
    BY <1>1, <1>5, <1>7 DEF AppInv, Indexed, Has
  <2>3. \A k \in Keys : app'[r].store[k] = IF k = q.key THEN q ELSE app[r].store[k]
    BY <1>1, <1>3, <1>5, <1>6, <1>7
  <2>4. app'[r].lastUpdateToKey = app[r].lastUpdateToKey
    BY <1>1, <1>5, <1>7
  <2>5. app'[r].store[q.key] # NotFound
    BY <1>3, <2>3
  <2>6. \A k \in Keys : LET z == app[r].lastUpdateToKey[k]
                        IN  z # NotFound => z.key = k /\ (Has(r, z)' \/ app'[r].store[k] # NotFound)
    BY <1>1, <1>3, <2>2, <2>3, <2>4 DEF AppInv, Indexed
  <2>7. applied'[r] => app'[r].store[NextOp(r)'.key] # NotFound
    BY <1>1, <1>9, <2>5
  <2> QED  BY <1>9, <2>1, <2>2, <2>4, <2>6, <2>7 DEF AppInv, Indexed, Has
<1> QED  BY <1>8, <1>10, <1>11 DEF AppInv

(* EraseUpdate keeps AppInv.                                                *)
LEMMA AppEraseUpdate ==
  ASSUME AppInv, NEW r \in Up, EraseUpdate(r)
  PROVE  AppInv'
<1> DEFINE q == NextOp(r)
           b == Erase(app[r], q)
<1>1. r \in Replicas /\ app[r] \in AppStates(Updates) /\ msgs \subseteq Messages
  BY DurabilityAssumption DEF AppInv, TypeOK
<1>2. applied[r] /\ executed[r] < Limit(r)
  BY <1>1 DEF EraseUpdate, AppInv, Executing
<1>3. q \in Requests /\ q.key \in Keys
  BY <1>1, <1>2, NextOpFacts
<1>4. /\ UNCHANGED <<server, aborted, client, done, precedes>>
      /\ app' = [app EXCEPT ![r] = b]
      /\ applied' = [applied EXCEPT ![r] = FALSE]
      /\ Log!Execute(r, executed[r] + 1)
      /\ \E sent \in {{}, {Reply(r, [req |-> q, n |-> 0], NotFound)}} : Network({}, sent)
  BY DEF EraseUpdate, clientVars, Upcall
<1>5. /\ b \in AppStates(Updates) /\ Distinct(b.durabilityLog)
      /\ IsWithout(b.durabilityLog, app[r].durabilityLog, q)
      /\ b.store = app[r].store /\ b.lastUpdateToKey = app[r].lastUpdateToKey
  BY <1>1, EraseFacts DEF AppInv, Indexed
<1> HIDE DEF b
<1>6. /\ Executing' /\ executed' \in [Replicas -> Nat] /\ decided' = decided
      /\ \A p \in Replicas : p # r => NextOp(p)' = NextOp(p) /\ applied'[p] = applied[p]
      /\ ~applied'[r]
  BY <1>1, <1>4, OneExecuted
<1>7. /\ app' \in [Replicas -> AppStates(Updates)]
      /\ \A p \in Replicas : app'[p] = IF p = r THEN b ELSE app[p]
      /\ applied' \in [Replicas -> BOOLEAN]
  BY <1>1, <1>4, <1>5 DEF AppInv, TypeOK
<1>8. msgs' \subseteq Messages
  <2>1. Reply(r, [req |-> q, n |-> 0], NotFound) \in Messages
    BY <1>1, <1>3 DEF Reply, Messages, Values
  <2>2. PICK sent \in SUBSET Messages : Network({}, sent)
    BY <1>4, <2>1
  <2> QED  BY <1>1, <2>2, NetworkFacts
<1>9. TypeOK' /\ ClientsSent'
  BY <1>4, <1>6, <1>7, <1>8 DEF AppInv, TypeOK, ClientsSent
<1>10. Indexed'
  <2>1. app[r].store[q.key] # NotFound
    BY <1>1, <1>2 DEF AppInv, Indexed
  <2>2. \A x : Has(r, x)' <=> Has(r, x) /\ x # q
    BY <1>1, <1>5, <1>7 DEF Has, IsWithout
  <2>3. \A k \in Keys : LET z == app[r].lastUpdateToKey[k]
                        IN  z # NotFound => z.key = k /\ (Has(r, z)' \/ app'[r].store[k] # NotFound)
    BY <1>1, <1>3, <1>5, <1>7, <2>1, <2>2 DEF AppInv, Indexed
  <2>4. \A p \in Replicas : p # r => app'[p] = app[p]
    BY <1>7
  <2>5. Distinct(app'[r].durabilityLog) /\ app'[r].lastUpdateToKey = app[r].lastUpdateToKey
    BY <1>1, <1>5, <1>7
  <2> QED  BY <1>6, <2>3, <2>4, <2>5 DEF AppInv, Indexed, Has
<1> QED  BY <1>6, <1>9, <1>10 DEF AppInv

(* ExecuteRead keeps AppInv.                                                *)
LEMMA AppExecuteRead ==
  ASSUME AppInv, NEW r \in Up, ExecuteRead(r)
  PROVE  AppInv'
<1> DEFINE q == NextOp(r)
           v == app[r].store[q.key]
<1>1. r \in Replicas /\ app[r] \in AppStates(Updates) /\ msgs \subseteq Messages
      /\ applied \in [Replicas -> BOOLEAN]
  BY DurabilityAssumption DEF AppInv, TypeOK
<1>2. executed[r] < Limit(r) /\ q.op = "read"
  BY DEF ExecuteRead, CanExecute, Limit
<1>3. q \in Requests /\ v \in Values
  BY <1>1, <1>2, NextOpFacts, AppFields
<1>4. /\ UNCHANGED <<app, server, aborted, client, done, precedes, applied>>
      /\ Log!Execute(r, executed[r] + 1)
      /\ \E sent \in {{}, {Reply(r, [req |-> q, n |-> 0], v)}} : Network({}, sent)
  BY DEF ExecuteRead, clientVars, serverVars
<1>5. ~applied[r]
  BY <1>1, <1>2 DEF AppInv, Executing
<1>6. applied' = [applied EXCEPT ![r] = FALSE]
  BY <1>1, <1>4, <1>5
<1>7. /\ Executing' /\ executed' \in [Replicas -> Nat] /\ decided' = decided
      /\ \A p \in Replicas : p # r => NextOp(p)' = NextOp(p)
  BY <1>1, <1>4, <1>6, OneExecuted
<1>8. msgs' \subseteq Messages
  <2>1. Reply(r, [req |-> q, n |-> 0], v) \in Messages
    BY <1>1, <1>3 DEF Reply, Messages
  <2>2. PICK sent \in SUBSET Messages : Network({}, sent)
    BY <1>4, <2>1
  <2> QED  BY <1>1, <2>2, NetworkFacts
<1>9. TypeOK' /\ ClientsSent'
  BY <1>4, <1>7, <1>8 DEF AppInv, TypeOK, ClientsSent
<1>10. Indexed'
  BY <1>4, <1>5, <1>7 DEF AppInv, Indexed, Has
<1> QED  BY <1>7, <1>9, <1>10 DEF AppInv

(* AppInv is inductive.                                                     *)
LEMMA AppInitially == Init => AppInv
<1> SUFFICES ASSUME Init PROVE AppInv
  OBVIOUS
<1>1. NewApp \in AppStates(Updates) /\ Distinct(NewApp.durabilityLog)
  BY DEF NewApp, AppStates, Distinct
<1>2. decided = <<>> /\ executed = [r \in Replicas |-> 0]
  BY DEF Init, Log!Init
<1>3. TypeOK
  <2>1. <<>> \in Seq(Messages) /\ <<>> \in Seq(Requests)
    OBVIOUS
  <2>2. client \in [Clients -> ClientStates]
    BY DEF Init, ClientStates
  <2>3. app \in [Replicas -> AppStates(Updates)]
    BY <1>1 DEF Init
  <2>4. /\ server \in [Replicas -> Seq(Messages)] /\ applied \in [Replicas -> BOOLEAN]
        /\ decided \in Seq(Requests) /\ executed \in [Replicas -> Nat]
    BY <1>2, <2>1 DEF Init
  <2> QED  BY <2>2, <2>3, <2>4 DEF Init, TypeOK, ClientStates
<1>4. ClientsSent
  <2>1. \A c \in Clients : Len(Trace[c]) \in Nat
    BY DurabilityAssumption
  <2> QED  BY <2>1 DEF Init, ClientsSent
<1>5. Executing
  BY <1>2, LeaderIsReplica DEF Init, Executing, Limit
<1>6. Indexed
  BY <1>1 DEF Init, Indexed, NewApp
<1> QED  BY <1>3, <1>4, <1>5, <1>6 DEF AppInv

(* ... every action and the stutter keep it.                                *)
LEMMA AppInductive == AppInv /\ [Next]_vars => AppInv'
<1> SUFFICES ASSUME AppInv, [Next]_vars PROVE AppInv'
  OBVIOUS
<1>1. CASE UNCHANGED vars
  <2>1. UNCHANGED <<app, server, applied, decided, executed, client, msgs, aborted, done, precedes>>
    BY <1>1 DEF vars
  <2>2. TypeOK' /\ ClientsSent'
    BY <2>1 DEF AppInv, TypeOK, ClientsSent
  <2>3. Executing' /\ Indexed'
    BY <2>1, SameLogGrows, NothingIndexed
  <2> QED  BY <2>2, <2>3 DEF AppInv
<1>2. ASSUME NEW c \in Clients, Invoke(c) \/ ResendRequest(c) \/ HandleReply(c)
      PROVE  AppInv'
  BY <1>2, AppInvoke, AppResendRequest, AppHandleReply
<1>3. ASSUME NEW r \in Up, HandleRequest(r) \/ FinishRequest(r) \/ HandleConsensusReply(r)
      PROVE  AppInv'
  BY <1>3, AppHandleRequest, AppFinishRequest, AppHandleConsensusReply
<1>4. ASSUME NEW r \in Up, ApplyUpdate(r) \/ EraseUpdate(r) \/ ExecuteRead(r)
      PROVE  AppInv'
  BY <1>4, AppApplyUpdate, AppEraseUpdate, AppExecuteRead
<1> QED  BY <1>1, <1>2, <1>3, <1>4, AppBgRepl, AppHandleConsensusRequest DEF Next

(* What a read takes from the store is there: the assert of AppUpcall holds,     *)
(* whatever is retransmitted and however the threads of a replica interleave.    *)
THEOREM AppliedBeforeErasedHolds == Spec => []AppliedBeforeErased
<1>1. AppInv => AppliedBeforeErased
  <2> SUFFICES ASSUME AppInv, NEW r \in Replicas, NEW k \in Keys,
                      app[r].lastUpdateToKey[k] # NotFound, ~MustOrder(app[r], k)
               PROVE  app[r].store[k] # NotFound
    BY DEF AppliedBeforeErased
  <2>1. ~Has(r, app[r].lastUpdateToKey[k])
    BY DEF MustOrder, Has
  <2> QED  BY <2>1 DEF AppInv, Indexed
<1>2. AppInv /\ [Next]_vars => AppInv'
  BY AppInductive
<1> QED  BY <1>1, <1>2, AppInitially, PTL DEF Spec

-------------------------------------------------------------------------------
(* DurableInv is inductive if updates are not retransmitted                *)

\* What a step keeps of the updates that clients have sent.
UpdatesKept ==
    /\ \A q \in Requests : Known(q) => Known(q)'
    /\ \A r \in Replicas, q \in Updates : IsNilext(q) /\ Known(q) =>
           /\ Settled(r, q) => Settled(r, q)'
           /\ Settled(r, q) /\ NoReply(r, q) => NoReply(r, q)'
           /\ \A p \in Updates : IsNilext(p) /\ Known(p) /\ Ordered(r, p, q) => Ordered(r, p, q)'

(* Sets of replicas, by their sizes.                                       *)
LEMMA MoreReplicas ==
  ASSUME NEW A \in SUBSET Replicas, NEW B \in SUBSET Replicas, A \subseteq B
  PROVE  /\ Cardinality(A) \in Nat /\ Cardinality(B) \in Nat
         /\ Cardinality(A) <= Cardinality(B)
<1>1. IsFiniteSet(A) /\ IsFiniteSet(B)
  BY ReplicasFinite, FS_Subset
<1> QED  BY <1>1, FS_Subset, FS_CardinalityType

(* The quorum sizes as numbers.                                             *)
LEMMA QuorumIsNat == FastQuorumSize \in Nat /\ RequiredVotes \in Nat \ {0} /\ QuorumSize \in Nat
<1>1. F \in Nat \ {0}
  BY ConfigAssumption
<1>2. PICK h \in Nat : h = (F + 1) \div 2
  BY <1>1
<1> QED  BY <1>1, <1>2 DEF FastQuorumSize, RequiredVotes, QuorumSize

(* What was counted, completed or ordered before the step is so after it.  *)
LEMMA KeptCounts ==
  ASSUME AppInv, UpdatesKept, Counts, NEW c \in Clients,
         client[c].pending, NEW q, q = Current(c), IsNilext(q)
  PROVE  /\ CountedAt(q) \subseteq CountedAt(q)'
         /\ client[c].responses <= Cardinality(CountedAt(q))
         /\ client[c].responses <= Cardinality(CountedAt(q)')
<1>1. q \in Requests /\ q.id = client[c].id /\ q.client[1] = c /\ client[c].id \in Nat
  BY CurrentFacts DEF AppInv, TypeOK
<1>2. q \in Updates /\ Known(q)
  BY <1>1, RequestsFacts DEF Known
<1>3. CountedAt(q) \subseteq CountedAt(q)'
  BY <1>2 DEF UpdatesKept, CountedAt
<1>4. CountedAt(q) \in SUBSET Replicas /\ CountedAt(q)' \in SUBSET Replicas
  BY DEF CountedAt
<1>5. /\ Cardinality(CountedAt(q)) \in Nat /\ Cardinality(CountedAt(q)') \in Nat
      /\ Cardinality(CountedAt(q)) <= Cardinality(CountedAt(q)')
  BY <1>3, <1>4, MoreReplicas
<1>6. client[c].responses \in Nat
  BY DEF AppInv, TypeOK
<1>7. client[c].responses <= Cardinality(CountedAt(q))
  BY DEF Counts
<1> QED  BY <1>3, <1>5, <1>6, <1>7

(* ... and what was completed is settled at as many servers,                *)
LEMMA KeptCompleted ==
  ASSUME AppInv, UpdatesKept, CompletedSettled, NEW d \in done
  PROVE  /\ Known(d.req)'
         /\ IsNilext(d.req) => Cardinality(SettledAt(d.req)') >= FastQuorumSize
<1>1. d.req \in Requests
  BY DEF AppInv, TypeOK
<1>2. Known(d.req) /\ Known(d.req)'
  BY <1>1 DEF CompletedSettled, UpdatesKept
<1>3. ASSUME IsNilext(d.req) PROVE Cardinality(SettledAt(d.req)') >= FastQuorumSize
  <2>1. d.req \in Updates
    BY <1>1, <1>3, RequestsFacts
  <2> DEFINE A == SettledAt(d.req)
             B == SettledAt(d.req)'
  <2>2. A \subseteq B
    BY <1>2, <1>3, <2>1 DEF UpdatesKept, SettledAt
  <2>3. A \in SUBSET Replicas /\ B \in SUBSET Replicas
    BY DEF SettledAt
  <2>4. Cardinality(A) >= FastQuorumSize
    BY <1>3 DEF CompletedSettled
  <2> HIDE DEF A, B
  <2>5. Cardinality(B) >= FastQuorumSize
    BY <2>2, <2>3, <2>4, MoreReplicas, QuorumIsNat
  <2> QED  BY <2>5 DEF B
<1> QED  BY <1>2, <1>3

(* ... in the same order at as many servers.                                *)
LEMMA KeptOrdered ==
  ASSUME AppInv, UpdatesKept, CompletedOrdered, NEW pair \in precedes
  PROVE  /\ Known(pair[1])' /\ Known(pair[2])' /\ pair[1] # pair[2]
         /\ IsNilext(pair[1]) /\ IsNilext(pair[2]) =>
                Cardinality(OrderedAt(pair[1], pair[2])') >= FastQuorumSize
<1>1. pair[1] \in Requests /\ pair[2] \in Requests
  BY DEF AppInv, TypeOK
<1>2. /\ Known(pair[1]) /\ Known(pair[2]) /\ pair[1] # pair[2]
      /\ Known(pair[1])' /\ Known(pair[2])'
  BY <1>1 DEF CompletedOrdered, UpdatesKept
<1>3. ASSUME IsNilext(pair[1]), IsNilext(pair[2])
      PROVE  Cardinality(OrderedAt(pair[1], pair[2])') >= FastQuorumSize
  <2>1. pair[1] \in Updates /\ pair[2] \in Updates
    BY <1>1, <1>3, RequestsFacts
  <2> DEFINE A == OrderedAt(pair[1], pair[2])
             B == OrderedAt(pair[1], pair[2])'
  <2>2. A \subseteq B
    BY <1>2, <1>3, <2>1 DEF UpdatesKept, OrderedAt
  <2>3. A \in SUBSET Replicas /\ B \in SUBSET Replicas
    BY DEF OrderedAt
  <2>4. Cardinality(A) >= FastQuorumSize
    BY <1>3 DEF CompletedOrdered
  <2> HIDE DEF A, B
  <2>5. Cardinality(B) >= FastQuorumSize
    BY <2>2, <2>3, <2>4, MoreReplicas, QuorumIsNat
  <2> QED  BY <2>5 DEF B
<1> QED  BY <1>2, <1>3

(* What is executed stays so.                                              *)
LEMMA ExecutedStays ==
  ASSUME AppInv, LogGrows, executed' \in [Replicas -> Nat],
         NEW r \in Replicas, executed[r] <= executed'[r], NEW q, ExecutedAt(r, q)
  PROVE  ExecutedAt(r, q)'
<1>1. PICK k \in 1 .. executed[r] : decided[k] = q
  BY DEF ExecutedAt
<1>2. /\ executed[r] \in Nat /\ executed'[r] \in Nat /\ executed[Leader] \in Nat
      /\ decided \in Seq(Requests)
  BY LeaderIsReplica DEF AppInv, TypeOK
<1>3. executed[r] <= Len(decided)
  BY <1>2, LeaderIsReplica DEF AppInv, Executing, Limit
<1>4. k \in 1 .. Len(decided) /\ k \in 1 .. executed'[r]
  BY <1>2, <1>3
<1>5. decided'[k] = q
  BY <1>1, <1>4 DEF LogGrows
<1> QED  BY <1>4, <1>5 DEF ExecutedAt

(* A step that touches no durability log and sends nothing of an update.   *)
LEMMA QuietStep ==
  ASSUME AppInv, OneCopy,
         \A r \in Replicas : app'[r].durabilityLog = app[r].durabilityLog,
         \A r \in Replicas : \A q : ExecutedAt(r, q) => ExecutedAt(r, q)',
         \A c \in Clients : client'[c].id = client[c].id,
         \A m \in msgs' : m \in msgs \/ ~IsNilext(m.req)
  PROVE  UpdatesKept /\ OneCopy'
<1>1. \A q \in Requests : Known(q)' = Known(q)
  BY RequestsFacts DEF Known
<1>2. \A r \in Replicas : \A q : Has(r, q)' = Has(r, q)
  BY DEF Has
<1>3. \A r \in Replicas : \A q \in Updates : IsNilext(q) =>
         (NoRequest(r, q) => NoRequest(r, q)') /\ (NoReply(r, q) => NoReply(r, q)')
  BY DEF NoRequest, NoReply
<1>4. \A r \in Replicas : \A q \in Updates : IsNilext(q) /\ Settled(r, q) => Settled(r, q)'
  BY <1>2, <1>3 DEF Settled
<1>5. \A r \in Replicas : \A p, q \in Updates :
          IsNilext(p) /\ IsNilext(q) /\ Ordered(r, p, q) => Ordered(r, p, q)'
  BY <1>2, <1>4 DEF Ordered
<1>6. UpdatesKept
  BY <1>1, <1>3, <1>4, <1>5 DEF UpdatesKept
<1>7. ASSUME NEW m \in msgs', IsNilext(m.req)
      PROVE  /\ m.type \in {"Request", "Reply"} /\ m.n = 1 /\ Known(m.req)'
             /\ m.type = "Reply" => m.value = NotFound /\ Settled(m.from, m.req)'
  <2>1. m \in msgs /\ m \in Messages
    BY <1>7 DEF AppInv, TypeOK
  <2>2. m.req \in Updates /\ m.req \in Requests /\ (m.type = "Reply" => m.from \in Replicas)
    BY <1>7, <2>1, MessageFacts, RequestsFacts
  <2> QED  BY <1>1, <1>4, <1>7, <2>1, <2>2 DEF OneCopy
<1>8. \A r \in Replicas, q \in Updates :
           Has(r, q)' => IsNilext(q) /\ Known(q)' /\ NoRequest(r, q)'
  BY <1>1, <1>2, <1>3 DEF OneCopy, Updates
<1>9. OneCopy'
  BY <1>7, <1>8 DEF OneCopy
<1> QED  BY <1>6, <1>9

(* ... and completes nothing.                                              *)
LEMMA NothingCompleted ==
  ASSUME AppInv, DurableInv, UpdatesKept, OneCopy', done' = done, precedes' = precedes,
         \A c \in Clients :
            \/ client'[c] = client[c]
            \/ client'[c].id = client[c].id /\ ~IsNilext(Current(c))
  PROVE  DurableInv'
<1>1. Counts'
  <2> SUFFICES ASSUME NEW c \in Clients, client'[c].pending, IsNilext(Current(c)')
               PROVE  client'[c].responses <= Cardinality(CountedAt(Current(c))')
    BY DEF Counts
  <2>1. PICK q : q = Current(c) /\ q = Current(c)'
    BY DEF Current
  <2>2. client'[c] = client[c]
    BY <2>1
  <2> QED  BY <2>1, <2>2, KeptCounts DEF DurableInv
<1>2. CompletedSettled'
  BY KeptCompleted DEF DurableInv, CompletedSettled
<1>3. CompletedOrdered'
  BY KeptOrdered DEF DurableInv, CompletedOrdered
<1> QED  BY <1>1, <1>2, <1>3 DEF DurableInv

(* Invoke keeps DurableInv.                                                 *)
LEMMA DurableInvoke ==
  ASSUME AppInv, DurableInv, NEW c \in Clients, Invoke(c)
  PROVE  DurableInv'
<1> DEFINE i == client[c].id + 1
<1>1. i \in 1 .. Len(Trace[c]) /\ \A b \in Clients : client[b].id \in Nat
  BY DEF AppInv, TypeOK, Invoke, ClientsSent
<1>2. PICK q \in Requests : q = Request(c, i) /\ q.id = i /\ q.client[1] = c
  BY <1>1, RequestFacts
<1>3. /\ client' = [client EXCEPT ![c] = [id |-> i, pending |-> TRUE, sent |-> 1,
                                        responses |-> 0, leaderAcked |-> FALSE]]
      /\ precedes' = precedes \cup {<<d.req, q>> : d \in done}
      /\ UNCHANGED <<app, decided, executed, done>>
      /\ Network({}, SendRequest(q, 1))
  BY <1>2 DEF Invoke, serverVars, logVars
<1>4. client'[c].id = i /\ client'[c].responses = 0 /\ \A b \in Clients : b # c => client'[b] = client[b]
  BY <1>3 DEF AppInv, TypeOK
<1>5. \A x \in Requests : Known(x) => Known(x)' /\ x # q
  BY <1>1, <1>2, <1>4, RequestsFacts DEF Known
<1>6. Known(q)'
  BY <1>1, <1>2, <1>4 DEF Known
<1>7. \A m \in msgs' : m \in msgs \/ (m.req = q /\ (IsNilext(q) => m.type = "Request" /\ m.n = 1))
  BY <1>3 DEF Network, SendRequest, IsNilext
<1>8. \A r \in Replicas : \A x : Has(r, x)' = Has(r, x) /\ ExecutedAt(r, x)' = ExecutedAt(r, x)
  BY <1>3 DEF Has, ExecutedAt
<1>9. \A r \in Replicas : \A x \in Requests : Known(x) =>
         (NoRequest(r, x) => NoRequest(r, x)') /\ (NoReply(r, x) => NoReply(r, x)')
  BY <1>5, <1>7 DEF NoRequest, NoReply
<1>10. \A r \in Replicas : \A x \in Requests : Known(x) /\ Settled(r, x) => Settled(r, x)'
  BY <1>8, <1>9 DEF Settled
<1>11. \A r \in Replicas : \A x \in Requests : \A y :
           Known(x) /\ Ordered(r, x, y) => Ordered(r, x, y)'
  BY <1>3, <1>8, <1>10 DEF Ordered
<1>12. Updates \subseteq Requests
  BY DEF Updates
<1>13. UpdatesKept
  BY <1>5, <1>9, <1>10, <1>11, <1>12 DEF UpdatesKept
<1>14. OneCopy'
  <2>1. ASSUME NEW m \in msgs', IsNilext(m.req)
        PROVE  /\ m.type \in {"Request", "Reply"} /\ m.n = 1 /\ Known(m.req)'
               /\ m.type = "Reply" => m.value = NotFound /\ Settled(m.from, m.req)'
    <3>1. CASE m \in msgs
      <4>1. m.req \in Requests /\ (m.type = "Reply" => m.from \in Replicas)
        BY <3>1, MessageFacts DEF AppInv, TypeOK
      <4> QED  BY <1>5, <1>10, <2>1, <3>1, <4>1 DEF DurableInv, OneCopy
    <3>2. CASE m \notin msgs
      BY <1>6, <1>7, <2>1, <3>2
    <3> QED  BY <3>1, <3>2
  <2>2. \A r \in Replicas, x \in Updates :
             Has(r, x)' => IsNilext(x) /\ Known(x)' /\ NoRequest(r, x)'
    BY <1>5, <1>8, <1>9, <1>12 DEF DurableInv, OneCopy
  <2> QED  BY <2>1, <2>2 DEF OneCopy
<1>15. Counts'
  <2> SUFFICES ASSUME NEW b \in Clients, client'[b].pending, IsNilext(Current(b)')
               PROVE  client'[b].responses <= Cardinality(CountedAt(Current(b))')
    BY DEF Counts
  <2>1. CASE b = c
    <3>1. CountedAt(Current(b))' \in SUBSET Replicas
      BY DEF CountedAt
    <3>2. Cardinality(CountedAt(Current(b))') \in Nat
      BY <3>1, MoreReplicas
    <3> QED  BY <1>4, <2>1, <3>2
  <2>2. CASE b # c
    <3>1. client'[b] = client[b]
      BY <1>4, <2>2
    <3>2. PICK x : x = Current(b) /\ x = Current(b)'
      BY <3>1 DEF Current
    <3> QED  BY <1>13, <3>1, <3>2, KeptCounts DEF DurableInv
  <2> QED  BY <2>1, <2>2
<1>16. CompletedSettled'
  BY <1>3, <1>13, KeptCompleted DEF DurableInv, CompletedSettled
<1>17. CompletedOrdered'
  <2> SUFFICES ASSUME NEW pair \in precedes'
               PROVE  /\ Known(pair[1])' /\ Known(pair[2])' /\ pair[1] # pair[2]
                      /\ IsNilext(pair[1]) /\ IsNilext(pair[2]) =>
                             Cardinality(OrderedAt(pair[1], pair[2])') >= FastQuorumSize
    BY DEF CompletedOrdered
  <2>1. CASE pair \in precedes
    BY <1>13, <2>1, KeptOrdered DEF DurableInv
  <2>2. CASE pair \notin precedes
    <3>1. PICK d \in done : pair = <<d.req, q>>
      BY <1>3, <2>2
    <3>2. d.req \in Requests
      BY DEF AppInv, TypeOK
    <3>3. /\ Known(d.req) /\ Known(d.req)' /\ d.req # q
          /\ IsNilext(d.req) => Cardinality(SettledAt(d.req)') >= FastQuorumSize
      BY <1>5, <1>13, <3>2, KeptCompleted DEF DurableInv, CompletedSettled
    <3>4. ASSUME IsNilext(d.req), IsNilext(q)
          PROVE  Cardinality(OrderedAt(d.req, q)') >= FastQuorumSize
      <4>1. q \in Updates
        BY <3>4, RequestsFacts
      <4>2. \A r \in Replicas : ~Has(r, q)'
        BY <1>5, <1>8, <4>1 DEF DurableInv, OneCopy
      <4>3. SettledAt(d.req)' \subseteq OrderedAt(d.req, q)'
        BY <4>2 DEF SettledAt, OrderedAt, Ordered
      <4>4. SettledAt(d.req)' \in SUBSET Replicas /\ OrderedAt(d.req, q)' \in SUBSET Replicas
        BY DEF SettledAt, OrderedAt
      <4>5. /\ Cardinality(SettledAt(d.req)') \in Nat /\ Cardinality(OrderedAt(d.req, q)') \in Nat
            /\ Cardinality(SettledAt(d.req)') <= Cardinality(OrderedAt(d.req, q)')
        BY <4>3, <4>4, MoreReplicas
      <4> QED  BY <3>3, <3>4, <4>5, QuorumIsNat
    <3> QED  BY <1>6, <3>1, <3>3, <3>4
  <2> QED  BY <2>1, <2>2
<1> QED  BY <1>14, <1>15, <1>16, <1>17 DEF DurableInv

(* HandleReply keeps DurableInv.                                            *)
LEMMA DurableHandleReply ==
  ASSUME AppInv, DurableInv, NEW c \in Clients, HandleReply(c)
  PROVE  DurableInv'
<1>1. PICK m \in msgs : HandleReplyTo(c, m)
  BY Zenon DEF HandleReply, HandleReplyTo, Counted
<1>2. PICK q : q = m.req
  OBVIOUS
<1>3. m \in Messages /\ m.type = "Reply" /\ client[c].pending /\ q = Current(c)
  BY <1>1, <1>2 DEF AppInv, TypeOK, HandleReplyTo
<1>4. /\ q \in Requests /\ m.from \in Replicas /\ q.id = client[c].id /\ q.client[1] = c
      /\ client[c].id \in Nat /\ client[c].responses \in Nat
  BY <1>2, <1>3, MessageFacts, CurrentFacts DEF AppInv, TypeOK
<1> DEFINE s == Counted(c, m)
<1>5. /\ msgs' \subseteq msgs /\ m \notin msgs'
      /\ done' = done \cup IF Enough(s, q) THEN {[req |-> q, value |-> m.value]} ELSE {}
      /\ UNCHANGED <<app, decided, executed, precedes>>
  BY <1>1, <1>2 DEF HandleReplyTo, serverVars, logVars
<1>6. /\ client'[c].responses = client[c].responses + 1
      /\ s.responses = client[c].responses + 1
      /\ client'[c].id = client[c].id
      /\ \A b \in Clients : b # c => client'[b] = client[b]
  BY <1>1 DEF HandleReplyTo, Counted, AppInv, TypeOK
<1>7. \A r \in Replicas : \A x : ExecutedAt(r, x) => ExecutedAt(r, x)'
  BY <1>5 DEF ExecutedAt
<1>8. UpdatesKept /\ OneCopy'
  <2>1. \A b \in Clients : client'[b].id = client[b].id
    BY <1>6
  <2> QED  BY <1>5, <1>7, <2>1, QuietStep DEF DurableInv
<1>9. Known(q) /\ Known(q)'
  BY <1>4, <1>6 DEF Known
<1>10. ASSUME IsNilext(q)
       PROVE  client[c].responses + 1 <= Cardinality(CountedAt(q)')
  <2>1. q \in Updates
    BY <1>4, <1>10, RequestsFacts
  <2>2. /\ CountedAt(q) \subseteq CountedAt(q)'
        /\ client[c].responses <= Cardinality(CountedAt(q))
    BY <1>3, <1>8, <1>10, KeptCounts DEF DurableInv
  <2>3. m.value = NotFound /\ m.n = 1 /\ Settled(m.from, q)
    BY <1>2, <1>3, <1>10 DEF DurableInv, OneCopy
  <2>4. m.from \notin CountedAt(q)
    BY <1>2, <1>3 DEF CountedAt, NoReply
  <2>5. NoReply(m.from, q)'
    <3> SUFFICES ASSUME NEW x \in msgs', x.type = "Reply", x.from = m.from, x.req = q
                 PROVE  FALSE
      BY DEF NoReply
    <3>1. x \in Messages /\ x.value = NotFound /\ x.n = 1 /\ x \in msgs
      BY <1>5, <1>10 DEF DurableInv, OneCopy, AppInv, TypeOK
    <3>2. x = [type |-> "Reply", from |-> m.from, req |-> q, value |-> NotFound, n |-> 1]
      BY <3>1, MessageFacts
    <3>3. m = [type |-> "Reply", from |-> m.from, req |-> q, value |-> NotFound, n |-> 1]
      BY <1>2, <1>3, <2>3, MessageFacts
    <3> QED  BY <1>5, <3>2, <3>3
  <2>6. Settled(m.from, q)'
    BY <1>4, <1>9, <1>10, <1>8, <2>1, <2>3 DEF UpdatesKept
  <2>7. CountedAt(q) \cup {m.from} \subseteq CountedAt(q)'
    BY <1>4, <2>2, <2>5, <2>6 DEF CountedAt
  <2> DEFINE A == CountedAt(q)
             B == CountedAt(q)'
  <2>8. A \in SUBSET Replicas /\ B \in SUBSET Replicas /\ A \cup {m.from} \in SUBSET Replicas
    BY <1>4 DEF CountedAt
  <2> HIDE DEF A, B
  <2>9. IsFiniteSet(A) /\ Cardinality(A) \in Nat
    BY <2>8, ReplicasFinite, FS_Subset, FS_CardinalityType
  <2>10. Cardinality(A \cup {m.from}) = Cardinality(A) + 1
    BY <2>4, <2>9, FS_AddElement DEF A
  <2>11. Cardinality(A \cup {m.from}) <= Cardinality(B) /\ Cardinality(B) \in Nat
    BY <2>7, <2>8, MoreReplicas DEF A, B
  <2>12. client[c].responses <= Cardinality(A)
    BY <2>2 DEF A
  <2>13. client[c].responses + 1 <= Cardinality(B)
    BY <1>4, <2>9, <2>10, <2>11, <2>12
  <2> QED  BY <2>13 DEF B
<1>11. Counts'
  <2> SUFFICES ASSUME NEW b \in Clients, client'[b].pending, IsNilext(Current(b)')
               PROVE  client'[b].responses <= Cardinality(CountedAt(Current(b))')
    BY DEF Counts
  <2>1. PICK x : x = Current(b) /\ x = Current(b)'
    BY <1>6 DEF Current
  <2>2. CASE b = c
    BY <1>3, <1>6, <1>10, <2>1, <2>2
  <2>3. CASE b # c
    <3>1. client'[b] = client[b]
      BY <1>6, <2>3
    <3> QED  BY <1>8, <2>1, <3>1, KeptCounts DEF DurableInv
  <2> QED  BY <2>2, <2>3
<1>12. CompletedSettled'
  <2> SUFFICES ASSUME NEW d \in done'
               PROVE  /\ Known(d.req)'
                      /\ IsNilext(d.req) => Cardinality(SettledAt(d.req)') >= FastQuorumSize
    BY DEF CompletedSettled
  <2>1. CASE d \in done
    BY <1>8, <2>1, KeptCompleted DEF DurableInv
  <2>2. CASE d \notin done
    <3>1. Enough(s, q) /\ d.req = q
      BY <1>5, <2>2
    <3>2. ASSUME IsNilext(q) PROVE Cardinality(SettledAt(q)') >= FastQuorumSize
      <4>1. client[c].responses + 1 >= FastQuorumSize
        BY <1>6, <3>1, <3>2 DEF Enough, Quorum
      <4>2. /\ CountedAt(q)' \subseteq SettledAt(q)'
            /\ CountedAt(q)' \in SUBSET Replicas /\ SettledAt(q)' \in SUBSET Replicas
        BY DEF CountedAt, SettledAt
      <4>3. /\ Cardinality(CountedAt(q)') \in Nat /\ Cardinality(SettledAt(q)') \in Nat
            /\ Cardinality(CountedAt(q)') <= Cardinality(SettledAt(q)')
        BY <4>2, MoreReplicas
      <4> QED  BY <1>4, <1>10, <3>2, <4>1, <4>3, QuorumIsNat
    <3> QED  BY <1>9, <3>1, <3>2
  <2> QED  BY <2>1, <2>2
<1>13. CompletedOrdered'
  BY <1>5, <1>8, KeptOrdered DEF DurableInv, CompletedOrdered
<1> QED  BY <1>8, <1>11, <1>12, <1>13 DEF DurableInv

(* HandleRequest keeps DurableInv.                                          *)
LEMMA DurableHandleRequest ==
  ASSUME AppInv, DurableInv, NEW r \in Up, HandleRequest(r)
  PROVE  DurableInv'
<1>1. PICK m \in msgs : HandleRequestOf(r, m)
  BY DEF HandleRequest, HandleRequestOf
<1>2. PICK q : q = m.req
  OBVIOUS
<1>3. m \in Messages /\ r \in Replicas /\ m.type = "Request" /\ m.to = r
  BY <1>1, DurabilityAssumption DEF AppInv, TypeOK, HandleRequestOf
<1>4. q \in Requests
  BY <1>2, <1>3, MessageFacts
<1>5. UNCHANGED <<applied, decided, executed, client, done, precedes, aborted>>
  BY <1>1 DEF HandleRequestOf, logVars, clientVars
<1>6. \A p \in Replicas : \A x : ExecutedAt(p, x)' = ExecutedAt(p, x)
  BY <1>5 DEF ExecutedAt
<1>7. CASE ~IsNilext(q)
  <2>1. app' = app /\ \A x \in msgs' : x \in msgs \/ x = ToConsensus(m)
    BY <1>1, <1>2, <1>7 DEF HandleRequestOf, Network
  <2>2. ToConsensus(m).req = q
    BY <1>2 DEF ToConsensus
  <2>3. UpdatesKept /\ OneCopy'
    BY <1>5, <1>6, <1>7, <2>1, <2>2, QuietStep DEF DurableInv
  <2> QED  BY <1>5, <2>3, NothingCompleted
<1>8. CASE IsNilext(q)
  <2>1. q \in Updates
    BY <1>4, <1>8, RequestsFacts
  <2>2. /\ app' = [app EXCEPT ![r] = MakeDurable(app[r], q)]
        /\ Network({m}, {Reply(r, m, NotFound)})
    BY <1>1, <1>2, <1>8 DEF HandleRequestOf
  <2>3. app[r] \in AppStates(Updates) /\ Distinct(app[r].durabilityLog)
    BY <1>3 DEF AppInv, TypeOK, Indexed
  <2> DEFINE b == MakeDurable(app[r], q)
  <2>4. /\ \A x : Contains(b.durabilityLog, x) <=> Contains(app[r].durabilityLog, x) \/ x = q
        /\ \A x, y : x # q /\ y # q /\ InOrder(app[r].durabilityLog, x, y)
               => InOrder(b.durabilityLog, x, y)
        /\ \A x : x # q /\ Contains(app[r].durabilityLog, x) => InOrder(b.durabilityLog, x, q)
    BY <2>1, <2>3, MakeDurableFacts
  <2>5. app'[r] = b /\ \A p \in Replicas : p # r => app'[p] = app[p]
    BY <1>3, <2>2 DEF AppInv, TypeOK
  <2> HIDE DEF b
  <2>6. /\ \A x : Has(r, x)' <=> Has(r, x) \/ x = q
        /\ \A p \in Replicas : p # r => \A x : Has(p, x)' = Has(p, x)
    BY <2>4, <2>5 DEF Has
  <2>7. /\ Reply(r, m, NotFound).type = "Reply" /\ Reply(r, m, NotFound).from = r
        /\ Reply(r, m, NotFound).req = q /\ Reply(r, m, NotFound).n = m.n
        /\ Reply(r, m, NotFound).value = NotFound
    BY <1>2 DEF Reply
  <2>8. \A x \in msgs' : (x \in msgs /\ x # m) \/ x = Reply(r, m, NotFound)
    BY <2>2 DEF Network
  <2>9. m.n = 1 /\ Known(q)
    BY <1>2, <1>8 DEF DurableInv, OneCopy
  <2>10. ~NoRequest(r, q)
    BY <1>2, <1>3 DEF NoRequest
  <2>11. \A p \in Replicas : \A x : NoRequest(p, x) => NoRequest(p, x)'
    BY <2>7, <2>8 DEF NoRequest
  <2>12. \A p \in Replicas : \A x : NoRequest(p, x) /\ NoReply(p, x) => NoReply(p, x)'
    BY <2>7, <2>8, <2>10 DEF NoReply
  <2>13. \A x : Known(x)' = Known(x)
    BY <1>5 DEF Known
  <2>14. \A p \in Replicas : \A x : Settled(p, x) => Settled(p, x)'
    BY <1>6, <2>6, <2>11 DEF Settled
  <2>15. ASSUME NEW p \in Replicas, NEW x, NEW y, Ordered(p, x, y)
         PROVE  Ordered(p, x, y)'
    <3>1. Settled(p, x) /\ Settled(p, x)' /\ NoRequest(p, x)
      BY <2>14, <2>15 DEF Ordered, Settled
    <3>2. CASE p # r
      BY <2>5, <2>6, <2>15, <3>1, <3>2 DEF Ordered
    <3>3. CASE p = r
      <4>1. x # q
        BY <2>10, <3>1, <3>3
      <4>2. ASSUME Has(r, x)', Has(r, y)' PROVE InOrder(app'[r].durabilityLog, x, y)
        <5>1. Has(r, x)
          BY <2>6, <4>1, <4>2
        <5>2. CASE y = q
          BY <2>4, <2>5, <4>1, <5>1, <5>2 DEF Has
        <5>3. CASE y # q
          <6>1. Has(r, y)
            BY <2>6, <4>2, <5>3
          <6>2. InOrder(app[r].durabilityLog, x, y)
            BY <2>15, <3>3, <5>1, <6>1 DEF Ordered
          <6> QED  BY <2>4, <2>5, <4>1, <5>3, <6>2
        <5> QED  BY <5>2, <5>3
      <4> QED  BY <3>1, <3>3, <4>2 DEF Ordered
    <3> QED  BY <3>2, <3>3
  <2>16. UpdatesKept
    BY <2>12, <2>13, <2>14, <2>15 DEF UpdatesKept, Settled
  <2>17. NoRequest(r, q)'
    <3> SUFFICES ASSUME NEW x \in msgs', x.type = "Request", x.to = r, x.req = q
                 PROVE  FALSE
      BY DEF NoRequest
    <3>1. x \in msgs /\ x # m
      BY <2>7, <2>8
    <3>2. x \in Messages /\ x.n = 1
      BY <1>8, <3>1 DEF AppInv, TypeOK, DurableInv, OneCopy
    <3>3. x = [type |-> "Request", to |-> r, req |-> q, n |-> 1]
      BY <3>2, MessageFacts
    <3>4. m = [type |-> "Request", to |-> r, req |-> q, n |-> 1]
      BY <1>2, <1>3, <2>9, MessageFacts
    <3> QED  BY <3>1, <3>3, <3>4
  <2>18. Settled(r, q)'
    BY <2>6, <2>17 DEF Settled
  <2>19. ASSUME NEW x \in msgs', IsNilext(x.req)
         PROVE  /\ x.type \in {"Request", "Reply"} /\ x.n = 1 /\ Known(x.req)'
                /\ x.type = "Reply" => x.value = NotFound /\ Settled(x.from, x.req)'
    <3>1. CASE x \in msgs
      <4>1. x.type = "Reply" => x.from \in Replicas
        BY <3>1, MessageFacts DEF AppInv, TypeOK
      <4> QED  BY <2>13, <2>14, <2>19, <3>1, <4>1 DEF DurableInv, OneCopy
    <3>2. CASE x \notin msgs
      BY <2>7, <2>8, <2>9, <2>13, <2>18, <3>2
    <3> QED  BY <3>1, <3>2
  <2>20. ASSUME NEW p \in Replicas, NEW x \in Updates, Has(p, x)'
         PROVE  IsNilext(x) /\ Known(x)' /\ NoRequest(p, x)'
    <3>1. CASE Has(p, x)
      BY <2>11, <2>13, <3>1 DEF DurableInv, OneCopy
    <3>2. CASE ~Has(p, x)
      <4>1. p = r /\ x = q
        BY <2>6, <2>20, <3>2
      <4> QED  BY <1>8, <2>9, <2>13, <2>17, <4>1
    <3> QED  BY <3>1, <3>2
  <2>21. OneCopy'
    BY <2>19, <2>20 DEF OneCopy
  <2> QED  BY <1>5, <2>16, <2>21, NothingCompleted
<1> QED  BY <1>7, <1>8

(* EraseUpdate keeps DurableInv.                                            *)
LEMMA DurableEraseUpdate ==
  ASSUME AppInv, DurableInv, NEW r \in Up, EraseUpdate(r)
  PROVE  DurableInv'
<1>1. PICK q : q = NextOp(r)
  OBVIOUS
<1>2. r \in Replicas /\ applied[r] /\ executed[r] < Limit(r)
  BY DurabilityAssumption DEF EraseUpdate, AppInv, Executing
<1>3. executed[r] + 1 \in 1 .. Len(decided) /\ executed[r] \in Nat
  BY <1>2, NextOpFacts DEF AppInv, TypeOK
<1>4. /\ UNCHANGED <<server, aborted, client, done, precedes>>
      /\ app' = [app EXCEPT ![r] = Erase(app[r], q)]
      /\ applied' = [applied EXCEPT ![r] = FALSE]
      /\ Log!Execute(r, executed[r] + 1)
      /\ Network({}, IF r = Leader /\ q.op = "write"
                     THEN {Reply(r, [req |-> q, n |-> 0], NotFound)} ELSE {})
  BY <1>1 DEF EraseUpdate, clientVars, Upcall
<1>5. /\ executed' = [executed EXCEPT ![r] = executed[r] + 1]
      /\ executed' \in [Replicas -> Nat] /\ decided' = decided
  BY <1>2, <1>4, OneExecuted DEF Log!Execute
<1>6. \A p \in Replicas : executed[p] <= executed'[p]
  BY <1>2, <1>5 DEF AppInv, TypeOK
<1>7. \A p \in Replicas : \A x : ExecutedAt(p, x) => ExecutedAt(p, x)'
  BY <1>5, <1>6, SameLogGrows, ExecutedStays
<1>8. ExecutedAt(r, q)'
  <2>1. executed'[r] = executed[r] + 1
    BY <1>2, <1>5 DEF AppInv, TypeOK
  <2>2. decided'[executed[r] + 1] = q
    BY <1>1, <1>5 DEF NextOp
  <2> QED  BY <1>3, <2>1, <2>2 DEF ExecutedAt
<1> DEFINE b == Erase(app[r], q)
<1>9. IsWithout(b.durabilityLog, app[r].durabilityLog, q)
  BY <1>2, EraseFacts DEF AppInv, TypeOK, Indexed
<1>10. app'[r] = b /\ \A p \in Replicas : p # r => app'[p] = app[p]
  BY <1>2, <1>4 DEF AppInv, TypeOK
<1> HIDE DEF b
<1>11. /\ \A x : Has(r, x)' <=> Has(r, x) /\ x # q
       /\ \A p \in Replicas : p # r => \A x : Has(p, x)' = Has(p, x)
  BY <1>9, <1>10 DEF Has, IsWithout
<1>12. \A m \in msgs' : m \in msgs \/ (~IsNilext(m.req) /\ m.req = q)
  BY <1>4 DEF Network, Reply, IsNilext
<1>13. \A p \in Replicas : \A x : IsNilext(x) =>
          (NoRequest(p, x) => NoRequest(p, x)') /\ (NoReply(p, x) => NoReply(p, x)')
  BY <1>12 DEF NoRequest, NoReply
<1>14. \A x : Known(x)' = Known(x)
  BY <1>4 DEF Known
<1>15. \A p \in Replicas : \A x : IsNilext(x) /\ Settled(p, x) => Settled(p, x)'
  BY <1>7, <1>8, <1>11, <1>13 DEF Settled
<1>16. ASSUME NEW p \in Replicas, NEW x, NEW y, IsNilext(x), Ordered(p, x, y)
       PROVE  Ordered(p, x, y)'
  <2>1. Settled(p, x)'
    BY <1>15, <1>16 DEF Ordered
  <2>2. CASE p # r
    BY <1>10, <1>11, <1>16, <2>1, <2>2 DEF Ordered
  <2>3. CASE p = r
    <3>1. ASSUME Has(r, x)', Has(r, y)' PROVE InOrder(app'[r].durabilityLog, x, y)
      <4>1. Has(r, x) /\ Has(r, y) /\ x # q /\ y # q
        BY <1>11, <3>1
      <4>2. InOrder(app[r].durabilityLog, x, y)
        BY <1>16, <2>3, <4>1 DEF Ordered
      <4> QED  BY <1>9, <1>10, <4>1, <4>2 DEF IsWithout
    <3> QED  BY <2>1, <2>3, <3>1 DEF Ordered
  <2> QED  BY <2>2, <2>3
<1>17. UpdatesKept
  BY <1>13, <1>14, <1>15, <1>16 DEF UpdatesKept
<1>18. OneCopy'
  <2>1. ASSUME NEW m \in msgs', IsNilext(m.req)
        PROVE  /\ m.type \in {"Request", "Reply"} /\ m.n = 1 /\ Known(m.req)'
               /\ m.type = "Reply" => m.value = NotFound /\ Settled(m.from, m.req)'
    <3>1. m \in msgs /\ m \in Messages
      BY <1>12, <2>1 DEF AppInv, TypeOK
    <3>2. m.type = "Reply" => m.from \in Replicas
      BY <3>1, MessageFacts
    <3> QED  BY <1>14, <1>15, <2>1, <3>1, <3>2 DEF DurableInv, OneCopy
  <2>2. \A p \in Replicas, x \in Updates :
             Has(p, x)' => IsNilext(x) /\ Known(x)' /\ NoRequest(p, x)'
    BY <1>11, <1>13, <1>14 DEF DurableInv, OneCopy
  <2> QED  BY <2>1, <2>2 DEF OneCopy
<1> QED  BY <1>4, <1>17, <1>18, NothingCompleted

(* The remaining actions leave the durability logs alone.                  *)
LEMMA DurableQuiet ==
  ASSUME AppInv, DurableInv, LogGrows, executed' \in [Replicas -> Nat],
         \A r \in Replicas : executed[r] <= executed'[r],
         \A r \in Replicas : app'[r].durabilityLog = app[r].durabilityLog,
         \A m \in msgs' : m \in msgs \/ ~IsNilext(m.req),
         UNCHANGED <<client, done, precedes>>
  PROVE  DurableInv'
<1>1. \A r \in Replicas : \A q : ExecutedAt(r, q) => ExecutedAt(r, q)'
  BY ExecutedStays
<1>2. UpdatesKept /\ OneCopy'
  BY <1>1, QuietStep DEF DurableInv
<1> QED  BY <1>2, NothingCompleted

\* No update is retransmitted.
UpdatesOnce == Resends["nilext"] = 0

(* ResendRequest keeps DurableInv.                                          *)
LEMMA DurableResendRequest ==
  ASSUME UpdatesOnce, AppInv, DurableInv, NEW c \in Clients, ResendRequest(c)
  PROVE  DurableInv'
<1>1. PICK q : q = Current(c)
  OBVIOUS
<1>2. /\ client[c].pending /\ client[c].sent <= Resends[q.op]
      /\ client' = [client EXCEPT ![c].sent = @ + 1]
      /\ Network({}, SendRequest(q, client[c].sent + 1))
      /\ UNCHANGED <<app, decided, executed, done, precedes>>
  BY <1>1 DEF ResendRequest, serverVars, logVars
<1>3. client[c].sent \in Nat /\ client[c].sent # 0
  BY <1>2 DEF AppInv, TypeOK, ClientsSent
<1>4. ~IsNilext(q)
  BY <1>2, <1>3 DEF UpdatesOnce, IsNilext
<1>5. \A m \in msgs' : m \in msgs \/ ~IsNilext(m.req)
  BY <1>2, <1>4 DEF Network, SendRequest
<1>6. \A b \in Clients : \/ client'[b] = client[b]
                         \/ client'[b].id = client[b].id /\ ~IsNilext(Current(b))
  <2>1. client'[c].id = client[c].id /\ \A b \in Clients : b # c => client'[b] = client[b]
    BY <1>2 DEF AppInv, TypeOK
  <2> QED  BY <1>1, <1>4, <2>1
<1>7. \A r \in Replicas : \A x : ExecutedAt(r, x) => ExecutedAt(r, x)'
  BY <1>2 DEF ExecutedAt
<1>8. UpdatesKept /\ OneCopy'
  BY <1>2, <1>5, <1>6, <1>7, QuietStep DEF DurableInv
<1> QED  BY <1>2, <1>6, <1>8, NothingCompleted

(* FinishRequest keeps DurableInv.                                          *)
LEMMA DurableFinishRequest ==
  ASSUME AppInv, DurableInv, NEW r \in Up, FinishRequest(r)
  PROVE  DurableInv'
<1> DEFINE m == server[r][1]
<1>1. /\ UNCHANGED <<decided, executed, client, done, precedes>>
      /\ \/ /\ IsNilext(m.req) /\ app' = [app EXCEPT ![r] = AddToQueue(app[r], m.req)]
            /\ Network({}, {})
         \/ /\ ~IsNilext(m.req) /\ app' = app
            /\ Network({}, {Reply(r, m, app[r].store[m.req.key])})
  BY DEF FinishRequest, logVars, clientVars
<1>2. LogGrows /\ executed' \in [Replicas -> Nat]
      /\ \A p \in Replicas : executed[p] <= executed'[p]
  BY <1>1, SameLogGrows DEF AppInv, TypeOK
<1>3. \A p \in Replicas : app'[p].durabilityLog = app[p].durabilityLog
  <2>1. AddToQueue(app[r], m.req).durabilityLog = app[r].durabilityLog
    BY DurabilityAssumption DEF AddToQueue, AppStates, AppInv, TypeOK
  <2> QED  BY <1>1, <2>1 DEF AppInv, TypeOK
<1>4. \A x \in msgs' : x \in msgs \/ ~IsNilext(x.req)
  BY <1>1 DEF Network, Reply
<1> QED  BY <1>1, <1>2, <1>3, <1>4, DurableQuiet

(* BgRepl keeps DurableInv.                                                 *)
LEMMA DurableBgRepl ==
  ASSUME AppInv, DurableInv, BgRepl
  PROVE  DurableInv'
<1>1. PICK q : q = Head(app[Leader].queue)
  OBVIOUS
<1>2. /\ UNCHANGED <<client, done, precedes, msgs>>
      /\ app' = [app EXCEPT ![Leader].queue = Tail(@)]
      /\ Log!Decide(q) \/ UNCHANGED <<decided, executed>>
      /\ app[Leader].queue # <<>>
  BY <1>1 DEF BgRepl, clientVars, logVars
<1>3. app[Leader].queue \in Seq(Updates)
  BY LeaderIsReplica, AppFields DEF AppInv, TypeOK
<1>4. q \in Requests
  BY <1>1, <1>2, <1>3 DEF Updates
<1>5. LogGrows /\ executed' = executed
  BY <1>2, <1>4, DecideFacts, SameLogGrows
<1>6. executed' \in [Replicas -> Nat] /\ \A p \in Replicas : executed[p] <= executed'[p]
  BY <1>5 DEF AppInv, TypeOK
<1>7. \A p \in Replicas : app'[p].durabilityLog = app[p].durabilityLog
  BY <1>2 DEF AppInv, TypeOK, AppStates
<1> QED  BY <1>2, <1>5, <1>6, <1>7, DurableQuiet

(* HandleConsensusRequest keeps DurableInv.                                 *)
LEMMA DurableHandleConsensusRequest ==
  ASSUME AppInv, DurableInv, HandleConsensusRequest
  PROVE  DurableInv'
<1>1. PICK m \in msgs : ConsensusRequestOf(m)
  BY ConsensusRequestPicked
<1>2. m.req \in Requests /\ m.type = "ConsensusRequest"
  BY <1>1, MessageFacts DEF AppInv, TypeOK, ConsensusRequestOf
<1>3. ~IsNilext(m.req)
  BY <1>2 DEF DurableInv, OneCopy
<1>4. /\ UNCHANGED <<app, client, done, precedes>>
      /\ Log!Decide(m.req) \/ UNCHANGED <<decided, executed>>
  BY <1>1 DEF ConsensusRequestOf, serverVars, clientVars, logVars
<1>5. LogGrows /\ executed' = executed
  BY <1>2, <1>4, DecideFacts, SameLogGrows
<1>6. executed' \in [Replicas -> Nat] /\ \A p \in Replicas : executed[p] <= executed'[p]
  BY <1>5 DEF AppInv, TypeOK
<1>7. \A x \in msgs' : x \in msgs \/ ~IsNilext(x.req)
  <2>1. \A x \in msgs' : x \in msgs \/ x.req = m.req
    BY <1>1 DEF ConsensusRequestOf, Network, Reply
  <2> QED  BY <1>3, <2>1
<1> QED  BY <1>4, <1>5, <1>6, <1>7, DurableQuiet

(* The actions of consensus and execution keep DurableInv.                  *)
LEMMA DurableOther ==
  ASSUME AppInv, DurableInv, NEW r \in Up,
         HandleConsensusReply(r) \/ ApplyUpdate(r) \/ ExecuteRead(r)
  PROVE  DurableInv'
<1>1. r \in Replicas /\ app \in [Replicas -> AppStates(Updates)] /\ executed \in [Replicas -> Nat]
  BY DurabilityAssumption DEF AppInv, TypeOK
<1>2. CASE HandleConsensusReply(r)
  <2>1. /\ UNCHANGED <<app, decided, executed, client, done, precedes>>
        /\ \E m \in msgs : Network({m}, {})
    BY <1>2 DEF HandleConsensusReply, logVars, clientVars
  <2>2. msgs' \subseteq msgs
    BY <2>1 DEF Network
  <2> QED  BY <1>1, <2>1, <2>2, SameLogGrows, DurableQuiet
<1>3. CASE ApplyUpdate(r)
  <2>1. /\ UNCHANGED <<decided, executed, client, done, precedes, msgs>>
        /\ app' = [app EXCEPT ![r] = Apply(app[r], NextOp(r))]
    BY <1>3 DEF ApplyUpdate, clientVars, logVars, Upcall
  <2>2. Apply(app[r], NextOp(r)).durabilityLog = app[r].durabilityLog
    BY <1>1 DEF Apply, AppStates
  <2>3. \A p \in Replicas : app'[p].durabilityLog = app[p].durabilityLog
    BY <1>1, <2>1, <2>2
  <2> QED  BY <1>1, <2>1, <2>3, SameLogGrows, DurableQuiet
<1>4. CASE ExecuteRead(r)
  <2>1. /\ UNCHANGED <<app, client, done, precedes, applied>>
        /\ Log!Execute(r, executed[r] + 1) /\ NextOp(r).op = "read"
        /\ Network({}, IF r = Leader THEN {Reply(r, [req |-> NextOp(r), n |-> 0],
                                                app[r].store[NextOp(r).key])} ELSE {})
    BY <1>4 DEF ExecuteRead, clientVars, serverVars
  <2>2. /\ executed' = [executed EXCEPT ![r] = executed[r] + 1] /\ decided' = decided
    BY <2>1 DEF Log!Execute
  <2>3. executed' \in [Replicas -> Nat] /\ \A p \in Replicas : executed[p] <= executed'[p]
    BY <1>1, <2>2
  <2>4. \A x \in msgs' : x \in msgs \/ ~IsNilext(x.req)
    BY <2>1 DEF Network, Reply, IsNilext
  <2> QED  BY <2>1, <2>2, <2>3, <2>4, SameLogGrows, DurableQuiet
<1> QED  BY <1>2, <1>3, <1>4

(* DurableInv is inductive for clients that do not retransmit updates.      *)
LEMMA DurableInitially == Init => DurableInv
BY DEF Init, DurableInv, OneCopy, Counts, CompletedSettled, CompletedOrdered, Has, NewApp, Contains

(* ... every action and the stutter keep it.                                *)
LEMMA DurableInductive ==
  ASSUME UpdatesOnce
  PROVE  AppInv /\ DurableInv /\ [Next]_vars => DurableInv'
<1> SUFFICES ASSUME AppInv, DurableInv, [Next]_vars PROVE DurableInv'
  OBVIOUS
<1>1. CASE UNCHANGED vars
  <2>1. UNCHANGED <<app, server, applied, decided, executed, client, msgs, aborted, done, precedes>>
    BY <1>1 DEF vars
  <2>2. executed' \in [Replicas -> Nat] /\ \A p \in Replicas : executed[p] <= executed'[p]
    BY <2>1 DEF AppInv, TypeOK
  <2> QED  BY <2>1, <2>2, SameLogGrows, DurableQuiet
<1>2. ASSUME NEW c \in Clients, Invoke(c) \/ ResendRequest(c) \/ HandleReply(c)
      PROVE  DurableInv'
  BY <1>2, DurableInvoke, DurableResendRequest, DurableHandleReply
<1>3. ASSUME NEW r \in Up, HandleRequest(r) \/ FinishRequest(r) \/ HandleConsensusReply(r)
      PROVE  DurableInv'
  BY <1>3, DurableHandleRequest, DurableFinishRequest, DurableOther
<1>4. ASSUME NEW r \in Up, ApplyUpdate(r) \/ EraseUpdate(r) \/ ExecuteRead(r)
      PROVE  DurableInv'
  BY <1>4, DurableOther, DurableEraseUpdate
<1> QED  BY <1>1, <1>2, <1>3, <1>4, DurableBgRepl, DurableHandleConsensusRequest DEF Next

(* The invariants hold in every reachable state.                            *)
LEMMA InvHolds ==
  ASSUME UpdatesOnce
  PROVE  Spec => []Inv
<1>1. Init => Inv
  BY AppInitially, DurableInitially DEF Inv
<1>2. Inv /\ [Next]_vars => Inv'
  BY AppInductive, DurableInductive DEF Inv
<1> QED  BY <1>1, <1>2, PTL DEF Spec

-------------------------------------------------------------------------------
(* What the replies are worth that a client counts, whatever it retransmits *)

\* Replica r has update q.
Holds(r, q) == Has(r, q) \/ ExecutedAt(r, q)

\* Copy n of q is on its way to the server of r, or the reply to it back.
OnItsWay(r, q, n) ==
    \E m \in msgs :
        /\ m.req = q /\ m.n = n
        /\ (m.type = "Request" /\ m.to = r) \/ (m.type = "Reply" /\ m.from = r)

\* The replies to the first n copies of q that may have been counted, as <<server, copy>>.
CountedCopies(q, n) ==
    {x \in Replicas \X (1 .. n) : Holds(x[1], q) /\ ~OnItsWay(x[1], q, x[2])}

\* A client sends the copies of an update one after another; a server that replies
\* to one has the update, and has not that copy before it.
CopiesSent ==
    \A m \in msgs : IsNilext(m.req) =>
        /\ m.type \in {"Request", "Reply"} /\ Known(m.req) /\ m.n # 0
        /\ m.req.id = client[m.req.client[1]].id => m.n <= client[m.req.client[1]].sent
        /\ m.type = "Reply" =>
               /\ m.value = NotFound /\ Holds(m.from, m.req)
               /\ \A x \in msgs : ~(/\ x.type = "Request" /\ x.to = m.from
                                    /\ x.req = m.req /\ x.n = m.n)

\* What the client has counted is one reply for each copy and server.
CopiesCounted ==
    \A c \in Clients :
        client[c].pending /\ IsNilext(Current(c)) =>
            /\ client[c].sent <= Resends["nilext"] + 1
            /\ client[c].responses <= Cardinality(CountedCopies(Current(c), client[c].sent))
            /\ client[c].leaderAcked => Holds(Leader, Current(c))

CopiesInv == CopiesSent /\ CopiesCounted /\ DurableAsCounted

\* No replica loses an update.
UpdatesHeld == \A r \in Replicas : \A q : IsNilext(q) /\ Holds(r, q) => Holds(r, q)'

(* Products of natural numbers.                                             *)
LEMMA TimesMonotone ==
  ASSUME NEW k \in Nat, NEW l \in Nat, NEW x \in Nat, NEW y \in Nat, k <= l, x <= y
  PROVE  k * x \in Nat /\ l * y \in Nat /\ k * x <= l * y
<1>1. PICK d \in Nat : l = k + d
  BY l - k \in Nat
<1>2. PICK e \in Nat : y = x + e
  BY y - x \in Nat
<1>3. l * y = k * x + (k * e + d * x + d * e)
  BY <1>1, <1>2
<1>4. k * x \in Nat /\ k * e \in Nat /\ d * x \in Nat /\ d * e \in Nat
  OBVIOUS
<1> QED  BY <1>3, <1>4

(* The retransmissions that a client sends of an update.                    *)
LEMMA ResendsIsNat == Resends["nilext"] \in Nat
BY DurabilityAssumption DEF Ops

(* Sets of copies, by their sizes.                                          *)
LEMMA CopiesFinite ==
  ASSUME NEW n \in Nat, NEW A, NEW B, A \subseteq B, B \subseteq Replicas \X (1 .. n)
  PROVE  /\ IsFiniteSet(A) /\ IsFiniteSet(B)
         /\ Cardinality(A) \in Nat /\ Cardinality(B) \in Nat
         /\ Cardinality(A) <= Cardinality(B)
<1>1. IsFiniteSet(1 .. n)
  BY FS_Interval
<1>2. IsFiniteSet(Replicas \X (1 .. n))
  BY <1>1, ReplicasFinite, FS_Product
<1>3. IsFiniteSet(B) /\ IsFiniteSet(A)
  BY <1>2, FS_Subset
<1> QED  BY <1>3, FS_Subset, FS_CardinalityType

(* There are no more copies than n of each server.                          *)
LEMMA CopiesByServer ==
  ASSUME NEW n \in Nat, NEW H \in SUBSET Replicas, NEW A, A \subseteq H \X (1 .. n)
  PROVE  /\ Cardinality(H) \in Nat /\ Cardinality(A) \in Nat
         /\ Cardinality(A) <= n * Cardinality(H)
<1>1. H \X (1 .. n) \subseteq Replicas \X (1 .. n)
  OBVIOUS
<1>2. IsFiniteSet(H) /\ Cardinality(H) \in Nat
  BY ReplicasFinite, FS_Subset, FS_CardinalityType
<1>3. IsFiniteSet(1 .. n) /\ Cardinality(1 .. n) = n
  <2>1. 1 \in Int /\ n \in Int
    OBVIOUS
  <2>2. IsFiniteSet(1 .. n) /\ Cardinality(1 .. n) = IF 1 > n THEN 0 ELSE n - 1 + 1
    BY <2>1, FS_Interval
  <2> QED  BY <2>2
<1>4. Cardinality(H \X (1 .. n)) = Cardinality(H) * n
  BY <1>2, <1>3, FS_Product
<1>5. Cardinality(A) <= Cardinality(H \X (1 .. n)) /\ Cardinality(A) \in Nat
  BY <1>1, CopiesFinite
<1>6. Cardinality(H) * n = n * Cardinality(H)
  BY <1>2
<1> QED  BY <1>2, <1>4, <1>5, <1>6

(* What a client was told of is held as before the step.                    *)
LEMMA DoneStaysHeld ==
  ASSUME UpdatesHeld, DurableAsCounted, NEW d \in done, IsNilext(d.req)
  PROVE  /\ Leader \in HeldBy(d.req)'
         /\ FastQuorumSize <= (Resends["nilext"] + 1) * Cardinality(HeldBy(d.req)')
<1> DEFINE A == HeldBy(d.req)
           B == HeldBy(d.req)'
           k == Resends["nilext"] + 1
<1>1. A \in SUBSET Replicas /\ B \in SUBSET Replicas /\ A \subseteq B
  BY DEF UpdatesHeld, HeldBy, Holds, Has
<1>2. Leader \in A /\ FastQuorumSize <= k * Cardinality(A)
  BY DEF DurableAsCounted
<1>3. k \in Nat
  BY ResendsIsNat
<1> HIDE DEF A, B, k
<1>4. Cardinality(A) \in Nat /\ Cardinality(B) \in Nat /\ Cardinality(A) <= Cardinality(B)
  BY <1>1, MoreReplicas
<1>5. k * Cardinality(A) \in Nat /\ k * Cardinality(B) \in Nat
      /\ k * Cardinality(A) <= k * Cardinality(B)
  BY <1>3, <1>4, TimesMonotone
<1> QED  BY <1>1, <1>2, <1>5, QuorumIsNat DEF B, k

(* A client's count is right as long as no copy that it has counted is sent again. *)
LEMMA CountStays ==
  ASSUME AppInv, UpdatesHeld, CopiesCounted, NEW c \in Clients, client[c].pending,
         NEW q, q = Current(c), IsNilext(q), NEW n \in Nat, client[c].sent <= n,
         \A r \in Replicas : \A k \in 1 .. client[c].sent : OnItsWay(r, q, k)' => OnItsWay(r, q, k)
  PROVE  /\ CountedCopies(q, client[c].sent) \subseteq CountedCopies(q, n)'
         /\ client[c].responses <= Cardinality(CountedCopies(q, n)')
         /\ client[c].leaderAcked => Holds(Leader, q)'
<1> DEFINE s == client[c].sent
           A == CountedCopies(q, s)
           B == CountedCopies(q, n)'
<1>1. s \in Nat /\ client[c].responses \in Nat /\ Leader \in Replicas
  BY LeaderIsReplica DEF AppInv, TypeOK
<1>2. A \subseteq B /\ B \subseteq Replicas \X (1 .. n)
  BY <1>1 DEF CountedCopies, UpdatesHeld
<1>3. client[c].responses <= Cardinality(A)
  BY DEF CopiesCounted
<1>4. client[c].leaderAcked => Holds(Leader, q)'
  BY <1>1 DEF CopiesCounted, UpdatesHeld
<1> HIDE DEF A, B, s
<1>5. Cardinality(A) \in Nat /\ Cardinality(B) \in Nat /\ Cardinality(A) <= Cardinality(B)
  BY <1>2, CopiesFinite
<1> QED  BY <1>1, <1>2, <1>3, <1>4, <1>5 DEF A, B, s

(* A step in which no client learns anything of an update.                  *)
LEMMA NothingCounted ==
  ASSUME AppInv, CopiesInv, UpdatesHeld, CopiesSent', done' = done,
         \A c \in Clients :
             client'[c] = client[c] \/ (client'[c].id = client[c].id /\ ~IsNilext(Current(c))),
         \A r \in Replicas : \A q, n : IsNilext(q) /\ OnItsWay(r, q, n)' => OnItsWay(r, q, n)
  PROVE  CopiesInv'
<1>1. CopiesCounted'
  <2> SUFFICES ASSUME NEW c \in Clients, client'[c].pending, IsNilext(Current(c)')
               PROVE  /\ client'[c].sent <= Resends["nilext"] + 1
                      /\ client'[c].responses <= Cardinality(CountedCopies(Current(c), client[c].sent)')
                      /\ client'[c].leaderAcked => Holds(Leader, Current(c))'
    BY DEF CopiesCounted
  <2>1. PICK q : q = Current(c) /\ q = Current(c)'
    BY DEF Current
  <2>2. client'[c] = client[c]
    BY <2>1
  <2>3. client[c].sent \in Nat /\ client[c].sent <= client[c].sent
    BY DEF AppInv, TypeOK
  <2>4. /\ client[c].responses <= Cardinality(CountedCopies(q, client[c].sent)')
        /\ client[c].leaderAcked => Holds(Leader, q)'
    BY <2>1, <2>2, <2>3, CountStays DEF CopiesInv
  <2>5. client[c].sent <= Resends["nilext"] + 1
    BY <2>1, <2>2 DEF CopiesInv, CopiesCounted
  <2>6. CountedCopies(Current(c), client[c].sent)' = CountedCopies(q, client[c].sent)'
    BY <2>1, <2>2 DEF CountedCopies
  <2>7. Holds(Leader, Current(c))' = Holds(Leader, q)'
    BY <2>1 DEF Holds, Has, ExecutedAt
  <2> QED  BY <2>2, <2>4, <2>5, <2>6, <2>7
<1>2. DurableAsCounted'
  BY DoneStaysHeld DEF CopiesInv, DurableAsCounted
<1> QED  BY <1>1, <1>2 DEF CopiesInv

(* ... and nothing of an update is sent.                                    *)
LEMMA NothingSent ==
  ASSUME AppInv, CopiesInv, UpdatesHeld, done' = done,
         \A c \in Clients :
             \/ client'[c] = client[c]
             \/ /\ client'[c].id = client[c].id /\ ~IsNilext(Current(c))
                /\ client'[c].sent = client[c].sent + 1,
         \A m \in msgs' : m \in msgs \/ ~IsNilext(m.req)
  PROVE  CopiesInv'
<1>1. ASSUME NEW m \in msgs', IsNilext(m.req)
      PROVE  /\ m.type \in {"Request", "Reply"} /\ Known(m.req)' /\ m.n # 0
             /\ m.req.id = client'[m.req.client[1]].id => m.n <= client'[m.req.client[1]].sent
             /\ m.type = "Reply" =>
                    /\ m.value = NotFound /\ Holds(m.from, m.req)'
                    /\ \A x \in msgs' : ~(/\ x.type = "Request" /\ x.to = m.from
                                          /\ x.req = m.req /\ x.n = m.n)
  <2>1. m \in msgs /\ m \in Messages
    BY <1>1 DEF AppInv, TypeOK
  <2>2. /\ m.req \in Requests /\ m.req.client[1] \in Clients /\ m.n \in Nat
        /\ m.type = "Reply" => m.from \in Replicas
    BY <2>1, MessageFacts, RequestsFacts
  <2>3. /\ client'[m.req.client[1]].id = client[m.req.client[1]].id
        /\ client[m.req.client[1]].sent \in Nat /\ client'[m.req.client[1]].sent \in Nat
        /\ client[m.req.client[1]].sent <= client'[m.req.client[1]].sent
    <3>1. PICK b \in Clients : b = m.req.client[1]
      BY <2>2
    <3>2. client[b].sent \in Nat
      BY DEF AppInv, TypeOK
    <3>3. \/ client'[b] = client[b]
          \/ client'[b].id = client[b].id /\ client'[b].sent = client[b].sent + 1
      OBVIOUS
    <3> QED  BY <3>1, <3>2, <3>3
  <2>4. /\ m.type \in {"Request", "Reply"} /\ Known(m.req) /\ m.n # 0
        /\ m.req.id = client[m.req.client[1]].id => m.n <= client[m.req.client[1]].sent
        /\ m.type = "Reply" =>
               /\ m.value = NotFound /\ Holds(m.from, m.req)
               /\ \A x \in msgs : ~(/\ x.type = "Request" /\ x.to = m.from
                                    /\ x.req = m.req /\ x.n = m.n)
    BY <1>1, <2>1 DEF CopiesInv, CopiesSent
  <2>5. Known(m.req)'
    BY <2>3, <2>4 DEF Known
  <2>6. m.type = "Reply" => Holds(m.from, m.req)'
    BY <1>1, <2>2, <2>4 DEF UpdatesHeld
  <2> QED  BY <1>1, <2>2, <2>3, <2>4, <2>5, <2>6
<1>2. CopiesSent'
  BY <1>1 DEF CopiesSent
<1>3. \A r \in Replicas : \A q, n : IsNilext(q) /\ OnItsWay(r, q, n)' => OnItsWay(r, q, n)
  BY DEF OnItsWay
<1> QED  BY <1>2, <1>3, NothingCounted

(* A step that removes nothing from a durability log.                       *)
LEMMA LogsHeld ==
  ASSUME AppInv, LogGrows, executed' \in [Replicas -> Nat],
         \A r \in Replicas : executed[r] <= executed'[r],
         \A r \in Replicas : \A q : Has(r, q) => Has(r, q)'
  PROVE  UpdatesHeld
BY ExecutedStays DEF UpdatesHeld, Holds

(* Invoke keeps CopiesInv.                                                  *)
LEMMA CopiesInvoke ==
  ASSUME AppInv, CopiesInv, NEW c \in Clients, Invoke(c)
  PROVE  CopiesInv'
<1> DEFINE i == client[c].id + 1
<1>1. i \in 1 .. Len(Trace[c]) /\ \A b \in Clients : client[b].id \in Nat
  BY DEF AppInv, TypeOK, Invoke, ClientsSent
<1>2. PICK q \in Requests : q = Request(c, i) /\ q.id = i /\ q.client[1] = c
  BY <1>1, RequestFacts
<1>3. /\ client' = [client EXCEPT ![c] = [id |-> i, pending |-> TRUE, sent |-> 1,
                                        responses |-> 0, leaderAcked |-> FALSE]]
      /\ UNCHANGED <<app, decided, executed, done>>
      /\ Network({}, SendRequest(q, 1))
  BY <1>2 DEF Invoke, serverVars, logVars
<1>4. /\ client'[c].id = i /\ client'[c].responses = 0 /\ client'[c].sent = 1
      /\ client'[c].leaderAcked = FALSE
      /\ \A b \in Clients : b # c => client'[b] = client[b]
  BY <1>3 DEF AppInv, TypeOK
<1>5. \A x \in Requests : Known(x) => Known(x)' /\ x # q
  <2> SUFFICES ASSUME NEW x \in Requests, Known(x) PROVE Known(x)' /\ x # q
    OBVIOUS
  <2>1. PICK b \in Clients : b = x.client[1]
    BY RequestsFacts
  <2>2. x.id \in Nat /\ x.id <= client[b].id /\ client[b].id \in Nat /\ client[c].id \in Nat
    BY <1>1, <2>1, RequestsFacts DEF Known
  <2>3. x.id <= client'[b].id
    BY <1>4, <2>2
  <2>4. x # q
    BY <1>2, <2>1, <2>2
  <2> QED  BY <2>1, <2>3, <2>4 DEF Known
<1>6. Known(q)'
  BY <1>1, <1>2, <1>4 DEF Known
<1>7. \A m \in msgs' : m \in msgs \/ (m.req = q /\ (IsNilext(q) => m.type = "Request" /\ m.n = 1))
  BY <1>3 DEF Network, SendRequest, IsNilext
<1>8. UpdatesHeld
  BY <1>3 DEF UpdatesHeld, Holds, Has, ExecutedAt
<1>9. ASSUME NEW m \in msgs', IsNilext(m.req)
      PROVE  /\ m.type \in {"Request", "Reply"} /\ Known(m.req)' /\ m.n # 0
             /\ m.req.id = client'[m.req.client[1]].id => m.n <= client'[m.req.client[1]].sent
             /\ m.type = "Reply" =>
                    /\ m.value = NotFound /\ Holds(m.from, m.req)'
                    /\ \A x \in msgs' : ~(/\ x.type = "Request" /\ x.to = m.from
                                          /\ x.req = m.req /\ x.n = m.n)
  <2>1. CASE m \in msgs
    <3>1. m \in Messages
      BY <2>1 DEF AppInv, TypeOK
    <3>2. /\ m.req \in Requests /\ m.req.client[1] \in Clients /\ m.req.id \in Nat
          /\ m.type = "Reply" => m.from \in Replicas
      BY <3>1, MessageFacts, RequestsFacts
    <3>3. /\ m.type \in {"Request", "Reply"} /\ Known(m.req) /\ m.n # 0
          /\ m.req.id = client[m.req.client[1]].id => m.n <= client[m.req.client[1]].sent
          /\ m.type = "Reply" =>
                 /\ m.value = NotFound /\ Holds(m.from, m.req)
                 /\ \A x \in msgs : ~(/\ x.type = "Request" /\ x.to = m.from
                                      /\ x.req = m.req /\ x.n = m.n)
      BY <1>9, <2>1 DEF CopiesInv, CopiesSent
    <3>4. Known(m.req)' /\ m.req # q
      BY <1>5, <3>2, <3>3
    <3>5. m.req.id = client'[m.req.client[1]].id => m.n <= client'[m.req.client[1]].sent
      <4>1. CASE m.req.client[1] = c
        BY <1>1, <1>4, <3>2, <3>3, <4>1 DEF Known
      <4>2. CASE m.req.client[1] # c
        BY <1>4, <3>2, <3>3, <4>2
      <4> QED  BY <4>1, <4>2
    <3>6. m.type = "Reply" => Holds(m.from, m.req)'
      BY <1>8, <1>9, <3>2, <3>3 DEF UpdatesHeld
    <3>7. m.type = "Reply" =>
              \A x \in msgs' : ~(/\ x.type = "Request" /\ x.to = m.from
                                 /\ x.req = m.req /\ x.n = m.n)
      BY <1>7, <3>3, <3>4
    <3> QED  BY <3>3, <3>4, <3>5, <3>6, <3>7
  <2>2. CASE m \notin msgs
    BY <1>2, <1>4, <1>6, <1>7, <1>9, <2>2
  <2> QED  BY <2>1, <2>2
<1>10. CopiesSent'
  BY <1>9 DEF CopiesSent
<1>11. CopiesCounted'
  <2> SUFFICES ASSUME NEW b \in Clients, client'[b].pending, IsNilext(Current(b)')
               PROVE  /\ client'[b].sent <= Resends["nilext"] + 1
                      /\ client'[b].responses <= Cardinality(CountedCopies(Current(b), client[b].sent)')
                      /\ client'[b].leaderAcked => Holds(Leader, Current(b))'
    BY DEF CopiesCounted
  <2>1. CASE b = c
    <3> DEFINE B == CountedCopies(Current(c), client[c].sent)'
    <3>1. B \subseteq Replicas \X (1 .. 1)
      BY <1>4 DEF CountedCopies
    <3> HIDE DEF B
    <3>2. Cardinality(B) \in Nat
      BY <3>1, CopiesFinite
    <3>3. client'[c].responses <= Cardinality(B)
      BY <1>4, <3>2
    <3> QED  BY <1>4, <2>1, <3>3, ResendsIsNat DEF B
  <2>2. CASE b # c
    <3>1. client'[b] = client[b]
      BY <1>4, <2>2
    <3>2. PICK x : x = Current(b) /\ x = Current(b)'
      BY <3>1 DEF Current
    <3>3. x \in Requests /\ Known(x)
      <4>1. x.id = client[b].id /\ x.client[1] = b /\ x \in Requests
        BY <3>1, <3>2, CurrentFacts
      <4> QED  BY <1>1, <4>1 DEF Known
    <3>4. x # q
      BY <1>5, <3>3
    <3>5. \A r \in Replicas : \A k \in 1 .. client[b].sent : OnItsWay(r, x, k)' => OnItsWay(r, x, k)
      BY <1>7, <3>4 DEF OnItsWay
    <3>6. client[b].sent \in Nat /\ client[b].sent <= client[b].sent
      BY DEF AppInv, TypeOK
    <3>7. /\ client[b].responses <= Cardinality(CountedCopies(x, client[b].sent)')
          /\ client[b].leaderAcked => Holds(Leader, x)'
      BY <1>8, <3>1, <3>2, <3>5, <3>6, CountStays DEF CopiesInv
    <3>8. CountedCopies(Current(b), client[b].sent)' = CountedCopies(x, client[b].sent)'
      BY <3>1, <3>2 DEF CountedCopies
    <3>9. Holds(Leader, Current(b))' = Holds(Leader, x)'
      BY <3>2 DEF Holds, Has, ExecutedAt
    <3>10. client[b].sent <= Resends["nilext"] + 1
      BY <3>1, <3>2 DEF CopiesInv, CopiesCounted
    <3> QED  BY <3>1, <3>7, <3>8, <3>9, <3>10
  <2> QED  BY <2>1, <2>2
<1>12. DurableAsCounted'
  BY <1>3, <1>8, DoneStaysHeld DEF CopiesInv, DurableAsCounted
<1> QED  BY <1>10, <1>11, <1>12 DEF CopiesInv

(* ResendRequest keeps CopiesInv: a further copy has a number of its own.    *)
LEMMA CopiesResendRequest ==
  ASSUME AppInv, CopiesInv, NEW c \in Clients, ResendRequest(c)
  PROVE  CopiesInv'
<1>1. PICK q : q = Current(c)
  OBVIOUS
<1>2. PICK n : n = client[c].sent + 1
  OBVIOUS
<1>3. /\ client[c].pending /\ client[c].sent <= Resends[q.op]
      /\ client' = [client EXCEPT ![c].sent = @ + 1]
      /\ Network({}, SendRequest(q, n))
      /\ UNCHANGED <<app, decided, executed, done>>
  BY <1>1, <1>2 DEF ResendRequest, serverVars, logVars
<1>4. client[c].sent \in Nat /\ n \in Nat /\ n # 0 /\ client[c].sent < n
  BY <1>2 DEF AppInv, TypeOK
<1>5. q \in Requests /\ q.id = client[c].id /\ q.client[1] = c
  BY <1>1, <1>3, CurrentFacts
<1>6. /\ client'[c].id = client[c].id /\ client'[c].sent = n
      /\ client'[c].responses = client[c].responses
      /\ client'[c].leaderAcked = client[c].leaderAcked
      /\ \A b \in Clients : b # c => client'[b] = client[b]
  BY <1>2, <1>3 DEF AppInv, TypeOK
<1>7. UpdatesHeld
  BY <1>3 DEF UpdatesHeld, Holds, Has, ExecutedAt
<1>8. CASE ~IsNilext(q)
  <2>1. \A m \in msgs' : m \in msgs \/ ~IsNilext(m.req)
    BY <1>3, <1>8 DEF Network, SendRequest
  <2>2. \A b \in Clients :
            \/ client'[b] = client[b]
            \/ /\ client'[b].id = client[b].id /\ ~IsNilext(Current(b))
               /\ client'[b].sent = client[b].sent + 1
    BY <1>1, <1>2, <1>6, <1>8
  <2> QED  BY <1>3, <1>7, <2>1, <2>2, NothingSent
<1>9. CASE IsNilext(q)
  <2>1. \A m \in msgs' : m \in msgs \/ (m.req = q /\ m.type = "Request" /\ m.n = n)
    BY <1>3, <1>9 DEF Network, SendRequest, IsNilext
  <2>2. ASSUME NEW m \in msgs', IsNilext(m.req)
        PROVE  /\ m.type \in {"Request", "Reply"} /\ Known(m.req)' /\ m.n # 0
               /\ m.req.id = client'[m.req.client[1]].id => m.n <= client'[m.req.client[1]].sent
               /\ m.type = "Reply" =>
                      /\ m.value = NotFound /\ Holds(m.from, m.req)'
                      /\ \A x \in msgs' : ~(/\ x.type = "Request" /\ x.to = m.from
                                            /\ x.req = m.req /\ x.n = m.n)
    <3>1. CASE m \in msgs
      <4>1. PICK b \in Clients : b = m.req.client[1]
        BY <3>1, MessageFacts, RequestsFacts DEF AppInv, TypeOK
      <4>2. m.n \in Nat /\ client[b].sent \in Nat /\ (m.type = "Reply" => m.from \in Replicas)
        BY <3>1, MessageFacts DEF AppInv, TypeOK
      <4>3. /\ m.type \in {"Request", "Reply"} /\ Known(m.req) /\ m.n # 0
            /\ m.req.id = client[b].id => m.n <= client[b].sent
            /\ m.type = "Reply" =>
                   /\ m.value = NotFound /\ Holds(m.from, m.req)
                   /\ \A x \in msgs : ~(/\ x.type = "Request" /\ x.to = m.from
                                        /\ x.req = m.req /\ x.n = m.n)
        BY <2>2, <3>1, <4>1 DEF CopiesInv, CopiesSent
      <4>4. client'[b].id = client[b].id /\ client[b].sent <= client'[b].sent
            /\ client'[b].sent \in Nat
        BY <1>4, <1>6, <4>2
      <4>5. Known(m.req)'
        BY <4>1, <4>3, <4>4 DEF Known
      <4>6. m.req.id = client'[b].id => m.n <= client'[b].sent
        BY <4>2, <4>3, <4>4
      <4>7. m.type = "Reply" => Holds(m.from, m.req)'
        BY <1>7, <2>2, <4>2, <4>3 DEF UpdatesHeld
      <4>8. m.req = q => m.n <= client[c].sent
        BY <1>5, <4>1, <4>3
      <4>9. ASSUME m.type = "Reply", NEW x \in msgs', x.type = "Request", x.to = m.from,
                   x.req = m.req, x.n = m.n
            PROVE  FALSE
        BY <1>4, <2>1, <4>2, <4>3, <4>8, <4>9
      <4> QED  BY <4>1, <4>3, <4>5, <4>6, <4>7, <4>9
    <3>2. CASE m \notin msgs
      <4>1. m.req = q /\ m.type = "Request" /\ m.n = n
        BY <2>1, <3>2
      <4>2. q.id <= client[c].id
        BY <1>5 DEF AppInv, TypeOK
      <4> QED  BY <1>4, <1>5, <1>6, <4>1, <4>2 DEF Known
    <3> QED  BY <3>1, <3>2
  <2>3. CopiesSent'
    BY <2>2 DEF CopiesSent
  <2>4. CopiesCounted'
    <3> SUFFICES ASSUME NEW b \in Clients, client'[b].pending, IsNilext(Current(b)')
                 PROVE  /\ client'[b].sent <= Resends["nilext"] + 1
                        /\ client'[b].responses <= Cardinality(CountedCopies(Current(b), client[b].sent)')
                        /\ client'[b].leaderAcked => Holds(Leader, Current(b))'
      BY DEF CopiesCounted
    <3>1. PICK x : x = Current(b) /\ x = Current(b)'
      BY <1>6 DEF Current
    <3>2. PICK k : k = client'[b].sent
      OBVIOUS
    <3>3. k \in Nat /\ client[b].sent \in Nat /\ client[b].sent <= k
      <4>1. client[b].sent \in Nat
        BY DEF AppInv, TypeOK
      <4>2. CASE b = c
        BY <1>4, <1>6, <3>2, <4>2
      <4>3. CASE b # c
        BY <1>6, <3>2, <4>1, <4>3
      <4> QED  BY <4>1, <4>2, <4>3
    <3>4. client[b].pending
      BY <1>3, <1>6
    <3>5. \A r \in Replicas : \A l \in 1 .. client[b].sent : OnItsWay(r, x, l)' => OnItsWay(r, x, l)
      <4> SUFFICES ASSUME NEW r \in Replicas, NEW l \in 1 .. client[b].sent,
                          OnItsWay(r, x, l)', ~OnItsWay(r, x, l)
                   PROVE  FALSE
        OBVIOUS
      <4>1. x = q /\ l = n
        BY <2>1 DEF OnItsWay
      <4>2. b = c
        BY <1>5, <3>1, <3>4, <4>1, CurrentFacts
      <4> QED  BY <1>4, <3>3, <4>1, <4>2
    <3>6. /\ client[b].responses <= Cardinality(CountedCopies(x, k)')
          /\ client[b].leaderAcked => Holds(Leader, x)'
      BY <1>7, <3>1, <3>3, <3>4, <3>5, CountStays DEF CopiesInv
    <3>7. CountedCopies(Current(b), client[b].sent)' = CountedCopies(x, k)'
      BY <3>1, <3>2 DEF CountedCopies
    <3>8. Holds(Leader, Current(b))' = Holds(Leader, x)'
      BY <3>1 DEF Holds, Has, ExecutedAt
    <3>9. client'[b].responses = client[b].responses /\ client'[b].leaderAcked = client[b].leaderAcked
      BY <1>6
    <3>10. client'[b].sent <= Resends["nilext"] + 1
      <4>1. CASE b = c
        <5>1. q.op = "nilext"
          BY <1>9 DEF IsNilext
        <5> QED  BY <1>2, <1>3, <1>4, <1>6, <4>1, <5>1, ResendsIsNat
      <4>2. CASE b # c
        BY <1>6, <3>1, <3>4, <4>2 DEF CopiesInv, CopiesCounted
      <4> QED  BY <4>1, <4>2
    <3> QED  BY <3>6, <3>7, <3>8, <3>9, <3>10
  <2>5. DurableAsCounted'
    BY <1>3, <1>7, DoneStaysHeld DEF CopiesInv, DurableAsCounted
  <2> QED  BY <2>3, <2>4, <2>5 DEF CopiesInv
<1> QED  BY <1>8, <1>9

(* HandleReply keeps CopiesInv: the copy of a reply is counted once, when it goes. *)
LEMMA CopiesHandleReply ==
  ASSUME AppInv, CopiesInv, NEW c \in Clients, HandleReply(c)
  PROVE  CopiesInv'
<1>1. PICK m \in msgs : HandleReplyTo(c, m)
  BY Zenon DEF HandleReply, HandleReplyTo, Counted
<1>2. PICK q : q = m.req
  OBVIOUS
<1>3. m \in Messages /\ m.type = "Reply" /\ client[c].pending /\ q = Current(c)
  BY <1>1, <1>2 DEF AppInv, TypeOK, HandleReplyTo
<1>4. /\ q \in Requests /\ m.from \in Replicas /\ m.n \in Nat
      /\ q.id = client[c].id /\ q.client[1] = c
      /\ client[c].sent \in Nat /\ client[c].responses \in Nat
  BY <1>2, <1>3, MessageFacts, CurrentFacts DEF AppInv, TypeOK
<1> DEFINE s == Counted(c, m)
<1>5. /\ msgs' \subseteq msgs /\ m \notin msgs'
      /\ done' = done \cup IF Enough(s, q) THEN {[req |-> q, value |-> m.value]} ELSE {}
      /\ UNCHANGED <<app, decided, executed>>
  BY <1>1, <1>2 DEF HandleReplyTo, serverVars, logVars
<1>6. /\ client'[c].responses = client[c].responses + 1
      /\ s.responses = client[c].responses + 1
      /\ client'[c].id = client[c].id /\ client'[c].sent = client[c].sent
      /\ \A b \in Clients : b # c => client'[b] = client[b]
  BY <1>1 DEF HandleReplyTo, Counted, AppInv, TypeOK
<1>7. /\ s.leaderAcked => client[c].leaderAcked \/ m.from = Leader
      /\ client'[c].leaderAcked => client[c].leaderAcked \/ m.from = Leader
  BY <1>1 DEF HandleReplyTo, Counted, AppInv, TypeOK
<1>8. \A b \in Clients : client'[b].id = client[b].id /\ client'[b].sent = client[b].sent
  BY <1>6
<1>9. \A r \in Replicas : \A x : Holds(r, x)' = Holds(r, x)
  BY <1>5 DEF Holds, Has, ExecutedAt
<1>10. UpdatesHeld
  BY <1>9 DEF UpdatesHeld
<1>11. CopiesSent'
  <2> SUFFICES ASSUME NEW x \in msgs', IsNilext(x.req)
               PROVE  /\ x.type \in {"Request", "Reply"} /\ Known(x.req)' /\ x.n # 0
                      /\ x.req.id = client'[x.req.client[1]].id => x.n <= client'[x.req.client[1]].sent
                      /\ x.type = "Reply" =>
                             /\ x.value = NotFound /\ Holds(x.from, x.req)'
                             /\ \A y \in msgs' : ~(/\ y.type = "Request" /\ y.to = x.from
                                                   /\ y.req = x.req /\ y.n = x.n)
    BY DEF CopiesSent
  <2>1. PICK b \in Clients : b = x.req.client[1]
    BY <1>5, MessageFacts, RequestsFacts DEF AppInv, TypeOK
  <2>2. x.type = "Reply" => x.from \in Replicas
    BY <1>5, MessageFacts DEF AppInv, TypeOK
  <2> QED  BY <1>5, <1>8, <1>9, <2>1, <2>2 DEF CopiesInv, CopiesSent, Known
<1>12. \A r \in Replicas : \A x, n : OnItsWay(r, x, n)' => OnItsWay(r, x, n)
  BY <1>5 DEF OnItsWay
<1> DEFINE n == client[c].sent
           A == CountedCopies(q, n)
           B == CountedCopies(q, n)'
<1>13. ASSUME IsNilext(q)
       PROVE  /\ client[c].responses + 1 <= Cardinality(B)
              /\ client'[c].leaderAcked \/ s.leaderAcked => Holds(Leader, q)'
  <2>1. /\ A \subseteq B
        /\ client[c].leaderAcked => Holds(Leader, q)'
    <3>1. PICK k \in Nat : k = n
      BY <1>4
    <3>2. /\ CountedCopies(q, client[c].sent) \subseteq CountedCopies(q, k)'
          /\ client[c].leaderAcked => Holds(Leader, q)'
      BY <1>3, <1>4, <1>10, <1>12, <1>13, <3>1, CountStays DEF CopiesInv
    <3>3. CountedCopies(q, k)' = B
      BY <1>6, <3>1 DEF CountedCopies
    <3> QED  BY <3>2, <3>3
  <2>2. client[c].responses <= Cardinality(A)
    BY <1>3, <1>13 DEF CopiesInv, CopiesCounted
  <2>3. /\ m.value = NotFound /\ Holds(m.from, q) /\ m.n \in 1 .. n
        /\ \A x \in msgs : ~(/\ x.type = "Request" /\ x.to = m.from
                             /\ x.req = q /\ x.n = m.n)
    <3>1. /\ m.value = NotFound /\ Holds(m.from, q) /\ m.n # 0
          /\ q.id = client[q.client[1]].id => m.n <= client[q.client[1]].sent
          /\ \A x \in msgs : ~(/\ x.type = "Request" /\ x.to = m.from
                               /\ x.req = q /\ x.n = m.n)
      BY <1>2, <1>3, <1>13 DEF CopiesInv, CopiesSent
    <3> QED  BY <1>4, <3>1
  <2>4. OnItsWay(m.from, q, m.n)
    BY <1>2, <1>3 DEF OnItsWay
  <2>5. ~OnItsWay(m.from, q, m.n)'
    <3> SUFFICES ASSUME NEW x \in msgs', x.req = q, x.n = m.n,
                        (x.type = "Request" /\ x.to = m.from) \/ (x.type = "Reply" /\ x.from = m.from)
                 PROVE  FALSE
      BY DEF OnItsWay
    <3>1. x \in msgs /\ x \in Messages
      BY <1>5 DEF AppInv, TypeOK
    <3>2. x.type = "Reply" /\ x.from = m.from
      BY <2>3, <3>1
    <3>3. x.value = NotFound
      BY <1>13, <3>1, <3>2 DEF CopiesInv, CopiesSent
    <3>4. x = [type |-> "Reply", from |-> m.from, req |-> q, value |-> NotFound, n |-> m.n]
      BY <3>1, <3>2, <3>3, MessageFacts
    <3>5. m = [type |-> "Reply", from |-> m.from, req |-> q, value |-> NotFound, n |-> m.n]
      BY <1>2, <1>3, <2>3, MessageFacts
    <3> QED  BY <1>5, <3>4, <3>5
  <2> DEFINE p == <<m.from, m.n>>
  <2>6. p \in Replicas \X (1 .. n) /\ p \notin A /\ p \in B
    <3>1. n' = n /\ p \in Replicas \X (1 .. n) /\ p[1] = m.from /\ p[2] = m.n
      BY <1>4, <1>6, <2>3
    <3>2. p \notin A
      BY <2>4, <3>1 DEF CountedCopies
    <3>3. p \in B
      BY <1>4, <1>9, <2>3, <2>5, <3>1 DEF CountedCopies
    <3> QED  BY <3>1, <3>2, <3>3
  <2>7. A \cup {p} \subseteq B /\ B \subseteq Replicas \X (1 .. n)
    BY <1>6, <2>1, <2>6 DEF CountedCopies
  <2> HIDE DEF A, B, p, n
  <2>8. IsFiniteSet(A) /\ Cardinality(A) \in Nat
    BY <1>4, <2>7, CopiesFinite DEF n
  <2>9. Cardinality(A \cup {p}) = Cardinality(A) + 1
    BY <2>6, <2>8, FS_AddElement
  <2>10. Cardinality(A \cup {p}) <= Cardinality(B) /\ Cardinality(B) \in Nat
    BY <1>4, <2>7, CopiesFinite DEF n
  <2>11. client[c].responses + 1 <= Cardinality(B)
    BY <1>4, <2>2, <2>8, <2>9, <2>10
  <2>12. Holds(m.from, q)'
    BY <1>4, <1>9, <2>3
  <2>13. client'[c].leaderAcked \/ s.leaderAcked => Holds(Leader, q)'
    BY <1>7, <2>1, <2>12
  <2> QED  BY <2>11, <2>13
<1>14. CopiesCounted'
  <2> SUFFICES ASSUME NEW b \in Clients, client'[b].pending, IsNilext(Current(b)')
               PROVE  /\ client'[b].sent <= Resends["nilext"] + 1
                      /\ client'[b].responses <= Cardinality(CountedCopies(Current(b), client[b].sent)')
                      /\ client'[b].leaderAcked => Holds(Leader, Current(b))'
    BY DEF CopiesCounted
  <2>1. PICK x : x = Current(b) /\ x = Current(b)'
    BY <1>8 DEF Current
  <2>2. PICK k \in Nat : k = client[b].sent /\ k = client'[b].sent /\ client[b].sent <= k
    <3>1. client[b].sent \in Nat
      BY DEF AppInv, TypeOK
    <3> QED  BY <1>8, <3>1
  <2>3. CountedCopies(Current(b), client[b].sent)' = CountedCopies(x, k)'
    BY <2>1, <2>2 DEF CountedCopies
  <2>4. Holds(Leader, Current(b))' = Holds(Leader, x)'
    BY <2>1 DEF Holds, Has, ExecutedAt
  <2>5. client[b].pending
    BY <1>3, <1>6
  <2>6. client'[b].sent <= Resends["nilext"] + 1
    BY <1>8, <2>1, <2>5 DEF CopiesInv, CopiesCounted
  <2>7. CASE b = c
    <3>1. x = q /\ IsNilext(q)
      BY <1>3, <2>1, <2>7
    <3>2. CountedCopies(x, k)' = B
      BY <1>6, <2>2, <2>7, <3>1 DEF CountedCopies
    <3> QED  BY <1>6, <1>13, <2>3, <2>4, <2>6, <2>7, <3>1, <3>2
  <2>8. CASE b # c
    <3>1. client'[b] = client[b]
      BY <1>6, <2>8
    <3>2. /\ client[b].responses <= Cardinality(CountedCopies(x, k)')
          /\ client[b].leaderAcked => Holds(Leader, x)'
      BY <1>10, <1>12, <2>1, <2>2, <2>5, CountStays DEF CopiesInv
    <3> QED  BY <2>3, <2>4, <2>6, <3>1, <3>2
  <2> QED  BY <2>7, <2>8
<1>15. DurableAsCounted'
  <2> SUFFICES ASSUME NEW d \in done', IsNilext(d.req)
               PROVE  /\ Leader \in HeldBy(d.req)'
                      /\ FastQuorumSize <= (Resends["nilext"] + 1) * Cardinality(HeldBy(d.req)')
    BY DEF DurableAsCounted
  <2>1. CASE d \in done
    BY <1>10, <2>1, DoneStaysHeld DEF CopiesInv
  <2>2. CASE d \notin done
    <3>1. Enough(s, q) /\ d.req = q /\ IsNilext(q)
      BY <1>5, <2>2
    <3>2. client[c].responses + 1 >= FastQuorumSize /\ s.leaderAcked
      BY <1>6, <3>1 DEF Enough, Quorum
    <3>3. Leader \in HeldBy(q)'
      BY <1>13, <3>1, <3>2, LeaderIsReplica DEF HeldBy, Holds, Has
    <3>4. client[c].responses + 1 <= Cardinality(B)
      BY <1>13, <3>1
    <3> DEFINE H == HeldBy(q)
               H1 == HeldBy(q)'
    <3>5. H1 = H
      BY <1>5 DEF HeldBy, ExecutedAt
    <3>6. /\ Cardinality(H) \in Nat /\ Cardinality(B) \in Nat
          /\ Cardinality(B) <= n * Cardinality(H)
      <4>1. H \in SUBSET Replicas /\ B \subseteq H \X (1 .. n)
        BY <1>6, <1>9 DEF CountedCopies, HeldBy, Holds, Has
      <4> HIDE DEF H, B
      <4> QED  BY <1>4, <4>1, CopiesByServer
    <3>7. n <= Resends["nilext"] + 1
      BY <1>3, <3>1 DEF CopiesInv, CopiesCounted
    <3> HIDE DEF B, H, H1, n
    <3>8. /\ n * Cardinality(H) <= (Resends["nilext"] + 1) * Cardinality(H)
          /\ n * Cardinality(H) \in Nat /\ (Resends["nilext"] + 1) * Cardinality(H) \in Nat
      <4>1. n \in Nat /\ Resends["nilext"] + 1 \in Nat
        BY <1>4, ResendsIsNat DEF n
      <4> QED  BY <3>6, <3>7, <4>1, TimesMonotone
    <3>9. FastQuorumSize <= (Resends["nilext"] + 1) * Cardinality(H)
      BY <1>4, <3>2, <3>4, <3>6, <3>8, QuorumIsNat
    <3> QED  BY <3>1, <3>3, <3>5, <3>9 DEF H, H1
  <2> QED  BY <2>1, <2>2
<1> QED  BY <1>11, <1>14, <1>15 DEF CopiesInv

(* HandleRequest keeps CopiesInv: a reply takes the place of its request.    *)
LEMMA CopiesHandleRequest ==
  ASSUME AppInv, CopiesInv, NEW r \in Up, HandleRequest(r)
  PROVE  CopiesInv'
<1>1. PICK m \in msgs : HandleRequestOf(r, m)
  BY DEF HandleRequest, HandleRequestOf
<1>2. PICK q : q = m.req
  OBVIOUS
<1>3. m \in Messages /\ r \in Replicas /\ m.type = "Request" /\ m.to = r
  BY <1>1, DurabilityAssumption DEF AppInv, TypeOK, HandleRequestOf
<1>4. q \in Requests
  BY <1>2, <1>3, MessageFacts
<1>5. UNCHANGED <<applied, decided, executed, client, done, precedes, aborted>>
  BY <1>1 DEF HandleRequestOf, logVars, clientVars
<1>6. \A p \in Replicas : \A x : ExecutedAt(p, x)' = ExecutedAt(p, x)
  BY <1>5 DEF ExecutedAt
<1>7. CASE ~IsNilext(q)
  <2>1. app' = app /\ \A x \in msgs' : x \in msgs \/ x = ToConsensus(m)
    BY <1>1, <1>2, <1>7 DEF HandleRequestOf, Network
  <2>2. \A x \in msgs' : x \in msgs \/ ~IsNilext(x.req)
    BY <1>2, <1>7, <2>1 DEF ToConsensus
  <2>3. UpdatesHeld
    BY <1>6, <2>1 DEF UpdatesHeld, Holds, Has
  <2> QED  BY <1>5, <2>2, <2>3, NothingSent
<1>8. CASE IsNilext(q)
  <2>1. q \in Updates
    BY <1>4, <1>8, RequestsFacts
  <2>2. /\ app' = [app EXCEPT ![r] = MakeDurable(app[r], q)]
        /\ Network({m}, {Reply(r, m, NotFound)})
    BY <1>1, <1>2, <1>8 DEF HandleRequestOf
  <2>3. app[r] \in AppStates(Updates) /\ Distinct(app[r].durabilityLog)
    BY <1>3 DEF AppInv, TypeOK, Indexed
  <2> DEFINE b == MakeDurable(app[r], q)
  <2>4. \A x : Contains(b.durabilityLog, x) <=> Contains(app[r].durabilityLog, x) \/ x = q
    BY <2>1, <2>3, MakeDurableFacts
  <2>5. app'[r] = b /\ \A p \in Replicas : p # r => app'[p] = app[p]
    BY <1>3, <2>2 DEF AppInv, TypeOK
  <2> HIDE DEF b
  <2>6. /\ \A x : Has(r, x)' <=> Has(r, x) \/ x = q
        /\ \A p \in Replicas : p # r => \A x : Has(p, x)' = Has(p, x)
    BY <2>4, <2>5 DEF Has
  <2>7. UpdatesHeld /\ Holds(r, q)'
    BY <1>6, <2>6 DEF UpdatesHeld, Holds
  <2>8. PICK y : y = Reply(r, m, NotFound)
    OBVIOUS
  <2>9. y.type = "Reply" /\ y.from = r /\ y.req = q /\ y.n = m.n /\ y.value = NotFound
    BY <1>2, <2>8 DEF Reply
  <2>10. \A x \in msgs' : (x \in msgs /\ x # m) \/ x = y
    BY <2>2, <2>8 DEF Network
  <2>11. \A p \in Replicas : \A x, n : OnItsWay(p, x, n)' => OnItsWay(p, x, n)
    BY <1>2, <1>3, <2>9, <2>10 DEF OnItsWay
  <2>12. ASSUME NEW x \in msgs', IsNilext(x.req)
         PROVE  /\ x.type \in {"Request", "Reply"} /\ Known(x.req)' /\ x.n # 0
                /\ x.req.id = client'[x.req.client[1]].id => x.n <= client'[x.req.client[1]].sent
                /\ x.type = "Reply" =>
                       /\ x.value = NotFound /\ Holds(x.from, x.req)'
                       /\ \A z \in msgs' : ~(/\ z.type = "Request" /\ z.to = x.from
                                             /\ z.req = x.req /\ z.n = x.n)
    <3>1. CASE x \in msgs
      <4>1. x.type = "Reply" => x.from \in Replicas
        BY <3>1, MessageFacts DEF AppInv, TypeOK
      <4>2. /\ x.type \in {"Request", "Reply"} /\ Known(x.req) /\ x.n # 0
            /\ x.req.id = client[x.req.client[1]].id => x.n <= client[x.req.client[1]].sent
            /\ x.type = "Reply" =>
                   /\ x.value = NotFound /\ Holds(x.from, x.req)
                   /\ \A z \in msgs : ~(/\ z.type = "Request" /\ z.to = x.from
                                        /\ z.req = x.req /\ z.n = x.n)
        BY <2>12, <3>1 DEF CopiesInv, CopiesSent
      <4>3. Known(x.req)' /\ (x.type = "Reply" => Holds(x.from, x.req)')
        BY <1>5, <2>7, <2>12, <4>1, <4>2 DEF Known, UpdatesHeld
      <4>4. x.type = "Reply" => \A z \in msgs' : ~(/\ z.type = "Request" /\ z.to = x.from
                                                   /\ z.req = x.req /\ z.n = x.n)
        BY <2>9, <2>10, <4>2
      <4> QED  BY <1>5, <4>2, <4>3, <4>4
    <3>2. CASE x \notin msgs
      <4>1. x = y
        BY <2>10, <3>2
      <4>2. /\ Known(q) /\ m.n # 0
            /\ q.id = client[q.client[1]].id => m.n <= client[q.client[1]].sent
        BY <1>2, <1>8 DEF CopiesInv, CopiesSent
      <4>3. ASSUME NEW z \in msgs', z.type = "Request", z.to = r, z.req = q, z.n = m.n
            PROVE  FALSE
        <5>1. z \in msgs /\ z # m /\ z \in Messages
          BY <2>9, <2>10, <4>3 DEF AppInv, TypeOK
        <5>2. z = [type |-> "Request", to |-> r, req |-> q, n |-> m.n]
          BY <4>3, <5>1, MessageFacts
        <5>3. m = [type |-> "Request", to |-> r, req |-> q, n |-> m.n]
          BY <1>2, <1>3, MessageFacts
        <5> QED  BY <5>1, <5>2, <5>3
      <4> QED  BY <1>5, <2>7, <2>9, <4>1, <4>2, <4>3 DEF Known
    <3> QED  BY <3>1, <3>2
  <2>13. CopiesSent'
    BY <2>12 DEF CopiesSent
  <2> QED  BY <1>5, <2>7, <2>11, <2>13, NothingCounted
<1> QED  BY <1>7, <1>8

(* EraseUpdate keeps CopiesInv: what is erased has been executed.            *)
LEMMA CopiesEraseUpdate ==
  ASSUME AppInv, CopiesInv, NEW r \in Up, EraseUpdate(r)
  PROVE  CopiesInv'
<1>1. PICK q : q = NextOp(r)
  OBVIOUS
<1>2. r \in Replicas /\ applied[r] /\ executed[r] < Limit(r)
  BY DurabilityAssumption DEF EraseUpdate, AppInv, Executing
<1>3. executed[r] + 1 \in 1 .. Len(decided) /\ executed[r] \in Nat
  BY <1>2, NextOpFacts DEF AppInv, TypeOK
<1>4. /\ UNCHANGED <<client, done>>
      /\ app' = [app EXCEPT ![r] = Erase(app[r], q)]
      /\ applied' = [applied EXCEPT ![r] = FALSE]
      /\ Log!Execute(r, executed[r] + 1)
      /\ Network({}, IF r = Leader /\ q.op = "write"
                     THEN {Reply(r, [req |-> q, n |-> 0], NotFound)} ELSE {})
  BY <1>1 DEF EraseUpdate, clientVars, Upcall
<1>5. /\ executed' = [executed EXCEPT ![r] = executed[r] + 1]
      /\ executed' \in [Replicas -> Nat] /\ decided' = decided
  BY <1>2, <1>4, OneExecuted DEF Log!Execute
<1>6. \A p \in Replicas : executed[p] <= executed'[p]
  BY <1>2, <1>5 DEF AppInv, TypeOK
<1>7. \A p \in Replicas : \A x : ExecutedAt(p, x) => ExecutedAt(p, x)'
  BY <1>5, <1>6, SameLogGrows, ExecutedStays
<1>8. ExecutedAt(r, q)'
  <2>1. executed'[r] = executed[r] + 1
    BY <1>2, <1>5 DEF AppInv, TypeOK
  <2>2. decided'[executed[r] + 1] = q
    BY <1>1, <1>5 DEF NextOp
  <2> QED  BY <1>3, <2>1, <2>2 DEF ExecutedAt
<1> DEFINE b == Erase(app[r], q)
<1>9. IsWithout(b.durabilityLog, app[r].durabilityLog, q)
  BY <1>2, EraseFacts DEF AppInv, TypeOK, Indexed
<1>10. app'[r] = b /\ \A p \in Replicas : p # r => app'[p] = app[p]
  BY <1>2, <1>4 DEF AppInv, TypeOK
<1> HIDE DEF b
<1>11. /\ \A x : Has(r, x)' <=> Has(r, x) /\ x # q
       /\ \A p \in Replicas : p # r => \A x : Has(p, x)' = Has(p, x)
  BY <1>9, <1>10 DEF Has, IsWithout
<1>12. UpdatesHeld
  BY <1>7, <1>8, <1>11 DEF UpdatesHeld, Holds
<1>13. \A m \in msgs' : m \in msgs \/ ~IsNilext(m.req)
  BY <1>4 DEF Network, Reply, IsNilext
<1> QED  BY <1>4, <1>12, <1>13, NothingSent

(* The remaining actions leave the durability logs alone.                   *)
LEMMA CopiesQuiet ==
  ASSUME AppInv, CopiesInv, LogGrows, executed' \in [Replicas -> Nat],
         \A r \in Replicas : executed[r] <= executed'[r],
         \A r \in Replicas : app'[r].durabilityLog = app[r].durabilityLog,
         \A m \in msgs' : m \in msgs \/ ~IsNilext(m.req),
         UNCHANGED <<client, done>>
  PROVE  CopiesInv'
<1>1. UpdatesHeld
  BY LogsHeld DEF Has
<1> QED  BY <1>1, NothingSent

(* FinishRequest keeps CopiesInv.                                           *)
LEMMA CopiesFinishRequest ==
  ASSUME AppInv, CopiesInv, NEW r \in Up, FinishRequest(r)
  PROVE  CopiesInv'
<1> DEFINE m == server[r][1]
<1>1. /\ UNCHANGED <<decided, executed, client, done>>
      /\ \/ /\ IsNilext(m.req) /\ app' = [app EXCEPT ![r] = AddToQueue(app[r], m.req)]
            /\ Network({}, {})
         \/ /\ ~IsNilext(m.req) /\ app' = app
            /\ Network({}, {Reply(r, m, app[r].store[m.req.key])})
  BY DEF FinishRequest, logVars, clientVars
<1>2. LogGrows /\ executed' \in [Replicas -> Nat]
      /\ \A p \in Replicas : executed[p] <= executed'[p]
  BY <1>1, SameLogGrows DEF AppInv, TypeOK
<1>3. \A p \in Replicas : app'[p].durabilityLog = app[p].durabilityLog
  <2>1. AddToQueue(app[r], m.req).durabilityLog = app[r].durabilityLog
    BY DurabilityAssumption DEF AddToQueue, AppStates, AppInv, TypeOK
  <2> QED  BY <1>1, <2>1 DEF AppInv, TypeOK
<1>4. \A x \in msgs' : x \in msgs \/ ~IsNilext(x.req)
  BY <1>1 DEF Network, Reply
<1> QED  BY <1>1, <1>2, <1>3, <1>4, CopiesQuiet

(* BgRepl keeps CopiesInv.                                                  *)
LEMMA CopiesBgRepl ==
  ASSUME AppInv, CopiesInv, BgRepl
  PROVE  CopiesInv'
<1>1. PICK q : q = Head(app[Leader].queue)
  OBVIOUS
<1>2. /\ UNCHANGED <<client, done, msgs>>
      /\ app' = [app EXCEPT ![Leader].queue = Tail(@)]
      /\ Log!Decide(q) \/ UNCHANGED <<decided, executed>>
      /\ app[Leader].queue # <<>>
  BY <1>1 DEF BgRepl, clientVars, logVars
<1>3. app[Leader].queue \in Seq(Updates)
  BY LeaderIsReplica, AppFields DEF AppInv, TypeOK
<1>4. q \in Requests
  BY <1>1, <1>2, <1>3 DEF Updates
<1>5. LogGrows /\ executed' = executed
  BY <1>2, <1>4, DecideFacts, SameLogGrows
<1>6. executed' \in [Replicas -> Nat] /\ \A p \in Replicas : executed[p] <= executed'[p]
  BY <1>5 DEF AppInv, TypeOK
<1>7. \A p \in Replicas : app'[p].durabilityLog = app[p].durabilityLog
  BY <1>2 DEF AppInv, TypeOK, AppStates
<1> QED  BY <1>2, <1>5, <1>6, <1>7, CopiesQuiet

(* HandleConsensusRequest keeps CopiesInv.                                  *)
LEMMA CopiesHandleConsensusRequest ==
  ASSUME AppInv, CopiesInv, HandleConsensusRequest
  PROVE  CopiesInv'
<1>1. PICK m \in msgs : ConsensusRequestOf(m)
  BY ConsensusRequestPicked
<1>2. m.req \in Requests /\ m.type = "ConsensusRequest"
  BY <1>1, MessageFacts DEF AppInv, TypeOK, ConsensusRequestOf
<1>3. ~IsNilext(m.req)
  BY <1>2 DEF CopiesInv, CopiesSent
<1>4. /\ UNCHANGED <<app, client, done>>
      /\ Log!Decide(m.req) \/ UNCHANGED <<decided, executed>>
  BY <1>1 DEF ConsensusRequestOf, serverVars, clientVars, logVars
<1>5. LogGrows /\ executed' = executed
  BY <1>2, <1>4, DecideFacts, SameLogGrows
<1>6. executed' \in [Replicas -> Nat] /\ \A p \in Replicas : executed[p] <= executed'[p]
  BY <1>5 DEF AppInv, TypeOK
<1>7. \A x \in msgs' : x \in msgs \/ ~IsNilext(x.req)
  <2>1. \A x \in msgs' : x \in msgs \/ x.req = m.req
    BY <1>1 DEF ConsensusRequestOf, Network, Reply
  <2> QED  BY <1>3, <2>1
<1> QED  BY <1>4, <1>5, <1>6, <1>7, CopiesQuiet

(* The actions of consensus and execution keep CopiesInv.                   *)
LEMMA CopiesOther ==
  ASSUME AppInv, CopiesInv, NEW r \in Up,
         HandleConsensusReply(r) \/ ApplyUpdate(r) \/ ExecuteRead(r)
  PROVE  CopiesInv'
<1>1. r \in Replicas /\ app \in [Replicas -> AppStates(Updates)] /\ executed \in [Replicas -> Nat]
  BY DurabilityAssumption DEF AppInv, TypeOK
<1>2. CASE HandleConsensusReply(r)
  <2>1. /\ UNCHANGED <<app, decided, executed, client, done>>
        /\ \E m \in msgs : Network({m}, {})
    BY <1>2 DEF HandleConsensusReply, logVars, clientVars
  <2>2. msgs' \subseteq msgs
    BY <2>1 DEF Network
  <2> QED  BY <1>1, <2>1, <2>2, SameLogGrows, CopiesQuiet
<1>3. CASE ApplyUpdate(r)
  <2>1. /\ UNCHANGED <<decided, executed, client, done, msgs>>
        /\ app' = [app EXCEPT ![r] = Apply(app[r], NextOp(r))]
    BY <1>3 DEF ApplyUpdate, clientVars, logVars, Upcall
  <2>2. Apply(app[r], NextOp(r)).durabilityLog = app[r].durabilityLog
    BY <1>1 DEF Apply, AppStates
  <2>3. \A p \in Replicas : app'[p].durabilityLog = app[p].durabilityLog
    BY <1>1, <2>1, <2>2
  <2> QED  BY <1>1, <2>1, <2>3, SameLogGrows, CopiesQuiet
<1>4. CASE ExecuteRead(r)
  <2>1. /\ UNCHANGED <<app, client, done>>
        /\ Log!Execute(r, executed[r] + 1) /\ NextOp(r).op = "read"
        /\ Network({}, IF r = Leader THEN {Reply(r, [req |-> NextOp(r), n |-> 0],
                                                app[r].store[NextOp(r).key])} ELSE {})
    BY <1>4 DEF ExecuteRead, clientVars, serverVars
  <2>2. /\ executed' = [executed EXCEPT ![r] = executed[r] + 1] /\ decided' = decided
    BY <2>1 DEF Log!Execute
  <2>3. executed' \in [Replicas -> Nat] /\ \A p \in Replicas : executed[p] <= executed'[p]
    BY <1>1, <2>2
  <2>4. \A x \in msgs' : x \in msgs \/ ~IsNilext(x.req)
    BY <2>1 DEF Network, Reply, IsNilext
  <2> QED  BY <2>1, <2>2, <2>3, <2>4, SameLogGrows, CopiesQuiet
<1> QED  BY <1>2, <1>3, <1>4

(* CopiesInv is inductive, for every trace and number of retransmissions.   *)
LEMMA CopiesInitially == Init => CopiesInv
BY DEF Init, CopiesInv, CopiesSent, CopiesCounted, DurableAsCounted

(* ... every action and the stutter keep it.                                *)
LEMMA CopiesInductive == AppInv /\ CopiesInv /\ [Next]_vars => CopiesInv'
<1> SUFFICES ASSUME AppInv, CopiesInv, [Next]_vars PROVE CopiesInv'
  OBVIOUS
<1>1. CASE UNCHANGED vars
  <2>1. UNCHANGED <<app, decided, executed, client, msgs, done>>
    BY <1>1 DEF vars
  <2>2. executed' \in [Replicas -> Nat] /\ \A p \in Replicas : executed[p] <= executed'[p]
    BY <2>1 DEF AppInv, TypeOK
  <2> QED  BY <2>1, <2>2, SameLogGrows, CopiesQuiet
<1>2. ASSUME NEW c \in Clients, Invoke(c) \/ ResendRequest(c) \/ HandleReply(c)
      PROVE  CopiesInv'
  BY <1>2, CopiesInvoke, CopiesResendRequest, CopiesHandleReply
<1>3. ASSUME NEW r \in Up, HandleRequest(r) \/ FinishRequest(r) \/ HandleConsensusReply(r)
      PROVE  CopiesInv'
  BY <1>3, CopiesHandleRequest, CopiesFinishRequest, CopiesOther
<1>4. ASSUME NEW r \in Up, ApplyUpdate(r) \/ EraseUpdate(r) \/ ExecuteRead(r)
      PROVE  CopiesInv'
  BY <1>4, CopiesOther, CopiesEraseUpdate
<1> QED  BY <1>1, <1>2, <1>3, <1>4, CopiesBgRepl, CopiesHandleConsensusRequest DEF Next

(* Whatever clients retransmit and the network loses or delays, what a client is *)
(* told that its update is durable is worth this: it is at the leader, and at as *)
(* many servers as it takes to send FastQuorumSize replies to the copies of it.  *)
THEOREM DurableHolds == Spec => []DurableAsCounted
<1>1. Init => AppInv /\ CopiesInv
  BY AppInitially, CopiesInitially
<1>2. AppInv /\ CopiesInv /\ [Next]_vars => (AppInv /\ CopiesInv)'
  BY AppInductive, CopiesInductive
<1>3. CopiesInv => DurableAsCounted
  BY DEF CopiesInv
<1> QED  BY <1>1, <1>2, <1>3, PTL DEF Spec

(* Without retransmissions of updates, that is a supermajority (client.cc:91).   *)
COROLLARY DurableOnceHolds ==
  ASSUME UpdatesOnce
  PROVE  Spec => []DurableOnSupermajority
<1>1. DurableAsCounted => DurableOnSupermajority
  <2> SUFFICES ASSUME DurableAsCounted, NEW d \in done, IsNilext(d.req)
               PROVE  Cardinality(HeldBy(d.req)) >= FastQuorumSize
    BY DEF DurableOnSupermajority
  <2>1. PICK k : k = Cardinality(HeldBy(d.req))
    OBVIOUS
  <2>2. HeldBy(d.req) \in SUBSET Replicas
    BY DEF HeldBy
  <2>3. k \in Nat
    BY <2>1, <2>2, MoreReplicas
  <2>4. FastQuorumSize <= (0 + 1) * k
    BY <2>1 DEF DurableAsCounted, UpdatesOnce
  <2> QED  BY <2>1, <2>3, <2>4, QuorumIsNat
<1> QED  BY <1>1, DurableHolds, PTL

-------------------------------------------------------------------------------
(* What this means for clients                                             *)

(* A completed update that is not executed is in the durability logs of a        *)
(* supermajority, so that every f+1 replicas have a log with it.                 *)
LEMMA OnlyDurableHeld ==
  ASSUME Inv, NEW q \in OnlyDurable
  PROVE  /\ q \in Updates /\ IsNilext(q)
         /\ \A r \in Replicas : ~ExecutedAt(r, q)
         /\ Cardinality(SettledAt(q)) >= FastQuorumSize
         /\ \A r \in SettledAt(q) : Has(r, q)
<1>1. q \in Updates /\ IsNilext(q) /\ ~ExecutedAt(Leader, q) /\ \E d \in done : d.req = q
  BY DEF OnlyDurable
<1>2. Cardinality(SettledAt(q)) >= FastQuorumSize
  BY <1>1 DEF Inv, DurableInv, CompletedSettled
<1>3. ASSUME NEW r \in Replicas PROVE ~ExecutedAt(r, q)
  <2>1. /\ executed[r] \in Nat /\ executed[Leader] \in Nat /\ executed[r] <= Limit(r)
    BY LeaderIsReplica DEF Inv, AppInv, TypeOK, Executing
  <2>2. r # Leader => 1 .. executed[r] \subseteq 1 .. executed[Leader]
    BY <2>1 DEF Limit
  <2> QED  BY <1>1, <2>2 DEF ExecutedAt
<1> QED  BY <1>1, <1>2, <1>3 DEF SettledAt, Settled

(* A supermajority and a view change's f+1 replicas have one in common.     *)
LEMMA QuorumsMeet ==
  ASSUME NEW A \in SUBSET Replicas, Cardinality(A) >= FastQuorumSize,
         NEW V \in ViewChangeQuorums
  PROVE  V \in SUBSET Replicas /\ \E r \in V : r \in A
<1>1. V \in SUBSET Replicas /\ Cardinality(V) = QuorumSize
  BY DEF ViewChangeQuorums
<1>2. Cardinality(V) >= QuorumSize
  BY <1>1, QuorumIsNat
<1>3. Cardinality(A \cap V) >= RequiredVotes
  BY <1>1, <1>2, SupermajorityOverlap
<1>4. A \cap V # {}
  BY <1>3, QuorumIsNat, FS_EmptySet
<1> QED  BY <1>1, <1>4

(* Whichever f+1 replicas take part in a view change, no completed update is     *)
(* missing from the durability logs they merge (replica.cc:1216).                *)
THEOREM CompletedSurviveHolds ==
  ASSUME UpdatesOnce
  PROVE  Spec => []CompletedSurvive
<1>1. Inv => CompletedSurvive
  <2> SUFFICES ASSUME Inv, NEW V \in ViewChangeQuorums, NEW q \in OnlyDurable
               PROVE  q \in DurabilitySet(DurabilityLogs, V)
    BY DEF CompletedSurvive
  <2>1. /\ Cardinality(SettledAt(q)) >= FastQuorumSize
        /\ \A r \in SettledAt(q) : Has(r, q)
    BY OnlyDurableHeld
  <2>2. SettledAt(q) \in SUBSET Replicas
    BY DEF SettledAt
  <2>3. PICK r \in V : r \in SettledAt(q) /\ r \in Replicas
    BY <2>1, <2>2, QuorumsMeet
  <2>4. Contains(DurabilityLogs[r], q) /\ DurabilityLogs[r] \in Seq(Updates)
    BY <2>1, <2>3, AppFields DEF Has, DurabilityLogs, Inv, AppInv, TypeOK
  <2>5. q \in ToSet(DurabilityLogs[r])
    BY <2>4 DEF Contains, ToSet
  <2> QED  BY <2>3, <2>5 DEF DurabilitySet
<1> QED  BY <1>1, InvHolds, PTL

(* ... and if one was completed before another was sent, the new leader's graph  *)
(* has the edge between them: requiredVotes of the logs it merges vote for it.   *)
THEOREM CompletedKeepOrderHolds ==
  ASSUME UpdatesOnce
  PROVE  Spec => []CompletedKeepOrder
<1>1. Inv => CompletedKeepOrder
  <2> SUFFICES ASSUME Inv, NEW V \in ViewChangeQuorums, NEW p \in OnlyDurable, NEW q \in OnlyDurable,
                      <<p, q>> \in precedes
               PROVE  Edge(DurabilityLogs, V, p, q)
    BY DEF CompletedKeepOrder
  <2>1. /\ IsNilext(p) /\ IsNilext(q) /\ p \in Updates
        /\ \A r \in Replicas : ~ExecutedAt(r, p)
    BY OnlyDurableHeld
  <2>2. p # q /\ Cardinality(OrderedAt(p, q)) >= FastQuorumSize
    BY <2>1 DEF Inv, DurableInv, CompletedOrdered
  <2> DEFINE A == OrderedAt(p, q)
  <2>3. A \in SUBSET Replicas
    BY DEF OrderedAt
  <2>4. ASSUME NEW r \in A PROVE Supports(DurabilityLogs[r], p, q)
    <3>1. r \in Replicas /\ Ordered(r, p, q) /\ Has(r, p)
      BY <2>1 DEF OrderedAt, Ordered, Settled
    <3>2. PICK s : s = app[r].durabilityLog /\ s = DurabilityLogs[r]
      BY <3>1 DEF DurabilityLogs
    <3>3. s \in Seq(Updates)
      BY <3>1, <3>2, AppFields DEF Inv, AppInv, TypeOK
    <3>4. Distinct(s)
      BY <3>1, <3>2 DEF Inv, AppInv, Indexed
    <3>5. Contains(s, p) /\ (Contains(s, q) => InOrder(s, p, q))
      BY <3>1, <3>2 DEF Ordered, Has
    <3>6. Supports(s, p, q)
      BY <3>3, <3>4, <3>5, OrderedPositions
    <3> QED  BY <3>2, <3>6
  <2>5. V \in SUBSET Replicas /\ Cardinality(V) >= QuorumSize
    BY QuorumIsNat DEF ViewChangeQuorums
  <2>6. Cardinality(A) >= FastQuorumSize
    BY <2>2
  <2> HIDE DEF A
  <2> QED  BY <2>2, <2>3, <2>4, <2>5, <2>6, SupermajorityEdge
<1> QED  BY <1>1, InvHolds, PTL

===============================================================================
