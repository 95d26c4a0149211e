--------------------------- MODULE VRReplicaProofs ---------------------------
(***************************************************************************)
(* Theorems about VRReplica, for every configuration, set of clients,      *)
(* trace, bound and network behaviour.                                     *)
(*                                                                         *)
(* The inductive invariant is TypeOK together with LogsFollowLeader.  Each *)
(* action changes one replica, from rep[r] to t, and sends messages; it is *)
(* a GoodChange when t keeps what it has executed and t and the messages   *)
(* agree with the log of the leader after the step.  The first part has    *)
(* lemmas about the functions of VRState: the fields they change have the  *)
(* declared types; the last one is about the quorums that hold what has    *)
(* been executed.                                                          *)
(***************************************************************************)
EXTENDS VRReplica, WellFoundedInduction, SequenceTheorems, FiniteSetTheorems, TLAPS

-------------------------------------------------------------------------------
(* Smallest and largest elements                                           *)

\* A set of natural numbers has a smallest element.
LEMMA LeastNumber ==
    ASSUME NEW S, S \subseteq Nat, S # {}
    PROVE  \E x \in S : \A y \in S : x <= y
<1>1. IsWellFoundedOn(OpToRel(<, Nat), Nat)
  BY NatLessThanWellFounded
<1>2. PICK x \in S : \A y \in S : ~ (<<y, x>> \in OpToRel(<, Nat))
  BY <1>1, WFMin
<1>3. \A y \in S : ~ (y < x)
  BY <1>2 DEF OpToRel
<1>. QED BY <1>3

\* Min of a set of natural numbers is that element.
LEMMA MinOfNat ==
    ASSUME NEW S, S \subseteq Nat, S # {}
    PROVE  Min(S) \in S /\ \A x \in S : Min(S) <= x
BY LeastNumber DEF Min

\* Max of a bounded set of natural numbers is its largest element.
LEMMA MaxOfNat ==
    ASSUME NEW S, S \subseteq Nat, S # {}, NEW b \in Nat, \A x \in S : x <= b
    PROVE  Max(S) \in S /\ \A x \in S : x <= Max(S)
<1>. DEFINE T == {b - x : x \in S}
<1>1. T \subseteq Nat /\ T # {}
  <2>1. \A x \in S : b - x \in Nat
    OBVIOUS
  <2>. QED BY <2>1
<1>2. PICK n \in T : \A m \in T : n <= m
  BY <1>1, LeastNumber
<1>3. PICK x \in S : n = b - x
  BY <1>2
<1>4. \A y \in S : x >= y
  <2>. TAKE y \in S
  <2>1. b - y \in T
    OBVIOUS
  <2>2. n <= b - y
    BY <1>2, <2>1
  <2>. QED BY <1>3, <2>2
<1>. QED BY <1>4 DEF Max

\* CommitUpTo and RepliesTo stop at the smaller of two opnums.
LEMMA MinOfTwo ==
    ASSUME NEW i \in Int, NEW j \in Int
    PROVE  Min({i, j}) = IF i <= j THEN i ELSE j
BY DEF Min

\* PREPAREOKs start at the larger of two opnums.
LEMMA MaxOfTwo ==
    ASSUME NEW i \in Int, NEW j \in Int
    PROVE  Max({i, j}) = IF i >= j THEN i ELSE j
BY DEF Max

\* A request names a client and its position in the client's trace.
LEMMA RequestFields ==
    ASSUME NEW q \in Requests
    PROVE  /\ q.client \in Clients
           /\ q.id \in 1 .. Len(Trace[q.client])
           /\ q.kind \in Kinds
           /\ Len(Trace[q.client]) \in Nat
BY TraceAssumption DEF Requests

\* The leader of a view is a replica.
LEMMA LeaderType ==
    ASSUME NEW v \in Views
    PROVE  GetLeaderIndex(v) \in Replicas
BY ConfigAssumption DEF GetLeaderIndex, Replicas, Views

-------------------------------------------------------------------------------
(* The client table                                                        *)

Tables == [Clients -> TableEntries]

\* The ids of the requests in a sequence are bounded by the client's trace.
LEMMA IdsBounded ==
    ASSUME NEW qs \in Seq(Requests), NEW c \in Clients
    PROVE  /\ IdsOf(c, qs) \subseteq Nat
           /\ Len(Trace[c]) \in Nat
           /\ \A i \in IdsOf(c, qs) : i <= Len(Trace[c])
<1>1. \A k \in 1 .. Len(qs) : qs[k] \in Requests
  OBVIOUS
<1>2. Len(Trace[c]) \in Nat
  BY TraceAssumption
<1>. QED BY <1>1, <1>2, RequestFields DEF IdsOf

\* UpdateClientTable leaves a client table.
LEMMA UpdateClientTableType ==
    ASSUME NEW table \in Tables, NEW qs \in Seq(Requests)
    PROVE  UpdateClientTable(table, qs) \in Tables
<1>1. ASSUME NEW c \in Clients, NEW i \in IdsOf(c, qs)
      PROVE  [NewClient EXCEPT !.lastReqId = Max(IdsOf(c, qs))] \in TableEntries
  <2>1. Max(IdsOf(c, qs)) \in Nat
    BY <1>1, IdsBounded, MaxOfNat
  <2>. QED BY <2>1 DEF NewClient, TableEntries, Views
<1>. QED BY <1>1 DEF UpdateClientTable, Tables

\* The opnum and the request named by a stored reply are those of a log entry.
LEMMA StoreRepliesType ==
    ASSUME NEW s \in ReplicaStates, NEW n \in Nat, n <= Len(s.log),
           NEW ops, ops \subseteq 1 .. n
    PROVE  StoreReplies(s, ops) \in Tables
<1>1. s.log \in Seq(Entries) /\ s.clientTable \in Tables
  BY DEF ReplicaStates, Tables
<1>2. \A k \in ops : k \in Nat /\ k <= n /\ s.log[k] \in Entries
  <2>. TAKE k \in ops
  <2>1. k \in Nat /\ 1 <= k /\ k <= n /\ Len(s.log) \in Nat
    BY <1>1
  <2>. QED BY <1>1, <2>1, ElementOfSeq
<1>3. ASSUME NEW c \in Clients,
             NEW newer, newer = {k \in ops : /\ s.log[k].req.client = c
                                    /\ s.clientTable[c].lastReqId <= s.log[k].req.id},
             newer # {}
      PROVE  [lastReqId |-> Max({s.log[k].req.id : k \in newer}), replied |-> TRUE,
              view |-> s.log[Max({k \in newer :
                           s.log[k].req.id = Max({s.log[j].req.id : j \in newer})})].view,
              opnum |-> Max({k \in newer :
                           s.log[k].req.id = Max({s.log[j].req.id : j \in newer})})]
             \in TableEntries
  <2>. DEFINE ids == {s.log[k].req.id : k \in newer}
              same == {k \in newer : s.log[k].req.id = Max(ids)}
  <2>1. Len(Trace[c]) \in Nat
    BY TraceAssumption
  <2>2. \A k \in newer : s.log[k].req.id \in Nat /\ s.log[k].req.id <= Len(Trace[c])
    <3>. TAKE k \in newer
    <3>1. s.log[k] \in Entries /\ s.log[k].req.client = c
      BY <1>2, <1>3
    <3>2. s.log[k].req \in Requests
      BY <3>1 DEF Entries
    <3>. QED BY <2>1, <3>1, <3>2, RequestFields
  <2>3. Max(ids) \in ids /\ Max(ids) \in Nat
    <3>1. ids \subseteq Nat /\ ids # {} /\ \A i \in ids : i <= Len(Trace[c])
      BY <2>2, <1>3
    <3>. HIDE DEF ids
    <3>. QED BY <3>1, <2>1, MaxOfNat
  <2>4. Max(same) \in same
    <3>1. same \subseteq Nat /\ same # {} /\ \A i \in same : i <= n
      BY <2>3, <1>2, <1>3
    <3>. HIDE DEF same
    <3>. QED BY <3>1, MaxOfNat
  <2>5. Max(same) \in Nat /\ s.log[Max(same)] \in Entries
    BY <2>4, <1>2, <1>3
  <2>6. s.log[Max(same)].view \in Views
    BY <2>5 DEF Entries
  <2>. HIDE DEF ids, same
  <2>7. [lastReqId |-> Max(ids), replied |-> TRUE, view |-> s.log[Max(same)].view,
         opnum |-> Max(same)] \in TableEntries
    BY <2>3, <2>5, <2>6 DEF TableEntries
  <2>. QED BY <2>7 DEF ids, same
<1>4. s.clientTable \in [Clients -> TableEntries]
  BY <1>1 DEF Tables
<1>. QED BY <1>3, <1>4 DEF StoreReplies, Tables

-------------------------------------------------------------------------------
(* Replica states                                                          *)

\* A log piece between two opnums of the log is a sequence of requests.
LEMMA RequestsAtType ==
    ASSUME NEW log \in Seq(Entries), NEW first \in Nat \ {0}, NEW last \in Nat,
           last <= Len(log)
    PROVE  /\ RequestsAt(log, first, last) \in Seq(Requests)
           /\ first <= last + 1 => Len(RequestsAt(log, first, last)) = last + 1 - first
           /\ \A k \in 1 .. last + 1 - first :
                  RequestsAt(log, first, last)[k] = log[first + k - 1].req
<1>. DEFINE n == IF first <= last THEN last + 1 - first ELSE 0
<1>1. n \in Nat /\ 1 .. last + 1 - first = 1 .. n
  OBVIOUS
<1>2. ASSUME NEW k \in 1 .. n
      PROVE  log[first + k - 1].req \in Requests
  <2>1. first + k - 1 \in 1 .. Len(log)
    BY <1>2
  <2>2. log[first + k - 1] \in Entries
    BY <2>1, ElementOfSeq
  <2>. QED BY <2>2 DEF Entries
<1>3. RequestsAt(log, first, last) = [k \in 1 .. n |-> log[first + k - 1].req]
  BY <1>1 DEF RequestsAt
<1>. HIDE DEF n
<1>4. RequestsAt(log, first, last) \in [1 .. n -> Requests]
  BY <1>2, <1>3
<1>5. RequestsAt(log, first, last) \in Seq(Requests) /\ Len(RequestsAt(log, first, last)) = n
  BY <1>1, <1>4
<1>. QED BY <1>1, <1>3, <1>5 DEF n

\* The types of the fields, in the form the proofs use.
LEMMA StateFields ==
    ASSUME NEW s \in ReplicaStates
    PROVE  /\ s.view \in Nat /\ s.log \in Seq(Entries) /\ Len(s.log) \in Nat
           /\ s.lastOp \in Nat /\ s.lastCommitted \in Nat /\ s.lastBatchEnd \in Nat
           /\ s.lastPrepare \in Batches /\ s.clientTable \in Tables
           /\ s.addresses \in SUBSET Clients /\ s.timers \in SUBSET Timers
           /\ s.prepareOKs \in SUBSET (Nat \X Replicas)
           /\ s.pending \in Seq(Batches) /\ s.work \in Seq(Batches)
           /\ s.queue \in Seq(Requests) /\ s.batchComplete \in BOOLEAN
<1>1. s.log \in Seq(Entries)
  BY DEF ReplicaStates
<1>2. Len(s.log) \in Nat
  BY <1>1
<1>. QED BY <1>1, <1>2 DEF ReplicaStates, Views, Tables

\* A killed replica keeps its fields.
LEMMA AbortType ==
    ASSUME NEW s \in ReplicaStates
    PROVE  Abort(s) \in ReplicaStates
<1>. DEFINE dead == TRUE
<1>1. dead \in BOOLEAN
  OBVIOUS
<1>2. Abort(s) = [s EXCEPT !.aborted = dead]
  BY DEF Abort
<1>. HIDE DEF dead
<1>. QED BY <1>1, <1>2 DEF ReplicaStates

\* The fields that CommitUpTo and SendPrepareOKs leave alone.
SameButCommitted(s, t) ==
    /\ t.view = s.view /\ t.status = s.status
    /\ t.log = s.log /\ t.lastOp = s.lastOp /\ t.lastBatchEnd = s.lastBatchEnd
    /\ t.lastPrepare = s.lastPrepare /\ t.pending = s.pending /\ t.work = s.work
    /\ t.timers = s.timers /\ t.queue = s.queue

\* The executed part of the log grows, and never beyond its end.
LEMMA CommitUpToType ==
    ASSUME NEW s \in ReplicaStates, NEW upto \in Nat, s.lastCommitted <= Len(s.log)
    PROVE  /\ CommitUpTo(s, upto) \in ReplicaStates
           /\ s.lastCommitted <= CommitUpTo(s, upto).lastCommitted
           /\ CommitUpTo(s, upto).lastCommitted <= Len(s.log)
           /\ SameButCommitted(s, CommitUpTo(s, upto))
<1>1. /\ s.lastCommitted \in Nat /\ Len(s.log) \in Nat /\ s.log \in Seq(Entries)
  BY DEF ReplicaStates
<1>2. CASE upto <= s.lastCommitted
  BY <1>1, <1>2 DEF CommitUpTo, SameButCommitted
<1>3. CASE ~ (upto <= s.lastCommitted)
  <2>. DEFINE n == CommitPoint(s, upto)
              table == StoreReplies(s, CommittedOps(s, upto))
              fail == upto > Len(s.log)
  <2>1. n \in Nat /\ s.lastCommitted <= n /\ n <= Len(s.log)
    BY <1>1, <1>3, MinOfTwo DEF CommitPoint
  <2>2. table \in Tables
    <3>1. CommittedOps(s, upto) \subseteq 1 .. n
      BY <1>1, <2>1 DEF CommittedOps
    <3>. QED BY <2>1, <3>1, StoreRepliesType
  <2>3. CommitUpTo(s, upto) = [s EXCEPT !.lastCommitted = n, !.clientTable = table,
                                        !.aborted = fail]
    BY <1>3 DEF CommitUpTo
  <2>4. fail \in BOOLEAN
    OBVIOUS
  <2>. HIDE DEF n, table, fail
  <2>5. CommitUpTo(s, upto) \in ReplicaStates
    BY <2>1, <2>2, <2>3, <2>4 DEF ReplicaStates, Tables
  <2>6. CommitUpTo(s, upto).lastCommitted = n /\ SameButCommitted(s, CommitUpTo(s, upto))
    BY <2>3 DEF ReplicaStates, SameButCommitted
  <2>. QED BY <2>1, <2>5, <2>6
<1>. QED BY <1>2, <1>3

\* Every reply is one a ReplyMessage can carry.
LEMMA RepliesToType ==
    ASSUME NEW s \in ReplicaStates, NEW r \in Replicas, NEW upto \in Nat
    PROVE  RepliesTo(s, r, upto) \subseteq ReplyMessages
<1>1. ASSUME NEW k \in CommittedOps(s, upto)
      PROVE  k \in Nat /\ s.log[k] \in Entries
  <2>1. s.lastCommitted \in Nat /\ Len(s.log) \in Nat /\ s.log \in Seq(Entries)
    BY DEF ReplicaStates
  <2>2. CommitPoint(s, upto) \in Nat /\ CommitPoint(s, upto) <= Len(s.log)
    BY <2>1, MinOfTwo DEF CommitPoint
  <2>3. k \in 1 .. Len(s.log)
    BY <1>1, <2>1, <2>2 DEF CommittedOps
  <2>. QED BY <2>1, <2>3, ElementOfSeq
<1>. QED BY <1>1 DEF RepliesTo, ReplyMessages, Entries

\* SendPrepareOKs only tells the client table.
LEMMA SendPrepareOKsType ==
    ASSUME NEW s \in ReplicaStates, NEW old \in Nat
    PROVE  /\ SendPrepareOKs(s, old) \in ReplicaStates
           /\ SendPrepareOKs(s, old).lastCommitted = s.lastCommitted
           /\ SameButCommitted(s, SendPrepareOKs(s, old))
<1>. DEFINE first == Max({old, s.lastCommitted + 1})
<1>1. /\ s.lastCommitted \in Nat /\ s.lastOp \in Nat /\ s.log \in Seq(Entries)
      /\ s.clientTable \in Tables
  BY DEF ReplicaStates, Tables
<1>2. first \in Nat \ {0}
  BY <1>1, MaxOfTwo
<1>. HIDE DEF first
<1>3. CASE ~CanPrepare(s, first, s.lastOp)
  BY <1>3, AbortType DEF SendPrepareOKs, first, Abort, SameButCommitted, ReplicaStates
<1>4. CASE CanPrepare(s, first, s.lastOp)
  <2>. DEFINE table == UpdateClientTable(s.clientTable, RequestsAt(s.log, first, s.lastOp))
  <2>1. table \in Tables
    <3>1. RequestsAt(s.log, first, s.lastOp) \in Seq(Requests)
      BY <1>1, <1>2, <1>4, RequestsAtType DEF CanPrepare
    <3>. QED BY <1>1, <3>1, UpdateClientTableType
  <2>2. SendPrepareOKs(s, old) = [s EXCEPT !.clientTable = table]
    BY <1>4 DEF SendPrepareOKs, first
  <2>. HIDE DEF table
  <2>. QED BY <2>1, <2>2 DEF ReplicaStates, Tables, SameButCommitted
<1>. QED BY <1>3, <1>4

\* It acknowledges operations of the log to the leader.
LEMMA PrepareOKsForType ==
    ASSUME NEW s \in ReplicaStates, NEW r \in Replicas, NEW old \in Nat
    PROVE  PrepareOKsFor(s, r, old) \subseteq Messages
<1>1. s.lastCommitted \in Nat /\ s.lastOp \in Nat /\ s.view \in Nat
  BY DEF ReplicaStates, Views
<1>2. Max({old, s.lastCommitted + 1}) \in Nat
  BY <1>1, MaxOfTwo
<1>3. \A k \in NewUncommitted(s, old) : k \in Nat
  BY <1>1, <1>2 DEF NewUncommitted
<1>4. \A k \in Nat : PrepareOK(s, r, k) \in Messages
  BY <1>1, LeaderType DEF PrepareOK, Messages, Views
<1>. QED BY <1>3, <1>4 DEF PrepareOKsFor

-------------------------------------------------------------------------------
(* Ordering and batches                                                    *)

\* t has the log, the batches and the progress of s.
SameLog(s, t) ==
    /\ t.view = s.view /\ t.status = s.status
    /\ t.log = s.log /\ t.lastOp = s.lastOp /\ t.lastCommitted = s.lastCommitted
    /\ t.pending = s.pending /\ t.work = s.work /\ t.lastPrepare = s.lastPrepare

\* The queue gets or loses a request.
LEMMA QueueChange ==
    ASSUME NEW s \in ReplicaStates, NEW qs \in Seq(Requests),
           NEW t, t = [s EXCEPT !.queue = qs]
    PROVE  t \in ReplicaStates /\ SameLog(s, t) /\ t.timers = s.timers
BY DEF ReplicaStates, SameLog

\* A client's address is noted.
LEMMA AddressesChange ==
    ASSUME NEW s \in ReplicaStates, NEW cs \in SUBSET Clients,
           NEW t, t = [s EXCEPT !.addresses = cs]
    PROVE  t \in ReplicaStates /\ SameLog(s, t) /\ t.timers = s.timers
BY DEF ReplicaStates, SameLog

\* A timer is started.
LEMMA TimersChange ==
    ASSUME NEW s \in ReplicaStates, NEW ts \in SUBSET Timers,
           NEW t, t = [s EXCEPT !.timers = ts]
    PROVE  t \in ReplicaStates /\ SameLog(s, t) /\ t.timers = ts
BY DEF ReplicaStates, SameLog

\* A state transfer is asked for, or may be asked for again.
LEMMA TransferChange ==
    ASSUME NEW s \in ReplicaStates, NEW x \in Views \X Nat,
           NEW t, t = [s EXCEPT !.lastTransfer = x]
    PROVE  t \in ReplicaStates /\ SameLog(s, t) /\ t.timers = s.timers
BY DEF ReplicaStates, SameLog

\* An acknowledgement is recorded.
LEMMA AcksChange ==
    ASSUME NEW s \in ReplicaStates, NEW oks \in SUBSET (Nat \X Replicas),
           NEW t, t = [s EXCEPT !.prepareOKs = oks]
    PROVE  t \in ReplicaStates /\ SameLog(s, t) /\ t.timers = s.timers
BY DEF ReplicaStates, SameLog

\* The outstanding batch is committed.
LEMMA FullChange ==
    ASSUME NEW s \in ReplicaStates, NEW full \in BOOLEAN,
           NEW t, t = [s EXCEPT !.batchComplete = full]
    PROVE  t \in ReplicaStates /\ SameLog(s, t) /\ t.timers = s.timers
BY DEF ReplicaStates, SameLog

\* A PREPARE is set aside.
LEMMA PendingChange ==
    ASSUME NEW s \in ReplicaStates, NEW p \in Seq(Batches),
           NEW t, t = [s EXCEPT !.pending = p]
    PROVE  /\ t \in ReplicaStates
           /\ t.view = s.view /\ t.status = s.status /\ t.log = s.log /\ t.lastOp = s.lastOp
           /\ t.lastCommitted = s.lastCommitted /\ t.pending = p /\ t.work = s.work
           /\ t.lastPrepare = s.lastPrepare /\ t.timers = s.timers
BY DEF ReplicaStates

\* The PREPAREs set aside are handled one by one.
LEMMA WorkChange ==
    ASSUME NEW s \in ReplicaStates, NEW w \in Seq(Batches),
           NEW t, t = [s EXCEPT !.work = w]
    PROVE  /\ t \in ReplicaStates
           /\ t.view = s.view /\ t.status = s.status /\ t.log = s.log /\ t.lastOp = s.lastOp
           /\ t.lastCommitted = s.lastCommitted /\ t.pending = s.pending /\ t.work = w
           /\ t.lastPrepare = s.lastPrepare /\ t.timers = s.timers
BY DEF ReplicaStates

\* The batch that CloseBatch sends is the log after lastBatchEnd.
LEMMA OpenBatchType ==
    ASSUME NEW s \in ReplicaStates, NEW r \in Replicas, CanCloseBatch(s, r)
    PROVE  LET b == OpenBatch(s)
           IN  /\ b \in Batches
               /\ b.view = s.view
               /\ b.batchstart \in Nat \ {0}
               /\ b.opnum = s.lastOp
               /\ b.opnum = b.batchstart + Len(b.requests) - 1
               /\ \A k \in 1 .. Len(b.requests) :
                      b.requests[k] = s.log[b.batchstart + k - 1].req
<1>1. /\ s.log \in Seq(Entries) /\ s.lastBatchEnd \in Nat /\ s.lastOp \in Nat
      /\ s.view \in Views
  BY DEF ReplicaStates
<1>. DEFINE first == s.lastBatchEnd + 1
            qs    == RequestsAt(s.log, first, s.lastOp)
            b     == OpenBatch(s)
<1>2. s.lastBatchEnd < s.lastOp /\ s.lastOp <= Len(s.log)
  BY DEF CanCloseBatch
<1>3. first \in Nat \ {0} /\ first <= s.lastOp + 1
  BY <1>1, <1>2
<1>4. b = [view |-> s.view, batchstart |-> first, opnum |-> s.lastOp, requests |-> qs]
  BY DEF OpenBatch
<1>. HIDE DEF first, b
<1>5. /\ qs \in Seq(Requests)
      /\ Len(qs) = s.lastOp + 1 - first
      /\ \A k \in 1 .. s.lastOp + 1 - first : qs[k] = s.log[first + k - 1].req
  BY <1>1, <1>2, <1>3, RequestsAtType
<1>. HIDE DEF qs
<1>6. /\ b \in Batches /\ b.view = s.view /\ b.batchstart = first /\ b.opnum = s.lastOp
      /\ b.requests = qs
  BY <1>1, <1>3, <1>4, <1>5 DEF Batches
<1>7. s.lastOp = first + Len(qs) - 1
  BY <1>1, <1>3, <1>5
<1>. QED BY <1>3, <1>5, <1>6, <1>7 DEF b

\* The fields that CloseBatch leaves alone.
SameButClosed(s, t) ==
    /\ t.view = s.view /\ t.status = s.status /\ t.log = s.log /\ t.lastOp = s.lastOp
    /\ t.lastCommitted = s.lastCommitted /\ t.pending = s.pending /\ t.work = s.work

\* CloseBatch keeps the log, and what it sends is what it will resend.
LEMMA CloseBatchType ==
    ASSUME NEW s \in ReplicaStates, NEW r \in Replicas
    PROVE  /\ CloseBatch(s, r) \in ReplicaStates
           /\ SameButClosed(s, CloseBatch(s, r))
           /\ CanCloseBatch(s, r) => CloseBatch(s, r).lastPrepare = OpenBatch(s)
           /\ ~CanCloseBatch(s, r) => /\ CloseBatch(s, r).lastPrepare = s.lastPrepare
                                      /\ CloseBatch(s, r).timers = s.timers
<1>1. CASE CanCloseBatch(s, r)
  <2>. DEFINE b == OpenBatch(s)
              done == FALSE
              ts == (s.timers \cup {"resendPrepare"}) \ {"closeBatch"}
  <2>1. b \in Batches
    BY <1>1, OpenBatchType
  <2>2. ts \in SUBSET Timers /\ done \in BOOLEAN /\ s.lastOp \in Nat
    BY DEF ReplicaStates, Timers
  <2>3. CloseBatch(s, r) = [s EXCEPT !.lastPrepare = b, !.lastBatchEnd = s.lastOp,
                                     !.batchComplete = done, !.timers = ts]
    BY <1>1 DEF CloseBatch, ReplicaStates
  <2>. HIDE DEF b, done, ts
  <2>4. CloseBatch(s, r) \in ReplicaStates
    BY <2>1, <2>2, <2>3 DEF ReplicaStates
  <2>5. SameButClosed(s, CloseBatch(s, r)) /\ CloseBatch(s, r).lastPrepare = b
    BY <2>3 DEF SameButClosed, ReplicaStates
  <2>. QED BY <1>1, <2>4, <2>5 DEF b
<1>2. CASE ~CanCloseBatch(s, r)
  BY <1>2, AbortType DEF CloseBatch, Abort, SameButClosed, ReplicaStates
<1>. QED BY <1>1, <1>2

\* The fields that AppendRequest leaves alone.
SameButAppended(s, t) ==
    /\ t.view = s.view /\ t.status = s.status
    /\ t.lastCommitted = s.lastCommitted /\ t.lastBatchEnd = s.lastBatchEnd
    /\ t.lastPrepare = s.lastPrepare /\ t.pending = s.pending /\ t.work = s.work
    /\ t.queue = s.queue

\* AppendRequest adds one entry at the end of the log, or the replica dies.
LEMMA AppendRequestType ==
    ASSUME NEW s \in ReplicaStates, NEW q \in Requests
    PROVE  /\ AppendRequest(s, q) \in ReplicaStates
           /\ SameButAppended(s, AppendRequest(s, q))
           /\ AppendRequest(s, q).timers \ {"nullCommit"} \subseteq s.timers
           /\ \/ /\ s.lastOp = Len(s.log)
                 /\ AppendRequest(s, q).log = Append(s.log, [view |-> s.view, req |-> q])
                 /\ AppendRequest(s, q).lastOp = s.lastOp + 1
              \/ /\ AppendRequest(s, q).log = s.log
                 /\ AppendRequest(s, q).lastOp = s.lastOp
<1>1. CASE s.lastOp = Len(s.log)
  <2>. DEFINE l == Append(s.log, [view |-> s.view, req |-> q])
              table == UpdateClientTable(s.clientTable, <<q>>)
              ts == s.timers \cup {"nullCommit"}
  <2>1. l \in Seq(Entries)
    BY DEF ReplicaStates, Entries
  <2>2. table \in Tables
    <3>1. <<q>> \in Seq(Requests) /\ s.clientTable \in Tables
      BY DEF ReplicaStates, Tables
    <3>. QED BY <3>1, UpdateClientTableType
  <2>3. ts \in SUBSET Timers /\ s.lastOp + 1 \in Nat
    BY DEF ReplicaStates, Timers
  <2>4. AppendRequest(s, q) = [s EXCEPT !.log = l, !.lastOp = s.lastOp + 1,
                                        !.clientTable = table, !.timers = ts]
    BY <1>1 DEF AppendRequest, ReplicaStates
  <2>5. ts \ {"nullCommit"} \subseteq s.timers
    OBVIOUS
  <2>. HIDE DEF l, table, ts
  <2>6. AppendRequest(s, q) \in ReplicaStates
    BY <2>1, <2>2, <2>3, <2>4 DEF ReplicaStates, Tables
  <2>7. /\ SameButAppended(s, AppendRequest(s, q)) /\ AppendRequest(s, q).timers = ts
        /\ AppendRequest(s, q).log = l /\ AppendRequest(s, q).lastOp = s.lastOp + 1
    BY <2>4 DEF SameButAppended, ReplicaStates
  <2>. QED BY <1>1, <2>5, <2>6, <2>7 DEF l
<1>2. CASE s.lastOp # Len(s.log)
  BY <1>2, AbortType DEF AppendRequest, Abort, SameButAppended, ReplicaStates
<1>. QED BY <1>1, <1>2

-------------------------------------------------------------------------------
(* The invariant                                                           *)

Leader == GetLeaderIndex(0)

LeaderLog == rep[Leader].log

Inv == TypeOK /\ LogsFollowLeader

-------------------------------------------------------------------------------
(* Logs                                                                    *)

\* Log m is log l or continues it.
Grows(l, m) ==
    /\ Len(l) <= Len(m)
    /\ \A k \in 1 .. Len(l) : m[k] = l[k]

\* A piece of a log is a piece of every log that continues it.
LEMMA BatchOfGrows ==
    ASSUME NEW l \in Seq(Entries), NEW m \in Seq(Entries), Grows(l, m),
           NEW b \in Batches, BatchOf(b, l)
    PROVE  BatchOf(b, m)
<1>1. /\ Len(l) \in Nat /\ Len(m) \in Nat
      /\ b.batchstart \in Nat /\ b.opnum \in Nat /\ Len(b.requests) \in Nat
  BY DEF Batches
<1>2. \A k \in 1 .. Len(b.requests) : b.batchstart + k - 1 \in 1 .. Len(l)
  BY <1>1 DEF BatchOf
<1>3. \A k \in 1 .. Len(b.requests) : b.requests[k] = m[b.batchstart + k - 1].req
  BY <1>2 DEF BatchOf, Grows
<1>4. b.opnum <= Len(m)
  BY <1>1 DEF BatchOf, Grows
<1>. QED BY <1>3, <1>4 DEF BatchOf

\* A follower stays one when the log of the leader grows.
LEMMA FollowsLogGrows ==
    ASSUME NEW l \in Seq(Entries), NEW m \in Seq(Entries), Grows(l, m),
           NEW s \in ReplicaStates, FollowsLog(s, l)
    PROVE  FollowsLog(s, m)
<1>1. /\ Len(l) \in Nat /\ Len(m) \in Nat /\ Len(s.log) \in Nat
      /\ s.pending \in Seq(Batches) /\ s.work \in Seq(Batches) /\ s.lastPrepare \in Batches
  BY DEF ReplicaStates
<1>2. \A k \in 1 .. Len(s.log) : k \in 1 .. Len(l)
  BY <1>1 DEF FollowsLog
<1>3. \A k \in 1 .. Len(s.pending) : BatchOf(s.pending[k], m)
  BY <1>1, ElementOfSeq, BatchOfGrows DEF FollowsLog
<1>4. \A k \in 1 .. Len(s.work) : BatchOf(s.work[k], m)
  BY <1>1, ElementOfSeq, BatchOfGrows DEF FollowsLog
<1>5. "resendPrepare" \in s.timers => BatchOf(s.lastPrepare, m)
  BY <1>1, BatchOfGrows DEF FollowsLog
<1>6. Len(s.log) <= Len(m)
  <2>1. Len(s.log) <= Len(l) /\ Len(l) <= Len(m)
    BY DEF FollowsLog, Grows
  <2>. QED BY <1>1, <2>1
<1>7. \A k \in 1 .. Len(s.log) : s.log[k] = m[k] /\ s.log[k].view = 0
  <2>1. \A k \in 1 .. Len(s.log) : s.log[k] = l[k] /\ s.log[k].view = 0
    BY DEF FollowsLog
  <2>2. \A k \in 1 .. Len(l) : m[k] = l[k]
    BY DEF Grows
  <2>. QED BY <1>2, <2>1, <2>2
<1>8. s.view = 0 /\ s.status = "NORMAL" /\ s.lastOp = Len(s.log) /\ s.lastCommitted <= s.lastOp
  BY DEF FollowsLog
<1>. QED BY <1>3, <1>4, <1>5, <1>6, <1>7, <1>8 DEF FollowsLog

\* What a message tells of the log stays true when the log grows.
LEMMA CarriesLogGrows ==
    ASSUME NEW l \in Seq(Entries), NEW m \in Seq(Entries), Grows(l, m),
           NEW x \in Messages, CarriesLog(x, l)
    PROVE  CarriesLog(x, m)
<1>1. CASE x.type = "Prepare"
  <2>1. x.batch \in Batches
    BY <1>1 DEF Messages
  <2>. QED BY <1>1, <2>1, BatchOfGrows DEF CarriesLog
<1>2. CASE x.type = "StateTransfer"
  <2>1. /\ x.first \in Nat /\ Len(x.entries) \in Nat /\ Len(l) \in Nat /\ Len(m) \in Nat
    BY <1>2 DEF Messages
  <2>2. \A k \in 1 .. Len(x.entries) : x.first + k - 1 \in 1 .. Len(l)
    BY <1>2, <2>1 DEF CarriesLog
  <2>. QED BY <1>2, <2>1, <2>2 DEF CarriesLog, Grows
<1>3. CASE x.type # "Prepare" /\ x.type # "StateTransfer"
  BY <1>3 DEF CarriesLog
<1>. QED BY <1>1, <1>2, <1>3

-------------------------------------------------------------------------------
(* One step                                                                *)

\* The log of the leader when replica r has become t.
NewLog(r, t) == IF r = Leader THEN t.log ELSE LeaderLog

\* Replica r may become t.
GoodState(r, t) ==
    /\ t \in ReplicaStates
    /\ rep[r].lastCommitted <= t.lastCommitted
    /\ Grows(rep[r].log, t.log)
    /\ FollowsLog(t, NewLog(r, t))

\* It may send these messages when it does.
GoodMessages(r, t, sent) ==
    /\ sent \subseteq Messages
    /\ \A m \in sent : CarriesLog(m, NewLog(r, t))

\* The step keeps the invariant and takes back nothing.
GoodStep ==
    /\ rep' \in [Replicas -> ReplicaStates]
    /\ msgs' \subseteq Messages
    /\ LogsFollowLeader'
    /\ \A r \in Replicas : /\ rep[r].lastCommitted <= rep'[r].lastCommitted
                           /\ Grows(rep[r].log, rep'[r].log)

\* The leader of view 0 is a replica of the group.
LEMMA LeaderIsReplica == Leader \in Replicas
BY LeaderType DEF Leader, Views

\* A good state and good messages make a good step.
LEMMA GoodChange ==
    ASSUME Inv, NEW r \in Replicas, NEW t, NEW sent,
           GoodState(r, t), GoodMessages(r, t, sent),
           Become(r, t), msgs' \subseteq msgs \cup sent
    PROVE  GoodStep
<1>. DEFINE l == NewLog(r, t)
<1>1. /\ rep \in [Replicas -> ReplicaStates] /\ msgs \subseteq Messages
      /\ t \in ReplicaStates /\ Leader \in Replicas
  BY LeaderIsReplica DEF Inv, TypeOK, GoodState
<1>2. rep' \in [Replicas -> ReplicaStates] /\ rep'[r] = t
      /\ \A p \in Replicas \ {r} : rep'[p] = rep[p]
  BY <1>1 DEF Become
<1>3. rep'[Leader].log = l
  BY <1>1, <1>2 DEF NewLog, LeaderLog
<1>4. LeaderLog \in Seq(Entries) /\ l \in Seq(Entries)
  BY <1>1 DEF NewLog, LeaderLog, ReplicaStates
<1>5. Grows(LeaderLog, l)
  <2>1. Len(LeaderLog) \in Nat
    BY <1>4
  <2>. QED BY <2>1 DEF NewLog, GoodState, Grows, LeaderLog
<1>. HIDE DEF l
<1>6. \A p \in Replicas : FollowsLog(rep'[p], l)
  <2>. TAKE p \in Replicas
  <2>1. CASE p = r
    BY <1>2, <2>1 DEF GoodState, l
  <2>2. CASE p # r
    <3>1. FollowsLog(rep[p], LeaderLog) /\ rep[p] \in ReplicaStates
      BY <1>1 DEF Inv, LogsFollowLeader, LeaderLog, Leader
    <3>. QED BY <1>2, <1>4, <1>5, <2>2, <3>1, FollowsLogGrows
  <2>. QED BY <2>1, <2>2
<1>7. \A m \in msgs' : CarriesLog(m, l) /\ m \in Messages
  <2>. TAKE m \in msgs'
  <2>1. CASE m \in sent
    BY <2>1 DEF GoodMessages, l
  <2>2. CASE m \in msgs
    <3>1. CarriesLog(m, LeaderLog) /\ m \in Messages
      BY <1>1, <2>2 DEF Inv, LogsFollowLeader, LeaderLog, Leader
    <3>. QED BY <1>4, <1>5, <3>1, CarriesLogGrows
  <2>. QED BY <2>1, <2>2
<1>8. LogsFollowLeader'
  BY <1>3, <1>6, <1>7 DEF LogsFollowLeader, Leader
<1>9. \A p \in Replicas : /\ rep[p].lastCommitted <= rep'[p].lastCommitted
                          /\ Grows(rep[p].log, rep'[p].log)
  <2>1. \A p \in Replicas : rep[p].lastCommitted \in Nat /\ Len(rep[p].log) \in Nat
    BY <1>1, StateFields
  <2>. QED BY <1>2, <2>1 DEF GoodState, Grows
<1>. QED BY <1>2, <1>7, <1>8, <1>9 DEF GoodStep

-------------------------------------------------------------------------------
(* What the shared functions make of a good state                          *)

\* A replica that takes no step is in a good state.
LEMMA GoodNow ==
    ASSUME Inv, NEW r \in Replicas
    PROVE  /\ rep[r] \in ReplicaStates
           /\ GoodState(r, rep[r])
           /\ NewLog(r, rep[r]) = LeaderLog
           /\ GoodMessages(r, rep[r], {})
<1>1. rep[r] \in ReplicaStates /\ FollowsLog(rep[r], LeaderLog)
  BY DEF Inv, TypeOK, LogsFollowLeader, LeaderLog, Leader
<1>2. NewLog(r, rep[r]) = LeaderLog
  BY DEF NewLog, LeaderLog
<1>. QED BY <1>1, <1>2, StateFields DEF GoodState, GoodMessages, Grows

\* A change that keeps the log keeps a good state good.
LEMMA GoodSameLog ==
    ASSUME Inv, NEW r \in Replicas, NEW s, GoodState(r, s), NEW t \in ReplicaStates,
           t.view = s.view, t.status = s.status, t.log = s.log, t.lastOp = s.lastOp,
           s.lastCommitted <= t.lastCommitted, t.lastCommitted <= Len(t.log),
           \A k \in 1 .. Len(t.pending) : BatchOf(t.pending[k], NewLog(r, s)),
           \A k \in 1 .. Len(t.work) : BatchOf(t.work[k], NewLog(r, s)),
           "resendPrepare" \in t.timers => BatchOf(t.lastPrepare, NewLog(r, s))
    PROVE  GoodState(r, t) /\ NewLog(r, t) = NewLog(r, s)
<1>1. NewLog(r, t) = NewLog(r, s)
  BY DEF NewLog
<1>2. rep[r].lastCommitted <= t.lastCommitted
  <2>1. rep[r].lastCommitted \in Nat /\ s.lastCommitted \in Nat /\ t.lastCommitted \in Nat
    BY GoodNow, StateFields DEF GoodState
  <2>. QED BY <2>1 DEF GoodState
<1>. QED BY <1>1, <1>2 DEF GoodState, FollowsLog

\* So does one that also leaves the batches alone.
LEMMA GoodSameBatches ==
    ASSUME Inv, NEW r \in Replicas, NEW s, GoodState(r, s), NEW t \in ReplicaStates,
           t.view = s.view, t.status = s.status, t.log = s.log, t.lastOp = s.lastOp,
           s.lastCommitted <= t.lastCommitted, t.lastCommitted <= Len(t.log),
           t.pending = s.pending, t.work = s.work, t.lastPrepare = s.lastPrepare,
           "resendPrepare" \in t.timers => "resendPrepare" \in s.timers
    PROVE  GoodState(r, t) /\ NewLog(r, t) = NewLog(r, s)
<1>1. /\ \A k \in 1 .. Len(t.pending) : BatchOf(t.pending[k], NewLog(r, s))
      /\ \A k \in 1 .. Len(t.work) : BatchOf(t.work[k], NewLog(r, s))
      /\ "resendPrepare" \in t.timers => BatchOf(t.lastPrepare, NewLog(r, s))
  BY DEF GoodState, FollowsLog
<1>. QED BY <1>1, GoodSameLog

\* A good state executes operations of its log only.
LEMMA GoodBounds ==
    ASSUME NEW r \in Replicas, NEW s, GoodState(r, s)
    PROVE  /\ s \in ReplicaStates /\ s.view = 0 /\ s.status = "NORMAL"
           /\ s.lastOp = Len(s.log) /\ s.lastCommitted <= Len(s.log)
           /\ AmLeader(s, r) <=> r = Leader
BY DEF GoodState, FollowsLog, AmLeader, Leader

\* A replica that is killed keeps its log.
LEMMA GoodAbort ==
    ASSUME Inv, NEW r \in Replicas, NEW s, GoodState(r, s)
    PROVE  GoodState(r, Abort(s)) /\ NewLog(r, Abort(s)) = NewLog(r, s)
<1>1. s \in ReplicaStates
  BY GoodBounds
<1>2. Abort(s) \in ReplicaStates
  BY <1>1, AbortType
<1>3. /\ Abort(s).view = s.view /\ Abort(s).status = s.status /\ Abort(s).log = s.log
      /\ Abort(s).lastOp = s.lastOp /\ Abort(s).lastCommitted = s.lastCommitted
      /\ Abort(s).pending = s.pending /\ Abort(s).work = s.work
      /\ Abort(s).lastPrepare = s.lastPrepare /\ Abort(s).timers = s.timers
  BY <1>1 DEF Abort, ReplicaStates
<1>4. s.lastCommitted <= Abort(s).lastCommitted /\ Abort(s).lastCommitted <= Len(Abort(s).log)
  BY <1>1, <1>3, GoodBounds, StateFields
<1>. QED BY <1>2, <1>3, <1>4, GoodSameBatches

\* Timers other than resendPrepare do not matter to the log, nor do the queue,
\* the client addresses, the acknowledgements and the state-transfer request.
LEMMA GoodSmall ==
    ASSUME Inv, NEW r \in Replicas, NEW s, GoodState(r, s), NEW t \in ReplicaStates,
           SameLog(s, t),
           "resendPrepare" \in t.timers => "resendPrepare" \in s.timers
    PROVE  GoodState(r, t) /\ NewLog(r, t) = NewLog(r, s)
<1>1. s.lastCommitted <= t.lastCommitted /\ t.lastCommitted <= Len(t.log)
  BY GoodBounds, StateFields DEF SameLog
<1>. QED BY <1>1, GoodSameBatches DEF SameLog

\* Executing operations of the log keeps a good state good.
LEMMA GoodCommitUpTo ==
    ASSUME Inv, NEW r \in Replicas, NEW s, GoodState(r, s), NEW upto \in Nat
    PROVE  /\ GoodState(r, CommitUpTo(s, upto))
           /\ NewLog(r, CommitUpTo(s, upto)) = NewLog(r, s)
<1>1. s \in ReplicaStates /\ s.lastCommitted <= Len(s.log)
  BY GoodBounds
<1>2. /\ CommitUpTo(s, upto) \in ReplicaStates
      /\ s.lastCommitted <= CommitUpTo(s, upto).lastCommitted
      /\ CommitUpTo(s, upto).lastCommitted <= Len(s.log)
      /\ SameButCommitted(s, CommitUpTo(s, upto))
  BY <1>1, CommitUpToType
<1>. QED BY <1>2, GoodSameBatches DEF SameButCommitted

\* So does telling the client table of them.
LEMMA GoodSendPrepareOKs ==
    ASSUME Inv, NEW r \in Replicas, NEW s, GoodState(r, s), NEW old \in Nat
    PROVE  /\ GoodState(r, SendPrepareOKs(s, old))
           /\ NewLog(r, SendPrepareOKs(s, old)) = NewLog(r, s)
<1>1. s \in ReplicaStates
  BY GoodBounds
<1>2. /\ SendPrepareOKs(s, old) \in ReplicaStates
      /\ SendPrepareOKs(s, old).lastCommitted = s.lastCommitted
      /\ SameButCommitted(s, SendPrepareOKs(s, old))
  BY <1>1, SendPrepareOKsType
<1>. QED BY <1>2, GoodSmall DEF SameButCommitted, SameLog

\* A leader appends to the one log.
LEMMA GoodAppendRequest ==
    ASSUME Inv, NEW r \in Replicas, r = Leader, NEW s, GoodState(r, s), NEW q \in Requests
    PROVE  GoodState(r, AppendRequest(s, q))
<1>. DEFINE t == AppendRequest(s, q)
<1>1. /\ s \in ReplicaStates /\ s.lastOp = Len(s.log) /\ s.view = 0
      /\ s.lastCommitted <= Len(s.log) /\ s.status = "NORMAL"
  BY GoodBounds
<1>2. /\ t \in ReplicaStates
      /\ SameButAppended(s, t)
      /\ t.timers \ {"nullCommit"} \subseteq s.timers
      /\ \/ /\ s.lastOp = Len(s.log)
            /\ t.log = Append(s.log, [view |-> s.view, req |-> q])
            /\ t.lastOp = s.lastOp + 1
         \/ /\ t.log = s.log
            /\ t.lastOp = s.lastOp
  BY <1>1, AppendRequestType
<1>. HIDE DEF t
<1>3. CASE t.log = s.log /\ t.lastOp = s.lastOp
  BY <1>2, <1>3, GoodSmall DEF SameButAppended, SameLog, t
<1>4. CASE /\ t.log = Append(s.log, [view |-> s.view, req |-> q])
           /\ t.lastOp = s.lastOp + 1
  <2>1. /\ s.log \in Seq(Entries) /\ Len(s.log) \in Nat /\ s.lastCommitted \in Nat
        /\ s.pending \in Seq(Batches) /\ s.work \in Seq(Batches) /\ s.lastPrepare \in Batches
        /\ t.log \in Seq(Entries)
        /\ Len(rep[r].log) \in Nat /\ rep[r].lastCommitted \in Nat
    BY <1>1, <1>2, StateFields, GoodNow
  <2>2. /\ Len(t.log) = Len(s.log) + 1
        /\ \A k \in 1 .. Len(s.log) : t.log[k] = s.log[k]
        /\ t.log[Len(s.log) + 1] = [view |-> 0, req |-> q]
    BY <1>1, <1>4, <2>1
  <2>3. Grows(s.log, t.log)
    BY <2>1, <2>2 DEF Grows
  <2>4. NewLog(r, s) = s.log /\ NewLog(r, t) = t.log
    BY DEF NewLog
  <2>5. FollowsLog(s, t.log)
    BY <1>1, <2>1, <2>3, <2>4, FollowsLogGrows DEF GoodState
  <2>6. \A k \in 1 .. Len(t.log) : t.log[k].view = 0
    <3>. TAKE k \in 1 .. Len(t.log)
    <3>1. CASE k = Len(s.log) + 1
      BY <2>2, <3>1
    <3>2. CASE k # Len(s.log) + 1
      <4>1. k \in 1 .. Len(s.log)
        BY <2>1, <2>2, <3>2
      <4>. QED BY <4>1, <2>2, <2>5 DEF FollowsLog
    <3>. QED BY <3>1, <3>2
  <2>7. FollowsLog(t, t.log)
    BY <1>1, <1>2, <1>4, <2>1, <2>2, <2>5, <2>6 DEF FollowsLog, SameButAppended
  <2>8. Grows(rep[r].log, t.log) /\ rep[r].lastCommitted <= t.lastCommitted
    <3>1. Grows(rep[r].log, s.log) /\ rep[r].lastCommitted <= s.lastCommitted
      BY DEF GoodState
    <3>2. \A k \in 1 .. Len(rep[r].log) : k \in 1 .. Len(s.log)
      BY <2>1, <3>1 DEF Grows
    <3>. QED BY <1>2, <2>1, <2>2, <3>1, <3>2 DEF Grows, SameButAppended
  <2>. QED BY <1>2, <2>4, <2>7, <2>8 DEF GoodState, t
<1>. QED BY <1>2, <1>3, <1>4 DEF t

\* A batch closed by the leader is a piece of its log.
LEMMA GoodCloseBatch ==
    ASSUME Inv, NEW r \in Replicas, NEW s, GoodState(r, s)
    PROVE  /\ GoodState(r, CloseBatch(s, r))
           /\ GoodMessages(r, CloseBatch(s, r), ClosedBatch(s, r))
           /\ NewLog(r, CloseBatch(s, r)) = NewLog(r, s)
<1>. DEFINE t == CloseBatch(s, r)
<1>1. /\ s \in ReplicaStates /\ s.lastOp = Len(s.log) /\ s.view = 0
      /\ s.lastCommitted <= Len(s.log) /\ s.lastBatchEnd \in Nat /\ Len(s.log) \in Nat
      /\ s.lastCommitted \in Nat /\ s.log \in Seq(Entries)
  BY GoodBounds, StateFields
<1>2. /\ t \in ReplicaStates
      /\ SameButClosed(s, t)
      /\ CanCloseBatch(s, r) => t.lastPrepare = OpenBatch(s)
      /\ ~CanCloseBatch(s, r) => t.lastPrepare = s.lastPrepare /\ t.timers = s.timers
  BY <1>1, CloseBatchType
<1>. HIDE DEF t
<1>3. CanCloseBatch(s, r) => NewLog(r, s) = s.log
  BY GoodBounds DEF CanCloseBatch, NewLog
<1>4. CASE ~CanCloseBatch(s, r)
  <2>1. GoodState(r, t) /\ NewLog(r, t) = NewLog(r, s)
    BY <1>2, <1>4, GoodSmall DEF SameButClosed, SameLog
  <2>2. ClosedBatch(s, r) = {}
    BY <1>4 DEF ClosedBatch
  <2>. QED BY <2>1, <2>2 DEF GoodMessages, t
<1>5. CASE CanCloseBatch(s, r)
  <2>. DEFINE b == OpenBatch(s)
  <2>1. /\ b \in Batches /\ b.view = s.view
        /\ b.batchstart \in Nat \ {0} /\ b.opnum = s.lastOp
        /\ b.opnum = b.batchstart + Len(b.requests) - 1
        /\ \A k \in 1 .. Len(b.requests) : b.requests[k] = s.log[b.batchstart + k - 1].req
    BY <1>1, <1>5, OpenBatchType
  <2>. HIDE DEF b
  <2>2. BatchOf(b, s.log)
    BY <1>1, <2>1 DEF BatchOf
  <2>3. GoodState(r, t) /\ NewLog(r, t) = NewLog(r, s)
    <3>1. /\ \A k \in 1 .. Len(s.pending) : BatchOf(s.pending[k], s.log)
          /\ \A k \in 1 .. Len(s.work) : BatchOf(s.work[k], s.log)
      BY <1>3, <1>5 DEF GoodState, FollowsLog
    <3>2. s.lastCommitted <= t.lastCommitted /\ t.lastCommitted <= Len(t.log)
      BY <1>1, <1>2 DEF SameButClosed
    <3>. QED BY <1>2, <1>3, <1>5, <2>2, <3>1, <3>2, GoodSameLog DEF SameButClosed, b
  <2>4. ClosedBatch(s, r) = {[type |-> "Prepare", to |-> p, batch |-> b] : p \in Replicas \ {r}}
    BY <1>5 DEF ClosedBatch, PrepareMessages, b
  <2>5. GoodMessages(r, t, ClosedBatch(s, r))
    BY <1>3, <1>5, <2>1, <2>2, <2>3, <2>4 DEF GoodMessages, Messages, CarriesLog
  <2>. QED BY <2>3, <2>5 DEF t
<1>. QED BY <1>4, <1>5

-------------------------------------------------------------------------------
(* The actions                                                             *)

\* The step of an action that becomes t and adds "sent" to the network.
LEMMA GoodNetwork ==
    ASSUME Inv, NEW r \in Replicas, NEW t, NEW gone, NEW sent,
           GoodState(r, t), GoodMessages(r, t, sent), Become(r, t), Network(gone, sent)
    PROVE  GoodStep
<1>1. msgs' \subseteq msgs \cup sent
  BY DEF Network
<1>. QED BY <1>1, GoodChange

\* The step of an action that becomes t and sends nothing.
LEMMA GoodSilent ==
    ASSUME Inv, NEW r \in Replicas, NEW t, GoodState(r, t), Become(r, t), UNCHANGED msgs
    PROVE  GoodStep
<1>1. GoodMessages(r, t, {}) /\ msgs' \subseteq msgs \cup {}
  BY DEF GoodMessages
<1>. QED BY <1>1, GoodChange

\* The step of an action that only sends.
LEMMA GoodSend ==
    ASSUME Inv, NEW r \in Replicas, NEW gone, NEW sent, sent \subseteq Messages,
           \A m \in sent : CarriesLog(m, LeaderLog), UNCHANGED rep, Network(gone, sent)
    PROVE  GoodStep
<1>1. GoodMessages(r, rep[r], sent)
  BY GoodNow DEF GoodMessages
<1>2. Become(r, rep[r])
  <2>1. rep \in [Replicas -> ReplicaStates]
    BY DEF Inv, TypeOK
  <2>. QED BY <2>1 DEF Become
<1>. QED BY <1>1, <1>2, GoodNow, GoodNetwork

\* A request that is taken from the queue, or received, is ordered.
LEMMA GoodOrdered ==
    ASSUME Inv, NEW r \in Replicas, NEW s, GoodState(r, s), AmLeader(s, r), NEW q \in Requests
    PROVE  LET t == AppendRequest(s, q)
           IN  /\ GoodState(r, CloseBatch(t, r))
               /\ GoodMessages(r, CloseBatch(t, r), ClosedBatch(t, r))
               /\ GoodState(r, KeepInBatch(t))
<1>. DEFINE t == AppendRequest(s, q)
            k == KeepInBatch(t)
<1>1. r = Leader
  BY GoodBounds
<1>2. GoodState(r, t)
  BY <1>1, GoodAppendRequest
<1>. HIDE DEF t
<1>3. t \in ReplicaStates
  BY <1>2, GoodBounds
<1>4. k \in ReplicaStates
  BY <1>3 DEF KeepInBatch, ReplicaStates, Timers
<1>5. /\ SameLog(t, k)
      /\ "resendPrepare" \in k.timers => "resendPrepare" \in t.timers
  BY <1>3 DEF KeepInBatch, ReplicaStates, SameLog
<1>. HIDE DEF k
<1>6. GoodState(r, k)
  BY <1>2, <1>4, <1>5, GoodSmall
<1>. QED BY <1>1, <1>2, <1>6, GoodCloseBatch DEF t, k

\* AddToQueue touches the queue only.
LEMMA StepAddToQueue ==
    ASSUME Inv, NEW r \in Replicas, NEW q \in Requests, AddToQueue(r, q)
    PROVE  GoodStep
<1>. DEFINE qs == Append(rep[r].queue, q)
            t  == [rep[r] EXCEPT !.queue = qs]
<1>1. qs \in Seq(Requests)
  BY GoodNow, StateFields
<1>2. GoodState(r, t)
  <2>1. t \in ReplicaStates /\ SameLog(rep[r], t) /\ t.timers = rep[r].timers
    BY <1>1, GoodNow, QueueChange
  <2>. HIDE DEF t
  <2>. QED BY <2>1, GoodNow, GoodSmall
<1>3. Become(r, t) /\ UNCHANGED msgs
  BY DEF AddToQueue
<1>. QED BY <1>2, <1>3, GoodSilent

\* BgRepl drops the request or orders it.
LEMMA StepBgRepl ==
    ASSUME Inv, NEW r \in Replicas, BgRepl(r)
    PROVE  GoodStep
<1>. DEFINE q == Head(rep[r].queue)
            s == [rep[r] EXCEPT !.queue = Tail(rep[r].queue),
                                !.timers = rep[r].timers \cup {"bgRepl"}]
            t == AppendRequest(s, q)
<1>1. rep[r].queue \in Seq(Requests) /\ rep[r].queue # <<>>
  BY GoodNow, StateFields DEF BgRepl
<1>2. q \in Requests /\ Tail(rep[r].queue) \in Seq(Requests)
  BY <1>1, HeadTailProperties
<1>3. GoodState(r, s)
  <2>. DEFINE ts == rep[r].timers \cup {"bgRepl"}
              qs == Tail(rep[r].queue)
  <2>1. ts \in SUBSET Timers /\ ("resendPrepare" \in ts => "resendPrepare" \in rep[r].timers)
    BY GoodNow, StateFields DEF Timers
  <2>2. PICK u : u = [rep[r] EXCEPT !.queue = qs]
    OBVIOUS
  <2>3. s = [u EXCEPT !.timers = ts]
    BY <2>2
  <2>. HIDE DEF s, ts, qs
  <2>4. u \in ReplicaStates /\ SameLog(rep[r], u) /\ u.timers = rep[r].timers
    BY <1>2, <2>2, GoodNow, QueueChange DEF qs
  <2>5. GoodState(r, u)
    BY <2>4, GoodNow, GoodSmall
  <2>6. s \in ReplicaStates /\ SameLog(u, s) /\ s.timers = ts
    BY <2>1, <2>3, <2>4, TimersChange
  <2>. QED BY <2>1, <2>4, <2>5, <2>6, GoodSmall
<1>4. \/ Become(r, s) /\ UNCHANGED msgs
      \/ /\ AmLeader(s, r)
         /\ Become(r, CloseBatch(t, r))
         /\ Network({}, ClosedBatch(t, r))
      \/ /\ AmLeader(s, r)
         /\ Become(r, KeepInBatch(t))
         /\ UNCHANGED msgs
  BY DEF BgRepl
<1>. HIDE DEF s, q
<1>5. CASE Become(r, s) /\ UNCHANGED msgs
  BY <1>3, <1>5, GoodSilent
<1>6. CASE AmLeader(s, r) /\ Become(r, CloseBatch(t, r)) /\ Network({}, ClosedBatch(t, r))
  <2>1. GoodState(r, CloseBatch(t, r)) /\ GoodMessages(r, CloseBatch(t, r), ClosedBatch(t, r))
    BY <1>2, <1>3, <1>6, GoodOrdered
  <2>. QED BY <1>6, <2>1, GoodNetwork
<1>7. CASE AmLeader(s, r) /\ Become(r, KeepInBatch(t)) /\ UNCHANGED msgs
  <2>1. GoodState(r, KeepInBatch(t))
    BY <1>2, <1>3, <1>7, GoodOrdered
  <2>. QED BY <1>7, <2>1, GoodSilent
<1>. QED BY <1>4, <1>5, <1>6, <1>7

\* HandleRequest answers a duplicate or orders the request.
LEMMA StepHandleRequest ==
    ASSUME Inv, NEW r \in Replicas, NEW q \in Requests, HandleRequest(r, q)
    PROVE  GoodStep /\ replies' \subseteq ReplyMessages
<1>. DEFINE s == [rep[r] EXCEPT !.addresses = rep[r].addresses \cup {q.client},
                                !.timers = rep[r].timers \cup {"bgRepl"}]
            t == AppendRequest(s, q)
            seen == s.clientTable[q.client]
            reply == [to |-> IF q.kind = "read" THEN "durabilityServer" ELSE "client",
                      from |-> r, req |-> q, view |-> seen.view, opnum |-> seen.opnum]
<1>1. GoodState(r, s) /\ reply \in ReplyMessages
  <2>. DEFINE ts == rep[r].timers \cup {"bgRepl"}
              cs == rep[r].addresses \cup {q.client}
  <2>1. ts \in SUBSET Timers /\ cs \in SUBSET Clients
    BY GoodNow, StateFields, RequestFields DEF Timers
  <2>2. "resendPrepare" \in ts => "resendPrepare" \in rep[r].timers
    OBVIOUS
  <2>3. PICK u : u = [rep[r] EXCEPT !.addresses = cs]
    OBVIOUS
  <2>4. s = [u EXCEPT !.timers = ts]
    BY <2>3
  <2>. HIDE DEF s, ts, cs
  <2>5. u \in ReplicaStates /\ SameLog(rep[r], u) /\ u.timers = rep[r].timers
    BY <2>1, <2>3, GoodNow, AddressesChange
  <2>6. GoodState(r, u)
    BY <2>5, GoodNow, GoodSmall
  <2>7. s \in ReplicaStates /\ SameLog(u, s) /\ s.timers = ts
    BY <2>1, <2>4, <2>5, TimersChange
  <2>8. GoodState(r, s)
    BY <2>2, <2>5, <2>6, <2>7, GoodSmall
  <2>9. seen \in TableEntries
    BY <2>7, StateFields, RequestFields DEF Tables
  <2>10. reply \in ReplyMessages
    BY <2>9 DEF ReplyMessages, TableEntries
  <2>. QED BY <2>8, <2>10
<1>2. replies \subseteq ReplyMessages
  BY DEF Inv, TypeOK
<1>3. /\ AmLeader(rep[r], r)
      /\ \/ Become(r, s) /\ UNCHANGED msgs
         \/ Become(r, CloseBatch(t, r)) /\ Network({}, ClosedBatch(t, r))
         \/ Become(r, KeepInBatch(t)) /\ UNCHANGED msgs
  BY DEF HandleRequest
<1>4. replies' \subseteq replies \cup {reply}
  BY DEF HandleRequest
<1>5. AmLeader(s, r)
  BY <1>1, <1>3, GoodNow, GoodBounds
<1>. HIDE DEF s, reply
<1>6. CASE Become(r, s) /\ UNCHANGED msgs
  BY <1>1, <1>2, <1>4, <1>6, GoodSilent
<1>7. CASE Become(r, CloseBatch(t, r)) /\ Network({}, ClosedBatch(t, r))
  <2>1. GoodState(r, CloseBatch(t, r)) /\ GoodMessages(r, CloseBatch(t, r), ClosedBatch(t, r))
    BY <1>1, <1>5, GoodOrdered
  <2>2. GoodStep
    BY <1>7, <2>1, GoodNetwork
  <2>. QED BY <1>1, <1>2, <1>4, <2>2
<1>8. CASE Become(r, KeepInBatch(t)) /\ UNCHANGED msgs
  <2>1. GoodState(r, KeepInBatch(t))
    BY <1>1, <1>5, GoodOrdered
  <2>2. GoodStep
    BY <1>8, <2>1, GoodSilent
  <2>. QED BY <1>1, <1>2, <1>4, <2>2
<1>. QED BY <1>3, <1>6, <1>7, <1>8

\* A batch that is kept can be sent again.
LEMMA PrepareMessagesGood ==
    ASSUME NEW r \in Replicas, NEW b \in Batches, NEW l, BatchOf(b, l)
    PROVE  /\ PrepareMessages(r, b) \subseteq Messages
           /\ \A m \in PrepareMessages(r, b) : CarriesLog(m, l)
BY DEF PrepareMessages, Messages, CarriesLog

\* Requests for a state transfer, commits and acknowledgements say nothing of
\* the log but their view.
LEMMA SmallMessagesGood ==
    ASSUME Inv, NEW r \in Replicas, NEW s, GoodState(r, s), NEW l
    PROVE  /\ StateTransferRequests(s, r) \subseteq Messages
           /\ CommitMessages(s, r) \subseteq Messages
           /\ \A m \in StateTransferRequests(s, r) : CarriesLog(m, l)
           /\ \A m \in CommitMessages(s, r) : CarriesLog(m, l)
           /\ \A k \in Nat : PrepareOK(s, r, k) \in Messages /\ CarriesLog(PrepareOK(s, r, k), l)
<1>1. s.view = 0 /\ 0 \in Views /\ s.lastCommitted \in Nat
  BY GoodBounds, StateFields DEF Views
<1>2. StateTransferRequests(s, r) \subseteq Messages /\ CommitMessages(s, r) \subseteq Messages
  BY <1>1 DEF StateTransferRequests, CommitMessages, Messages
<1>3. /\ \A m \in StateTransferRequests(s, r) : CarriesLog(m, l)
      /\ \A m \in CommitMessages(s, r) : CarriesLog(m, l)
  BY <1>1 DEF StateTransferRequests, CommitMessages, CarriesLog
<1>4. \A k \in Nat : PrepareOK(s, r, k) \in Messages /\ CarriesLog(PrepareOK(s, r, k), l)
  BY <1>1, LeaderIsReplica DEF PrepareOK, Messages, CarriesLog, Leader
<1>. QED BY <1>2, <1>3, <1>4

\* The timers send what is known already.
LEMMA StepTimer ==
    ASSUME Inv, NEW r \in Replicas, Timer(r)
    PROVE  GoodStep
<1>. DEFINE s == rep[r]
<1>1. CASE CloseBatchTimeout(r)
  <2>1. Become(r, CloseBatch(s, r)) /\ Network({}, ClosedBatch(s, r))
    BY <1>1 DEF CloseBatchTimeout
  <2>. QED BY <2>1, GoodNow, GoodCloseBatch, GoodNetwork
<1>2. CASE ResendPrepare(r)
  <2>1. CASE AmLeader(s, r)
    <3>1. /\ "resendPrepare" \in s.timers /\ UNCHANGED rep
          /\ Network({}, PrepareMessages(r, s.lastPrepare))
      BY <1>2, <2>1 DEF ResendPrepare
    <3>2. s.lastPrepare \in Batches /\ BatchOf(s.lastPrepare, LeaderLog)
      BY <3>1, GoodNow, StateFields DEF GoodState, FollowsLog
    <3>. QED BY <3>1, <3>2, PrepareMessagesGood, GoodSend
  <2>2. CASE ~AmLeader(s, r)
    BY <1>2, <2>2, GoodNow, GoodAbort, GoodSilent DEF ResendPrepare
  <2>. QED BY <2>1, <2>2
<1>3. CASE SendNullCommit(r)
  <2>1. CASE AmLeader(s, r)
    <3>1. Network({}, CommitMessages(s, r)) /\ UNCHANGED rep
      BY <1>3, <2>1 DEF SendNullCommit
    <3>. QED BY <3>1, GoodNow, SmallMessagesGood, GoodSend
  <2>2. CASE ~AmLeader(s, r)
    BY <1>3, <2>2, GoodNow, GoodAbort, GoodSilent DEF SendNullCommit
  <2>. QED BY <2>1, <2>2
<1>4. CASE StateTransferTimeout(r)
  <2>1. PICK t : t = [s EXCEPT !.lastTransfer = <<0, 0>>]
    OBVIOUS
  <2>2. Become(r, t) /\ UNCHANGED msgs
    BY <1>4, <2>1 DEF StateTransferTimeout
  <2>3. <<0, 0>> \in Views \X Nat
    BY DEF Views
  <2>4. t \in ReplicaStates /\ SameLog(s, t) /\ t.timers = s.timers
    BY <2>1, <2>3, GoodNow, TransferChange
  <2>. QED BY <2>2, <2>4, GoodNow, GoodSmall, GoodSilent
<1>. QED BY <1>1, <1>2, <1>3, <1>4 DEF Timer

-------------------------------------------------------------------------------
(* PREPAREs and log dumps                                                  *)

\* A change of timers that does not start resendPrepare, as a good state.
LEMMA GoodHeard ==
    ASSUME Inv, NEW r \in Replicas, NEW s, GoodState(r, s)
    PROVE  /\ GoodState(r, Heard(s)) /\ NewLog(r, Heard(s)) = NewLog(r, s)
           /\ SameLog(s, Heard(s))
<1>. DEFINE ts == s.timers \cup {"viewChange"}
            t == Heard(s)
<1>1. s \in ReplicaStates /\ ts \in SUBSET Timers
  BY GoodBounds, StateFields DEF Timers
<1>2. "resendPrepare" \in ts => "resendPrepare" \in s.timers
  OBVIOUS
<1>3. t = [s EXCEPT !.timers = ts]
  BY <1>1 DEF Heard, ReplicaStates
<1>. HIDE DEF t, ts
<1>4. t \in ReplicaStates /\ SameLog(s, t) /\ t.timers = ts
  BY <1>1, <1>3, TimersChange
<1>. QED BY <1>2, <1>4, GoodSmall DEF t

\* To ask for a state transfer changes no log.
LEMMA GoodRequestStateTransfer ==
    ASSUME Inv, NEW r \in Replicas, NEW s, GoodState(r, s)
    PROVE  /\ GoodState(r, RequestStateTransfer(s))
           /\ NewLog(r, RequestStateTransfer(s)) = NewLog(r, s)
           /\ SameLog(s, RequestStateTransfer(s))
<1>. DEFINE x == <<s.view, s.lastCommitted>>
            t == RequestStateTransfer(s)
<1>1. s \in ReplicaStates /\ x \in Views \X Nat
  BY GoodBounds, StateFields DEF Views
<1>2. t = [s EXCEPT !.lastTransfer = x]
  BY DEF RequestStateTransfer
<1>. HIDE DEF t, x
<1>3. t \in ReplicaStates /\ SameLog(s, t) /\ t.timers = s.timers
  BY <1>1, <1>2, TransferChange
<1>. QED BY <1>3, GoodSmall DEF t

\* A PREPARE that is set aside still is a piece of the leader's log.
LEMMA GoodDefer ==
    ASSUME Inv, NEW r \in Replicas, NEW s, GoodState(r, s),
           NEW b \in Batches, BatchOf(b, NewLog(r, s))
    PROVE  GoodState(r, Defer(s, b)) /\ NewLog(r, Defer(s, b)) = NewLog(r, s)
<1>. DEFINE u == RequestStateTransfer(s)
            p == SetAside(u.pending, b)
            t == Defer(s, b)
<1>1. GoodState(r, u) /\ NewLog(r, u) = NewLog(r, s)
  BY GoodRequestStateTransfer
<1>2. t = [u EXCEPT !.pending = p]
  BY <1>1, GoodBounds DEF Defer, ReplicaStates
<1>. HIDE DEF u, t
<1>3. u.pending \in Seq(Batches)
  BY <1>1, GoodBounds, StateFields
<1>4. \A k \in 1 .. Len(u.pending) : BatchOf(u.pending[k], NewLog(r, s))
  BY <1>1 DEF GoodState, FollowsLog
<1>5. p \in Seq(Batches) /\ \A k \in 1 .. Len(p) : BatchOf(p[k], NewLog(r, s))
  <2>1. CASE p = u.pending
    BY <1>3, <1>4, <2>1
  <2>2. CASE p = Append(u.pending, b)
    <3>. DEFINE n == Len(u.pending)
    <3>1. /\ n \in Nat /\ p \in Seq(Batches) /\ Len(p) = n + 1 /\ p[n + 1] = b
          /\ \A k \in 1 .. n : p[k] = u.pending[k]
      BY <1>3, <2>2
    <3>2. \A k \in 1 .. n + 1 : k \in 1 .. n \/ k = n + 1
      BY <3>1
    <3>. HIDE DEF n, p
    <3>. QED BY <1>4, <3>1, <3>2 DEF n
  <2>. QED BY <2>1, <2>2 DEF SetAside
<1>. HIDE DEF p
<1>6. t \in ReplicaStates
  BY <1>1, <1>2, <1>5, GoodBounds, PendingChange
<1>7. /\ t.view = u.view /\ t.status = u.status /\ t.log = u.log /\ t.lastOp = u.lastOp
      /\ t.lastCommitted = u.lastCommitted /\ t.pending = p /\ t.work = u.work
      /\ t.lastPrepare = u.lastPrepare /\ t.timers = u.timers
  BY <1>1, <1>2, <1>5, GoodBounds, PendingChange
<1>8. /\ \A k \in 1 .. Len(t.work) : BatchOf(t.work[k], NewLog(r, u))
      /\ "resendPrepare" \in t.timers => BatchOf(t.lastPrepare, NewLog(r, u))
      /\ u.lastCommitted <= t.lastCommitted /\ t.lastCommitted <= Len(t.log)
  <2>1. FollowsLog(u, NewLog(r, u)) /\ u \in ReplicaStates
    BY <1>1 DEF GoodState
  <2>2. u.lastCommitted \in Nat /\ u.lastCommitted <= Len(u.log)
    BY <2>1, StateFields DEF FollowsLog
  <2>. QED BY <1>7, <2>1, <2>2 DEF FollowsLog
<1>. QED BY <1>1, <1>5, <1>6, <1>7, <1>8, GoodSameLog DEF t

\* A follower may continue its log along that of the leader.
LEMMA GoodExtended ==
    ASSUME Inv, NEW r \in Replicas, r # Leader, NEW s, GoodState(r, s), NEW t \in ReplicaStates,
           t.view = s.view, t.status = s.status, t.lastCommitted = s.lastCommitted,
           t.pending = s.pending, t.work = s.work, t.lastPrepare = s.lastPrepare,
           t.timers = s.timers,
           t.lastOp = Len(t.log), Len(s.log) <= Len(t.log), Len(t.log) <= Len(LeaderLog),
           \A k \in 1 .. Len(t.log) : t.log[k] = LeaderLog[k]
    PROVE  GoodState(r, t) /\ NewLog(r, t) = NewLog(r, s)
<1>1. NewLog(r, s) = LeaderLog /\ NewLog(r, t) = LeaderLog
  BY DEF NewLog
<1>2. s \in ReplicaStates /\ FollowsLog(s, LeaderLog)
  BY <1>1 DEF GoodState
<1>3. FollowsLog(rep[Leader], LeaderLog) /\ rep[Leader] \in ReplicaStates
  BY LeaderIsReplica DEF Inv, TypeOK, LogsFollowLeader, LeaderLog, Leader
<1>4. /\ Len(LeaderLog) \in Nat /\ Len(t.log) \in Nat /\ Len(s.log) \in Nat
      /\ Len(rep[r].log) \in Nat /\ s.lastCommitted \in Nat
  BY <1>2, <1>3, GoodNow, StateFields DEF LeaderLog
<1>5. \A k \in 1 .. Len(t.log) : t.log[k].view = 0
  BY <1>3, <1>4 DEF FollowsLog, LeaderLog
<1>6. FollowsLog(t, LeaderLog)
  BY <1>2, <1>4, <1>5 DEF FollowsLog
<1>7. Grows(rep[r].log, t.log)
  <2>1. Grows(rep[r].log, s.log)
    BY DEF GoodState
  <2>2. \A k \in 1 .. Len(rep[r].log) : k \in 1 .. Len(s.log) /\ k \in 1 .. Len(t.log)
    BY <1>4, <2>1 DEF Grows
  <2>3. \A k \in 1 .. Len(s.log) : s.log[k] = LeaderLog[k]
    BY <1>2 DEF FollowsLog
  <2>. QED BY <1>4, <2>1, <2>2, <2>3 DEF Grows
<1>. QED BY <1>1, <1>6, <1>7 DEF GoodState

\* The part after opnum n of a piece of log h that starts at opnum f.
LEMMA PieceSuffix ==
    ASSUME NEW S, NEW qs \in Seq(S), NEW h, NEW f \in Nat, NEW n \in Nat, NEW o \in Nat,
           o = f + Len(qs) - 1, f <= n + 1, n < o,
           \A k \in 1 .. Len(qs) : qs[k] = h[f + k - 1]
    PROVE  /\ SubSeq(qs, n + 2 - f, Len(qs)) \in Seq(S)
           /\ Len(SubSeq(qs, n + 2 - f, Len(qs))) = o - n
           /\ \A k \in 1 .. o - n : SubSeq(qs, n + 2 - f, Len(qs))[k] = h[n + k]
<1>1. PICK c \in Nat : c = Len(qs)
  OBVIOUS
<1>2. PICK a \in Int : a = n + 2 - f
  OBVIOUS
<1>3. 1 <= a /\ a <= c /\ c - a + 1 = o - n
  BY <1>1, <1>2
<1>4. \A k \in a .. c : qs[k] \in S
  BY <1>1, <1>2, <1>3, ElementOfSeq
<1>5. /\ SubSeq(qs, a, c) \in Seq(S)
      /\ Len(SubSeq(qs, a, c)) = IF a <= c THEN c - a + 1 ELSE 0
      /\ \A k \in 1 .. c - a + 1 : SubSeq(qs, a, c)[k] = qs[a + k - 1]
  BY <1>4, SubSeqProperties
<1>6. \A k \in 1 .. o - n : SubSeq(qs, a, c)[k] = h[n + k]
  <2>. TAKE k \in 1 .. o - n
  <2>1. a + k - 1 \in 1 .. Len(qs) /\ f + (a + k - 1) - 1 = n + k
    BY <1>1, <1>2, <1>3
  <2>2. qs[a + k - 1] = h[f + (a + k - 1) - 1]
    BY <2>1
  <2>. QED BY <1>3, <1>5, <2>1, <2>2
<1>. QED BY <1>1, <1>2, <1>3, <1>5, <1>6

\* The requests that a PREPARE adds are those of the leader's log.
LEMMA NewRequestsFacts ==
    ASSUME NEW s \in ReplicaStates, NEW b \in Batches, NEW l \in Seq(Entries), BatchOf(b, l),
           s.lastOp = Len(s.log), b.batchstart <= s.lastOp + 1, s.lastOp < b.opnum
    PROVE  /\ NewRequests(s, b) \in Seq(Requests)
           /\ Len(NewRequests(s, b)) = b.opnum - s.lastOp
           /\ \A k \in 1 .. b.opnum - s.lastOp : NewRequests(s, b)[k] = l[s.lastOp + k].req
<1>1. /\ s.lastOp \in Nat /\ b.batchstart \in Nat /\ b.opnum \in Nat /\ Len(l) \in Nat
      /\ b.requests \in Seq(Requests)
  BY StateFields DEF Batches
<1>2. /\ b.opnum = b.batchstart + Len(b.requests) - 1 /\ 1 <= b.batchstart
      /\ b.opnum <= Len(l)
      /\ \A k \in 1 .. Len(b.requests) : b.requests[k] = l[b.batchstart + k - 1].req
  BY DEF BatchOf
<1>. DEFINE h == [k \in 1 .. Len(l) |-> l[k].req]
<1>3. PICK qs, f, n, o : qs = b.requests /\ f = b.batchstart /\ n = s.lastOp /\ o = b.opnum
  OBVIOUS
<1>4. /\ qs \in Seq(Requests) /\ f \in Nat /\ n \in Nat /\ o \in Nat
      /\ o = f + Len(qs) - 1 /\ f <= n + 1 /\ n < o
  BY <1>1, <1>2, <1>3
<1>5. \A k \in 1 .. Len(qs) : qs[k] = h[f + k - 1]
  <2>1. Len(qs) \in Nat /\ 1 <= f /\ o <= Len(l)
    BY <1>2, <1>3, <1>4
  <2>2. \A k \in 1 .. Len(qs) : f + k - 1 \in 1 .. Len(l)
    BY <1>1, <1>4, <2>1
  <2>. QED BY <1>2, <1>3, <2>2
<1>6. \A k \in 1 .. o - n : h[n + k] = l[n + k].req
  <2>1. \A k \in 1 .. o - n : n + k \in 1 .. Len(l)
    BY <1>1, <1>2, <1>3, <1>4
  <2>. QED BY <2>1
<1>. HIDE DEF h
<1>7. /\ SubSeq(qs, n + 2 - f, Len(qs)) \in Seq(Requests)
      /\ Len(SubSeq(qs, n + 2 - f, Len(qs))) = o - n
      /\ \A k \in 1 .. o - n : SubSeq(qs, n + 2 - f, Len(qs))[k] = h[n + k]
  BY <1>4, <1>5, PieceSuffix
<1>8. NewRequests(s, b) = SubSeq(qs, n + 2 - f, Len(qs))
  BY <1>3 DEF NewRequests
<1>. QED BY <1>3, <1>6, <1>7, <1>8

\* An entry of the leader's log is its request in view 0.
LEMMA LeaderLogEntries ==
    ASSUME Inv
    PROVE  /\ LeaderLog \in Seq(Entries) /\ Len(LeaderLog) \in Nat
           /\ \A k \in 1 .. Len(LeaderLog) :
                  LeaderLog[k] = [view |-> 0, req |-> LeaderLog[k].req]
<1>1. FollowsLog(rep[Leader], LeaderLog) /\ rep[Leader] \in ReplicaStates
  BY LeaderIsReplica DEF Inv, TypeOK, LogsFollowLeader, LeaderLog, Leader
<1>2. LeaderLog \in Seq(Entries) /\ Len(LeaderLog) \in Nat
  BY <1>1, StateFields DEF LeaderLog
<1>3. \A k \in 1 .. Len(LeaderLog) : LeaderLog[k].view = 0
  BY <1>1 DEF FollowsLog, LeaderLog
<1>. HIDE DEF LeaderLog
<1>4. \A k \in 1 .. Len(LeaderLog) : LeaderLog[k] \in Entries
  BY <1>2, ElementOfSeq
<1>. QED BY <1>2, <1>3, <1>4 DEF Entries

\* The log with a PREPARE's new operations is a prefix of the leader's log.
LEMMA GoodAppendBatch ==
    ASSUME Inv, NEW r \in Replicas, r # Leader, NEW s, GoodState(r, s),
           NEW b \in Batches, BatchOf(b, LeaderLog),
           b.batchstart <= s.lastOp + 1, s.lastOp < b.opnum
    PROVE  GoodState(r, AppendBatch(s, b)) /\ NewLog(r, AppendBatch(s, b)) = NewLog(r, s)
<1>. DEFINE l     == LeaderLog
            n     == s.lastOp
            fresh == NewRequests(s, b)
            added == [k \in 1 .. Len(fresh) |-> [view |-> b.view, req |-> fresh[k]]]
            table == UpdateClientTable(s.clientTable, fresh)
            t     == AppendBatch(s, b)
<1>1. /\ s \in ReplicaStates /\ n = Len(s.log) /\ n \in Nat /\ s.log \in Seq(Entries)
      /\ s.clientTable \in Tables /\ b.opnum \in Nat /\ b.opnum <= Len(l) /\ b.view = 0
  BY GoodBounds, StateFields DEF Batches, BatchOf
<1>2. /\ l \in Seq(Entries) /\ Len(l) \in Nat
      /\ \A k \in 1 .. Len(l) : l[k] = [view |-> 0, req |-> l[k].req]
  BY LeaderLogEntries
<1>. HIDE DEF l
<1>3. /\ fresh \in Seq(Requests)
      /\ Len(fresh) = b.opnum - n
      /\ \A k \in 1 .. b.opnum - n : fresh[k] = l[n + k].req
  BY <1>1, <1>2, NewRequestsFacts DEF l
<1>4. table \in Tables
  BY <1>1, <1>3, UpdateClientTableType
<1>. HIDE DEF fresh
<1>5. /\ added \in Seq(Entries) /\ Len(added) = b.opnum - n
      /\ \A k \in 1 .. b.opnum - n : added[k] = l[n + k]
  <2>. DEFINE d == b.opnum - n
  <2>1. d \in Nat /\ Len(fresh) = d
    BY <1>1, <1>3
  <2>2. \A k \in 1 .. d : fresh[k] \in Requests
    BY <1>3, <2>1, ElementOfSeq
  <2>3. \A k \in 1 .. d : n + k \in 1 .. Len(l)
    BY <1>1, <1>2, <2>1
  <2>. HIDE DEF d
  <2>4. added = [k \in 1 .. d |-> [view |-> 0, req |-> fresh[k]]]
    BY <1>1, <2>1
  <2>. HIDE DEF added
  <2>5. added \in [1 .. d -> Entries]
    BY <2>2, <2>4 DEF Entries, Views
  <2>6. added \in Seq(Entries) /\ Len(added) = d
    BY <2>1, <2>5
  <2>7. \A k \in 1 .. d : added[k] = l[n + k]
    BY <1>2, <1>3, <2>3, <2>4 DEF d
  <2>. QED BY <2>6, <2>7 DEF d
<1>. HIDE DEF table
<1>6. t = [s EXCEPT !.log = s.log \o added, !.lastOp = b.opnum, !.clientTable = table]
  BY <1>1 DEF AppendBatch, fresh, table, ReplicaStates
<1>. HIDE DEF added, t
<1>7. /\ s.log \o added \in Seq(Entries)
      /\ Len(s.log \o added) = b.opnum
      /\ \A k \in 1 .. b.opnum :
             (s.log \o added)[k] = IF k <= n THEN s.log[k] ELSE added[k - n]
  BY <1>1, <1>5, ConcatProperties
<1>8. t \in ReplicaStates
  BY <1>1, <1>4, <1>6, <1>7 DEF ReplicaStates, Tables
<1>9. /\ t.view = s.view /\ t.status = s.status /\ t.lastCommitted = s.lastCommitted
      /\ t.pending = s.pending /\ t.work = s.work /\ t.lastPrepare = s.lastPrepare
      /\ t.timers = s.timers /\ t.log = s.log \o added /\ t.lastOp = b.opnum
  BY <1>1, <1>6 DEF ReplicaStates
<1>10. \A k \in 1 .. b.opnum : (s.log \o added)[k] = l[k]
  <2>. TAKE k \in 1 .. b.opnum
  <2>1. CASE k <= n
    <3>1. k \in 1 .. Len(s.log)
      BY <1>1, <2>1
    <3>2. s.log[k] = l[k]
      BY <3>1 DEF GoodState, FollowsLog, NewLog, l
    <3>. QED BY <1>7, <2>1, <3>2
  <2>2. CASE ~ (k <= n)
    <3>1. k - n \in 1 .. b.opnum - n /\ n + (k - n) = k
      BY <1>1, <2>2
    <3>. QED BY <1>5, <1>7, <2>2, <3>1
  <2>. QED BY <2>1, <2>2
<1>11. t.lastOp = Len(t.log) /\ Len(s.log) <= Len(t.log) /\ Len(t.log) <= Len(LeaderLog)
  BY <1>1, <1>7, <1>9 DEF l
<1>12. \A k \in 1 .. Len(t.log) : t.log[k] = LeaderLog[k]
  BY <1>7, <1>9, <1>10 DEF l
<1>. QED BY <1>8, <1>9, <1>11, <1>12, GoodExtended DEF t

-------------------------------------------------------------------------------
(* The handlers                                                            *)

\* Messages are judged by the log of the leader after the step.
LEMMA GoodMessagesSameLog ==
    ASSUME NEW r, NEW s, NEW t, NEW sent, GoodMessages(r, s, sent), NewLog(r, t) = NewLog(r, s)
    PROVE  GoodMessages(r, t, sent)
BY DEF GoodMessages

\* A PREPARE that is a piece of the leader's log is set aside, is known, or
\* continues the log.
LEMMA StepHandlePrepare ==
    ASSUME Inv, NEW r \in Replicas, NEW s, GoodState(r, s), NewLog(r, s) = LeaderLog,
           NEW b \in Batches, BatchOf(b, LeaderLog), NEW gone, HandlePrepare(r, s, b, gone)
    PROVE  GoodStep
<1>. DEFINE ok == {PrepareOK(s, r, b.opnum)}
<1>1. b.opnum \in Nat /\ b.view = 0 /\ s.view = 0
  BY GoodBounds DEF Batches, BatchOf
<1>2. CASE Become(r, s) /\ Network(gone, {})
  <2>1. GoodMessages(r, s, {})
    BY DEF GoodMessages
  <2>. QED BY <1>2, <2>1, GoodNetwork
<1>3. CASE /\ Become(r, Defer(IF b.view > s.view THEN s ELSE Heard(s), b))
           /\ Network(gone, StateTransferRequests(s, r))
  <2>. DEFINE t == Defer(Heard(s), b)
  <2>1. Become(r, t)
    BY <1>1, <1>3
  <2>2. GoodState(r, t) /\ NewLog(r, t) = LeaderLog
    BY GoodHeard, GoodDefer
  <2>3. GoodMessages(r, t, StateTransferRequests(s, r))
    BY SmallMessagesGood DEF GoodMessages
  <2>. HIDE DEF t
  <2>. QED BY <1>3, <2>1, <2>2, <2>3, GoodNetwork
<1>4. CASE Become(r, Heard(s)) /\ Network(gone, ok)
  <2>1. GoodMessages(r, Heard(s), ok)
    BY <1>1, SmallMessagesGood DEF GoodMessages
  <2>. QED BY <1>4, <2>1, GoodHeard, GoodNetwork
<1>5. CASE /\ r # Leader /\ b.batchstart <= s.lastOp + 1 /\ s.lastOp < b.opnum
           /\ Become(r, AppendBatch(Heard(s), b)) /\ Network(gone, ok)
  <2>. DEFINE u == Heard(s)
              t == AppendBatch(u, b)
  <2>1. GoodState(r, u) /\ NewLog(r, u) = LeaderLog /\ u.lastOp = s.lastOp
    BY GoodHeard DEF SameLog
  <2>2. GoodMessages(r, t, ok)
    BY <1>1, SmallMessagesGood DEF GoodMessages
  <2>. HIDE DEF u
  <2>3. GoodState(r, t)
    BY <1>5, <2>1, GoodAppendBatch
  <2>. QED BY <1>5, <2>2, <2>3, GoodNetwork DEF u
<1>6. CASE Become(r, Abort(s)) /\ Network(gone, {})
  <2>1. GoodMessages(r, Abort(s), {})
    BY DEF GoodMessages
  <2>. QED BY <1>6, <2>1, GoodAbort, GoodNetwork
<1>7. AmLeader(s, r) <=> r = Leader
  BY GoodBounds
<1>. QED BY <1>2, <1>3, <1>4, <1>5, <1>6, <1>7 DEF HandlePrepare

\* The messages of the network, for the handler of one of them.
LEMMA ReceivedFacts ==
    ASSUME Inv, NEW r, NEW type, NEW m \in Received(r, type)
    PROVE  m \in Messages /\ m.type = type /\ CarriesLog(m, LeaderLog)
BY DEF Inv, TypeOK, LogsFollowLeader, LeaderLog, Leader, Received

\* The PREPARE comes from the network.
LEMMA StepReceivePrepare ==
    ASSUME Inv, NEW r \in Replicas, ReceivePrepare(r)
    PROVE  GoodStep
<1>1. PICK m \in Received(r, "Prepare") : HandlePrepare(r, rep[r], m.batch, {m})
  BY DEF ReceivePrepare
<1>2. m \in Messages /\ m.type = "Prepare" /\ CarriesLog(m, LeaderLog)
  BY ReceivedFacts
<1>3. m.batch \in Batches /\ BatchOf(m.batch, LeaderLog)
  BY <1>2 DEF Messages, CarriesLog
<1>. QED BY <1>1, <1>3, GoodNow, StepHandlePrepare

\* A PREPARE that had been set aside is a piece of the leader's log, and the
\* state without it is good.
LEMMA GoodWorkTaken ==
    ASSUME Inv, NEW r \in Replicas, rep[r].work # <<>>
    PROVE  LET s == [rep[r] EXCEPT !.work = Tail(rep[r].work)]
               b == Head(rep[r].work)
           IN  /\ GoodState(r, s) /\ NewLog(r, s) = LeaderLog
               /\ b \in Batches /\ BatchOf(b, LeaderLog)
<1>. DEFINE w == rep[r].work
            b == Head(w)
            v == Tail(w)
            s == [rep[r] EXCEPT !.work = v]
<1>1. s = [rep[r] EXCEPT !.work = v]
  OBVIOUS
<1>2. w # <<>>
  OBVIOUS
<1>. HIDE DEF s
<1>3. w \in Seq(Batches) /\ \A k \in 1 .. Len(w) : BatchOf(w[k], LeaderLog)
  BY GoodNow, StateFields DEF GoodState, FollowsLog
<1>4. /\ v \in Seq(Batches) /\ b \in Batches /\ b = w[1] /\ 1 \in 1 .. Len(w)
      /\ \A k \in 1 .. Len(v) : v[k] = w[k + 1] /\ k + 1 \in 1 .. Len(w)
  <2>. HIDE DEF w, b
  <2>1. /\ v \in Seq(Batches) /\ b \in Batches /\ Len(v) = Len(w) - 1
        /\ \A k \in 1 .. Len(v) : v[k] = w[k + 1]
    BY <1>2, <1>3, HeadTailProperties DEF b
  <2>2. Len(w) \in Nat /\ Len(w) # 0 /\ b = w[1]
    BY <1>2, <1>3 DEF b
  <2>3. \A k \in 1 .. Len(v) : k + 1 \in 1 .. Len(w)
    <3>1. PICK n \in Nat : n = Len(w)
      BY <2>2
    <3>2. \A k \in 1 .. n - 1 : k + 1 \in 1 .. n
      OBVIOUS
    <3>. QED BY <2>1, <3>1, <3>2
  <2>4. 1 \in 1 .. Len(w)
    BY <2>2
  <2>. QED BY <2>1, <2>2, <2>3, <2>4
<1>5. BatchOf(b, LeaderLog) /\ \A k \in 1 .. Len(v) : BatchOf(v[k], LeaderLog)
  BY <1>3, <1>4
<1>. HIDE DEF b, v
<1>6. /\ s \in ReplicaStates
      /\ s.view = rep[r].view /\ s.status = rep[r].status /\ s.log = rep[r].log
      /\ s.lastOp = rep[r].lastOp /\ s.lastCommitted = rep[r].lastCommitted
      /\ s.pending = rep[r].pending /\ s.work = v
      /\ s.lastPrepare = rep[r].lastPrepare /\ s.timers = rep[r].timers
  BY <1>1, <1>4, GoodNow, WorkChange
<1>7. GoodState(r, s) /\ NewLog(r, s) = LeaderLog
  <2>1. /\ GoodState(r, rep[r]) /\ NewLog(r, rep[r]) = LeaderLog
        /\ FollowsLog(rep[r], LeaderLog)
    BY GoodNow DEF GoodState
  <2>2. rep[r].lastCommitted \in Nat /\ rep[r].lastCommitted <= Len(rep[r].log)
    BY <2>1, GoodNow, StateFields DEF FollowsLog
  <2>3. /\ \A k \in 1 .. Len(s.pending) : BatchOf(s.pending[k], LeaderLog)
        /\ "resendPrepare" \in s.timers => BatchOf(s.lastPrepare, LeaderLog)
    BY <1>6, <2>1 DEF FollowsLog
  <2>4. \A k \in 1 .. Len(s.work) : BatchOf(s.work[k], LeaderLog)
    BY <1>5, <1>6
  <2>5. s.lastCommitted <= Len(s.log) /\ rep[r].lastCommitted <= s.lastCommitted
    BY <1>6, <2>2
  <2>. QED BY <1>6, <2>1, <2>3, <2>4, <2>5, GoodSameLog
<1>. QED BY <1>4, <1>5, <1>7 DEF s, b, v

\* The PREPARE had been set aside.
LEMMA StepReplayPending ==
    ASSUME Inv, NEW r \in Replicas, ReplayPending(r)
    PROVE  GoodStep
<1>. DEFINE s == [rep[r] EXCEPT !.work = Tail(rep[r].work)]
            b == Head(rep[r].work)
<1>1. rep[r].work # <<>> /\ HandlePrepare(r, s, b, {})
  BY DEF ReplayPending
<1>2. GoodState(r, s) /\ NewLog(r, s) = LeaderLog /\ b \in Batches /\ BatchOf(b, LeaderLog)
  BY <1>1, GoodWorkTaken
<1>. HIDE DEF s, b
<1>. QED BY <1>1, <1>2, StepHandlePrepare

\* The outstanding batch is done, and what has gathered since is sent.
LEMMA GoodFinishBatch ==
    ASSUME Inv, NEW r \in Replicas, NEW s, GoodState(r, s), NEW k \in Nat
    PROVE  GoodState(r, FinishBatch(s, r, k)) /\ NewLog(r, FinishBatch(s, r, k)) = NewLog(r, s)
<1>. DEFINE ts   == s.timers \cup {"nullCommit"}
            full == s.batchComplete \/ s.lastBatchEnd = k
            t    == [s EXCEPT !.timers = ts, !.batchComplete = full]
<1>1. /\ s \in ReplicaStates /\ ts \in SUBSET Timers
      /\ "resendPrepare" \in ts => "resendPrepare" \in s.timers
  BY GoodBounds, StateFields DEF Timers
<1>2. full \in BOOLEAN
  BY <1>1, StateFields
<1>3. PICK u : u = [s EXCEPT !.timers = ts]
  OBVIOUS
<1>4. t = [u EXCEPT !.batchComplete = full]
  BY <1>3
<1>5. FinishBatch(s, r, k) = t \/ FinishBatch(s, r, k) = CloseBatch(t, r)
  <2>1. t = [s EXCEPT !.timers = s.timers \cup {"nullCommit"},
                      !.batchComplete = s.batchComplete \/ s.lastBatchEnd = k]
    OBVIOUS
  <2>. QED BY <2>1 DEF FinishBatch
<1>. HIDE DEF ts, full, t
<1>6. u \in ReplicaStates /\ SameLog(s, u) /\ u.timers = ts
  BY <1>1, <1>3, TimersChange
<1>7. t \in ReplicaStates /\ SameLog(u, t) /\ t.timers = ts
  BY <1>2, <1>4, <1>6, FullChange
<1>8. GoodState(r, u) /\ NewLog(r, u) = NewLog(r, s)
  BY <1>1, <1>6, GoodSmall
<1>9. GoodState(r, t) /\ NewLog(r, t) = NewLog(r, s)
  BY <1>6, <1>7, <1>8, GoodSmall
<1>. QED BY <1>5, <1>9, GoodCloseBatch

\* A PREPAREOK, and the commit and the batch it may lead to.
LEMMA StepReceivePrepareOK ==
    ASSUME Inv, NEW r \in Replicas, ReceivePrepareOK(r)
    PROVE  GoodStep /\ replies' \subseteq ReplyMessages
<1>1. PICK m \in Received(r, "PrepareOK") : HandlePrepareOK(r, m)
  BY DEF ReceivePrepareOK
<1>2. m.from \in Replicas /\ m.opnum \in Nat
  <2>1. m \in Messages /\ m.type = "PrepareOK"
    BY ReceivedFacts
  <2>. QED BY <2>1 DEF Messages
<1>. DEFINE oks == rep[r].prepareOKs \cup {<<m.opnum, m.from>>}
            s   == [rep[r] EXCEPT !.prepareOKs = oks]
            c   == CommitUpTo(s, m.opnum)
            f   == FinishBatch(c, r, m.opnum)
            out == CommitMessages(c, r) \cup
                       IF c.lastBatchEnd = m.opnum /\ c.lastOp > m.opnum
                       THEN ClosedBatch(c, r) ELSE {}
<1>3. /\ \/ Become(r, RequestStateTransfer(rep[r]))
            /\ Network({m}, StateTransferRequests(rep[r], r))
         \/ Become(r, s) /\ Network({m}, {})
         \/ Become(r, c) /\ Network({m}, {})
         \/ Become(r, f) /\ Network({m}, out)
      /\ replies' = replies \/ replies' = replies \cup RepliesTo(s, r, m.opnum)
  BY <1>1 DEF HandlePrepareOK
<1>4. GoodState(r, s) /\ NewLog(r, s) = LeaderLog
  <2>1. oks \in SUBSET (Nat \X Replicas)
    BY <1>2, GoodNow, StateFields
  <2>2. s = [rep[r] EXCEPT !.prepareOKs = oks]
    OBVIOUS
  <2>. HIDE DEF s, oks
  <2>3. s \in ReplicaStates /\ SameLog(rep[r], s) /\ s.timers = rep[r].timers
    BY <2>1, <2>2, GoodNow, AcksChange
  <2>. QED BY <2>3, GoodNow, GoodSmall
<1>. HIDE DEF s
<1>5. GoodState(r, c) /\ NewLog(r, c) = LeaderLog
  BY <1>2, <1>4, GoodCommitUpTo
<1>. HIDE DEF c
<1>6. GoodState(r, f) /\ NewLog(r, f) = LeaderLog
  BY <1>2, <1>5, GoodFinishBatch
<1>7. GoodMessages(r, f, out)
  <2>1. GoodMessages(r, f, CommitMessages(c, r))
    BY <1>5, SmallMessagesGood DEF GoodMessages
  <2>2. GoodMessages(r, f, ClosedBatch(c, r))
    BY <1>5, <1>6, GoodCloseBatch, GoodMessagesSameLog
  <2>. HIDE DEF f
  <2>. QED BY <2>1, <2>2 DEF GoodMessages
<1>8. replies' \subseteq ReplyMessages
  <2>1. RepliesTo(s, r, m.opnum) \subseteq ReplyMessages
    BY <1>2, <1>4, GoodBounds, RepliesToType
  <2>2. replies \subseteq ReplyMessages
    BY DEF Inv, TypeOK
  <2>. QED BY <1>3, <2>1, <2>2
<1>9. GoodStep
  <2>. HIDE DEF f, out
  <2>1. CASE /\ Become(r, RequestStateTransfer(rep[r]))
             /\ Network({m}, StateTransferRequests(rep[r], r))
    <3>1. GoodMessages(r, RequestStateTransfer(rep[r]), StateTransferRequests(rep[r], r))
      BY GoodNow, SmallMessagesGood DEF GoodMessages
    <3>. QED BY <2>1, <3>1, GoodNow, GoodRequestStateTransfer, GoodNetwork
  <2>2. \A t : GoodMessages(r, t, {})
    BY DEF GoodMessages
  <2>3. CASE Become(r, s) /\ Network({m}, {})
    BY <1>4, <2>2, <2>3, GoodNetwork
  <2>4. CASE Become(r, c) /\ Network({m}, {})
    BY <1>5, <2>2, <2>4, GoodNetwork
  <2>5. CASE Become(r, f) /\ Network({m}, out)
    BY <1>6, <1>7, <2>5, GoodNetwork
  <2>. QED BY <1>3, <2>1, <2>3, <2>4, <2>5
<1>. QED BY <1>8, <1>9

\* A COMMIT executes operations of the follower's log only.
LEMMA StepReceiveCommit ==
    ASSUME Inv, NEW r \in Replicas, ReceiveCommit(r)
    PROVE  GoodStep /\ replies' \subseteq ReplyMessages
<1>. DEFINE s == rep[r]
<1>1. PICK m \in Received(r, "Commit") : HandleCommit(r, m)
  BY DEF ReceiveCommit
<1>2. m.opnum \in Nat /\ m.view = 0
  <2>1. m \in Messages /\ m.type = "Commit" /\ CarriesLog(m, LeaderLog)
    BY ReceivedFacts
  <2>. QED BY <2>1 DEF Messages, CarriesLog
<1>3. /\ \/ Become(r, RequestStateTransfer(s)) /\ Network({m}, StateTransferRequests(s, r))
         \/ Become(r, Abort(s)) /\ Network({m}, {})
         \/ Become(r, Heard(s)) /\ Network({m}, {})
         \/ /\ Become(r, RequestStateTransfer(Heard(s)))
            /\ Network({m}, StateTransferRequests(s, r))
         \/ Become(r, CommitUpTo(Heard(s), m.opnum)) /\ Network({m}, {})
      /\ replies' = replies \/ replies' = replies \cup RepliesTo(s, r, m.opnum)
  BY <1>1 DEF HandleCommit
<1>4. GoodState(r, s) /\ GoodState(r, Heard(s))
  BY GoodNow, GoodHeard
<1>5. \A t : GoodMessages(r, t, {}) /\ GoodMessages(r, t, StateTransferRequests(s, r))
  BY <1>4, SmallMessagesGood DEF GoodMessages
<1>6. replies' \subseteq ReplyMessages
  <2>1. RepliesTo(s, r, m.opnum) \subseteq ReplyMessages
    BY <1>2, GoodNow, RepliesToType
  <2>2. replies \subseteq ReplyMessages
    BY DEF Inv, TypeOK
  <2>. QED BY <1>3, <2>1, <2>2
<1>7. CASE Become(r, RequestStateTransfer(s)) /\ Network({m}, StateTransferRequests(s, r))
  BY <1>4, <1>5, <1>6, <1>7, GoodRequestStateTransfer, GoodNetwork
<1>8. CASE Become(r, Abort(s)) /\ Network({m}, {})
  BY <1>4, <1>5, <1>6, <1>8, GoodAbort, GoodNetwork
<1>9. CASE Become(r, Heard(s)) /\ Network({m}, {})
  BY <1>4, <1>5, <1>6, <1>9, GoodNetwork
<1>10. CASE /\ Become(r, RequestStateTransfer(Heard(s)))
            /\ Network({m}, StateTransferRequests(s, r))
  BY <1>4, <1>5, <1>6, <1>10, GoodRequestStateTransfer, GoodNetwork
<1>11. CASE Become(r, CommitUpTo(Heard(s), m.opnum)) /\ Network({m}, {})
  BY <1>2, <1>4, <1>5, <1>6, <1>11, GoodCommitUpTo, GoodNetwork
<1>. QED BY <1>3, <1>7, <1>8, <1>9, <1>10, <1>11

\* A log dump is a piece of the sender's log, and so of the leader's.
LEMMA StepReceiveRequestStateTransfer ==
    ASSUME Inv, NEW r \in Replicas, ReceiveRequestStateTransfer(r)
    PROVE  GoodStep
<1>. DEFINE s == rep[r]
<1>1. PICK m \in Received(r, "RequestStateTransfer") : HandleRequestStateTransfer(r, m)
  BY DEF ReceiveRequestStateTransfer
<1>2. m.opnum \in Nat /\ m.from \in Replicas
  <2>1. m \in Messages /\ m.type = "RequestStateTransfer"
    BY ReceivedFacts
  <2>. QED BY <2>1 DEF Messages
<1>. DEFINE dump == SubSeq(s.log, m.opnum + 1, Len(s.log))
            x    == [type |-> "StateTransfer", to |-> m.from, view |-> s.view,
                     opnum |-> s.lastCommitted, first |-> m.opnum + 1, entries |-> dump]
<1>3. \/ Become(r, RequestStateTransfer(s)) /\ Network({m}, StateTransferRequests(s, r))
      \/ UNCHANGED rep /\ Network({m}, {x})
  BY <1>1 DEF HandleRequestStateTransfer, LogDump
<1>4. CASE Become(r, RequestStateTransfer(s)) /\ Network({m}, StateTransferRequests(s, r))
  <2>1. GoodMessages(r, RequestStateTransfer(s), StateTransferRequests(s, r))
    BY GoodNow, SmallMessagesGood DEF GoodMessages
  <2>. QED BY <1>4, <2>1, GoodNow, GoodRequestStateTransfer, GoodNetwork
<1>5. CASE UNCHANGED rep /\ Network({m}, {x})
  <2>1. /\ s.log \in Seq(Entries) /\ Len(s.log) \in Nat /\ s.lastCommitted \in Nat
        /\ s.view = 0 /\ Len(s.log) <= Len(LeaderLog) /\ Len(LeaderLog) \in Nat
        /\ \A k \in 1 .. Len(s.log) : s.log[k] = LeaderLog[k]
    <3>1. FollowsLog(s, LeaderLog) /\ s \in ReplicaStates
      BY GoodNow DEF GoodState
    <3>. QED BY <3>1, StateFields, LeaderLogEntries DEF FollowsLog
  <2>2. PICK a \in Nat : a = m.opnum + 1
    BY <1>2
  <2>3. PICK n \in Nat : n = Len(s.log)
    BY <2>1
  <2>4. \A k \in a .. n : s.log[k] \in Entries
    <3>. TAKE k \in a .. n
    <3>1. k \in 1 .. Len(s.log)
      BY <1>2, <2>2, <2>3
    <3>. QED BY <2>1, <3>1, ElementOfSeq
  <2>5. /\ SubSeq(s.log, a, n) \in Seq(Entries)
        /\ Len(SubSeq(s.log, a, n)) = IF a <= n THEN n - a + 1 ELSE 0
        /\ \A k \in 1 .. n - a + 1 : SubSeq(s.log, a, n)[k] = s.log[a + k - 1]
    BY <2>4, SubSeqProperties
  <2>6. /\ dump \in Seq(Entries)
        /\ \A k \in 1 .. Len(dump) : /\ 1 <= a /\ a + k - 1 <= Len(LeaderLog)
                                     /\ dump[k] = LeaderLog[a + k - 1]
    <3>1. dump = SubSeq(s.log, a, n)
      BY <2>2, <2>3
    <3>. HIDE DEF dump
    <3>2. dump \in Seq(Entries)
      BY <2>5, <3>1
    <3>3. ASSUME NEW k \in 1 .. Len(dump)
          PROVE  /\ 1 <= a /\ a + k - 1 <= Len(LeaderLog)
                 /\ dump[k] = LeaderLog[a + k - 1]
      <4>1. a <= n /\ k \in 1 .. n - a + 1
        <5>1. Len(dump) = IF a <= n THEN n - a + 1 ELSE 0
          BY <2>5, <3>1
        <5>. QED BY <5>1, <3>3
      <4>2. PICK j \in Int : j = a + k - 1
        BY <4>1
      <4>3. 1 <= a /\ j \in 1 .. n
        <5>1. 1 <= a
          BY <1>2, <2>2
        <5>2. k \in Int /\ 1 <= k /\ k <= n - a + 1
          BY <4>1
        <5>. QED BY <4>2, <5>1, <5>2
      <4>4. j \in 1 .. Len(s.log) /\ j <= Len(LeaderLog)
        BY <2>1, <2>3, <4>3
      <4>5. dump[k] = s.log[j]
        BY <2>5, <3>1, <4>1, <4>2
      <4>6. s.log[j] = LeaderLog[j]
        BY <2>1, <4>4
      <4>. QED BY <4>2, <4>3, <4>4, <4>5, <4>6
    <3>. QED BY <3>2, <3>3
  <2>. HIDE DEF dump
  <2>7. x \in Messages
    BY <1>2, <2>1, <2>6 DEF Messages, Views
  <2>8. CarriesLog(x, LeaderLog)
    BY <2>1, <2>2, <2>6 DEF CarriesLog
  <2>. HIDE DEF x
  <2>. QED BY <1>5, <2>7, <2>8, GoodSend
<1>. QED BY <1>3, <1>4, <1>5

\* A log dump of the leader's log has no other operation than the log it meets.
LEMMA NothingReplaced ==
    ASSUME Inv, NEW r \in Replicas, NEW s, GoodState(r, s), NewLog(r, s) = LeaderLog,
           NEW m \in Messages, m.type = "StateTransfer", CarriesLog(m, LeaderLog)
    PROVE  Replaced(s, m) = {}
<1>. DEFINE l == LeaderLog
            n == s.lastOp
            f == m.first
            d == m.entries
            o == LastEntry(m)
<1>1. /\ s \in ReplicaStates /\ n = Len(s.log) /\ n \in Nat /\ s.log \in Seq(Entries)
      /\ \A k \in 1 .. Len(s.log) : s.log[k] = l[k] /\ s.log[k].view = 0
      /\ Len(s.log) <= Len(l)
  BY GoodBounds, StateFields DEF GoodState, FollowsLog
<1>2. /\ l \in Seq(Entries) /\ Len(l) \in Nat
      /\ \A k \in 1 .. Len(l) : l[k] = [view |-> 0, req |-> l[k].req]
  BY LeaderLogEntries
<1>3. /\ f \in Nat /\ d \in Seq(Entries) /\ Len(d) \in Nat /\ o = f + Len(d) - 1
      /\ \A k \in 1 .. Len(d) : 1 <= f /\ f + k - 1 <= Len(l) /\ d[k] = l[f + k - 1]
  BY DEF Messages, CarriesLog, LastEntry
<1>. SUFFICES ASSUME NEW k \in f .. o, k <= n, s.log[k].view # d[k - f + 1].view
              PROVE  FALSE
  BY DEF Replaced
<1>4. PICK j \in Int : j = k - f + 1
  BY <1>3
<1>5. j \in 1 .. Len(d) /\ k = f + j - 1
  BY <1>3, <1>4
<1>6. d[j] = l[k] /\ 1 <= k
  BY <1>3, <1>5
<1>7. k \in 1 .. Len(s.log) /\ k \in 1 .. Len(l)
  BY <1>1, <1>2, <1>3, <1>5, <1>6
<1>8. l[k].view = 0 /\ s.log[k].view = 0
  BY <1>1, <1>2, <1>7
<1>. QED BY <1>4, <1>6, <1>8

\* A log dump of the leader's log replaces nothing and continues the log.
LEMMA GoodInstall ==
    ASSUME Inv, NEW r \in Replicas, NEW s, GoodState(r, s), NewLog(r, s) = LeaderLog,
           NEW m \in Messages, m.type = "StateTransfer", CarriesLog(m, LeaderLog)
    PROVE  /\ GoodState(r, InstallEntries(s, m))
           /\ NewLog(r, InstallEntries(s, m)) = LeaderLog
           /\ OldLastOp(s, m) = s.lastOp
<1>. DEFINE l == LeaderLog
            n == s.lastOp
            f == m.first
            d == m.entries
            o == LastEntry(m)
<1>1. /\ s \in ReplicaStates /\ n = Len(s.log) /\ n \in Nat /\ s.log \in Seq(Entries)
      /\ \A k \in 1 .. Len(s.log) : s.log[k] = l[k] /\ s.log[k].view = 0
      /\ Len(s.log) <= Len(l)
  BY GoodBounds, StateFields DEF GoodState, FollowsLog
<1>2. /\ l \in Seq(Entries) /\ Len(l) \in Nat
      /\ \A k \in 1 .. Len(l) : l[k] = [view |-> 0, req |-> l[k].req]
  BY LeaderLogEntries
<1>3. /\ f \in Nat /\ d \in Seq(Entries) /\ Len(d) \in Nat /\ o = f + Len(d) - 1
      /\ \A k \in 1 .. Len(d) : 1 <= f /\ f + k - 1 <= Len(l) /\ d[k] = l[f + k - 1]
  BY DEF Messages, CarriesLog, LastEntry
<1>4. Replaced(s, m) = {}
  BY NothingReplaced
<1>5. OldLastOp(s, m) = n
  BY <1>4 DEF OldLastOp
<1>6. \/ InstallEntries(s, m) = s
      \/ InstallEntries(s, m) = Abort(s)
      \/ /\ d # <<>> /\ n < o /\ f <= n + 1
         /\ InstallEntries(s, m) = Spliced(s, m, n + 1)
  BY <1>1, <1>3, <1>4 DEF InstallEntries
<1>7. CASE InstallEntries(s, m) = s
  BY <1>5, <1>7
<1>8. CASE InstallEntries(s, m) = Abort(s)
  BY <1>5, <1>8, GoodAbort
<1>9. CASE /\ d # <<>> /\ n < o /\ f <= n + 1
           /\ InstallEntries(s, m) = Spliced(s, m, n + 1)
  <2>. DEFINE pre == SubSeq(s.log, 1, n)
              suf == SubSeq(d, n + 2 - f, Len(d))
              t   == Spliced(s, m, n + 1)
  <2>1. t = [s EXCEPT !.log = pre \o suf, !.lastOp = o]
    <3>1. (n + 1) - 1 = n /\ (n + 1) - f + 1 = n + 2 - f
      <4>1. n \in Nat /\ f \in Nat
        BY <1>1, <1>3
      <4>. HIDE DEF n, f
      <4>. QED BY ONLY <4>1
    <3>2. SubSeq(s.log, 1, (n + 1) - 1) = pre /\ SubSeq(d, (n + 1) - f + 1, Len(d)) = suf
      BY <3>1
    <3>. HIDE DEF pre, suf
    <3>. QED BY <3>2 DEF Spliced
  <2>. HIDE DEF l, n, f, d, o, t
  <2>2. pre = s.log
    BY <1>1, SubSeqFull
  <2>3. o \in Nat /\ o <= Len(l) /\ 1 <= Len(d)
    BY <1>1, <1>3, <1>9
  <2>4. /\ suf \in Seq(Entries) /\ Len(suf) = o - n
        /\ \A k \in 1 .. o - n : suf[k] = l[n + k]
    <3>1. n \in Nat /\ f \in Nat /\ d \in Seq(Entries) /\ o = f + Len(d) - 1
      BY <1>1, <1>3
    <3>2. f <= n + 1 /\ n < o
      BY <1>9
    <3>3. \A k \in 1 .. Len(d) : d[k] = l[f + k - 1]
      BY <1>3
    <3>. QED BY <2>3, <3>1, <3>2, <3>3, PieceSuffix
  <2>. HIDE DEF pre, suf
  <2>5. /\ s.log \o suf \in Seq(Entries) /\ Len(s.log \o suf) = o
        /\ \A k \in 1 .. o : (s.log \o suf)[k] = IF k <= n THEN s.log[k] ELSE suf[k - n]
    BY <1>1, <2>3, <2>4, ConcatProperties
  <2>6. \A k \in 1 .. o : (s.log \o suf)[k] = l[k]
    <3>. TAKE k \in 1 .. o
    <3>1. CASE k <= n
      <4>1. k \in 1 .. Len(s.log)
        BY <1>1, <3>1
      <4>. QED BY <1>1, <2>5, <3>1, <4>1
    <3>2. CASE ~ (k <= n)
      <4>1. k - n \in 1 .. o - n /\ n + (k - n) = k
        BY <1>1, <2>3, <3>2
      <4>. QED BY <2>4, <2>5, <3>2, <4>1
    <3>. QED BY <3>1, <3>2
  <2>7. t \in ReplicaStates
    BY <1>1, <2>1, <2>2, <2>3, <2>5 DEF ReplicaStates
  <2>8. /\ t.view = s.view /\ t.status = s.status /\ t.lastCommitted = s.lastCommitted
        /\ t.pending = s.pending /\ t.work = s.work /\ t.lastPrepare = s.lastPrepare
        /\ t.timers = s.timers /\ t.log = s.log \o suf /\ t.lastOp = o
    BY <1>1, <2>1, <2>2 DEF ReplicaStates
  <2>9. r # Leader
    <3>1. r = Leader => s.log = LeaderLog
      BY DEF NewLog
    <3>. QED BY <3>1, <1>1, <1>9, <2>3 DEF l
  <2>10. /\ t.lastOp = Len(t.log) /\ Len(s.log) <= Len(t.log) /\ Len(t.log) <= Len(LeaderLog)
         /\ \A k \in 1 .. Len(t.log) : t.log[k] = LeaderLog[k]
    BY <1>1, <1>9, <2>3, <2>5, <2>6, <2>8 DEF l
  <2>11. GoodState(r, t) /\ NewLog(r, t) = NewLog(r, s)
    BY <2>7, <2>8, <2>9, <2>10, GoodExtended
  <2>. QED BY <1>5, <1>9, <2>11 DEF t, n
<1>. QED BY <1>6, <1>7, <1>8, <1>9

\* The PREPAREs that were set aside become the work to do next.
LEMMA GoodReplay ==
    ASSUME Inv, NEW r \in Replicas, NEW s, GoodState(r, s)
    PROVE  LET t == [s EXCEPT !.work = s.pending, !.pending = <<>>]
           IN  GoodState(r, t) /\ NewLog(r, t) = NewLog(r, s)
<1>. DEFINE none == <<>>
            w    == s.pending
            t    == [s EXCEPT !.work = w, !.pending = none]
<1>1. s \in ReplicaStates /\ w \in Seq(Batches) /\ none \in Seq(Batches) /\ Len(none) = 0
  BY GoodBounds, StateFields
<1>2. PICK u : u = [s EXCEPT !.work = w]
  OBVIOUS
<1>3. t = [u EXCEPT !.pending = none]
  BY <1>2
<1>. HIDE DEF t
<1>4. /\ FollowsLog(s, NewLog(r, s)) /\ s.lastCommitted \in Nat /\ s.lastCommitted <= Len(s.log)
      /\ \A k \in 1 .. Len(w) : BatchOf(w[k], NewLog(r, s))
      /\ "resendPrepare" \in s.timers => BatchOf(s.lastPrepare, NewLog(r, s))
  BY GoodBounds, StateFields DEF GoodState, FollowsLog
<1>. HIDE DEF none, w
<1>5. /\ u \in ReplicaStates /\ u.view = s.view /\ u.status = s.status /\ u.log = s.log
      /\ u.lastOp = s.lastOp /\ u.lastCommitted = s.lastCommitted /\ u.work = w
      /\ u.lastPrepare = s.lastPrepare /\ u.timers = s.timers
  BY <1>1, <1>2, WorkChange
<1>6. /\ t \in ReplicaStates /\ t.view = s.view /\ t.status = s.status /\ t.log = s.log
      /\ t.lastOp = s.lastOp /\ t.lastCommitted = s.lastCommitted /\ t.work = w
      /\ t.lastPrepare = s.lastPrepare /\ t.timers = s.timers /\ t.pending = none
  <2>1. u \in ReplicaStates /\ none \in Seq(Batches) /\ t = [u EXCEPT !.pending = none]
    BY <1>1, <1>3, <1>5
  <2>2. /\ t \in ReplicaStates /\ t.view = u.view /\ t.status = u.status /\ t.log = u.log
        /\ t.lastOp = u.lastOp /\ t.lastCommitted = u.lastCommitted /\ t.pending = none
        /\ t.work = u.work /\ t.lastPrepare = u.lastPrepare /\ t.timers = u.timers
    BY ONLY <2>1, PendingChange
  <2>. QED BY <1>5, <2>2
<1>7. /\ s.lastCommitted <= t.lastCommitted /\ t.lastCommitted <= Len(t.log)
      /\ \A k \in 1 .. Len(t.pending) : BatchOf(t.pending[k], NewLog(r, s))
      /\ \A k \in 1 .. Len(t.work) : BatchOf(t.work[k], NewLog(r, s))
      /\ "resendPrepare" \in t.timers => BatchOf(t.lastPrepare, NewLog(r, s))
  <2>1. s.lastCommitted <= s.lastCommitted
    BY <1>4
  <2>2. \A k \in 1 .. Len(none) : FALSE
    BY <1>1
  <2>. QED BY <1>4, <1>6, <2>1, <2>2
<1>8. GoodState(r, t) /\ NewLog(r, t) = NewLog(r, s)
  BY <1>6, <1>7, GoodSameLog
<1>. QED BY <1>8 DEF t, w, none

\* The log dump of a StateTransfer is a piece of the leader's log.
LEMMA StepReceiveStateTransfer ==
    ASSUME Inv, NEW r \in Replicas, ReceiveStateTransfer(r)
    PROVE  GoodStep /\ replies' \subseteq ReplyMessages
<1>. DEFINE s   == rep[r]
            old == s.lastOp
<1>1. PICK m \in Received(r, "StateTransfer") : HandleStateTransfer(r, m)
  BY DEF ReceiveStateTransfer
<1>2. m \in Messages /\ m.type = "StateTransfer" /\ CarriesLog(m, LeaderLog)
  BY ReceivedFacts
<1>3. m.opnum \in Nat /\ m.view = 0 /\ s.view = 0 /\ old \in Nat
  BY <1>2, GoodNow, GoodBounds, StateFields DEF Messages, CarriesLog
<1>. DEFINE i == InstallEntries(s, m)
            c == CommitUpTo(i, m.opnum)
            p == SendPrepareOKs(c, old)
            t == [p EXCEPT !.work = c.pending, !.pending = <<>>]
<1>4. GoodState(r, i) /\ NewLog(r, i) = LeaderLog /\ OldLastOp(s, m) = old
  BY <1>2, GoodNow, GoodInstall
<1>5. \/ /\ Become(r, Abort(i)) /\ Network({m}, {}) /\ UNCHANGED replies
      \/ /\ Become(r, t) /\ Network({m}, PrepareOKsFor(c, r, old))
         /\ replies' = replies \cup RepliesTo(i, r, m.opnum)
  <2>1. ~ (m.view > s.view)
    BY <1>3
  <2>. QED BY <1>1, <1>4, <2>1 DEF HandleStateTransfer
<1>6. replies \subseteq ReplyMessages
  BY DEF Inv, TypeOK
<1>. HIDE DEF i
<1>7. CASE Become(r, Abort(i)) /\ Network({m}, {}) /\ UNCHANGED replies
  <2>1. GoodMessages(r, Abort(i), {})
    BY DEF GoodMessages
  <2>. QED BY <1>4, <1>6, <1>7, <2>1, GoodAbort, GoodNetwork
<1>8. CASE /\ Become(r, t) /\ Network({m}, PrepareOKsFor(c, r, old))
           /\ replies' = replies \cup RepliesTo(i, r, m.opnum)
  <2>1. GoodState(r, c) /\ NewLog(r, c) = LeaderLog
    BY <1>3, <1>4, GoodCommitUpTo
  <2>. HIDE DEF c, old
  <2>2. GoodState(r, p) /\ NewLog(r, p) = LeaderLog
    BY <1>3, <2>1, GoodSendPrepareOKs
  <2>3. GoodState(r, t) /\ NewLog(r, t) = LeaderLog
    <3>1. c.pending = p.pending
      BY <1>3, <2>1, GoodBounds, SendPrepareOKsType DEF SameButCommitted
    <3>. HIDE DEF p
    <3>. QED BY <2>2, <3>1, GoodReplay
  <2>. HIDE DEF p
  <2>. HIDE DEF t
  <2>4. c \in ReplicaStates /\ c.view = 0 /\ i \in ReplicaStates
    BY <1>4, <2>1, GoodBounds
  <2>5. PrepareOKsFor(c, r, old) \subseteq Messages
    BY <1>3, <2>4, PrepareOKsForType
  <2>6. \A x \in PrepareOKsFor(c, r, old) : CarriesLog(x, LeaderLog)
    BY <2>4 DEF PrepareOKsFor, PrepareOK, CarriesLog
  <2>7. GoodMessages(r, t, PrepareOKsFor(c, r, old))
    BY <2>3, <2>5, <2>6 DEF GoodMessages
  <2>8. GoodStep
    BY <1>8, <2>3, <2>7, GoodNetwork
  <2>9. RepliesTo(i, r, m.opnum) \subseteq ReplyMessages
    BY <1>3, <2>4, RepliesToType
  <2>. QED BY <1>6, <1>8, <2>8, <2>9
<1>. QED BY <1>5, <1>7, <1>8

-------------------------------------------------------------------------------
(* The specification                                                       *)

\* A request is one of its client's trace, so that the trace position it takes
\* its client to is a number.
LEMMA ArrivesType ==
    ASSUME Inv, NEW q \in Requests, Arrives(q)
    PROVE  issued' \in [Clients -> Nat]
<1>1. issued \in [Clients -> Nat] /\ q.client \in Clients /\ q.id \in Nat
  BY RequestFields DEF Inv, TypeOK
<1>2. PICK n : n = Max({issued[q.client], q.id})
  OBVIOUS
<1>3. n \in Nat
  BY <1>1, <1>2, MaxOfTwo
<1>4. issued' = [issued EXCEPT ![q.client] = n]
  BY <1>2 DEF Arrives
<1>. QED BY <1>1, <1>3, <1>4

\* A step that leaves the replicas alone and sends nothing changes no history.
LEMMA StepQuiet ==
    ASSUME Inv, UNCHANGED rep, msgs' \subseteq msgs
    PROVE  GoodStep
<1>1. GoodMessages(Leader, rep[Leader], {}) /\ GoodState(Leader, rep[Leader])
  BY LeaderIsReplica, GoodNow
<1>2. Become(Leader, rep[Leader])
  <2>1. rep \in [Replicas -> ReplicaStates]
    BY DEF Inv, TypeOK
  <2>. QED BY <2>1, LeaderIsReplica DEF Become
<1>3. msgs' \subseteq msgs \cup {}
  OBVIOUS
<1>. QED BY <1>1, <1>2, <1>3, LeaderIsReplica, GoodChange

\* Every step of a replica is good.
LEMMA StepReplica ==
    ASSUME Inv, NEW r \in Replicas, Step(r)
    PROVE  /\ GoodStep
           /\ replies' \subseteq ReplyMessages
           /\ issued' \in [Clients -> Nat]
<1>1. replies \subseteq ReplyMessages /\ issued \in [Clients -> Nat]
  BY DEF Inv, TypeOK
<1>2. ASSUME NEW q \in Requests, AddToQueue(r, q)
      PROVE  GoodStep /\ UNCHANGED replies /\ issued' \in [Clients -> Nat]
  <2>1. Arrives(q) /\ UNCHANGED replies
    BY <1>2 DEF AddToQueue
  <2>. QED BY <1>2, <2>1, StepAddToQueue, ArrivesType
<1>3. ASSUME NEW q \in Requests, HandleRequest(r, q)
      PROVE  GoodStep /\ replies' \subseteq ReplyMessages /\ issued' \in [Clients -> Nat]
  <2>1. Arrives(q)
    BY <1>3 DEF HandleRequest
  <2>. QED BY <1>3, <2>1, StepHandleRequest, ArrivesType
<1>4. CASE BgRepl(r)
  <2>1. UNCHANGED <<replies, issued>>
    BY <1>4 DEF BgRepl
  <2>. QED BY <1>1, <1>4, <2>1, StepBgRepl
<1>5. CASE ReplayPending(r)
  <2>1. UNCHANGED <<replies, issued>>
    BY <1>5 DEF ReplayPending
  <2>. QED BY <1>1, <1>5, <2>1, StepReplayPending
<1>6. CASE Timer(r)
  <2>1. UNCHANGED <<replies, issued>>
    BY <1>6 DEF Timer, CloseBatchTimeout, ResendPrepare, SendNullCommit, StateTransferTimeout
  <2>. QED BY <1>1, <1>6, <2>1, StepTimer
<1>7. CASE ReceivePrepare(r)
  <2>1. UNCHANGED <<replies, issued>>
    BY <1>7 DEF ReceivePrepare
  <2>. QED BY <1>1, <1>7, <2>1, StepReceivePrepare
<1>8. CASE ReceivePrepareOK(r)
  BY <1>1, <1>8, StepReceivePrepareOK DEF ReceivePrepareOK
<1>9. CASE ReceiveCommit(r)
  BY <1>1, <1>9, StepReceiveCommit DEF ReceiveCommit
<1>10. CASE ReceiveRequestStateTransfer(r)
  <2>1. UNCHANGED <<replies, issued>>
    BY <1>10 DEF ReceiveRequestStateTransfer
  <2>. QED BY <1>1, <1>10, <2>1, StepReceiveRequestStateTransfer
<1>11. CASE ReceiveStateTransfer(r)
  BY <1>1, <1>11, StepReceiveStateTransfer DEF ReceiveStateTransfer
<1>. QED BY <1>1, <1>2, <1>3, <1>4, <1>5, <1>6, <1>7, <1>8, <1>9, <1>10, <1>11
         DEF Step, Receive

\* So is every step of the specification, lost messages and stuttering included.
LEMMA StepGood ==
    ASSUME Inv, [Next]_vars
    PROVE  Inv' /\ GoodStep
<1>1. /\ GoodStep
      /\ replies' \subseteq ReplyMessages
      /\ issued' \in [Clients -> Nat]
  <2>1. replies \subseteq ReplyMessages /\ issued \in [Clients -> Nat]
    BY DEF Inv, TypeOK
  <2>2. ASSUME NEW r \in Up, Step(r)
        PROVE  <1>1
    <3>1. r \in Replicas
      BY NetworkAssumption
    <3>. QED BY <2>2, <3>1, StepReplica
  <2>3. ASSUME NEW m \in msgs, Lose(m)
        PROVE  <1>1
    <3>1. UNCHANGED <<rep, replies, issued>> /\ msgs' \subseteq msgs
      BY <2>3 DEF Lose
    <3>. QED BY <2>1, <3>1, StepQuiet
  <2>4. CASE UNCHANGED vars
    <3>1. UNCHANGED <<rep, replies, issued>> /\ msgs' \subseteq msgs
      BY <2>4 DEF vars
    <3>. QED BY <2>1, <3>1, StepQuiet
  <2>. QED BY <2>2, <2>3, <2>4 DEF Next
<1>. QED BY <1>1 DEF Inv, TypeOK, GoodStep

\* A new group of replicas has no history at all.
LEMMA InitInv == Init => Inv
<1>. SUFFICES ASSUME Init
              PROVE  Inv
  OBVIOUS
<1>1. ASSUME NEW r \in Replicas
      PROVE  NewReplica(r) \in ReplicaStates /\ FollowsLog(NewReplica(r), <<>>)
  <2>. DEFINE ts == IF GetLeaderIndex(0) = r THEN {"nullCommit", "bgRepl"} ELSE {"viewChange"}
              table == [c \in Clients |-> NewClient]
              full == TRUE
              dead == FALSE
  <2>1. /\ ts \in SUBSET Timers /\ "resendPrepare" \notin ts
        /\ table \in [Clients -> TableEntries] /\ NoBatch \in Batches
        /\ full \in BOOLEAN /\ dead \in BOOLEAN
    BY DEF Timers, NewClient, TableEntries, NoBatch, Batches, Views
  <2>2. NewReplica(r) =
           [view |-> 0, status |-> "NORMAL",
            log |-> <<>>, lastOp |-> 0, lastCommitted |-> 0,
            lastBatchEnd |-> 0, batchComplete |-> full, lastPrepare |-> NoBatch,
            clientTable |-> table,
            addresses |-> {}, prepareOKs |-> {}, pending |-> <<>>, work |-> <<>>,
            lastTransfer |-> <<0, 0>>, queue |-> <<>>, timers |-> ts, aborted |-> dead]
    BY DEF NewReplica
  <2>. HIDE DEF ts, table, full, dead
  <2>3. NewReplica(r) \in ReplicaStates
    BY <2>1, <2>2 DEF ReplicaStates, Views, Statuses
  <2>4. FollowsLog(NewReplica(r), <<>>)
    BY <2>1, <2>2 DEF FollowsLog
  <2>. QED BY <2>3, <2>4
<1>2. rep \in [Replicas -> ReplicaStates] /\ \A r \in Replicas : FollowsLog(rep[r], <<>>)
  BY <1>1 DEF Init
<1>3. rep[GetLeaderIndex(0)].log = <<>>
  BY LeaderIsReplica DEF Leader, Init, NewReplica
<1>4. TypeOK
  BY <1>2 DEF Init, TypeOK
<1>5. LogsFollowLeader
  BY <1>2, <1>3 DEF Init, LogsFollowLeader
<1>. QED BY <1>4, <1>5 DEF Inv

\* The invariant is inductive.
LEMMA Inductive == Spec => []Inv
<1>1. Inv /\ [Next]_vars => Inv'
  BY StepGood
<1>. QED BY InitInv, <1>1, PTL DEF Spec

\* Every field and every message keeps its declared type.
THEOREM TypeCorrect == Spec => []TypeOK
<1>1. Inv => TypeOK
  BY DEF Inv
<1>. QED BY Inductive, <1>1, PTL

\* In view 0 there is one history: every log is a prefix of the leader's, and
\* every batch and log dump, sent or kept, a piece of it.
THEOREM OneHistory == Spec => []LogsFollowLeader
<1>1. Inv => LogsFollowLeader
  BY DEF Inv
<1>. QED BY Inductive, <1>1, PTL

\* Replicas that executed operation k executed the same request, whatever was
\* lost, repeated or reordered on the way.
THEOREM Agreement == Spec => []ExecutionAgreement
<1>1. Inv => ExecutionAgreement
  <2>. SUFFICES ASSUME Inv, NEW p \in Replicas, NEW r \in Replicas,
                       NEW k \in 1 .. Min({rep[p].lastCommitted, rep[r].lastCommitted})
                PROVE  rep[p].log[k] = rep[r].log[k]
    BY DEF ExecutionAgreement, SameUpTo
  <2>1. \A q \in {p, r} :
            /\ rep[q].lastCommitted \in Nat /\ Len(rep[q].log) \in Nat
            /\ rep[q].lastCommitted <= Len(rep[q].log)
            /\ \A j \in 1 .. Len(rep[q].log) : rep[q].log[j] = LeaderLog[j]
    BY StateFields DEF Inv, TypeOK, LogsFollowLeader, FollowsLog, LeaderLog, Leader
  <2>2. k <= rep[p].lastCommitted /\ k <= rep[r].lastCommitted
    <3>1. PICK i, j \in Nat : i = rep[p].lastCommitted /\ j = rep[r].lastCommitted
      BY <2>1
    <3>2. k \in 1 .. Min({i, j})
      BY <3>1
    <3>3. Min({i, j}) = IF i <= j THEN i ELSE j
      BY MinOfTwo
    <3>4. k <= i /\ k <= j
      BY <3>2, <3>3
    <3>. QED BY <3>1, <3>4
  <2>3. k \in 1 .. Len(rep[p].log) /\ k \in 1 .. Len(rep[r].log)
    BY <2>1, <2>2
  <2>. QED BY <2>1, <2>3
<1>. QED BY Inductive, <1>1, PTL

\* No step, a state transfer included, takes back or changes an operation that
\* its replica has executed.
THEOREM NothingTakenBack == Spec => ExecutedForever
<1>1. Inv /\ [Next]_vars =>
          [\A r \in Replicas : /\ rep[r].lastCommitted <= rep[r]'.lastCommitted
                               /\ SameUpTo(rep[r], rep[r]', rep[r].lastCommitted)]_vars
  <2>. SUFFICES ASSUME Inv, [Next]_vars, NEW r \in Replicas
                PROVE  /\ rep[r].lastCommitted <= rep[r]'.lastCommitted
                       /\ SameUpTo(rep[r], rep[r]', rep[r].lastCommitted)
    OBVIOUS
  <2>1. rep[r].lastCommitted <= rep'[r].lastCommitted /\ Grows(rep[r].log, rep'[r].log)
    BY StepGood DEF GoodStep
  <2>2. /\ rep[r].lastCommitted \in Nat /\ Len(rep[r].log) \in Nat
        /\ rep[r].lastCommitted <= Len(rep[r].log)
    BY GoodNow, GoodBounds, StateFields
  <2>3. SameUpTo(rep[r], rep[r]', rep[r].lastCommitted)
    BY <2>1, <2>2 DEF SameUpTo, Grows
  <2>. QED BY <2>1, <2>3
<1>. QED BY Inductive, <1>1, PTL DEF Spec, ExecutedForever

-------------------------------------------------------------------------------
(***************************************************************************)
(* What a replica has executed is in the logs of f+1 replicas.             *)
(*                                                                         *)
(* QuorumInv adds to Inv what the messages and the acknowledgements vouch  *)
(* for: a PREPAREOK comes from a follower whose log has the operation, a   *)
(* COMMIT or a log dump names an operation the leader has executed, and    *)
(* the leader never asks for a log dump, so that it never acknowledges an  *)
(* operation itself and can count itself on top of the acknowledgements.   *)
(***************************************************************************)

LeaderCommitted == rep[Leader].lastCommitted

\* The replicas whose log has operation k.
Holders(k) == {p \in Replicas : k <= Len(rep[p].log)}

\* What message m says of its sender's log, or of what the leader has executed.
Vouches(m) ==
    /\ m.type = "PrepareOK" => m.from # Leader /\ m.opnum <= Len(rep[m.from].log)
    /\ m.type = "Commit" => m.opnum <= LeaderCommitted
    /\ m.type = "RequestStateTransfer" => m.from # Leader
    /\ m.type = "StateTransfer" => m.to # Leader /\ m.opnum <= LeaderCommitted

\* Replica r has recorded only true acknowledgements, and is not ahead of the
\* leader.
Backed(r) ==
    /\ \A k \in Nat, p \in Replicas :
           <<k, p>> \in rep[r].prepareOKs => p # Leader /\ k <= Len(rep[p].log)
    /\ rep[r].lastCommitted <= LeaderCommitted

QuorumInv ==
    /\ \A m \in msgs : Vouches(m)
    /\ \A r \in Replicas : Backed(r)
    /\ Cardinality(Holders(LeaderCommitted)) >= QuorumSize

-------------------------------------------------------------------------------
(* Sets of replicas                                                        *)

\* There are finitely many replicas.
LEMMA ReplicasFinite == IsFiniteSet(Replicas) /\ Cardinality(Replicas) = N
<1>1. N \in Nat
  BY ConfigAssumption
<1>2. Replicas = 0 .. N - 1
  BY DEF Replicas
<1>. QED BY <1>1, <1>2, FS_Interval

\* A larger set of replicas has no fewer members.
LEMMA MoreReplicas ==
    ASSUME NEW S, NEW T \in SUBSET Replicas, S \subseteq T
    PROVE  /\ IsFiniteSet(S) /\ Cardinality(S) \in Nat /\ Cardinality(T) \in Nat
           /\ Cardinality(S) <= Cardinality(T)
<1>1. IsFiniteSet(T)
  BY ReplicasFinite, FS_Subset
<1>. QED BY <1>1, FS_Subset, FS_CardinalityType

\* The acknowledgements of all but one member of a quorum, and the leader.
LEMMA AcksAndLeader ==
    ASSUME NEW A \in SUBSET Replicas, Leader \notin A, Cardinality(A) >= QuorumSize - 1,
           NEW T \in SUBSET Replicas, A \subseteq T, Leader \in T
    PROVE  Cardinality(T) >= QuorumSize
<1>1. IsFiniteSet(A) /\ Cardinality(A) \in Nat
  BY MoreReplicas
<1>2. Cardinality(A \cup {Leader}) = Cardinality(A) + 1
  BY <1>1, FS_AddElement
<1>3. Cardinality(A \cup {Leader}) <= Cardinality(T) /\ Cardinality(T) \in Nat
  BY MoreReplicas
<1>4. QuorumSize \in Nat
  BY ConfigAssumption DEF QuorumSize
<1>. QED BY <1>1, <1>2, <1>3, <1>4

-------------------------------------------------------------------------------
(* One step                                                                *)

\* What replica r may send when it becomes t.
SentWell(m, r, t) ==
    /\ m.type = "PrepareOK" => m.from = r /\ r # Leader /\ m.opnum <= Len(t.log)
    /\ m.type = "Commit" => m.opnum <= t.lastCommitted
    /\ m.type = "RequestStateTransfer" => m.from = r /\ r # Leader
    /\ m.type = "StateTransfer" => m.to # Leader /\ m.opnum <= t.lastCommitted

\* What replica r may become: it records acknowledgements it has received, and
\* executes nothing, or what the leader has executed, or, as the leader, what a
\* quorum has.
BackedState(r, t) ==
    /\ \A k \in Nat, p \in Replicas :
           <<k, p>> \in t.prepareOKs =>
               \/ <<k, p>> \in rep[r].prepareOKs
               \/ \E m \in Received(r, "PrepareOK") : k = m.opnum /\ p = m.from
    /\ \/ t.lastCommitted = rep[r].lastCommitted
       \/ r # Leader /\ t.lastCommitted <= LeaderCommitted
       \/ r = Leader /\ Cardinality(Holders(t.lastCommitted)) >= QuorumSize

\* The fields of messages and replicas that are compared here are numbers.
LEMMA QuorumTypes ==
    ASSUME Inv
    PROVE  /\ LeaderCommitted \in Nat
           /\ \A p \in Replicas : rep[p].lastCommitted \in Nat /\ Len(rep[p].log) \in Nat
           /\ \A m \in msgs : /\ m.type \in {"PrepareOK", "Commit", "StateTransfer"} => m.opnum \in Nat
                              /\ m.type = "PrepareOK" => m.from \in Replicas
<1>1. \A p \in Replicas : rep[p].lastCommitted \in Nat /\ Len(rep[p].log) \in Nat
  BY GoodNow, StateFields
<1>2. msgs \subseteq Messages
  BY DEF Inv, TypeOK
<1>. QED BY <1>1, <1>2, LeaderIsReplica DEF Messages, LeaderCommitted

\* A larger opnum is in no more logs.
LEMMA HoldersShrink ==
    ASSUME Inv, NEW j \in Nat, NEW k \in Nat, j <= k,
           Cardinality(Holders(k)) >= QuorumSize
    PROVE  Cardinality(Holders(j)) >= QuorumSize
<1>1. Holders(k) \subseteq Holders(j) /\ Holders(j) \in SUBSET Replicas
  BY QuorumTypes DEF Holders
<1>2. QuorumSize \in Nat
  BY ConfigAssumption DEF QuorumSize
<1>. QED BY <1>1, <1>2, MoreReplicas

\* A replica that becomes a backed state and sends what it may keeps the
\* invariant.
LEMMA QuorumChange ==
    ASSUME Inv, QuorumInv, GoodStep, NEW r \in Replicas, NEW t, NEW sent,
           Become(r, t), msgs' \subseteq msgs \cup sent,
           BackedState(r, t), \A m \in sent : SentWell(m, r, t)
    PROVE  QuorumInv'
<1>1. /\ rep' \in [Replicas -> ReplicaStates] /\ rep'[r] = t /\ t \in ReplicaStates
      /\ \A p \in Replicas \ {r} : rep'[p] = rep[p]
      /\ msgs' \subseteq Messages
  BY DEF Become, Inv, TypeOK, GoodStep
<1>2. /\ LeaderCommitted \in Nat /\ t.lastCommitted \in Nat /\ Len(t.log) \in Nat
      /\ \A p \in Replicas : /\ rep[p].lastCommitted \in Nat /\ Len(rep[p].log) \in Nat
                             /\ rep'[p].lastCommitted \in Nat /\ Len(rep'[p].log) \in Nat
  BY <1>1, QuorumTypes, StateFields
<1>3. \A p \in Replicas : /\ rep[p].lastCommitted <= rep'[p].lastCommitted
                          /\ Len(rep[p].log) <= Len(rep'[p].log)
  BY DEF GoodStep, Grows
<1>4. /\ LeaderCommitted' = rep'[Leader].lastCommitted
      /\ LeaderCommitted <= LeaderCommitted' /\ LeaderCommitted' \in Nat
  BY <1>2, <1>3, LeaderIsReplica DEF LeaderCommitted, Leader
<1>5. t.lastCommitted <= LeaderCommitted'
  <2>1. CASE r = Leader
    BY <1>1, <1>2, <1>4, <2>1
  <2>2. CASE r # Leader
    <3>1. rep[r].lastCommitted <= LeaderCommitted
      BY DEF QuorumInv, Backed
    <3>2. t.lastCommitted <= LeaderCommitted
      BY <2>2, <3>1 DEF BackedState
    <3>. QED BY <1>2, <1>4, <3>2
  <2>. QED BY <2>1, <2>2
<1>6. ASSUME NEW m \in msgs'
      PROVE  Vouches(m)'
  <2>1. CASE m \in msgs
    <3>1. Vouches(m)
      BY <2>1 DEF QuorumInv
    <3>2. /\ m.type \in {"PrepareOK", "Commit", "StateTransfer"} => m.opnum \in Nat
          /\ m.type = "PrepareOK" => m.from \in Replicas
      BY <2>1, QuorumTypes
    <3>3. m.type = "PrepareOK" => m.from # Leader /\ m.opnum <= Len(rep'[m.from].log)
      BY <1>2, <1>3, <3>1, <3>2 DEF Vouches
    <3>4. m.type \in {"Commit", "StateTransfer"} => m.opnum <= LeaderCommitted'
      BY <1>2, <1>4, <3>1, <3>2 DEF Vouches
    <3>. QED BY <3>1, <3>3, <3>4 DEF Vouches, Leader
  <2>2. CASE m \in sent
    <3>1. SentWell(m, r, t) /\ m \in Messages
      BY <1>1, <1>6, <2>2
    <3>2. m.type = "PrepareOK" => m.from # Leader /\ m.opnum <= Len(rep'[m.from].log)
      BY <1>1, <3>1 DEF SentWell
    <3>3. m.type \in {"Commit", "StateTransfer"} => m.opnum <= LeaderCommitted'
      <4>1. m.type \in {"Commit", "StateTransfer"} => m.opnum \in Nat
        BY <3>1 DEF Messages
      <4>. QED BY <1>2, <1>4, <1>5, <3>1, <4>1 DEF SentWell
    <3>. QED BY <3>1, <3>2, <3>3 DEF Vouches, Leader, SentWell
  <2>. QED BY <2>1, <2>2
<1>7. ASSUME NEW q \in Replicas
      PROVE  Backed(q)'
  <2>1. rep'[q].lastCommitted <= LeaderCommitted'
    <3>1. CASE q = r
      BY <1>1, <1>5, <3>1
    <3>2. CASE q # r
      <4>1. rep[q].lastCommitted <= LeaderCommitted
        BY DEF QuorumInv, Backed
      <4>. QED BY <1>1, <1>2, <1>4, <3>2, <4>1
    <3>. QED BY <3>1, <3>2
  <2>2. ASSUME NEW k \in Nat, NEW p \in Replicas, <<k, p>> \in rep'[q].prepareOKs
        PROVE  p # Leader /\ k <= Len(rep'[p].log)
    <3>1. CASE <<k, p>> \in rep[q].prepareOKs
      <4>1. p # Leader /\ k <= Len(rep[p].log)
        BY <3>1 DEF QuorumInv, Backed
      <4>. QED BY <1>2, <1>3, <4>1
    <3>2. CASE <<k, p>> \notin rep[q].prepareOKs
      <4>1. q = r
        BY <1>1, <2>2, <3>2
      <4>2. PICK m \in Received(r, "PrepareOK") : k = m.opnum /\ p = m.from
        BY <1>1, <2>2, <3>2, <4>1 DEF BackedState
      <4>3. m \in msgs /\ m.type = "PrepareOK"
        BY <4>2 DEF Received
      <4>4. p # Leader /\ k <= Len(rep[p].log)
        BY <4>2, <4>3 DEF QuorumInv, Vouches
      <4>. QED BY <1>2, <1>3, <4>4
    <3>. QED BY <3>1, <3>2
  <2>. QED BY <2>1, <2>2 DEF Backed, Leader
<1>8. (Cardinality(Holders(LeaderCommitted)) >= QuorumSize)'
  <2>1. Cardinality(Holders(LeaderCommitted')) >= QuorumSize
    <3>1. CASE r = Leader /\ Cardinality(Holders(t.lastCommitted)) >= QuorumSize
      BY <1>1, <1>4, <3>1
    <3>2. CASE LeaderCommitted' = LeaderCommitted
      BY <3>2 DEF QuorumInv
    <3>. QED BY <1>1, <1>4, <3>1, <3>2, LeaderIsReplica DEF BackedState, LeaderCommitted
  <2>2. PICK k \in Nat : k = LeaderCommitted'
    BY <1>4
  <2>3. Holders(k) \subseteq Holders(k)' /\ Holders(k)' \in SUBSET Replicas
    BY <1>2, <1>3 DEF Holders
  <2>4. Holders(LeaderCommitted)' = Holders(k)'
    BY <2>2 DEF Holders, LeaderCommitted, Leader
  <2>5. QuorumSize \in Nat
    BY ConfigAssumption DEF QuorumSize
  <2>6. Cardinality(Holders(k)) <= Cardinality(Holders(k)')
        /\ Cardinality(Holders(k)) \in Nat /\ Cardinality(Holders(k)') \in Nat
    BY <2>3, MoreReplicas
  <2>7. Cardinality(Holders(k)') >= QuorumSize
    BY <2>1, <2>2, <2>5, <2>6
  <2>. QED BY <2>4, <2>7
<1>. QED BY <1>6, <1>7, <1>8 DEF QuorumInv

-------------------------------------------------------------------------------
(* What the shared functions leave alone                                   *)

\* The fields the invariant is about.
SameCounts(s, t) ==
    t.prepareOKs = s.prepareOKs /\ t.lastCommitted = s.lastCommitted

\* Most functions touch neither of them.
LEMMA CountsKept ==
    ASSUME NEW s \in ReplicaStates, NEW r
    PROVE  /\ SameCounts(s, Abort(s))
           /\ SameCounts(s, Heard(s))
           /\ SameCounts(s, RequestStateTransfer(s))
           /\ SameCounts(s, CloseBatch(s, r))
           /\ SameCounts(s, KeepInBatch(s))
           /\ \A q : SameCounts(s, AppendRequest(s, q))
           /\ \A b : SameCounts(s, Defer(s, b)) /\ SameCounts(s, AppendBatch(s, b))
           /\ \A old : SameCounts(s, SendPrepareOKs(s, old))
           /\ \A m, k : SameCounts(s, Spliced(s, m, k))
<1>1. SameCounts(s, Abort(s))
  BY DEF SameCounts, Abort, ReplicaStates
<1>2. SameCounts(s, Heard(s)) /\ SameCounts(s, KeepInBatch(s))
  BY DEF SameCounts, Heard, KeepInBatch, ReplicaStates
<1>3. SameCounts(s, RequestStateTransfer(s))
  BY DEF SameCounts, RequestStateTransfer, ReplicaStates
<1>4. SameCounts(s, CloseBatch(s, r))
  BY <1>1 DEF SameCounts, CloseBatch, ReplicaStates
<1>5. ASSUME NEW q
      PROVE  SameCounts(s, AppendRequest(s, q))
  BY <1>1 DEF SameCounts, AppendRequest, ReplicaStates
<1>6. ASSUME NEW b
      PROVE  SameCounts(s, Defer(s, b)) /\ SameCounts(s, AppendBatch(s, b))
  BY DEF SameCounts, Defer, RequestStateTransfer, AppendBatch, ReplicaStates
<1>7. ASSUME NEW old
      PROVE  SameCounts(s, SendPrepareOKs(s, old))
  BY <1>1 DEF SameCounts, SendPrepareOKs, ReplicaStates
<1>8. ASSUME NEW m, NEW k
      PROVE  SameCounts(s, Spliced(s, m, k))
  BY DEF SameCounts, Spliced, ReplicaStates
<1>. QED BY <1>1, <1>2, <1>3, <1>4, <1>5, <1>6, <1>7, <1>8

\* InstallEntries splices the log, leaves it, or kills the replica.
LEMMA CountsInstalled ==
    ASSUME NEW s \in ReplicaStates, NEW m
    PROVE  SameCounts(s, InstallEntries(s, m))
<1>1. \/ InstallEntries(s, m) = s
      \/ InstallEntries(s, m) = Abort(s)
      \/ \E k : InstallEntries(s, m) = Spliced(s, m, k)
  BY DEF InstallEntries
<1>2. SameCounts(s, s)
  BY DEF SameCounts
<1>. QED BY <1>1, <1>2, CountsKept

\* CommitUpTo executes nothing after upto.
LEMMA CountsCommitted ==
    ASSUME NEW s \in ReplicaStates, NEW upto \in Nat
    PROVE  /\ CommitUpTo(s, upto).prepareOKs = s.prepareOKs
           /\ \/ CommitUpTo(s, upto).lastCommitted = s.lastCommitted
              \/ CommitUpTo(s, upto).lastCommitted <= upto
<1>1. s.lastCommitted \in Nat /\ Len(s.log) \in Nat
  BY StateFields
<1>2. CASE upto <= s.lastCommitted
  BY <1>2 DEF CommitUpTo
<1>3. CASE ~ (upto <= s.lastCommitted)
  <2>. DEFINE n == CommitPoint(s, upto)
              table == StoreReplies(s, CommittedOps(s, upto))
              fail == upto > Len(s.log)
  <2>1. n <= upto
    BY <1>1, MinOfTwo DEF CommitPoint
  <2>2. CommitUpTo(s, upto) = [s EXCEPT !.lastCommitted = n, !.clientTable = table,
                                        !.aborted = fail]
    BY <1>3 DEF CommitUpTo
  <2>. HIDE DEF n, table, fail
  <2>. QED BY <2>1, <2>2 DEF ReplicaStates
<1>. QED BY <1>2, <1>3

\* FinishBatch starts a timer, marks the batch complete, and may close the next.
LEMMA CountsFinished ==
    ASSUME NEW s \in ReplicaStates, NEW r \in Replicas, NEW k \in Nat
    PROVE  SameCounts(s, FinishBatch(s, r, k))
<1>. DEFINE ts   == s.timers \cup {"nullCommit"}
            full == s.batchComplete \/ s.lastBatchEnd = k
            t    == [s EXCEPT !.timers = ts, !.batchComplete = full]
<1>1. ts \in SUBSET Timers /\ full \in BOOLEAN
  BY StateFields DEF Timers
<1>2. FinishBatch(s, r, k) = t \/ FinishBatch(s, r, k) = CloseBatch(t, r)
  <2>1. t = [s EXCEPT !.timers = s.timers \cup {"nullCommit"},
                      !.batchComplete = s.batchComplete \/ s.lastBatchEnd = k]
    OBVIOUS
  <2>. QED BY <2>1 DEF FinishBatch
<1>3. t = [s EXCEPT !.timers = ts, !.batchComplete = full]
  OBVIOUS
<1>. HIDE DEF ts, full, t
<1>4. t \in ReplicaStates /\ SameCounts(s, t)
  BY <1>1, <1>3 DEF SameCounts, ReplicaStates
<1>5. SameCounts(t, CloseBatch(t, r))
  BY <1>4, CountsKept
<1>. QED BY <1>2, <1>4, <1>5 DEF SameCounts

-------------------------------------------------------------------------------
(* What the handlers send                                                  *)

\* PREPAREs vouch for nothing, requests for a state transfer are a follower's,
\* commits tell what was executed, acknowledgements what the log has.
LEMMA WellSent ==
    ASSUME NEW r \in Replicas, NEW t \in ReplicaStates, NEW s
    PROVE  /\ \A b : \A m \in PrepareMessages(r, b) : SentWell(m, r, t)
           /\ \A m \in ClosedBatch(s, r) : SentWell(m, r, t)
           /\ r # Leader => \A m \in StateTransferRequests(s, r) : SentWell(m, r, t)
           /\ s.lastCommitted = t.lastCommitted =>
                  \A m \in CommitMessages(s, r) : SentWell(m, r, t)
           /\ r # Leader =>
                  \A k : k <= Len(t.log) => SentWell(PrepareOK(s, r, k), r, t)
<1>1. \A b : \A m \in PrepareMessages(r, b) : SentWell(m, r, t)
  BY DEF PrepareMessages, SentWell
<1>2. \A m \in ClosedBatch(s, r) : SentWell(m, r, t)
  BY <1>1 DEF ClosedBatch
<1>3. r # Leader => \A m \in StateTransferRequests(s, r) : SentWell(m, r, t)
  BY DEF StateTransferRequests, SentWell
<1>4. s.lastCommitted = t.lastCommitted => \A m \in CommitMessages(s, r) : SentWell(m, r, t)
  <2>. SUFFICES ASSUME s.lastCommitted = t.lastCommitted
                PROVE  \A m \in CommitMessages(s, r) : SentWell(m, r, t)
    OBVIOUS
  <2>1. t.lastCommitted <= t.lastCommitted
    BY StateFields
  <2>. QED BY <2>1 DEF CommitMessages, SentWell
<1>5. r # Leader => \A k : k <= Len(t.log) => SentWell(PrepareOK(s, r, k), r, t)
  BY DEF PrepareOK, SentWell
<1>. QED BY <1>1, <1>2, <1>3, <1>4, <1>5

\* A state with the same counts is backed.
LEMMA BackedSame ==
    ASSUME NEW r \in Replicas, NEW t, SameCounts(rep[r], t)
    PROVE  BackedState(r, t)
BY DEF BackedState, SameCounts

\* A step of replica r to a state with the counts it had.
LEMMA QuorumSame ==
    ASSUME Inv, QuorumInv, GoodStep, NEW r \in Replicas, NEW t, NEW gone, NEW sent,
           SameCounts(rep[r], t), Become(r, t), Network(gone, sent),
           \A m \in sent : SentWell(m, r, t)
    PROVE  QuorumInv'
<1>1. msgs' \subseteq msgs \cup sent
  BY DEF Network
<1>. QED BY <1>1, BackedSame, QuorumChange

\* A step that sends nothing.
LEMMA QuorumSilent ==
    ASSUME Inv, QuorumInv, GoodStep, NEW r \in Replicas, NEW t,
           SameCounts(rep[r], t), Become(r, t), msgs' \subseteq msgs
    PROVE  QuorumInv'
<1>1. BackedState(r, t)
  BY BackedSame
<1>2. PICK sent : sent = {}
  OBVIOUS
<1>3. msgs' \subseteq msgs \cup sent /\ \A m \in sent : SentWell(m, r, t)
  BY <1>2
<1>. QED BY <1>1, <1>3, QuorumChange

\* A step that only sends.
LEMMA QuorumSend ==
    ASSUME Inv, QuorumInv, GoodStep, NEW r \in Replicas, NEW gone, NEW sent,
           UNCHANGED rep, Network(gone, sent), \A m \in sent : SentWell(m, r, rep[r])
    PROVE  QuorumInv'
<1>1. Become(r, rep[r])
  <2>1. rep \in [Replicas -> ReplicaStates]
    BY DEF Inv, TypeOK
  <2>. QED BY <2>1 DEF Become
<1>2. SameCounts(rep[r], rep[r])
  BY DEF SameCounts
<1>. QED BY <1>1, <1>2, QuorumSame

-------------------------------------------------------------------------------
(* The actions                                                             *)

\* Requests wait in the queue, are dropped, or are ordered.
LEMMA QuorumOrder ==
    ASSUME Inv, QuorumInv, GoodStep, NEW r \in Replicas,
           \/ \E q \in Requests : AddToQueue(r, q) \/ HandleRequest(r, q)
           \/ BgRepl(r)
    PROVE  QuorumInv'
<1>0. rep[r] \in ReplicaStates
  BY GoodNow
<1>1. ASSUME NEW s, s \in ReplicaStates, SameCounts(rep[r], s), NEW q \in Requests,
             \/ Become(r, s) /\ UNCHANGED msgs
             \/ /\ Become(r, CloseBatch(AppendRequest(s, q), r))
                /\ Network({}, ClosedBatch(AppendRequest(s, q), r))
             \/ Become(r, KeepInBatch(AppendRequest(s, q))) /\ UNCHANGED msgs
      PROVE  QuorumInv'
  <2>. DEFINE t == AppendRequest(s, q)
              u == CloseBatch(t, r)
  <2>1. t \in ReplicaStates /\ SameCounts(s, t)
    BY <1>1, AppendRequestType, CountsKept
  <2>2. SameCounts(t, u) /\ SameCounts(t, KeepInBatch(t)) /\ u \in ReplicaStates
    BY <2>1, CountsKept, CloseBatchType
  <2>3. SameCounts(rep[r], u) /\ SameCounts(rep[r], KeepInBatch(t))
    BY <1>1, <2>1, <2>2 DEF SameCounts
  <2>4. \A m \in ClosedBatch(t, r) : SentWell(m, r, u)
    BY <2>2, WellSent
  <2>5. CASE Become(r, s) /\ UNCHANGED msgs
    BY <1>1, <2>5, QuorumSilent
  <2>6. CASE Become(r, u) /\ Network({}, ClosedBatch(t, r))
    <3>. HIDE DEF u
    <3>. QED BY <2>3, <2>4, <2>6, QuorumSame
  <2>7. CASE Become(r, KeepInBatch(t)) /\ UNCHANGED msgs
    BY <2>3, <2>7, QuorumSilent
  <2>. QED BY <1>1, <2>5, <2>6, <2>7
<1>2. ASSUME NEW q \in Requests, AddToQueue(r, q)
      PROVE  QuorumInv'
  <2>. DEFINE t == [rep[r] EXCEPT !.queue = Append(@, q)]
  <2>1. SameCounts(rep[r], t)
    BY <1>0 DEF SameCounts, ReplicaStates
  <2>2. Become(r, t) /\ UNCHANGED msgs
    BY <1>2 DEF AddToQueue
  <2>. QED BY <2>1, <2>2, QuorumSilent
<1>3. ASSUME NEW q \in Requests, HandleRequest(r, q)
      PROVE  QuorumInv'
  <2>. DEFINE cs == rep[r].addresses \cup {q.client}
              ts == rep[r].timers \cup {"bgRepl"}
              s  == [rep[r] EXCEPT !.addresses = cs, !.timers = ts]
  <2>1. cs \in SUBSET Clients /\ ts \in SUBSET Timers
    BY <1>0, StateFields, RequestFields DEF Timers
  <2>2. \/ Become(r, s) /\ UNCHANGED msgs
        \/ /\ Become(r, CloseBatch(AppendRequest(s, q), r))
           /\ Network({}, ClosedBatch(AppendRequest(s, q), r))
        \/ Become(r, KeepInBatch(AppendRequest(s, q))) /\ UNCHANGED msgs
    BY <1>3 DEF HandleRequest
  <2>3. s = [rep[r] EXCEPT !.addresses = cs, !.timers = ts]
    OBVIOUS
  <2>. HIDE DEF cs, ts, s
  <2>4. s \in ReplicaStates /\ SameCounts(rep[r], s)
    BY <1>0, <2>1, <2>3 DEF SameCounts, ReplicaStates
  <2>. QED BY <1>1, <2>2, <2>4
<1>4. CASE BgRepl(r)
  <2>. DEFINE qs == Tail(rep[r].queue)
              ts == rep[r].timers \cup {"bgRepl"}
              q  == Head(rep[r].queue)
              s  == [rep[r] EXCEPT !.queue = qs, !.timers = ts]
  <2>1. rep[r].queue \in Seq(Requests) /\ rep[r].queue # <<>>
    BY <1>0, <1>4, StateFields DEF BgRepl
  <2>2. q \in Requests /\ qs \in Seq(Requests) /\ ts \in SUBSET Timers
    BY <1>0, <2>1, HeadTailProperties, StateFields DEF Timers
  <2>3. \/ Become(r, s) /\ UNCHANGED msgs
        \/ /\ Become(r, CloseBatch(AppendRequest(s, q), r))
           /\ Network({}, ClosedBatch(AppendRequest(s, q), r))
        \/ Become(r, KeepInBatch(AppendRequest(s, q))) /\ UNCHANGED msgs
    BY <1>4 DEF BgRepl
  <2>4. s = [rep[r] EXCEPT !.queue = qs, !.timers = ts]
    OBVIOUS
  <2>. HIDE DEF qs, ts, q, s
  <2>5. s \in ReplicaStates /\ SameCounts(rep[r], s)
    BY <1>0, <2>2, <2>4 DEF SameCounts, ReplicaStates
  <2>. QED BY <1>1, <2>2, <2>3, <2>5
<1>. QED BY <1>2, <1>3, <1>4

\* Timers send what is known already.
LEMMA QuorumTimer ==
    ASSUME Inv, QuorumInv, GoodStep, NEW r \in Replicas, Timer(r)
    PROVE  QuorumInv'
<1>. DEFINE s == rep[r]
<1>1. s \in ReplicaStates /\ SameCounts(s, Abort(s)) /\ SameCounts(s, CloseBatch(s, r))
  BY GoodNow, CountsKept
<1>2. CloseBatch(s, r) \in ReplicaStates
  BY <1>1, CloseBatchType
<1>3. CASE CloseBatchTimeout(r)
  <2>1. Become(r, CloseBatch(s, r)) /\ Network({}, ClosedBatch(s, r))
    BY <1>3 DEF CloseBatchTimeout
  <2>2. \A m \in ClosedBatch(s, r) : SentWell(m, r, CloseBatch(s, r))
    BY <1>2, WellSent
  <2>. QED BY <1>1, <2>1, <2>2, QuorumSame
<1>4. CASE ResendPrepare(r)
  <2>1. CASE UNCHANGED rep /\ Network({}, PrepareMessages(r, s.lastPrepare))
    <3>1. \A m \in PrepareMessages(r, s.lastPrepare) : SentWell(m, r, s)
      BY <1>1, WellSent
    <3>. QED BY <2>1, <3>1, QuorumSend
  <2>2. CASE Become(r, Abort(s)) /\ UNCHANGED msgs
    BY <1>1, <2>2, QuorumSilent
  <2>. QED BY <1>4, <2>1, <2>2 DEF ResendPrepare
<1>5. CASE SendNullCommit(r)
  <2>1. CASE UNCHANGED rep /\ Network({}, CommitMessages(s, r))
    <3>1. \A m \in CommitMessages(s, r) : SentWell(m, r, s)
      BY <1>1, WellSent
    <3>. QED BY <2>1, <3>1, QuorumSend
  <2>2. CASE Become(r, Abort(s)) /\ UNCHANGED msgs
    BY <1>1, <2>2, QuorumSilent
  <2>. QED BY <1>5, <2>1, <2>2 DEF SendNullCommit
<1>6. CASE StateTransferTimeout(r)
  <2>. DEFINE t == [s EXCEPT !.lastTransfer = <<0, 0>>]
  <2>1. Become(r, t) /\ UNCHANGED msgs
    BY <1>6 DEF StateTransferTimeout
  <2>2. SameCounts(s, t)
    BY <1>1 DEF SameCounts, ReplicaStates
  <2>. QED BY <2>1, <2>2, QuorumSilent
<1>. QED BY <1>3, <1>4, <1>5, <1>6 DEF Timer

-------------------------------------------------------------------------------
(* The handlers                                                            *)

\* A follower acknowledges what its log has after the PREPARE; the leader takes
\* none.
LEMMA QuorumHandlePrepare ==
    ASSUME Inv, QuorumInv, GoodStep, NEW r \in Replicas, NEW s, GoodState(r, s),
           NewLog(r, s) = LeaderLog, SameCounts(rep[r], s), NEW b \in Batches,
           BatchOf(b, LeaderLog), NEW gone, HandlePrepare(r, s, b, gone)
    PROVE  QuorumInv'
<1>. DEFINE ok == {PrepareOK(s, r, b.opnum)}
            h  == Heard(s)
            d  == Defer(h, b)
            a  == AppendBatch(h, b)
            no == {}
<1>1. /\ s \in ReplicaStates /\ s.lastOp = Len(s.log) /\ b.view = 0 /\ s.view = 0
      /\ s.status = "NORMAL" /\ (AmLeader(s, r) <=> r = Leader)
  BY GoodBounds DEF BatchOf
<1>2. GoodState(r, h) /\ NewLog(r, h) = LeaderLog /\ SameLog(s, h) /\ h \in ReplicaStates
  BY GoodHeard, GoodBounds
<1>3. SameCounts(rep[r], h) /\ SameCounts(rep[r], Abort(s))
  BY <1>1, CountsKept DEF SameCounts
<1>4. SameCounts(rep[r], d) /\ SameCounts(rep[r], a)
  <2>. HIDE DEF h
  <2>1. SameCounts(h, Defer(h, b)) /\ SameCounts(h, AppendBatch(h, b))
    BY <1>2, CountsKept
  <2>. QED BY <1>3, <2>1 DEF SameCounts
<1>5. \A t : \A m \in no : SentWell(m, r, t)
  OBVIOUS
<1>6. CASE Become(r, s) /\ Network(gone, no)
  BY <1>5, <1>6, QuorumSame
<1>7. CASE Become(r, Abort(s)) /\ Network(gone, no)
  BY <1>3, <1>5, <1>7, QuorumSame
<1>8. CASE r # Leader /\ Become(r, d) /\ Network(gone, StateTransferRequests(s, r))
  <2>1. d \in ReplicaStates
    BY <1>2, GoodDefer, GoodBounds
  <2>2. \A m \in StateTransferRequests(s, r) : SentWell(m, r, d)
    BY <1>8, <2>1, WellSent
  <2>. HIDE DEF d
  <2>. QED BY <1>4, <1>8, <2>2, QuorumSame
<1>9. CASE r # Leader /\ b.opnum <= s.lastOp /\ Become(r, h) /\ Network(gone, ok)
  <2>1. b.opnum <= Len(h.log)
    BY <1>1, <1>2, <1>9 DEF SameLog
  <2>2. SentWell(PrepareOK(s, r, b.opnum), r, h)
    BY <1>2, <1>9, <2>1, WellSent
  <2>. QED BY <1>3, <1>9, <2>2, QuorumSame
<1>10. CASE /\ r # Leader /\ b.batchstart <= s.lastOp + 1 /\ s.lastOp < b.opnum
            /\ Become(r, a) /\ Network(gone, ok)
  <2>. HIDE DEF h
  <2>1. GoodState(r, a)
    BY <1>2, <1>10, GoodAppendBatch DEF SameLog
  <2>2. a \in ReplicaStates /\ a.lastOp = Len(a.log)
    BY <2>1, GoodBounds
  <2>3. a.lastOp = b.opnum
    BY <1>2 DEF AppendBatch, ReplicaStates
  <2>4. b.opnum <= Len(a.log)
    BY <2>2, <2>3, StateFields
  <2>5. SentWell(PrepareOK(s, r, b.opnum), r, a)
    BY <1>10, <2>2, <2>4, WellSent
  <2>. HIDE DEF a
  <2>. QED BY <1>4, <1>10, <2>5, QuorumSame
<1>11. \/ Become(r, s) /\ Network(gone, no)
       \/ Become(r, Abort(s)) /\ Network(gone, no)
       \/ r # Leader /\ Become(r, d) /\ Network(gone, StateTransferRequests(s, r))
       \/ r # Leader /\ b.opnum <= s.lastOp /\ Become(r, h) /\ Network(gone, ok)
       \/ /\ r # Leader /\ b.batchstart <= s.lastOp + 1 /\ s.lastOp < b.opnum
          /\ Become(r, a) /\ Network(gone, ok)
  BY <1>1 DEF HandlePrepare
<1>. QED BY <1>6, <1>7, <1>8, <1>9, <1>10, <1>11

\* The PREPARE comes from the network, or had been set aside.
LEMMA QuorumPrepare ==
    ASSUME Inv, QuorumInv, GoodStep, NEW r \in Replicas, ReceivePrepare(r) \/ ReplayPending(r)
    PROVE  QuorumInv'
<1>1. CASE ReceivePrepare(r)
  <2>1. PICK m \in Received(r, "Prepare") : HandlePrepare(r, rep[r], m.batch, {m})
    BY <1>1 DEF ReceivePrepare
  <2>2. m \in Messages /\ m.type = "Prepare" /\ CarriesLog(m, LeaderLog)
    BY ReceivedFacts
  <2>3. m.batch \in Batches /\ BatchOf(m.batch, LeaderLog)
    BY <2>2 DEF Messages, CarriesLog
  <2>4. SameCounts(rep[r], rep[r])
    BY DEF SameCounts
  <2>. QED BY <2>1, <2>3, <2>4, GoodNow, QuorumHandlePrepare
<1>2. CASE ReplayPending(r)
  <2>. DEFINE w == rep[r].work
              s == [rep[r] EXCEPT !.work = Tail(w)]
              b == Head(w)
  <2>1. w # <<>> /\ HandlePrepare(r, s, b, {})
    BY <1>2 DEF ReplayPending
  <2>2. /\ GoodState(r, s) /\ NewLog(r, s) = LeaderLog
        /\ b \in Batches /\ BatchOf(b, LeaderLog)
    BY <2>1, GoodWorkTaken
  <2>3. SameCounts(rep[r], s)
    BY GoodNow DEF SameCounts, ReplicaStates
  <2>. HIDE DEF s, b
  <2>. QED BY <2>1, <2>2, <2>3, QuorumHandlePrepare
<1>. QED BY <1>1, <1>2

\* A leader that has QuorumSize - 1 acknowledgements of an operation executes
\* what f+1 logs have: those of the senders and its own.
LEMMA QuorumPrepareOK ==
    ASSUME Inv, QuorumInv, GoodStep, NEW r \in Replicas, ReceivePrepareOK(r)
    PROVE  QuorumInv'
<1>1. PICK m \in Received(r, "PrepareOK") : HandlePrepareOK(r, m)
  BY DEF ReceivePrepareOK
<1>2. /\ m \in msgs /\ m.from \in Replicas /\ m.opnum \in Nat /\ m.view = 0
      /\ Vouches(m) /\ m.type = "PrepareOK"
  <2>1. m \in Messages /\ m.type = "PrepareOK" /\ CarriesLog(m, LeaderLog) /\ m \in msgs
    BY ReceivedFacts DEF Received
  <2>2. m.from \in Replicas /\ m.opnum \in Nat
    BY <2>1 DEF Messages
  <2>. QED BY <2>1, <2>2 DEF CarriesLog, QuorumInv
<1>3. rep[r] \in ReplicaStates /\ rep[r].view = 0 /\ (AmLeader(rep[r], r) <=> r = Leader)
  BY GoodNow, GoodBounds
<1>. DEFINE oks == rep[r].prepareOKs \cup {<<m.opnum, m.from>>}
            s   == [rep[r] EXCEPT !.prepareOKs = oks]
            c   == CommitUpTo(s, m.opnum)
            f   == FinishBatch(c, r, m.opnum)
            out == CommitMessages(c, r) \cup
                       IF c.lastBatchEnd = m.opnum /\ c.lastOp > m.opnum
                       THEN ClosedBatch(c, r) ELSE {}
            no  == {}
<1>4. \/ Become(r, s) /\ Network({m}, no)
      \/ /\ r = Leader /\ Cardinality(Acks(s, m.opnum)) >= QuorumSize - 1
         /\ \/ Become(r, c) /\ Network({m}, no)
            \/ Become(r, f) /\ Network({m}, out)
  <2>1. ~ (m.view > rep[r].view)
    BY <1>2, <1>3
  <2>. QED BY <1>1, <1>3, <2>1 DEF HandlePrepareOK
<1>5. /\ s \in ReplicaStates /\ s.prepareOKs = oks /\ SameLog(rep[r], s)
      /\ s.lastCommitted = rep[r].lastCommitted
      /\ GoodState(r, s) /\ NewLog(r, s) = LeaderLog
  <2>1. oks \in SUBSET (Nat \X Replicas)
    BY <1>2, <1>3, StateFields
  <2>2. s = [rep[r] EXCEPT !.prepareOKs = oks]
    OBVIOUS
  <2>. HIDE DEF s, oks
  <2>3. s \in ReplicaStates /\ SameLog(rep[r], s) /\ s.timers = rep[r].timers
    BY <1>3, <2>1, <2>2, AcksChange
  <2>4. s.prepareOKs = oks /\ s.lastCommitted = rep[r].lastCommitted
    BY <1>3, <2>2 DEF ReplicaStates
  <2>. QED BY <2>3, <2>4, GoodNow, GoodSmall
<1>. HIDE DEF s
<1>6. \A k \in Nat, p \in Replicas :
          <<k, p>> \in s.prepareOKs =>
              \/ <<k, p>> \in rep[r].prepareOKs
              \/ \E x \in Received(r, "PrepareOK") : k = x.opnum /\ p = x.from
  BY <1>1, <1>5
<1>7. \A t : \A x \in no : SentWell(x, r, t)
  OBVIOUS
<1>8. CASE Become(r, s) /\ Network({m}, no)
  <2>1. BackedState(r, s)
    BY <1>5, <1>6 DEF BackedState
  <2>2. msgs' \subseteq msgs \cup no
    BY <1>8 DEF Network
  <2>. QED BY <1>7, <1>8, <2>1, <2>2, QuorumChange
<1>9. CASE /\ r = Leader /\ Cardinality(Acks(s, m.opnum)) >= QuorumSize - 1
           /\ \/ Become(r, c) /\ Network({m}, no)
              \/ Become(r, f) /\ Network({m}, out)
  <2>1. /\ GoodState(r, c) /\ c \in ReplicaStates /\ c.lastCommitted \in Nat
        /\ c.lastCommitted <= Len(c.log) /\ c.log = rep[r].log
    <3>1. GoodState(r, c) /\ c \in ReplicaStates /\ c.lastCommitted <= Len(c.log)
      BY <1>2, <1>5, GoodCommitUpTo, GoodBounds
    <3>2. c.log = s.log /\ s.log = rep[r].log
      BY <1>2, <1>5, GoodBounds, CommitUpToType DEF SameButCommitted, SameLog
    <3>. HIDE DEF c
    <3>. QED BY <3>1, <3>2, StateFields
  <2>2. /\ c.prepareOKs = s.prepareOKs
        /\ c.lastCommitted = rep[r].lastCommitted \/ c.lastCommitted <= m.opnum
    BY <1>2, <1>5, CountsCommitted
  <2>3. SameCounts(c, f)
    <3>. HIDE DEF c
    <3>. QED BY <1>2, <2>1, CountsFinished
  <2>. HIDE DEF c, f
  <2>4. c.lastCommitted <= m.opnum => Cardinality(Holders(c.lastCommitted)) >= QuorumSize
    <3>1. Acks(s, m.opnum) \in SUBSET Replicas
      BY DEF Acks
    <3>2. \A p \in Acks(s, m.opnum) : p # Leader /\ m.opnum <= Len(rep[p].log)
      <4>. TAKE p \in Acks(s, m.opnum)
      <4>1. <<m.opnum, p>> \in oks /\ p \in Replicas
        BY <1>5 DEF Acks
      <4>2. CASE <<m.opnum, p>> \in rep[r].prepareOKs
        BY <1>2, <4>1, <4>2 DEF QuorumInv, Backed
      <4>3. CASE p = m.from
        BY <1>2, <4>3 DEF Vouches
      <4>. QED BY <4>1, <4>2, <4>3
    <3>3. SUFFICES ASSUME c.lastCommitted <= m.opnum
                   PROVE  Cardinality(Holders(c.lastCommitted)) >= QuorumSize
      OBVIOUS
    <3>4. PICK k \in Nat : k = c.lastCommitted
      BY <2>1
    <3>5. Acks(s, m.opnum) \subseteq Holders(k)
      BY <1>2, <3>1, <3>2, <3>3, <3>4, QuorumTypes DEF Holders
    <3>6. Leader \in Holders(k) /\ Holders(k) \in SUBSET Replicas /\ Leader \notin Acks(s, m.opnum)
      BY <1>9, <2>1, <3>2, <3>4, LeaderIsReplica DEF Holders
    <3>. QED BY <1>9, <3>1, <3>4, <3>5, <3>6, AcksAndLeader
  <2>5. BackedState(r, c)
    BY <1>6, <1>9, <2>2, <2>4 DEF BackedState
  <2>6. BackedState(r, f)
    BY <2>3, <2>5 DEF BackedState, SameCounts
  <2>7. CASE Become(r, c) /\ Network({m}, no)
    <3>1. msgs' \subseteq msgs \cup no
      BY <2>7 DEF Network
    <3>. QED BY <1>7, <2>5, <2>7, <3>1, QuorumChange
  <2>8. CASE Become(r, f) /\ Network({m}, out)
    <3>1. f \in ReplicaStates
      BY <1>2, <2>1, GoodFinishBatch, GoodBounds DEF f
    <3>2. /\ \A x \in CommitMessages(c, r) : SentWell(x, r, f)
          /\ \A x \in ClosedBatch(c, r) : SentWell(x, r, f)
      BY <2>3, <3>1, WellSent DEF SameCounts
    <3>3. \A x \in out : SentWell(x, r, f)
      BY <3>2
    <3>. HIDE DEF out
    <3>4. msgs' \subseteq msgs \cup out
      BY <2>8 DEF Network
    <3>. QED BY <2>6, <2>8, <3>3, <3>4, QuorumChange
  <2>. QED BY <1>9, <2>7, <2>8
<1>. QED BY <1>4, <1>8, <1>9

\* A COMMIT names what the leader has executed.
LEMMA QuorumCommit ==
    ASSUME Inv, QuorumInv, GoodStep, NEW r \in Replicas, ReceiveCommit(r)
    PROVE  QuorumInv'
<1>. DEFINE s  == rep[r]
            h  == Heard(s)
            q  == RequestStateTransfer(h)
            c(k) == CommitUpTo(h, k)
            no == {}
<1>1. PICK m \in Received(r, "Commit") : HandleCommit(r, m)
  BY DEF ReceiveCommit
<1>2. m.opnum \in Nat /\ m.view = 0 /\ m.opnum <= LeaderCommitted
  <2>1. m \in Messages /\ m.type = "Commit" /\ CarriesLog(m, LeaderLog) /\ m \in msgs
    BY ReceivedFacts DEF Received
  <2>. QED BY <2>1 DEF Messages, CarriesLog, QuorumInv, Vouches
<1>3. /\ s \in ReplicaStates /\ s.view = 0 /\ (AmLeader(s, r) <=> r = Leader)
      /\ GoodState(r, h) /\ h \in ReplicaStates
  BY GoodNow, GoodHeard, GoodBounds
<1>4. /\ SameCounts(s, Abort(s)) /\ SameCounts(s, h) /\ SameCounts(s, q)
  <2>1. SameCounts(s, Abort(s)) /\ SameCounts(s, h)
    BY <1>3, CountsKept
  <2>. HIDE DEF h
  <2>2. SameCounts(h, q)
    BY <1>3, CountsKept
  <2>. QED BY <2>1, <2>2 DEF SameCounts
<1>5. \/ Become(r, Abort(s)) /\ Network({m}, no)
      \/ Become(r, h) /\ Network({m}, no)
      \/ r # Leader /\ Become(r, q) /\ Network({m}, StateTransferRequests(s, r))
      \/ r # Leader /\ Become(r, c(m.opnum)) /\ Network({m}, no)
  <2>1. ~ (m.view > s.view)
    BY <1>2, <1>3
  <2>. QED BY <1>1, <1>3, <2>1 DEF HandleCommit
<1>6. \A t : \A x \in no : SentWell(x, r, t)
  OBVIOUS
<1>7. CASE Become(r, Abort(s)) /\ Network({m}, no)
  BY <1>4, <1>6, <1>7, QuorumSame
<1>8. CASE Become(r, h) /\ Network({m}, no)
  BY <1>4, <1>6, <1>8, QuorumSame
<1>9. CASE r # Leader /\ Become(r, q) /\ Network({m}, StateTransferRequests(s, r))
  <2>1. q \in ReplicaStates
    BY <1>3, GoodRequestStateTransfer, GoodBounds
  <2>2. \A x \in StateTransferRequests(s, r) : SentWell(x, r, q)
    BY <1>9, <2>1, WellSent
  <2>. HIDE DEF q
  <2>. QED BY <1>4, <1>9, <2>2, QuorumSame
<1>10. CASE r # Leader /\ Become(r, c(m.opnum)) /\ Network({m}, no)
  <2>1. /\ c(m.opnum).prepareOKs = s.prepareOKs
        /\ c(m.opnum).lastCommitted = s.lastCommitted \/ c(m.opnum).lastCommitted <= m.opnum
    BY <1>2, <1>3, <1>4, CountsCommitted DEF SameCounts
  <2>2. c(m.opnum).lastCommitted \in Nat
    BY <1>2, <1>3, GoodCommitUpTo, GoodBounds, StateFields
  <2>. HIDE DEF c
  <2>3. BackedState(r, c(m.opnum))
    <3>1. c(m.opnum).lastCommitted = s.lastCommitted \/ c(m.opnum).lastCommitted <= LeaderCommitted
      BY <1>2, <2>1, <2>2, QuorumTypes
    <3>. QED BY <1>10, <2>1, <3>1 DEF BackedState
  <2>4. msgs' \subseteq msgs \cup no
    BY <1>10 DEF Network
  <2>. QED BY <1>6, <1>10, <2>3, <2>4, QuorumChange
<1>. QED BY <1>5, <1>7, <1>8, <1>9, <1>10

\* A log dump goes to a follower, and names what its sender has executed.
LEMMA QuorumRequestStateTransfer ==
    ASSUME Inv, QuorumInv, GoodStep, NEW r \in Replicas, ReceiveRequestStateTransfer(r)
    PROVE  QuorumInv'
<1>. DEFINE s == rep[r]
<1>1. PICK m \in Received(r, "RequestStateTransfer") : HandleRequestStateTransfer(r, m)
  BY DEF ReceiveRequestStateTransfer
<1>2. m.view = 0 /\ m.from # Leader
  <2>1. m.type = "RequestStateTransfer" /\ CarriesLog(m, LeaderLog) /\ m \in msgs
    BY ReceivedFacts DEF Received
  <2>. QED BY <2>1 DEF CarriesLog, QuorumInv, Vouches
<1>3. s.view = 0 /\ s.lastCommitted \in Nat
  BY GoodNow, GoodBounds, StateFields
<1>4. UNCHANGED rep /\ Network({m}, {LogDump(s, m)})
  <2>1. ~ (m.view > s.view)
    BY <1>2, <1>3
  <2>. QED BY <1>1, <2>1 DEF HandleRequestStateTransfer
<1>5. SentWell(LogDump(s, m), r, s)
  <2>1. s.lastCommitted <= s.lastCommitted
    BY <1>3
  <2>2. /\ LogDump(s, m).type = "StateTransfer" /\ LogDump(s, m).to = m.from
        /\ LogDump(s, m).opnum = s.lastCommitted
    BY DEF LogDump
  <2>. QED BY <1>2, <2>1, <2>2 DEF SentWell
<1>. QED BY <1>4, <1>5, QuorumSend

\* The receiver of a log dump is a follower; it acknowledges operations that are
\* in its log and executes what the sender had executed.
LEMMA QuorumStateTransfer ==
    ASSUME Inv, QuorumInv, GoodStep, NEW r \in Replicas, ReceiveStateTransfer(r)
    PROVE  QuorumInv'
<1>. DEFINE s   == rep[r]
            old == s.lastOp
            no  == {}
<1>1. PICK m \in Received(r, "StateTransfer") : HandleStateTransfer(r, m)
  BY DEF ReceiveStateTransfer
<1>2. /\ m \in Messages /\ m.type = "StateTransfer" /\ CarriesLog(m, LeaderLog)
      /\ m \in msgs /\ m.to = r
  BY ReceivedFacts DEF Received
<1>3. /\ m.opnum \in Nat /\ m.view = 0 /\ m.opnum <= LeaderCommitted /\ r # Leader
      /\ s \in ReplicaStates /\ s.view = 0 /\ old \in Nat
  <2>1. m.opnum \in Nat
    BY <1>2 DEF Messages
  <2>. QED BY <1>2, <2>1, GoodNow, GoodBounds, StateFields DEF CarriesLog, QuorumInv, Vouches
<1>. DEFINE i == InstallEntries(s, m)
            c == CommitUpTo(i, m.opnum)
            p == SendPrepareOKs(c, old)
            w == c.pending
            e == <<>>
            t == [p EXCEPT !.work = w, !.pending = e]
<1>4. GoodState(r, i) /\ OldLastOp(s, m) = old /\ SameCounts(s, i)
  BY <1>2, <1>3, GoodNow, GoodInstall, CountsInstalled
<1>5. \/ Become(r, Abort(i)) /\ Network({m}, no)
      \/ Become(r, t) /\ Network({m}, PrepareOKsFor(c, r, old))
  <2>1. ~ (m.view > s.view)
    BY <1>3
  <2>. QED BY <1>1, <1>4, <2>1 DEF HandleStateTransfer
<1>. HIDE DEF i
<1>6. CASE Become(r, Abort(i)) /\ Network({m}, no)
  <2>1. SameCounts(s, Abort(i))
    BY <1>4, GoodBounds, CountsKept DEF SameCounts
  <2>2. \A x \in no : SentWell(x, r, Abort(i))
    OBVIOUS
  <2>. QED BY <1>6, <2>1, <2>2, QuorumSame
<1>7. CASE Become(r, t) /\ Network({m}, PrepareOKsFor(c, r, old))
  <2>1. /\ GoodState(r, c) /\ c \in ReplicaStates /\ c.lastOp = Len(c.log)
        /\ c.lastCommitted \in Nat /\ c.prepareOKs = s.prepareOKs
        /\ c.lastCommitted = s.lastCommitted \/ c.lastCommitted <= m.opnum
    <3>1. GoodState(r, c)
      BY <1>3, <1>4, GoodCommitUpTo
    <3>2. /\ c.prepareOKs = i.prepareOKs
          /\ c.lastCommitted = i.lastCommitted \/ c.lastCommitted <= m.opnum
      BY <1>3, <1>4, GoodBounds, CountsCommitted
    <3>. HIDE DEF c
    <3>3. c \in ReplicaStates /\ c.lastOp = Len(c.log)
      BY <3>1, GoodBounds
    <3>. QED BY <1>4, <3>1, <3>2, <3>3, StateFields DEF SameCounts
  <2>. HIDE DEF c
  <2>2. p \in ReplicaStates /\ SameCounts(c, p) /\ p.log = c.log
    BY <1>3, <2>1, SendPrepareOKsType, CountsKept DEF SameButCommitted
  <2>3. t = [p EXCEPT !.work = w, !.pending = e]
    OBVIOUS
  <2>. HIDE DEF p, w, e, t
  <2>4. SameCounts(p, t) /\ t.log = p.log
    BY <2>2, <2>3 DEF SameCounts, ReplicaStates
  <2>5. t.prepareOKs = s.prepareOKs /\ t.lastCommitted = c.lastCommitted /\ t.log = c.log
    BY <2>1, <2>2, <2>4 DEF SameCounts
  <2>6. BackedState(r, t)
    <3>1. c.lastCommitted = s.lastCommitted \/ c.lastCommitted <= LeaderCommitted
      BY <1>3, <2>1, QuorumTypes
    <3>. QED BY <1>3, <2>5, <3>1 DEF BackedState
  <2>7. \A x \in PrepareOKsFor(c, r, old) : SentWell(x, r, t)
    <3>. TAKE x \in PrepareOKsFor(c, r, old)
    <3>1. PICK k \in NewUncommitted(c, old) : x = PrepareOK(c, r, k)
      BY DEF PrepareOKsFor
    <3>2. k <= c.lastOp
      BY <3>1 DEF NewUncommitted
    <3>. QED BY <1>3, <2>1, <2>5, <3>1, <3>2 DEF SentWell, PrepareOK
  <2>8. msgs' \subseteq msgs \cup PrepareOKsFor(c, r, old)
    BY <1>7 DEF Network
  <2>. QED BY <1>7, <2>6, <2>7, <2>8, QuorumChange
<1>. QED BY <1>5, <1>6, <1>7

-------------------------------------------------------------------------------
(* The specification                                                       *)

\* Every step keeps the invariant.
LEMMA QuorumStep ==
    ASSUME Inv, QuorumInv, [Next]_vars
    PROVE  Inv' /\ QuorumInv'
<1>1. Inv' /\ GoodStep
  BY StepGood
<1>2. ASSUME NEW r \in Up, Step(r)
      PROVE  QuorumInv'
  <2>1. r \in Replicas
    BY NetworkAssumption
  <2>. QED BY <1>1, <1>2, <2>1, QuorumOrder, QuorumTimer, QuorumPrepare, QuorumPrepareOK,
              QuorumCommit, QuorumRequestStateTransfer, QuorumStateTransfer
           DEF Step, Receive
<1>3. CASE UNCHANGED rep /\ msgs' \subseteq msgs
  <2>1. Become(Leader, rep[Leader])
    <3>1. rep \in [Replicas -> ReplicaStates]
      BY DEF Inv, TypeOK
    <3>. QED BY <1>3, <3>1, LeaderIsReplica DEF Become
  <2>2. SameCounts(rep[Leader], rep[Leader])
    BY DEF SameCounts
  <2>. QED BY <1>1, <1>3, <2>1, <2>2, LeaderIsReplica, QuorumSilent
<1>4. ASSUME NEW m \in msgs, Lose(m)
      PROVE  UNCHANGED rep /\ msgs' \subseteq msgs
  BY <1>4 DEF Lose
<1>. QED BY <1>1, <1>2, <1>3, <1>4 DEF Next, vars

\* At first nothing is executed and nothing has been sent.
LEMMA InitQuorum == Init => QuorumInv
<1>. SUFFICES ASSUME Init
              PROVE  QuorumInv
  OBVIOUS
<1>1. \A r \in Replicas : /\ rep[r].lastCommitted = 0 /\ rep[r].prepareOKs = {}
                          /\ Len(rep[r].log) = 0
  BY DEF Init, NewReplica
<1>2. LeaderCommitted = 0 /\ msgs = {}
  BY <1>1, LeaderIsReplica DEF Init, LeaderCommitted
<1>3. \A r \in Replicas : Backed(r)
  BY <1>1, <1>2 DEF Backed
<1>4. Holders(LeaderCommitted) = Replicas
  BY <1>1, <1>2 DEF Holders
<1>5. N >= QuorumSize
  BY ConfigAssumption DEF QuorumSize
<1>. QED BY <1>2, <1>3, <1>4, <1>5, ReplicasFinite DEF QuorumInv

\* What has been executed anywhere is in the logs of f+1 replicas, whichever way
\* it got there, PREPARE or log dump: it survives the loss of f replicas.
THEOREM CommittedIsHeld == Spec => []CommittedOnQuorum
<1>1. Init => Inv /\ QuorumInv
  BY InitInv, InitQuorum
<1>2. Inv /\ QuorumInv /\ [Next]_vars => (Inv /\ QuorumInv)'
  BY QuorumStep
<1>3. Inv /\ QuorumInv => CommittedOnQuorum
  <2>. SUFFICES ASSUME Inv, QuorumInv, NEW r \in Replicas,
                       NEW k \in 1 .. rep[r].lastCommitted
                PROVE  Cardinality({p \in Replicas : /\ k <= Len(rep[p].log)
                                        /\ rep[p].log[k] = rep[r].log[k]}) >= QuorumSize
    BY DEF CommittedOnQuorum
  <2>. DEFINE S == {p \in Replicas : /\ k <= Len(rep[p].log)
                                     /\ rep[p].log[k] = rep[r].log[k]}
  <2>1. k \in Nat /\ 1 <= k /\ k <= LeaderCommitted /\ k <= Len(rep[r].log)
    <3>1. rep[r].lastCommitted <= LeaderCommitted
      BY DEF QuorumInv, Backed
    <3>2. rep[r].lastCommitted <= Len(rep[r].log)
      BY GoodNow, GoodBounds
    <3>. QED BY <3>1, <3>2, QuorumTypes
  <2>2. Cardinality(Holders(k)) >= QuorumSize
    BY <2>1, QuorumTypes, HoldersShrink DEF QuorumInv
  <2>3. \A p \in Replicas : k <= Len(rep[p].log) => rep[p].log[k] = LeaderLog[k]
    BY <2>1, QuorumTypes DEF Inv, LogsFollowLeader, FollowsLog, LeaderLog, Leader
  <2>4. Holders(k) \subseteq S /\ S \in SUBSET Replicas
    BY <2>1, <2>3 DEF Holders
  <2>5. QuorumSize \in Nat
    BY ConfigAssumption DEF QuorumSize
  <2>. HIDE DEF S
  <2>6. Cardinality(S) >= QuorumSize
    BY <2>2, <2>4, <2>5, MoreReplicas
  <2>. QED BY <2>6 DEF S
<1>. QED BY <1>1, <1>2, <1>3, PTL DEF Spec

=============================================================================
