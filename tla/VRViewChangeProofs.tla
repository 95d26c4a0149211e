-------------------------- MODULE VRViewChangeProofs --------------------------
(***************************************************************************)
(* Theorems about VRViewChange and VRRecovery.                             *)
(***************************************************************************)
EXTENDS VRRecovery, VRReplicaProofs

-------------------------------------------------------------------------------
(* The functions of VRState, in any view and status                        *)

\* t has the view, the log and the progress of s.
SameProgress(s, t) ==
    /\ t.view = s.view /\ t.status = s.status /\ t.log = s.log /\ t.lastOp = s.lastOp
    /\ t.lastCommitted = s.lastCommitted /\ t.prepareOKs = s.prepareOKs

\* t has the batches of s, sent, set aside or to be handled.
SameBatches(s, t) ==
    t.lastPrepare = s.lastPrepare /\ t.pending = s.pending /\ t.work = s.work

\* t is s but for its timers, its client table and other fields of no consequence
\* for any log; it may have failed.
Like(s, t) == t \in ReplicaStates /\ SameProgress(s, t) /\ SameBatches(s, t)

\* Batch b is the end of the log of t, all of it ordered in the view of t.
CutFrom(t, b) ==
    /\ b.view = t.view
    /\ b.batchstart \in Nat \ {0}
    /\ b.opnum = t.lastOp
    /\ b.opnum = b.batchstart + Len(b.requests) - 1
    /\ b.opnum <= Len(t.log)
    /\ \A k \in 1 .. Len(b.requests) :
           t.log[b.batchstart + k - 1] = [view |-> b.view, req |-> b.requests[k]]

\* Two states that are both like a third.
LEMMA LikeTransitive ==
    ASSUME NEW s, NEW t, NEW u, Like(s, t), Like(t, u)
    PROVE  Like(s, u)
BY DEF Like, SameProgress, SameBatches

\* A replica that fails keeps its fields.
LEMMA LikeAbort ==
    ASSUME NEW s \in ReplicaStates
    PROVE  Like(s, Abort(s)) /\ Abort(s).aborted
<1>1. Abort(s) \in ReplicaStates
  BY AbortType
<1>. QED BY <1>1 DEF Abort, Like, SameProgress, SameBatches, ReplicaStates

\* Changes to the fields that no log depends on.
LEMMA LikeChanges ==
    ASSUME NEW s \in ReplicaStates
    PROVE  /\ Like(s, s)
           /\ \A x \in Views \X Nat : Like(s, [s EXCEPT !.lastTransfer = x])
           /\ \A ts \in SUBSET Timers : Like(s, [s EXCEPT !.timers = ts])
           /\ \A qs \in Seq(Requests) : Like(s, [s EXCEPT !.queue = qs])
           /\ \A cs \in SUBSET Clients : Like(s, [s EXCEPT !.addresses = cs])
           /\ \A table \in Tables : Like(s, [s EXCEPT !.clientTable = table])
<1>1. Like(s, s)
  BY DEF Like, SameProgress, SameBatches
<1>2. ASSUME NEW x \in Views \X Nat
      PROVE  Like(s, [s EXCEPT !.lastTransfer = x])
  BY DEF Like, SameProgress, SameBatches, ReplicaStates
<1>3. ASSUME NEW ts \in SUBSET Timers
      PROVE  Like(s, [s EXCEPT !.timers = ts])
  BY DEF Like, SameProgress, SameBatches, ReplicaStates
<1>4. ASSUME NEW qs \in Seq(Requests)
      PROVE  Like(s, [s EXCEPT !.queue = qs])
  BY DEF Like, SameProgress, SameBatches, ReplicaStates
<1>5. ASSUME NEW cs \in SUBSET Clients
      PROVE  Like(s, [s EXCEPT !.addresses = cs])
  BY DEF Like, SameProgress, SameBatches, ReplicaStates
<1>6. ASSUME NEW table \in Tables
      PROVE  Like(s, [s EXCEPT !.clientTable = table])
  BY DEF Like, SameProgress, SameBatches, ReplicaStates, Tables
<1>. QED BY <1>1, <1>2, <1>3, <1>4, <1>5, <1>6

\* Timers and state transfer requests.
LEMMA LikeSmall ==
    ASSUME NEW s \in ReplicaStates
    PROVE  /\ Like(s, Heard(s)) /\ Like(s, KeepInBatch(s)) /\ Like(s, RequestStateTransfer(s))
           /\ Heard(s).aborted = s.aborted
<1>1. s.timers \in SUBSET Timers /\ s.view \in Views /\ s.lastCommitted \in Nat
  BY DEF ReplicaStates
<1>2. PICK ts : ts = s.timers \cup {"viewChange"}
  OBVIOUS
<1>3. ts \in SUBSET Timers /\ Heard(s) = [s EXCEPT !.timers = ts]
  BY <1>1, <1>2 DEF Heard, Timers
<1>4. PICK us : us = s.timers \cup {"closeBatch"}
  OBVIOUS
<1>5. us \in SUBSET Timers /\ KeepInBatch(s) = [s EXCEPT !.timers = us]
  BY <1>1, <1>4 DEF KeepInBatch, Timers
<1>6. PICK x : x = <<s.view, s.lastCommitted>>
  OBVIOUS
<1>7. x \in Views \X Nat /\ RequestStateTransfer(s) = [s EXCEPT !.lastTransfer = x]
  BY <1>1, <1>6 DEF RequestStateTransfer
<1>8. Heard(s).aborted = s.aborted
  BY DEF Heard, ReplicaStates
<1>9. Like(s, Heard(s))
  <2>1. Like(s, [s EXCEPT !.timers = ts])
    BY <1>3, LikeChanges
  <2>. QED BY <1>3, <2>1
<1>10. Like(s, KeepInBatch(s))
  <2>1. Like(s, [s EXCEPT !.timers = us])
    BY <1>5, LikeChanges
  <2>. QED BY <1>5, <2>1
<1>11. Like(s, RequestStateTransfer(s))
  <2>1. Like(s, [s EXCEPT !.lastTransfer = x])
    BY <1>7, LikeChanges
  <2>. QED BY <1>7, <2>1
<1>. QED BY <1>8, <1>9, <1>10, <1>11

\* CloseBatch cuts the batch that it sends, and keeps it, from the end of the log.
LEMMA CloseBatchCuts ==
    ASSUME NEW s \in ReplicaStates, NEW r \in Replicas
    PROVE  LET t == CloseBatch(s, r)
           IN  /\ t \in ReplicaStates /\ SameProgress(s, t)
               /\ t.pending = s.pending /\ t.work = s.work
               /\ t.lastPrepare = s.lastPrepare \/ CutFrom(t, t.lastPrepare)
               /\ \A m \in ClosedBatch(s, r) :
                      m \in Messages /\ m.type = "Prepare" /\ m.batch = t.lastPrepare
<1>. DEFINE t == CloseBatch(s, r)
            b == OpenBatch(s)
<1>1. /\ t \in ReplicaStates /\ SameButClosed(s, t)
      /\ CanCloseBatch(s, r) => t.lastPrepare = b
      /\ ~CanCloseBatch(s, r) => t.lastPrepare = s.lastPrepare
  BY CloseBatchType
<1>2. t.prepareOKs = s.prepareOKs
  BY DEF CloseBatch, Abort, ReplicaStates
<1>3. SameProgress(s, t) /\ t.pending = s.pending /\ t.work = s.work
  BY <1>1, <1>2 DEF SameProgress, SameButClosed
<1>4. CASE ~CanCloseBatch(s, r)
  <2>1. ClosedBatch(s, r) = {}
    BY <1>4 DEF ClosedBatch
  <2>. QED BY <1>1, <1>3, <1>4, <2>1
<1>5. CASE CanCloseBatch(s, r)
  <2>. HIDE DEF t, b
  <2>1. /\ b \in Batches /\ b.view = s.view /\ b.batchstart \in Nat \ {0}
        /\ b.opnum = s.lastOp /\ b.opnum = b.batchstart + Len(b.requests) - 1
        /\ \A k \in 1 .. Len(b.requests) : b.requests[k] = s.log[b.batchstart + k - 1].req
    BY <1>5, OpenBatchType DEF b
  <2>2. /\ s.lastOp <= Len(s.log) /\ s.log \in Seq(Entries) /\ Len(s.log) \in Nat
        /\ s.lastOp \in Nat /\ s.lastBatchEnd \in Nat /\ b.batchstart = s.lastBatchEnd + 1
        /\ \A k \in s.lastBatchEnd + 1 .. s.lastOp : s.log[k].view = s.view
    BY <1>5, StateFields DEF CanCloseBatch, OpenBatch, b
  <2>3. ASSUME NEW k \in 1 .. Len(b.requests)
        PROVE  s.log[b.batchstart + k - 1] = [view |-> b.view, req |-> b.requests[k]]
    <3>1. b.requests \in Seq(Requests)
      BY <2>1 DEF Batches
    <3>2. PICK j \in Nat : j = b.batchstart + k - 1
      BY <2>1
    <3>3. j \in s.lastBatchEnd + 1 .. s.lastOp /\ j \in 1 .. Len(s.log)
      <4>1. PICK n \in Nat : n = Len(b.requests)
        BY <3>1
      <4>2. k \in 1 .. n /\ s.lastOp = b.batchstart + n - 1
        BY <2>1, <4>1
      <4>. QED BY <2>2, <3>2, <4>2, SMTT(20)
    <3>4. s.log[j] \in Entries /\ s.log[j].view = s.view
      BY <2>2, <3>3, ElementOfSeq
    <3>5. s.log[j] = [view |-> s.log[j].view, req |-> s.log[j].req]
      BY <3>4 DEF Entries
    <3>. QED BY <2>1, <3>2, <3>4, <3>5
  <2>4. CutFrom(t, b)
    <3>1. t.view = s.view /\ t.lastOp = s.lastOp /\ t.log = s.log
      BY <1>3 DEF SameProgress
    <3>. QED BY <2>1, <2>2, <2>3, <3>1 DEF CutFrom
  <2>5. ASSUME NEW m \in ClosedBatch(s, r)
        PROVE  m \in Messages /\ m.type = "Prepare" /\ m.batch = b
    BY <1>5, <2>1 DEF ClosedBatch, PrepareMessages, Messages, b
  <2>. QED BY <1>1, <1>3, <1>5, <2>4, <2>5 DEF t
<1>. QED BY <1>4, <1>5

\* AppendRequest adds one entry of the replica's view, or fails.
LEMMA AppendRequestAdds ==
    ASSUME NEW s \in ReplicaStates, NEW q \in Requests
    PROVE  LET t == AppendRequest(s, q)
           IN  /\ t \in ReplicaStates /\ SameBatches(s, t)
               /\ t.view = s.view /\ t.status = s.status
               /\ t.lastCommitted = s.lastCommitted /\ t.prepareOKs = s.prepareOKs
               /\ \/ /\ s.lastOp = Len(s.log) /\ t.lastOp = s.lastOp + 1
                     /\ t.log = Append(s.log, [view |-> s.view, req |-> q])
                  \/ t.log = s.log /\ t.lastOp = s.lastOp
<1>1. AppendRequest(s, q).prepareOKs = s.prepareOKs
  BY DEF AppendRequest, Abort, ReplicaStates
<1>. QED BY <1>1, AppendRequestType DEF SameButAppended, SameBatches

\* CommitUpTo executes up to an opnum or to the end of the log.
LEMMA CommitUpToAny ==
    ASSUME NEW s \in ReplicaStates, NEW upto \in Nat
    PROVE  LET t == CommitUpTo(s, upto)
           IN  /\ t \in ReplicaStates /\ SameBatches(s, t)
               /\ t.view = s.view /\ t.status = s.status /\ t.log = s.log
               /\ t.lastOp = s.lastOp /\ t.prepareOKs = s.prepareOKs
               /\ \/ upto <= s.lastCommitted /\ t = s
                  \/ /\ s.lastCommitted < upto
                     /\ t.lastCommitted = Min({upto, Len(s.log)})
                     /\ t.aborted = (upto > Len(s.log))
<1>1. s.lastCommitted \in Nat /\ Len(s.log) \in Nat /\ s.log \in Seq(Entries)
  BY DEF ReplicaStates
<1>2. CASE upto <= s.lastCommitted
  BY <1>2 DEF CommitUpTo, SameBatches
<1>3. CASE ~ (upto <= s.lastCommitted)
  <2>. DEFINE n == CommitPoint(s, upto)
              table == StoreReplies(s, CommittedOps(s, upto))
              fail == upto > Len(s.log)
  <2>1. n \in Nat /\ n <= Len(s.log)
    BY <1>1, MinOfTwo DEF CommitPoint
  <2>2. table \in Tables
    <3>1. CommittedOps(s, upto) \subseteq 1 .. n
      BY <1>1, <2>1 DEF CommittedOps
    <3>. HIDE DEF n
    <3>. QED BY <2>1, <3>1, StoreRepliesType
  <2>3. CommitUpTo(s, upto) = [s EXCEPT !.lastCommitted = n, !.clientTable = table,
                                        !.aborted = fail]
    BY <1>3 DEF CommitUpTo
  <2>4. fail \in BOOLEAN
    OBVIOUS
  <2>5. n = Min({upto, Len(s.log)}) /\ s.lastCommitted < upto
    BY <1>1, <1>3 DEF CommitPoint
  <2>. HIDE DEF n, table, fail
  <2>6. CommitUpTo(s, upto) \in ReplicaStates
    BY <2>1, <2>2, <2>3, <2>4, ZenonT(60) DEF ReplicaStates, Tables
  <2>7. /\ CommitUpTo(s, upto).lastCommitted = n /\ CommitUpTo(s, upto).aborted = fail
        /\ SameBatches(s, CommitUpTo(s, upto))
        /\ CommitUpTo(s, upto).prepareOKs = s.prepareOKs
        /\ CommitUpTo(s, upto).view = s.view /\ CommitUpTo(s, upto).status = s.status
        /\ CommitUpTo(s, upto).log = s.log /\ CommitUpTo(s, upto).lastOp = s.lastOp
    BY <2>3 DEF ReplicaStates, SameBatches
  <2>. QED BY <2>5, <2>6, <2>7 DEF fail
<1>. QED BY <1>2, <1>3

\* SendPrepareOKs only tells the client table, or fails.
LEMMA LikeSendPrepareOKs ==
    ASSUME NEW s \in ReplicaStates, NEW old \in Nat
    PROVE  Like(s, SendPrepareOKs(s, old))
<1>1. SendPrepareOKs(s, old).prepareOKs = s.prepareOKs
  BY DEF SendPrepareOKs, Abort, ReplicaStates
<1>. QED BY <1>1, SendPrepareOKsType DEF SameButCommitted, Like, SameProgress, SameBatches

\* It acknowledges operations up to lastOp, all of them in the log.
LEMMA PrepareOKsForFacts ==
    ASSUME NEW s \in ReplicaStates, NEW r \in Replicas, NEW old \in Nat,
           NEW m \in PrepareOKsFor(s, r, old)
    PROVE  /\ m \in Messages /\ m.type = "PrepareOK" /\ m.from = r /\ m.view = s.view
           /\ m.to = GetLeaderIndex(s.view) /\ m.opnum \in Nat /\ s.lastCommitted < m.opnum
           /\ m.opnum <= s.lastOp /\ m.opnum <= Len(s.log)
<1>1. PICK k \in NewUncommitted(s, old) : 
          /\ CanPrepare(s, Max({old, s.lastCommitted + 1}), k)
          /\ m = PrepareOK(s, r, k)
  BY DEF PrepareOKsFor
<1>2. s.lastCommitted \in Nat /\ s.lastOp \in Nat
  BY StateFields
<1>3. Max({old, s.lastCommitted + 1}) = IF old >= s.lastCommitted + 1 THEN old
                                        ELSE s.lastCommitted + 1
  BY <1>2, MaxOfTwo
<1>4. k \in Nat /\ s.lastCommitted < k /\ k <= s.lastOp
  BY <1>1, <1>2, <1>3 DEF NewUncommitted
<1>5. k <= Len(s.log)
  BY <1>1 DEF CanPrepare
<1>6. m \in Messages
  BY PrepareOKsForType
<1>. QED BY <1>1, <1>4, <1>5, <1>6 DEF PrepareOK

\* EnterView only changes the view, the status and the recorded acknowledgements.
LEMMA EnterViewFacts ==
    ASSUME NEW s \in ReplicaStates, NEW r \in Replicas, NEW v \in Views
    PROVE  LET t == EnterView(s, r, v)
           IN  /\ t \in ReplicaStates /\ SameBatches(s, t)
               /\ t.view = v /\ t.status = "NORMAL" /\ t.prepareOKs = {}
               /\ t.log = s.log /\ t.lastOp = s.lastOp /\ t.lastCommitted = s.lastCommitted
               /\ t.clientTable = s.clientTable /\ t.addresses = s.addresses
               /\ t.aborted = s.aborted
<1>. DEFINE normal == "NORMAL"
            full == TRUE
            none == {}
            noqs == <<>>
            ts == (s.timers \cup {"nullCommit", "bgRepl"}) \ {"viewChange", "recovery"}
            us == (s.timers \cup {"viewChange"})
                      \ {"nullCommit", "resendPrepare", "closeBatch", "recovery"}
            t == [s EXCEPT !.view = v, !.status = normal, !.lastBatchEnd = s.lastOp,
                           !.batchComplete = full, !.prepareOKs = none]
<1>1. /\ normal \in Statuses /\ full \in BOOLEAN /\ none \in SUBSET (Nat \X Replicas)
      /\ s.lastOp \in Nat /\ noqs \in Seq(Requests) /\ s.timers \in SUBSET Timers
      /\ ts \in SUBSET Timers /\ us \in SUBSET Timers
  BY DEF Statuses, ReplicaStates, Timers
<1>2. EnterView(s, r, v) = IF GetLeaderIndex(v) = r
                           THEN [t EXCEPT !.timers = (@ \cup {"nullCommit", "bgRepl"})
                                                         \ {"viewChange", "recovery"}]
                           ELSE [t EXCEPT !.timers = (@ \cup {"viewChange"})
                                     \ {"nullCommit", "resendPrepare", "closeBatch", "recovery"},
                                          !.queue = noqs]
  BY DEF EnterView
<1>. HIDE DEF normal, full, none, noqs
<1>3. /\ t \in ReplicaStates /\ t.timers = s.timers /\ SameBatches(s, t)
      /\ t.view = v /\ t.status = normal /\ t.prepareOKs = none
      /\ t.log = s.log /\ t.lastOp = s.lastOp /\ t.lastCommitted = s.lastCommitted
      /\ t.clientTable = s.clientTable /\ t.addresses = s.addresses
      /\ t.aborted = s.aborted
  BY <1>1 DEF ReplicaStates, SameBatches
<1>. HIDE DEF t
<1>4. EnterView(s, r, v) = IF GetLeaderIndex(v) = r THEN [t EXCEPT !.timers = ts]
                           ELSE [t EXCEPT !.timers = us, !.queue = noqs]
  BY <1>2, <1>3 DEF ReplicaStates
<1>. HIDE DEF ts, us
<1>5. \A x \in {[t EXCEPT !.timers = ts], [t EXCEPT !.timers = us, !.queue = noqs]} :
          /\ x \in ReplicaStates /\ SameBatches(t, x)
          /\ x.view = t.view /\ x.status = t.status /\ x.prepareOKs = t.prepareOKs
          /\ x.log = t.log /\ x.lastOp = t.lastOp /\ x.lastCommitted = t.lastCommitted
          /\ x.clientTable = t.clientTable /\ x.addresses = t.addresses
          /\ x.aborted = t.aborted
  <2>1. PICK x : x = [t EXCEPT !.timers = ts]
    OBVIOUS
  <2>2. PICK y : y = [t EXCEPT !.timers = us, !.queue = noqs]
    OBVIOUS
  <2>3. x \in ReplicaStates /\ y \in ReplicaStates
    BY <1>1, <1>3, <2>1, <2>2 DEF ReplicaStates
  <2>4. \A z \in {x, y} :
            /\ SameBatches(t, z)
            /\ z.view = t.view /\ z.status = t.status /\ z.prepareOKs = t.prepareOKs
            /\ z.log = t.log /\ z.lastOp = t.lastOp /\ z.lastCommitted = t.lastCommitted
            /\ z.clientTable = t.clientTable /\ z.addresses = t.addresses
            /\ z.aborted = t.aborted
    BY <1>3, <2>1, <2>2, ZenonT(60) DEF ReplicaStates, SameBatches
  <2>. QED BY <2>1, <2>2, <2>3, <2>4
<1>6. EnterView(s, r, v) \in {[t EXCEPT !.timers = ts], [t EXCEPT !.timers = us, !.queue = noqs]}
  BY <1>4
<1>7. PICK e : e = EnterView(s, r, v)
  OBVIOUS
<1>8. /\ e \in ReplicaStates /\ SameBatches(t, e)
      /\ e.view = t.view /\ e.status = t.status /\ e.prepareOKs = t.prepareOKs
      /\ e.log = t.log /\ e.lastOp = t.lastOp /\ e.lastCommitted = t.lastCommitted
      /\ e.clientTable = t.clientTable /\ e.addresses = t.addresses
      /\ e.aborted = t.aborted
  BY <1>5, <1>6, <1>7
<1>9. SameBatches(s, e)
  BY <1>3, <1>8 DEF SameBatches
<1>. QED BY <1>3, <1>7, <1>8, <1>9 DEF normal, none

-------------------------------------------------------------------------------
(* What a handler of the normal case may do                                *)

AllMessages == Messages \cup ViewChangeMessages \cup RecoveryMessages

\* The entries that a message of a view change carries start at an operation, and a
\* DOVIEWCHANGE goes to the leader of its view.
Located(m) ==
    /\ m.type \in {"DoViewChange", "StartView"} => m.first > 0
    /\ m.type = "DoViewChange" => m.to = GetLeaderIndex(m.view)

\* The types of the variables of VRViewChange, whoever sends what.
Typed ==
    /\ rep \in [Replicas -> ReplicaStates]
    /\ msgs \subseteq AllMessages
    /\ replies \subseteq ReplyMessages
    /\ issued \in [Clients -> Nat]
    /\ \A m \in msgs : Located(m)
    /\ ballots \in [Replicas -> SUBSET ViewChangeMessages]
    /\ \A r \in Replicas : \A m \in ballots[r] : Located(m)
    /\ dur \in [Replicas -> Seq(Requests)]
    /\ told \in [Replicas -> [view : Views, status : Statuses]]
    /\ acks \subseteq [req : Requests, from : Replicas, view : Views]

HasBatch(s, b) ==
    \/ b = s.lastPrepare
    \/ \E k \in 1 .. Len(s.pending) : b = s.pending[k]
    \/ \E k \in 1 .. Len(s.work) : b = s.work[k]

\* Replica r has batch b, or a PREPARE brings it.
KnownBatch(r, b) ==
    HasBatch(rep[r], b) \/ \E m \in msgs : m.type = "Prepare" /\ m.batch = b

\* The batches of t are known to r, or the one it has just cut from its log.
BatchesKept(r, t) == \A b \in Batches : HasBatch(t, b) => KnownBatch(r, b) \/ CutFrom(t, b)

\* What replica r tells the others when it becomes t.
Honest(r, t, m) ==
    /\ m \in Messages
    /\ m.type = "Prepare" => m.batch = t.lastPrepare
    /\ m.type = "PrepareOK" =>
           /\ m.from = r /\ m.view = t.view /\ m.to = GetLeaderIndex(t.view)
           /\ m.opnum <= t.lastOp
           /\ \/ ~AmLeader(rep[r], r) /\ t.status = "NORMAL" /\ t.view = rep[r].view
              \/ \E x \in msgs : x.type = "StateTransfer" /\ x.to = r
    /\ m.type = "Commit" => AmLeader(t, r) /\ m.view = t.view /\ m.opnum = t.lastCommitted
    /\ m.type = "RequestStateTransfer" =>
           /\ m.from = r /\ m.view = t.view /\ m.opnum = t.lastCommitted
           /\ t.status = "NORMAL"
           /\ \/ ~AmLeader(t, r)
              \/ \E b \in Batches : KnownBatch(r, b) /\ b.view > t.view
              \/ \E x \in msgs : x \in Messages /\ x.type # "Prepare" /\ x.view > t.view
    /\ m.type = "StateTransfer" =>
           /\ t = rep[r] /\ t.status = "NORMAL"
           /\ Cardinality({x \in msgs : x.type = "StateTransfer"}) < TransferBound
           /\ \E x \in msgs : /\ x \in Messages /\ x.type = "RequestStateTransfer"
                              /\ m = LogDump(t, x)

\* Nothing happens to the log.
Stays(r, t) == SameProgress(rep[r], t)

\* A leader orders one request.
Orders(r, t) ==
    LET s == rep[r] IN
    /\ s.status = "NORMAL" /\ AmLeader(s, r) /\ s.lastOp = Len(s.log)
    /\ \E q \in Requests : t.log = Append(s.log, [view |-> s.view, req |-> q])
    /\ t.lastOp = s.lastOp + 1
    /\ t.view = s.view /\ t.status = s.status
    /\ t.lastCommitted = s.lastCommitted /\ t.prepareOKs = s.prepareOKs

\* A leader records a PREPAREOK, and executes what enough others have.
Counts(r, t) ==
    LET s == rep[r] IN
    /\ s.status = "NORMAL" /\ AmLeader(s, r)
    /\ t.view = s.view /\ t.status = s.status /\ t.log = s.log /\ t.lastOp = s.lastOp
    /\ \E m \in msgs :
           /\ m \in Messages /\ m.type = "PrepareOK" /\ m.to = r /\ m.view = s.view
           /\ t.prepareOKs = s.prepareOKs \cup {<<m.opnum, m.from>>}
           /\ \/ t.lastCommitted = s.lastCommitted
              \/ /\ s.lastCommitted < m.opnum
                 /\ Cardinality({p \in Replicas : <<m.opnum, p>> \in t.prepareOKs})
                        >= QuorumSize - 1
                 /\ t.lastCommitted = Min({m.opnum, Len(s.log)})

\* A follower executes what a COMMIT names.
Follows(r, t) ==
    LET s == rep[r] IN
    /\ s.status = "NORMAL" /\ ~AmLeader(s, r)
    /\ t.view = s.view /\ t.status = s.status /\ t.log = s.log /\ t.lastOp = s.lastOp
    /\ t.prepareOKs = s.prepareOKs
    /\ \E m \in msgs :
           /\ m \in Messages /\ m.type = "Commit" /\ m.to = r /\ m.view = s.view
           /\ s.lastCommitted < m.opnum /\ m.opnum <= s.lastOp
           /\ t.lastCommitted = Min({m.opnum, Len(s.log)})

\* A follower adds the requests of a batch that it does not have.
Appends(r, t) ==
    LET s == rep[r] IN
    /\ s.status = "NORMAL" /\ ~AmLeader(s, r) /\ s.lastOp = Len(s.log)
    /\ t.view = s.view /\ t.status = s.status
    /\ t.lastCommitted = s.lastCommitted /\ t.prepareOKs = s.prepareOKs
    /\ \E b \in Batches :
           /\ KnownBatch(r, b) /\ b.view = s.view
           /\ 1 <= Len(b.requests)
           /\ b.opnum = b.batchstart + Len(b.requests) - 1
           /\ b.batchstart <= s.lastOp + 1 /\ s.lastOp < b.opnum
           /\ t.lastOp = b.opnum /\ Len(t.log) = b.opnum
           /\ \A k \in 1 .. Len(s.log) : t.log[k] = s.log[k]
           /\ \A k \in Len(s.log) + 1 .. Len(t.log) :
                  t.log[k] = [view |-> b.view, req |-> b.requests[k - b.batchstart + 1]]

\* Log l is what is left of log s.log when the entries of m take over at operation k.
Takes(s, m, l, k) ==
    /\ k \in 1 .. Len(s.log) + 1
    /\ m.first <= k /\ k <= LastEntry(m)
    /\ s.lastCommitted < k
    /\ k <= Len(s.log) => s.log[k].view < m.entries[k - m.first + 1].view
    /\ Len(l) = LastEntry(m)
    /\ \A j \in 1 .. k - 1 : l[j] = s.log[j]
    /\ \A j \in k .. LastEntry(m) : l[j] = m.entries[j - m.first + 1]

\* A log dump is installed; a newer view is entered; what the sender has executed is
\* executed.
Transfers(r, t) ==
    LET s == rep[r] IN
    \E m \in msgs :
        /\ m \in Messages /\ m.type = "StateTransfer" /\ m.to = r /\ m.view >= s.view
        /\ \/ t.log = s.log /\ t.lastOp = s.lastOp
           \/ /\ \E k \in Nat : Takes(s, m, t.log, k)
              /\ t.lastOp = LastEntry(m)
        /\ \/ /\ t.aborted
              /\ t.view = s.view /\ t.status = s.status
              /\ t.lastCommitted = s.lastCommitted /\ t.prepareOKs = s.prepareOKs
           \/ /\ t.view = m.view /\ m.opnum <= t.lastOp
              /\ IF m.view > s.view THEN t.status = "NORMAL" /\ t.prepareOKs = {}
                 ELSE t.status = s.status /\ t.prepareOKs = s.prepareOKs
              /\ t.lastCommitted = IF m.opnum <= s.lastCommitted THEN s.lastCommitted
                                   ELSE Min({m.opnum, Len(t.log)})

\* A handler of the normal case: replica r becomes t and sends messages.
Handles(r, t, sent) ==
    /\ t \in ReplicaStates
    /\ rep' = [rep EXCEPT ![r] = t]
    /\ msgs' \subseteq msgs \cup sent
    /\ replies' \subseteq ReplyMessages
    /\ ~rep[r].aborted
    /\ BatchesKept(r, t)
    /\ \A m \in sent : Honest(r, t, m)
    /\ \/ Stays(r, t) \/ Orders(r, t) \/ Counts(r, t) \/ Follows(r, t) \/ Appends(r, t)
       \/ Transfers(r, t)

DoesHandle(r) == \E t, sent : Handles(r, t, sent)

\* A message of the normal case is one of Messages.
LEMMA NormalMessages ==
    ASSUME Typed, NEW r, NEW type, NEW m \in Received(r, type),
           type \in {"Prepare", "PrepareOK", "Commit", "RequestStateTransfer", "StateTransfer"}
    PROVE  m \in Messages /\ m \in msgs /\ m.type = type /\ m.to = r
<1>1. m \in AllMessages /\ m \in msgs /\ m.type = type /\ m.to = r
  BY DEF Typed, Received
<1>2. m \notin ViewChangeMessages /\ m \notin RecoveryMessages
  BY <1>1 DEF ViewChangeMessages, RecoveryMessages
<1>. QED BY <1>1, <1>2 DEF AllMessages

\* The batch of a PREPARE.
LEMMA PrepareBatch ==
    ASSUME NEW m \in Messages, m.type = "Prepare"
    PROVE  m.batch \in Batches /\ m.to \in Replicas
BY DEF Messages

\* Nothing but the variables of VRReplica, and those as its handlers change them.
LEMMA HandlesIntro ==
    ASSUME Typed, NEW r \in Replicas, ~rep[r].aborted, NEW t \in ReplicaStates,
           NEW sent, NEW gone,
           Become(r, t), Network(gone, sent), replies' \subseteq ReplyMessages,
           BatchesKept(r, t), \A m \in sent : Honest(r, t, m),
           \/ Stays(r, t) \/ Orders(r, t) \/ Counts(r, t) \/ Follows(r, t) \/ Appends(r, t)
           \/ Transfers(r, t)
    PROVE  DoesHandle(r)
<1>1. rep' = [rep EXCEPT ![r] = t] /\ msgs' \subseteq msgs \cup sent
  BY DEF Become, Network
<1>2. Handles(r, t, sent)
  BY <1>1 DEF Handles
<1>. QED BY <1>2 DEF DoesHandle

\* Like states have the batches and the progress of the replica.
LEMMA LikeKeeps ==
    ASSUME NEW r, NEW t, Like(rep[r], t)
    PROVE  BatchesKept(r, t) /\ Stays(r, t) /\ t \in ReplicaStates
BY DEF Like, SameBatches, BatchesKept, KnownBatch, HasBatch, Stays

\* A handler that changes no log and sends nothing.
LEMMA HandlesQuietly ==
    ASSUME Typed, NEW r \in Replicas, ~rep[r].aborted, NEW t, Like(rep[r], t), Become(r, t),
           msgs' \subseteq msgs, replies' \subseteq ReplyMessages
    PROVE  DoesHandle(r)
<1>1. BatchesKept(r, t) /\ Stays(r, t) /\ t \in ReplicaStates
  BY LikeKeeps
<1>2. Handles(r, t, {})
  BY <1>1 DEF Handles, Become
<1>. QED BY <1>2 DEF DoesHandle

\* A replica has fields of the declared types.
LEMMA TypedReplica ==
    ASSUME Typed, NEW r \in Replicas
    PROVE  rep[r] \in ReplicaStates
BY DEF Typed

\* Ordering a request, with or without the batch that takes it along.
LEMMA HandlesOrder ==
    ASSUME Typed, NEW r \in Replicas, ~rep[r].aborted, NEW s, Like(rep[r], s),
           rep[r].status = "NORMAL", AmLeader(rep[r], r), NEW q \in Requests,
           replies' \subseteq ReplyMessages,
           LET t == AppendRequest(s, q)
           IN  \/ Become(r, CloseBatch(t, r)) /\ Network({}, ClosedBatch(t, r))
               \/ Become(r, KeepInBatch(t)) /\ UNCHANGED msgs
    PROVE  DoesHandle(r)
<1>. DEFINE t == AppendRequest(s, q)
<1>1. s \in ReplicaStates /\ SameProgress(rep[r], s) /\ SameBatches(rep[r], s)
  BY DEF Like
<1>2. /\ t \in ReplicaStates /\ SameBatches(s, t)
      /\ t.view = s.view /\ t.status = s.status
      /\ t.lastCommitted = s.lastCommitted /\ t.prepareOKs = s.prepareOKs
      /\ \/ /\ s.lastOp = Len(s.log) /\ t.lastOp = s.lastOp + 1
            /\ t.log = Append(s.log, [view |-> s.view, req |-> q])
         \/ t.log = s.log /\ t.lastOp = s.lastOp
  BY <1>1, AppendRequestAdds
<1>3. \/ Become(r, CloseBatch(t, r)) /\ Network({}, ClosedBatch(t, r))
      \/ Become(r, KeepInBatch(t)) /\ UNCHANGED msgs
  OBVIOUS
<1>. HIDE DEF t
<1>4. \A u : SameProgress(t, u) => Stays(r, u) \/ Orders(r, u)
  BY <1>1, <1>2 DEF SameProgress, Stays, Orders
<1>5. CASE Become(r, CloseBatch(t, r)) /\ Network({}, ClosedBatch(t, r))
  <2>. DEFINE u == CloseBatch(t, r)
  <2>1. /\ u \in ReplicaStates /\ SameProgress(t, u)
        /\ u.pending = t.pending /\ u.work = t.work
        /\ u.lastPrepare = t.lastPrepare \/ CutFrom(u, u.lastPrepare)
        /\ \A m \in ClosedBatch(t, r) :
               m \in Messages /\ m.type = "Prepare" /\ m.batch = u.lastPrepare
    BY <1>2, CloseBatchCuts
  <2>. HIDE DEF u
  <2>2. BatchesKept(r, u)
    BY <1>1, <1>2, <2>1 DEF SameBatches, BatchesKept, KnownBatch, HasBatch
  <2>3. \A m \in ClosedBatch(t, r) : Honest(r, u, m)
    BY <2>1 DEF Honest
  <2>4. Become(r, u) /\ Network({}, ClosedBatch(t, r))
    BY <1>5 DEF u
  <2>. QED BY <1>4, <2>1, <2>2, <2>3, <2>4, HandlesIntro
<1>6. CASE Become(r, KeepInBatch(t)) /\ UNCHANGED msgs
  <2>. DEFINE u == KeepInBatch(t)
  <2>1. Like(t, u)
    BY <1>2, LikeSmall
  <2>. HIDE DEF u
  <2>2. u \in ReplicaStates /\ SameProgress(t, u) /\ SameBatches(t, u)
    BY <2>1 DEF Like
  <2>3. BatchesKept(r, u)
    BY <1>1, <1>2, <2>2 DEF SameBatches, BatchesKept, KnownBatch, HasBatch
  <2>4. Become(r, u) /\ msgs' \subseteq msgs
    BY <1>6 DEF u
  <2>5. Handles(r, u, {})
    BY <1>4, <2>2, <2>3, <2>4 DEF Handles, Become
  <2>. QED BY <2>5 DEF DoesHandle
<1>. QED BY <1>3, <1>5, <1>6

\* BgRepl drops a queued request or orders it.
LEMMA HandlesBgRepl ==
    ASSUME Typed, NEW r \in Replicas, BgRepl(r)
    PROVE  DoesHandle(r) /\ UNCHANGED issued
<1>. DEFINE q  == Head(rep[r].queue)
            qs == Tail(rep[r].queue)
            ts == rep[r].timers \cup {"bgRepl"}
            s  == [rep[r] EXCEPT !.queue = Tail(@), !.timers = @ \cup {"bgRepl"}]
            t  == AppendRequest(s, q)
<1>1. rep[r] \in ReplicaStates /\ rep[r].queue \in Seq(Requests) /\ rep[r].queue # <<>>
      /\ ~rep[r].aborted
  BY TypedReplica, StateFields DEF BgRepl, Idle, Running
<1>2. q \in Requests /\ qs \in Seq(Requests) /\ ts \in SUBSET Timers
  BY <1>1, StateFields DEF Timers
<1>3. Like(rep[r], s)
  <2>1. PICK u : u = [rep[r] EXCEPT !.queue = qs]
    OBVIOUS
  <2>2. Like(rep[r], u) /\ u.timers = rep[r].timers
    BY <1>1, <1>2, <2>1, LikeChanges DEF ReplicaStates
  <2>3. s = [u EXCEPT !.timers = ts]
    BY <2>1
  <2>4. Like(u, s)
    <3>1. u \in ReplicaStates
      BY <2>2 DEF Like
    <3>. HIDE DEF s, ts
    <3>. QED BY <1>2, <2>3, <3>1, LikeChanges
  <2>. HIDE DEF s
  <2>. QED BY <2>2, <2>4, LikeTransitive
<1>4. s.status = rep[r].status /\ s.view = rep[r].view
  BY <1>3 DEF Like, SameProgress
<1>5. /\ UNCHANGED <<replies, issued>>
      /\ \/ Become(r, s) /\ UNCHANGED msgs
         \/ /\ s.status = "NORMAL" /\ AmLeader(s, r)
            /\ \/ Become(r, CloseBatch(t, r)) /\ Network({}, ClosedBatch(t, r))
               \/ Become(r, KeepInBatch(t)) /\ UNCHANGED msgs
  BY DEF BgRepl
<1>6. replies' \subseteq ReplyMessages
  BY <1>5 DEF Typed
<1>. HIDE DEF s, q
<1>7. CASE Become(r, s) /\ UNCHANGED msgs
  BY <1>1, <1>3, <1>5, <1>6, <1>7, HandlesQuietly
<1>8. CASE /\ s.status = "NORMAL" /\ AmLeader(s, r)
           /\ \/ Become(r, CloseBatch(t, r)) /\ Network({}, ClosedBatch(t, r))
              \/ Become(r, KeepInBatch(t)) /\ UNCHANGED msgs
  <2>1. rep[r].status = "NORMAL" /\ AmLeader(rep[r], r)
    BY <1>4, <1>8 DEF AmLeader
  <2>. QED BY <1>1, <1>2, <1>3, <1>5, <1>6, <1>8, <2>1, HandlesOrder
<1>. QED BY <1>5, <1>7, <1>8

\* HandleRequest: a request is ordered, answered again or discarded.
LEMMA HandlesRequest ==
    ASSUME Typed, NEW r \in Replicas, NEW q \in Requests, HandleRequest(r, q)
    PROVE  DoesHandle(r) /\ issued' \in [Clients -> Nat]
<1>. DEFINE cs == rep[r].addresses \cup {q.client}
            ts == rep[r].timers \cup {"bgRepl"}
            s == [rep[r] EXCEPT !.addresses = rep[r].addresses \cup {q.client},
                                !.timers = rep[r].timers \cup {"bgRepl"}]
            t == AppendRequest(s, q)
            seen == s.clientTable[q.client]
            reply == [to |-> IF q.kind = "read" THEN "durabilityServer" ELSE "client",
                      from |-> r, req |-> q, view |-> seen.view, opnum |-> seen.opnum]
<1>1. rep[r] \in ReplicaStates /\ ~rep[r].aborted
  BY TypedReplica DEF HandleRequest, Idle, Running
<1>2. cs \in SUBSET Clients /\ ts \in SUBSET Timers
  BY <1>1, StateFields, RequestFields DEF Timers
<1>3. Like(rep[r], s)
  <2>1. PICK u : u = [rep[r] EXCEPT !.addresses = cs]
    OBVIOUS
  <2>2. s = [u EXCEPT !.timers = ts]
    BY <2>1
  <2>. HIDE DEF s, ts, cs
  <2>3. Like(rep[r], u)
    BY <1>1, <1>2, <2>1, LikeChanges
  <2>4. u \in ReplicaStates
    BY <2>3 DEF Like
  <2>5. Like(u, s)
    BY <1>2, <2>2, <2>4, LikeChanges
  <2>. QED BY <2>3, <2>5, LikeTransitive
<1>4. reply \in ReplyMessages
  <2>1. s.clientTable \in Tables
    BY <1>3, StateFields DEF Like
  <2>2. seen \in TableEntries
    BY <2>1, RequestFields DEF Tables
  <2>. QED BY <2>2 DEF ReplyMessages, TableEntries
<1>5. /\ rep[r].status = "NORMAL" /\ AmLeader(rep[r], r) /\ Arrives(q)
      /\ replies' \subseteq replies \cup {reply}
      /\ \/ Become(r, s) /\ UNCHANGED msgs
         \/ Become(r, CloseBatch(t, r)) /\ Network({}, ClosedBatch(t, r))
         \/ Become(r, KeepInBatch(t)) /\ UNCHANGED msgs
  BY DEF HandleRequest
<1>6. replies' \subseteq ReplyMessages
  BY <1>4, <1>5 DEF Typed
<1>. HIDE DEF s, reply
<1>7. DoesHandle(r)
  <2>1. CASE Become(r, s) /\ UNCHANGED msgs
    BY <1>1, <1>3, <1>6, <2>1, HandlesQuietly
  <2>2. CASE \/ Become(r, CloseBatch(t, r)) /\ Network({}, ClosedBatch(t, r))
             \/ Become(r, KeepInBatch(t)) /\ UNCHANGED msgs
    BY <1>1, <1>3, <1>5, <1>6, <2>2, HandlesOrder
  <2>. QED BY <1>5, <2>1, <2>2
<1>8. issued' \in [Clients -> Nat]
  <2>1. issued \in [Clients -> Nat] /\ q.client \in Clients /\ q.id \in Nat
    BY RequestFields DEF Typed
  <2>2. PICK n : n = Max({issued[q.client], q.id})
    OBVIOUS
  <2>3. n \in Nat
    BY <2>1, <2>2, MaxOfTwo
  <2>4. issued' = [issued EXCEPT ![q.client] = n]
    BY <1>5, <2>2 DEF Arrives
  <2>. QED BY <2>1, <2>3, <2>4
<1>. QED BY <1>7, <1>8

\* A handler that changes no log, but sends messages.
LEMMA HandlesLike ==
    ASSUME Typed, NEW r \in Replicas, ~rep[r].aborted, NEW t, Like(rep[r], t),
           NEW gone, NEW sent, Become(r, t), Network(gone, sent),
           replies' \subseteq ReplyMessages, \A m \in sent : Honest(r, t, m)
    PROVE  DoesHandle(r)
BY LikeKeeps, HandlesIntro

\* COMMITs, requests for state transfer and PREPAREs of a batch that r has.
LEMMA HonestSmall ==
    ASSUME NEW r \in Replicas, NEW s \in ReplicaStates, NEW t, Like(s, t)
    PROVE  /\ AmLeader(s, r) => \A m \in CommitMessages(s, r) : Honest(r, t, m)
           /\ /\ s.status = "NORMAL"
              /\ \/ ~AmLeader(s, r)
                 \/ \E b \in Batches : KnownBatch(r, b) /\ b.view > s.view
                 \/ \E x \in msgs : x \in Messages /\ x.type # "Prepare" /\ x.view > s.view
              => \A m \in StateTransferRequests(s, r) : Honest(r, t, m)
           /\ \A m \in PrepareMessages(r, s.lastPrepare) : Honest(r, t, m)
<1>1. /\ t.view = s.view /\ t.status = s.status /\ t.lastCommitted = s.lastCommitted
      /\ t.lastPrepare = s.lastPrepare
  BY DEF Like, SameProgress, SameBatches
<1>2. s.view \in Views /\ s.lastCommitted \in Nat /\ s.lastPrepare \in Batches
  BY DEF ReplicaStates
<1>3. ASSUME AmLeader(s, r), NEW m \in CommitMessages(s, r)
      PROVE  Honest(r, t, m)
  BY <1>1, <1>2, <1>3 DEF CommitMessages, Messages, Honest, AmLeader
<1>4. ASSUME NEW m \in StateTransferRequests(s, r), s.status = "NORMAL",
             \/ ~AmLeader(s, r)
             \/ \E b \in Batches : KnownBatch(r, b) /\ b.view > s.view
             \/ \E x \in msgs : x \in Messages /\ x.type # "Prepare" /\ x.view > s.view
      PROVE  Honest(r, t, m)
  BY <1>1, <1>2, <1>4 DEF StateTransferRequests, Messages, Honest, AmLeader
<1>5. ASSUME NEW m \in PrepareMessages(r, s.lastPrepare)
      PROVE  Honest(r, t, m)
  BY <1>1, <1>2, <1>5 DEF PrepareMessages, Messages, Honest
<1>. QED BY <1>3, <1>4, <1>5

\* CloseBatch of a state with the batches of the replica.
LEMMA CloseBatchHonest ==
    ASSUME NEW r \in Replicas, NEW s \in ReplicaStates, SameBatches(rep[r], s)
    PROVE  LET t == CloseBatch(s, r)
           IN  /\ t \in ReplicaStates /\ SameProgress(s, t) /\ BatchesKept(r, t)
               /\ \A m \in ClosedBatch(s, r) : Honest(r, t, m)
<1>. DEFINE t == CloseBatch(s, r)
<1>1. /\ t \in ReplicaStates /\ SameProgress(s, t)
      /\ t.pending = s.pending /\ t.work = s.work
      /\ t.lastPrepare = s.lastPrepare \/ CutFrom(t, t.lastPrepare)
      /\ \A m \in ClosedBatch(s, r) :
             m \in Messages /\ m.type = "Prepare" /\ m.batch = t.lastPrepare
  BY CloseBatchCuts
<1>. HIDE DEF t
<1>2. BatchesKept(r, t)
  BY <1>1 DEF SameBatches, BatchesKept, KnownBatch, HasBatch
<1>3. \A m \in ClosedBatch(s, r) : Honest(r, t, m)
  BY <1>1 DEF Honest
<1>. QED BY <1>1, <1>2, <1>3 DEF t

\* The timers of the normal case.
LEMMA HandlesTimer ==
    ASSUME Typed, NEW r \in Replicas, Timer(r)
    PROVE  DoesHandle(r) /\ UNCHANGED issued
<1>1. rep[r] \in ReplicaStates /\ ~rep[r].aborted /\ UNCHANGED <<replies, issued>>
  BY TypedReplica
     DEF Timer, CloseBatchTimeout, ResendPrepare, SendNullCommit, StateTransferTimeout, Idle,
         Running
<1>2. replies' \subseteq ReplyMessages
  BY <1>1 DEF Typed
<1>3. Like(rep[r], rep[r])
  BY <1>1, LikeChanges
<1>4. UNCHANGED rep => Become(r, rep[r])
  BY DEF Become, Typed
<1>5. Like(rep[r], Abort(rep[r]))
  BY <1>1, LikeAbort
<1>6. CASE CloseBatchTimeout(r)
  <2>. DEFINE t == CloseBatch(rep[r], r)
  <2>1. /\ t \in ReplicaStates /\ SameProgress(rep[r], t) /\ BatchesKept(r, t)
        /\ \A m \in ClosedBatch(rep[r], r) : Honest(r, t, m)
    BY <1>1, CloseBatchHonest DEF SameBatches
  <2>2. Become(r, t) /\ Network({}, ClosedBatch(rep[r], r))
    BY <1>6 DEF CloseBatchTimeout
  <2>3. Stays(r, t)
    BY <2>1 DEF Stays
  <2>. HIDE DEF t
  <2>. QED BY <1>1, <1>2, <2>1, <2>2, <2>3, HandlesIntro
<1>7. CASE ResendPrepare(r)
  <2>1. CASE AmLeader(rep[r], r)
    <3>1. UNCHANGED rep /\ Network({}, PrepareMessages(r, rep[r].lastPrepare))
      BY <1>7, <2>1 DEF ResendPrepare
    <3>. QED BY <1>1, <1>2, <1>3, <1>4, <3>1, HonestSmall, HandlesLike
  <2>2. CASE ~AmLeader(rep[r], r)
    <3>1. Become(r, Abort(rep[r])) /\ UNCHANGED msgs
      BY <1>7, <2>2 DEF ResendPrepare
    <3>. QED BY <1>1, <1>2, <1>5, <3>1, HandlesQuietly
  <2>. QED BY <2>1, <2>2
<1>8. CASE SendNullCommit(r)
  <2>1. CASE AmLeader(rep[r], r)
    <3>1. UNCHANGED rep /\ Network({}, CommitMessages(rep[r], r))
      BY <1>8, <2>1 DEF SendNullCommit
    <3>. QED BY <1>1, <1>2, <1>3, <1>4, <2>1, <3>1, HonestSmall, HandlesLike
  <2>2. CASE ~AmLeader(rep[r], r)
    <3>1. Become(r, Abort(rep[r])) /\ UNCHANGED msgs
      BY <1>8, <2>2 DEF SendNullCommit
    <3>. QED BY <1>1, <1>2, <1>5, <3>1, HandlesQuietly
  <2>. QED BY <2>1, <2>2
<1>9. CASE StateTransferTimeout(r)
  <2>1. PICK x : x = <<0, 0>>
    OBVIOUS
  <2>2. x \in Views \X Nat
    BY <2>1 DEF Views
  <2>3. Like(rep[r], [rep[r] EXCEPT !.lastTransfer = x])
    BY <1>1, <2>2, LikeChanges
  <2>4. Become(r, [rep[r] EXCEPT !.lastTransfer = x]) /\ UNCHANGED msgs
    BY <1>9, <2>1 DEF StateTransferTimeout
  <2>. QED BY <1>1, <1>2, <2>3, <2>4, HandlesQuietly
<1>. QED BY <1>1, <1>6, <1>7, <1>8, <1>9 DEF Timer

\* Requests for state transfer, whatever happens to the batches.
LEMMA HonestRequests ==
    ASSUME NEW r \in Replicas, NEW s \in ReplicaStates, NEW t, SameProgress(s, t),
           s.status = "NORMAL",
           \/ ~AmLeader(s, r)
           \/ \E b \in Batches : KnownBatch(r, b) /\ b.view > s.view
           \/ \E x \in msgs : x \in Messages /\ x.type # "Prepare" /\ x.view > s.view
    PROVE  \A m \in StateTransferRequests(s, r) : Honest(r, t, m)
<1>1. t.view = s.view /\ t.status = s.status /\ t.lastCommitted = s.lastCommitted
  BY DEF SameProgress
<1>2. s.view \in Views /\ s.lastCommitted \in Nat
  BY DEF ReplicaStates
<1>. QED BY <1>1, <1>2 DEF StateTransferRequests, Messages, Honest, AmLeader

\* Setting a batch aside adds no other.
LEMMA DeferFacts ==
    ASSUME NEW s \in ReplicaStates, NEW b \in Batches
    PROVE  LET t == Defer(s, b)
           IN  /\ t \in ReplicaStates /\ SameProgress(s, t)
               /\ \A c \in Batches : HasBatch(t, c) => HasBatch(s, c) \/ c = b
<1>. DEFINE u == RequestStateTransfer(s)
            list == SetAside(u.pending, b)
            t == [u EXCEPT !.pending = list]
<1>1. Like(s, u)
  BY LikeSmall
<1>2. u \in ReplicaStates /\ SameProgress(s, u) /\ SameBatches(s, u)
  BY <1>1 DEF Like
<1>. HIDE DEF u
<1>3. u.pending \in Seq(Batches)
  BY <1>2, StateFields
<1>4. /\ list \in Seq(Batches)
      /\ \A c : (\E k \in 1 .. Len(list) : c = list[k])
                    => (\E k \in 1 .. Len(u.pending) : c = u.pending[k]) \/ c = b
  <2>1. CASE list = u.pending
    BY <1>3, <2>1
  <2>2. CASE list = Append(u.pending, b)
    <3>1. /\ Append(u.pending, b) \in Seq(Batches)
          /\ Len(Append(u.pending, b)) = Len(u.pending) + 1
          /\ \A k \in 1 .. Len(u.pending) : Append(u.pending, b)[k] = u.pending[k]
          /\ Append(u.pending, b)[Len(u.pending) + 1] = b
      BY <1>3, AppendProperties
    <3>2. Len(u.pending) \in Nat
      BY <1>3
    <3>. QED BY <2>2, <3>1, <3>2
  <2>3. list = u.pending \/ list = Append(u.pending, b)
    BY DEF SetAside
  <2>. QED BY <2>1, <2>2, <2>3
<1>. HIDE DEF list
<1>5. PICK x : x = t
  OBVIOUS
<1>6. x \in ReplicaStates
  BY <1>2, <1>4, <1>5 DEF ReplicaStates
<1>7. /\ SameProgress(u, x) /\ x.pending = list /\ x.work = u.work
      /\ x.lastPrepare = u.lastPrepare
  BY <1>2, <1>5 DEF ReplicaStates, SameProgress
<1>8. SameProgress(s, x)
  BY <1>2, <1>7 DEF SameProgress
<1>9. \A c \in Batches : HasBatch(x, c) => HasBatch(s, c) \/ c = b
  BY <1>2, <1>4, <1>7 DEF HasBatch, SameBatches
<1>10. Defer(s, b) = x
  BY <1>5 DEF Defer, u, list
<1>. QED BY <1>6, <1>8, <1>9, <1>10

\* The part of a PREPARE that is new continues the log.
LEMMA AppendBatchAdds ==
    ASSUME NEW s \in ReplicaStates, NEW b \in Batches, OpnumsFit(b),
           b.batchstart <= s.lastOp + 1, s.lastOp < b.opnum, s.lastOp = Len(s.log)
    PROVE  LET t == AppendBatch(s, b)
           IN  /\ t \in ReplicaStates /\ SameBatches(s, t)
               /\ t.view = s.view /\ t.status = s.status
               /\ t.lastCommitted = s.lastCommitted /\ t.prepareOKs = s.prepareOKs
               /\ t.lastOp = b.opnum /\ Len(t.log) = b.opnum
               /\ \A k \in 1 .. Len(s.log) : t.log[k] = s.log[k]
               /\ \A k \in Len(s.log) + 1 .. Len(t.log) :
                      t.log[k] = [view |-> b.view, req |-> b.requests[k - b.batchstart + 1]]
<1>. DEFINE fresh == NewRequests(s, b)
            added == [k \in 1 .. Len(fresh) |-> [view |-> b.view, req |-> fresh[k]]]
            table == UpdateClientTable(s.clientTable, fresh)
            t     == AppendBatch(s, b)
<1>1. PICK n, f, o, qs : n = s.lastOp /\ f = b.batchstart /\ o = b.opnum /\ qs = b.requests
  OBVIOUS
<1>2. /\ n \in Nat /\ f \in Nat /\ o \in Nat /\ qs \in Seq(Requests) /\ Len(qs) \in Nat
      /\ o = f + Len(qs) - 1 /\ f <= n + 1 /\ n < o /\ n = Len(s.log)
      /\ s.log \in Seq(Entries) /\ s.clientTable \in Tables /\ b.view \in Views
  <2>1. /\ n \in Nat /\ f \in Nat /\ o \in Nat /\ qs \in Seq(Requests) /\ b.view \in Views
    BY <1>1, StateFields DEF Batches
  <2>2. Len(qs) = o + 1 - f
    BY <1>1 DEF OpnumsFit
  <2>3. Len(qs) \in Nat
    BY <2>1
  <2>4. o = f + Len(qs) - 1
    BY <2>1, <2>2, <2>3
  <2>. QED BY <1>1, <2>1, <2>3, <2>4, StateFields
<1>. DEFINE h == [j \in Int |-> qs[j - f + 1]]
<1>3. \A k \in 1 .. Len(qs) : qs[k] = h[f + k - 1]
  <2>. TAKE k \in 1 .. Len(qs)
  <2>1. f + k - 1 \in Int /\ (f + k - 1) - f + 1 = k
    BY <1>2
  <2>. QED BY <2>1
<1>4. \A k \in 1 .. o - n : h[n + k] = qs[n + k - f + 1]
  <2>. TAKE k \in 1 .. o - n
  <2>1. PICK j \in Int : j = n + k
    BY <1>2
  <2>2. h[j] = qs[j - f + 1]
    BY <2>1
  <2>3. j - f + 1 = n + k - f + 1
    BY <1>2, <2>1
  <2>. HIDE DEF h
  <2>. QED BY <2>1, <2>2, <2>3
<1>. HIDE DEF h
<1>5. /\ SubSeq(qs, n + 2 - f, Len(qs)) \in Seq(Requests)
      /\ Len(SubSeq(qs, n + 2 - f, Len(qs))) = o - n
      /\ \A k \in 1 .. o - n : SubSeq(qs, n + 2 - f, Len(qs))[k] = h[n + k]
  <2>1. /\ qs \in Seq(Requests) /\ f \in Nat /\ n \in Nat /\ o \in Nat
        /\ o = f + Len(qs) - 1 /\ f <= n + 1 /\ n < o
    BY <1>2
  <2>. QED BY <1>3, <2>1, PieceSuffix
<1>6. fresh = SubSeq(qs, n + 2 - f, Len(qs))
  BY <1>1 DEF NewRequests
<1>7. /\ fresh \in Seq(Requests) /\ Len(fresh) = o - n
      /\ \A k \in 1 .. o - n : fresh[k] = qs[n + k - f + 1]
  BY <1>4, <1>5, <1>6
<1>. HIDE DEF fresh
<1>8. table \in Tables
  BY <1>2, <1>7, UpdateClientTableType
<1>9. /\ added \in Seq(Entries) /\ Len(added) = o - n
      /\ \A k \in 1 .. o - n : added[k] = [view |-> b.view, req |-> qs[n + k - f + 1]]
  <2>1. PICK d : d = o - n
    OBVIOUS
  <2>2. d \in Nat /\ Len(fresh) = d
    BY <1>2, <1>7, <2>1
  <2>3. \A k \in 1 .. d : fresh[k] \in Requests
    BY <1>7, <2>2, ElementOfSeq
  <2>4. added = [k \in 1 .. d |-> [view |-> b.view, req |-> fresh[k]]]
    BY <2>2
  <2>5. \A k \in 1 .. d : added[k] = [view |-> b.view, req |-> qs[n + k - f + 1]]
    BY <1>7, <2>1, <2>4
  <2>. HIDE DEF added
  <2>6. added \in [1 .. d -> Entries]
    BY <1>2, <2>3, <2>4 DEF Entries
  <2>7. added \in Seq(Entries) /\ Len(added) = d
    BY <2>2, <2>6
  <2>. QED BY <2>1, <2>5, <2>7
<1>. HIDE DEF table
<1>10. t = [s EXCEPT !.log = s.log \o added, !.lastOp = o, !.clientTable = table]
  BY <1>1 DEF AppendBatch, fresh, table, ReplicaStates
<1>. HIDE DEF added, t
<1>11. /\ s.log \o added \in Seq(Entries)
       /\ Len(s.log \o added) = o
       /\ \A k \in 1 .. o : (s.log \o added)[k] = IF k <= n THEN s.log[k] ELSE added[k - n]
  BY <1>2, <1>9, ConcatProperties, SMTT(20)
<1>12. t \in ReplicaStates
  BY <1>2, <1>8, <1>10, <1>11 DEF ReplicaStates, Tables
<1>13. /\ t.view = s.view /\ t.status = s.status /\ t.lastCommitted = s.lastCommitted
       /\ t.prepareOKs = s.prepareOKs /\ SameBatches(s, t)
       /\ t.log = s.log \o added /\ t.lastOp = o
  BY <1>10 DEF ReplicaStates, SameBatches
<1>14. \A k \in 1 .. n : t.log[k] = s.log[k]
  <2>. TAKE k \in 1 .. n
  <2>1. k \in 1 .. o /\ k <= n
    BY <1>2
  <2>. QED BY <1>11, <1>13, <2>1
<1>15. \A k \in n + 1 .. o : t.log[k] = [view |-> b.view, req |-> qs[k - f + 1]]
  <2>. TAKE k \in n + 1 .. o
  <2>1. /\ k \in 1 .. o /\ ~ (k <= n) /\ k - n \in 1 .. o - n
        /\ n + (k - n) - f + 1 = k - f + 1
    BY <1>2
  <2>2. added[k - n] = [view |-> b.view, req |-> qs[n + (k - n) - f + 1]]
    BY <1>9, <2>1
  <2>. QED BY <1>11, <1>13, <2>1, <2>2
<1>. QED BY <1>1, <1>2, <1>11, <1>12, <1>13, <1>14, <1>15 DEF t

\* HandlePrepare, of a batch that the replica knows.
LEMMA HandlesBatch ==
    ASSUME Typed, NEW r \in Replicas, ~rep[r].aborted, NEW s \in ReplicaStates,
           SameProgress(rep[r], s),
           \A c \in Batches : HasBatch(s, c) => KnownBatch(r, c),
           NEW b \in Batches, KnownBatch(r, b), NEW gone, HandlePrepare(r, s, b, gone),
           replies' \subseteq ReplyMessages
    PROVE  DoesHandle(r)
<1>. DEFINE ok == {PrepareOK(s, r, b.opnum)}
<1>1. /\ rep[r] \in ReplicaStates /\ b.opnum \in Nat /\ b.view \in Nat /\ b.view \in Views
      /\ b.batchstart \in Nat
      /\ s.view = rep[r].view /\ s.status = rep[r].status /\ s.view \in Nat
      /\ s.view \in Views /\ s.lastOp \in Nat
  BY TypedReplica, StateFields DEF Batches, Views, SameProgress
<1>2. \A t : Like(s, t) => BatchesKept(r, t) /\ Stays(r, t) /\ t \in ReplicaStates
  BY DEF Like, SameBatches, SameProgress, BatchesKept, HasBatch, Stays
<1>3. Like(s, s) /\ Like(s, Abort(s)) /\ Like(s, Heard(s))
  BY LikeChanges, LikeAbort, LikeSmall
<1>4. ASSUME NEW t, Like(s, t), s.status = "NORMAL", ~AmLeader(s, r), NEW k \in Nat, k <= t.lastOp
      PROVE  Honest(r, t, PrepareOK(s, r, k))
  <2>1. t.view = s.view /\ t.status = s.status
    BY <1>4 DEF Like, SameProgress
  <2>2. PrepareOK(s, r, k) \in Messages
    BY <1>1, <1>4, LeaderType DEF PrepareOK, Messages
  <2>. QED BY <1>1, <1>4, <2>1, <2>2 DEF Honest, PrepareOK, AmLeader
<1>5. CASE Become(r, s) /\ Network(gone, {})
  BY <1>2, <1>3, <1>5, HandlesIntro
<1>6. CASE Become(r, Abort(s)) /\ Network(gone, {})
  <2>1. PICK t : t = Abort(s)
    OBVIOUS
  <2>2. Like(s, t) /\ Become(r, t)
    BY <1>3, <1>6, <2>1
  <2>. QED BY <1>2, <1>6, <2>2, HandlesIntro
<1>7. CASE /\ s.status = "NORMAL" /\ (b.view > s.view \/ ~AmLeader(s, r))
           /\ Become(r, Defer(IF b.view > s.view THEN s ELSE Heard(s), b))
           /\ Network(gone, StateTransferRequests(s, r))
  <2>1. PICK u : u = IF b.view > s.view THEN s ELSE Heard(s)
    OBVIOUS
  <2>2. Like(s, u)
    BY <1>3, <2>1
  <2>3. PICK t : t = Defer(u, b)
    OBVIOUS
  <2>4. u \in ReplicaStates
    BY <2>2 DEF Like
  <2>5. /\ t \in ReplicaStates /\ SameProgress(u, t)
        /\ \A c \in Batches : HasBatch(t, c) => HasBatch(u, c) \/ c = b
    BY <2>3, <2>4, DeferFacts
  <2>6. SameProgress(s, t) /\ Stays(r, t)
    BY <2>2, <2>5 DEF Like, SameProgress, Stays
  <2>7. BatchesKept(r, t)
    BY <2>2, <2>5 DEF Like, SameBatches, BatchesKept, HasBatch
  <2>8. \A m \in StateTransferRequests(s, r) : Honest(r, t, m)
    BY <1>7, <2>6, HonestRequests
  <2>9. Become(r, t)
    BY <1>7, <2>1, <2>3
  <2>. QED BY <1>7, <2>5, <2>6, <2>7, <2>8, <2>9, HandlesIntro
<1>8. CASE /\ s.status = "NORMAL" /\ ~AmLeader(s, r) /\ b.opnum <= s.lastOp
           /\ Become(r, Heard(s)) /\ Network(gone, ok)
  <2>1. PICK t : t = Heard(s)
    OBVIOUS
  <2>2. Like(s, t) /\ Become(r, t)
    BY <1>3, <1>8, <2>1
  <2>3. t.lastOp = s.lastOp
    BY <2>2 DEF Like, SameProgress
  <2>4. \A m \in ok : Honest(r, t, m)
    BY <1>1, <1>4, <1>8, <2>2, <2>3
  <2>. QED BY <1>2, <1>8, <2>2, <2>4, HandlesIntro
<1>9. CASE /\ s.status = "NORMAL" /\ ~AmLeader(s, r) /\ b.view = s.view /\ OpnumsFit(b)
           /\ b.batchstart <= s.lastOp + 1 /\ s.lastOp < b.opnum /\ s.lastOp = Len(s.log)
           /\ Become(r, AppendBatch(Heard(s), b)) /\ Network(gone, ok)
  <2>1. PICK u : u = Heard(s)
    OBVIOUS
  <2>2. Like(s, u)
    BY <1>3, <2>1
  <2>3. u \in ReplicaStates /\ SameProgress(s, u) /\ SameBatches(s, u)
    BY <2>2 DEF Like
  <2>4. PICK t : t = AppendBatch(u, b)
    OBVIOUS
  <2>5. b.batchstart <= u.lastOp + 1 /\ u.lastOp < b.opnum /\ u.lastOp = Len(u.log)
    BY <1>9, <2>3 DEF SameProgress
  <2>6. /\ t \in ReplicaStates /\ SameBatches(u, t)
        /\ t.view = u.view /\ t.status = u.status
        /\ t.lastCommitted = u.lastCommitted /\ t.prepareOKs = u.prepareOKs
        /\ t.lastOp = b.opnum /\ Len(t.log) = b.opnum
        /\ \A k \in 1 .. Len(u.log) : t.log[k] = u.log[k]
        /\ \A k \in Len(u.log) + 1 .. Len(t.log) :
               t.log[k] = [view |-> b.view, req |-> b.requests[k - b.batchstart + 1]]
    BY <1>9, <2>3, <2>4, <2>5, AppendBatchAdds
  <2>7. 1 <= Len(b.requests) /\ b.opnum = b.batchstart + Len(b.requests) - 1
    <3>1. Len(b.requests) = b.opnum + 1 - b.batchstart /\ b.batchstart <= b.opnum
      BY <1>9 DEF OpnumsFit
    <3>. QED BY <1>1, <3>1
  <2>8. Appends(r, t)
    <3>1. /\ rep[r].status = "NORMAL" /\ ~AmLeader(rep[r], r) /\ b.view = rep[r].view
          /\ rep[r].lastOp = s.lastOp /\ rep[r].log = s.log /\ u.log = s.log
      BY <1>1, <1>9, <2>3 DEF SameProgress, AmLeader
    <3>2. /\ t.view = rep[r].view /\ t.status = rep[r].status
          /\ t.lastCommitted = rep[r].lastCommitted /\ t.prepareOKs = rep[r].prepareOKs
      BY <2>3, <2>6 DEF SameProgress
    <3>. QED BY <1>9, <2>6, <2>7, <3>1, <3>2 DEF Appends
  <2>9. BatchesKept(r, t)
    BY <2>3, <2>6 DEF SameBatches, BatchesKept, HasBatch
  <2>10. \A m \in ok : Honest(r, t, m)
    <3>1. t.view = s.view /\ t.status = s.status
      BY <2>3, <2>6 DEF SameProgress
    <3>2. PrepareOK(s, r, b.opnum) \in Messages
      BY <1>1, LeaderType DEF PrepareOK, Messages
    <3>3. b.opnum <= t.lastOp
      BY <1>1, <2>6
    <3>. QED BY <1>1, <1>9, <3>1, <3>2, <3>3 DEF Honest, PrepareOK, AmLeader
  <2>11. Become(r, t)
    BY <1>9, <2>1, <2>4
  <2>. QED BY <1>9, <2>6, <2>8, <2>9, <2>10, <2>11, HandlesIntro
<1>10. \/ Become(r, s) /\ Network(gone, {})
       \/ Become(r, Abort(s)) /\ Network(gone, {})
       \/ /\ s.status = "NORMAL" /\ (b.view > s.view \/ ~AmLeader(s, r))
          /\ Become(r, Defer(IF b.view > s.view THEN s ELSE Heard(s), b))
          /\ Network(gone, StateTransferRequests(s, r))
       \/ /\ s.status = "NORMAL" /\ ~AmLeader(s, r) /\ b.opnum <= s.lastOp
          /\ Become(r, Heard(s)) /\ Network(gone, ok)
       \/ /\ s.status = "NORMAL" /\ ~AmLeader(s, r) /\ b.view = s.view /\ OpnumsFit(b)
          /\ b.batchstart <= s.lastOp + 1 /\ s.lastOp < b.opnum /\ s.lastOp = Len(s.log)
          /\ Become(r, AppendBatch(Heard(s), b)) /\ Network(gone, ok)
  <2>. DEFINE current == s.status = "NORMAL" /\ b.view = s.view
              sound   == current /\ ~AmLeader(s, r) /\ OpnumsFit(b)
  <2>1. \/ Become(r, s) /\ Network(gone, {})
        \/ /\ s.status = "NORMAL"
           /\ b.view > s.view \/ (sound /\ b.batchstart > s.lastOp + 1)
           /\ Become(r, Defer(IF b.view > s.view THEN s ELSE Heard(s), b))
           /\ Network(gone, StateTransferRequests(s, r))
        \/ sound /\ b.opnum <= s.lastOp /\ Become(r, Heard(s)) /\ Network(gone, ok)
        \/ /\ sound /\ b.batchstart <= s.lastOp + 1 /\ s.lastOp < b.opnum
           /\ s.lastOp = Len(s.log)
           /\ Become(r, AppendBatch(Heard(s), b)) /\ Network(gone, ok)
        \/ Become(r, Abort(s)) /\ Network(gone, {})
    BY DEF HandlePrepare
  <2>. QED BY <2>1
<1>. QED BY <1>5, <1>6, <1>7, <1>8, <1>9, <1>10

\* PREPAREs, as they are received and those that were set aside.
LEMMA HandlesPrepare ==
    ASSUME Typed, NEW r \in Replicas, ReceivePrepare(r) \/ ReplayPending(r)
    PROVE  DoesHandle(r) /\ UNCHANGED issued
<1>1. rep[r] \in ReplicaStates /\ ~rep[r].aborted /\ UNCHANGED <<replies, issued>>
  BY TypedReplica DEF ReceivePrepare, ReplayPending, Idle, Running
<1>2. replies' \subseteq ReplyMessages
  BY <1>1 DEF Typed
<1>3. CASE ReceivePrepare(r)
  <2>1. PICK m \in Received(r, "Prepare") : HandlePrepare(r, rep[r], m.batch, {m})
    BY <1>3 DEF ReceivePrepare
  <2>2. m \in Messages /\ m \in msgs /\ m.type = "Prepare"
    BY NormalMessages
  <2>3. m.batch \in Batches /\ KnownBatch(r, m.batch)
    BY <2>2, PrepareBatch DEF KnownBatch
  <2>4. SameProgress(rep[r], rep[r])
        /\ \A c \in Batches : HasBatch(rep[r], c) => KnownBatch(r, c)
    BY DEF SameProgress, KnownBatch
  <2>. QED BY <1>1, <1>2, <2>1, <2>3, <2>4, HandlesBatch
<1>4. CASE ReplayPending(r)
  <2>1. PICK w, b : w = Tail(rep[r].work) /\ b = Head(rep[r].work)
    OBVIOUS
  <2>2. PICK s : s = [rep[r] EXCEPT !.work = w]
    OBVIOUS
  <2>3. rep[r].work # <<>> /\ HandlePrepare(r, s, b, {})
    BY <1>4, <2>1, <2>2 DEF ReplayPending
  <2>4. rep[r].work \in Seq(Batches) /\ Len(rep[r].work) \in Nat
    BY <1>1, StateFields
  <2>5. /\ w \in Seq(Batches) /\ Len(w) = Len(rep[r].work) - 1
        /\ \A k \in 1 .. Len(w) : w[k] = rep[r].work[k + 1]
        /\ b \in Batches /\ b = rep[r].work[1] /\ 1 \in 1 .. Len(rep[r].work)
    BY <2>1, <2>3, <2>4, HeadTailProperties
  <2>6. s \in ReplicaStates
    BY <1>1, <2>2, <2>5 DEF ReplicaStates
  <2>7. /\ SameProgress(rep[r], s) /\ s.lastPrepare = rep[r].lastPrepare
        /\ s.pending = rep[r].pending /\ s.work = w
    BY <1>1, <2>2 DEF SameProgress, ReplicaStates
  <2>8. KnownBatch(r, b)
    BY <2>5 DEF KnownBatch, HasBatch
  <2>9. ASSUME NEW c \in Batches, HasBatch(s, c)
        PROVE  KnownBatch(r, c)
    <3>1. CASE \E k \in 1 .. Len(w) : c = w[k]
      <4>1. PICK k \in 1 .. Len(w) : c = w[k]
        BY <3>1
      <4>2. k + 1 \in 1 .. Len(rep[r].work) /\ c = rep[r].work[k + 1]
        BY <2>4, <2>5, <4>1
      <4>. QED BY <4>2 DEF KnownBatch, HasBatch
    <3>. QED BY <2>7, <2>9, <3>1 DEF KnownBatch, HasBatch
  <2>. QED BY <1>1, <1>2, <2>3, <2>5, <2>6, <2>7, <2>8, <2>9, HandlesBatch
<1>. QED BY <1>1, <1>3, <1>4

\* The end of HandlePrepareOK: the next batch is sent if requests wait for it.
LEMMA FinishBatchHonest ==
    ASSUME NEW r \in Replicas, NEW s \in ReplicaStates, SameBatches(rep[r], s), NEW k
    PROVE  LET t == FinishBatch(s, r, k)
           IN  /\ t \in ReplicaStates /\ SameProgress(s, t) /\ BatchesKept(r, t)
               /\ s.lastBatchEnd = k /\ s.lastOp > k =>
                      \A m \in ClosedBatch(s, r) : Honest(r, t, m)
<1>. DEFINE ts == s.timers \cup {"nullCommit"}
            full == s.batchComplete \/ s.lastBatchEnd = k
            u == [s EXCEPT !.timers = @ \cup {"nullCommit"},
                           !.batchComplete = @ \/ s.lastBatchEnd = k]
            t == FinishBatch(s, r, k)
<1>1. ts \in SUBSET Timers /\ full \in BOOLEAN
  BY StateFields DEF Timers
<1>2. PICK v : v = [s EXCEPT !.timers = ts]
  OBVIOUS
<1>3. Like(s, v)
  BY <1>1, <1>2, LikeChanges
<1>4. u = [v EXCEPT !.batchComplete = full]
  BY <1>2
<1>. HIDE DEF ts, full
<1>5. v \in ReplicaStates /\ SameProgress(s, v) /\ SameBatches(s, v)
  BY <1>3 DEF Like
<1>6. v.aborted = s.aborted /\ v.lastBatchEnd = s.lastBatchEnd
  BY <1>2 DEF ReplicaStates
<1>7. PICK w : w = u
  OBVIOUS
<1>8. w \in ReplicaStates
  BY <1>1, <1>4, <1>5, <1>7 DEF ReplicaStates
<1>9. SameProgress(v, w) /\ SameBatches(v, w)
  BY <1>4, <1>5, <1>7 DEF ReplicaStates, SameProgress, SameBatches
<1>10. w.aborted = v.aborted /\ w.lastBatchEnd = v.lastBatchEnd
  BY <1>4, <1>5, <1>7 DEF ReplicaStates
<1>11. t = IF s.lastBatchEnd = k /\ s.lastOp > k THEN CloseBatch(w, r) ELSE w
  BY <1>7 DEF FinishBatch
<1>12. SameProgress(s, w) /\ SameBatches(rep[r], w)
  BY <1>5, <1>9 DEF SameProgress, SameBatches
<1>13. ClosedBatch(w, r) = ClosedBatch(s, r)
  BY <1>6, <1>10, <1>12 DEF SameProgress, ClosedBatch, CanCloseBatch, OpenBatch, AmLeader
<1>. HIDE DEF t, u
<1>14. CASE s.lastBatchEnd = k /\ s.lastOp > k
  <2>1. PICK x : x = CloseBatch(w, r)
    OBVIOUS
  <2>2. /\ x \in ReplicaStates /\ SameProgress(w, x) /\ BatchesKept(r, x)
        /\ \A m \in ClosedBatch(w, r) : Honest(r, x, m)
    BY <1>8, <1>12, <2>1, CloseBatchHonest
  <2>3. SameProgress(s, x) /\ t = x
    BY <1>11, <1>12, <1>14, <2>1, <2>2 DEF SameProgress
  <2>. QED BY <1>13, <2>2, <2>3 DEF t
<1>15. CASE ~ (s.lastBatchEnd = k /\ s.lastOp > k)
  <2>1. t = w
    BY <1>11, <1>15
  <2>2. BatchesKept(r, w)
    BY <1>12 DEF SameBatches, BatchesKept, KnownBatch, HasBatch
  <2>. QED BY <1>8, <1>12, <1>15, <2>1, <2>2 DEF t
<1>. QED BY <1>14, <1>15

\* HandlePrepareOK.
LEMMA HandlesPrepareOK ==
    ASSUME Typed, NEW r \in Replicas, ReceivePrepareOK(r)
    PROVE  DoesHandle(r) /\ UNCHANGED issued
<1>1. rep[r] \in ReplicaStates /\ ~rep[r].aborted /\ UNCHANGED issued
  BY TypedReplica DEF ReceivePrepareOK, Idle, Running
<1>2. PICK m \in Received(r, "PrepareOK") : HandlePrepareOK(r, m)
  BY DEF ReceivePrepareOK
<1>3. m \in Messages /\ m \in msgs /\ m.type = "PrepareOK" /\ m.to = r
  BY NormalMessages
<1>4. m.opnum \in Nat /\ m.from \in Replicas /\ m.view \in Views
  BY <1>3 DEF Messages
<1>. DEFINE oks == rep[r].prepareOKs \cup {<<m.opnum, m.from>>}
            s == [rep[r] EXCEPT !.prepareOKs = @ \cup {<<m.opnum, m.from>>}]
            c == CommitUpTo(s, m.opnum)
            n == Cardinality(Acks(s, m.opnum))
            next == c.lastBatchEnd = m.opnum /\ c.lastOp > m.opnum
<1>5. oks \in SUBSET (Nat \X Replicas) /\ s = [rep[r] EXCEPT !.prepareOKs = oks]
  BY <1>1, <1>4, StateFields
<1>. HIDE DEF oks, s
<1>6. s \in ReplicaStates
  BY <1>1, <1>5 DEF ReplicaStates
<1>7. /\ s.view = rep[r].view /\ s.status = rep[r].status /\ s.log = rep[r].log
      /\ s.lastOp = rep[r].lastOp /\ s.lastCommitted = rep[r].lastCommitted
      /\ s.prepareOKs = oks /\ SameBatches(rep[r], s)
  BY <1>1, <1>5 DEF ReplicaStates, SameBatches
<1>8. /\ c \in ReplicaStates /\ SameBatches(s, c)
      /\ c.view = s.view /\ c.status = s.status /\ c.log = s.log
      /\ c.lastOp = s.lastOp /\ c.prepareOKs = s.prepareOKs
      /\ \/ m.opnum <= s.lastCommitted /\ c = s
         \/ /\ s.lastCommitted < m.opnum
            /\ c.lastCommitted = Min({m.opnum, Len(s.log)})
  BY <1>4, <1>6, CommitUpToAny
<1>9. RepliesTo(s, r, m.opnum) \subseteq ReplyMessages
  BY <1>4, <1>6, RepliesToType
<1>10. /\ rep[r].status = "NORMAL"
       /\ \/ /\ m.view > rep[r].view
             /\ Become(r, RequestStateTransfer(rep[r]))
             /\ Network({m}, StateTransferRequests(rep[r], r))
             /\ UNCHANGED replies
          \/ /\ m.view = rep[r].view /\ AmLeader(rep[r], r)
             /\ Become(r, s) /\ Network({m}, {}) /\ UNCHANGED replies
          \/ /\ m.view = rep[r].view /\ AmLeader(rep[r], r) /\ n >= QuorumSize - 1
             /\ replies' = replies \cup RepliesTo(s, r, m.opnum)
             /\ \/ Become(r, c) /\ Network({m}, {})
                \/ /\ Become(r, FinishBatch(c, r, m.opnum))
                   /\ Network({m}, CommitMessages(c, r) \cup
                                       IF next THEN ClosedBatch(c, r) ELSE {})
  BY <1>2 DEF HandlePrepareOK, s
<1>11. replies' \subseteq ReplyMessages
  BY <1>9, <1>10 DEF Typed
<1>12. n = Cardinality({p \in Replicas : <<m.opnum, p>> \in s.prepareOKs})
  BY DEF Acks
<1>. HIDE DEF c, n
<1>13. ASSUME NEW t, SameProgress(s, t), m.view = rep[r].view, AmLeader(rep[r], r)
       PROVE  Counts(r, t)
  BY <1>3, <1>7, <1>10, <1>13 DEF Counts, SameProgress, oks
<1>14. ASSUME NEW t, SameProgress(c, t), m.view = rep[r].view, AmLeader(rep[r], r),
              n >= QuorumSize - 1
       PROVE  Counts(r, t)
  <2>1. CASE m.opnum <= s.lastCommitted /\ c = s
    BY <1>13, <1>14, <2>1
  <2>2. CASE s.lastCommitted < m.opnum /\ c.lastCommitted = Min({m.opnum, Len(s.log)})
    <3>1. /\ t.view = rep[r].view /\ t.status = rep[r].status /\ t.log = rep[r].log
          /\ t.lastOp = rep[r].lastOp /\ t.prepareOKs = s.prepareOKs /\ s.prepareOKs = oks
          /\ t.lastCommitted = Min({m.opnum, Len(rep[r].log)})
          /\ rep[r].lastCommitted < m.opnum
      BY <1>7, <1>8, <1>14, <2>2 DEF SameProgress
    <3>. QED BY <1>3, <1>10, <1>12, <1>14, <3>1 DEF Counts, oks
  <2>. QED BY <1>8, <2>1, <2>2
<1>15. SameBatches(rep[r], c)
  BY <1>7, <1>8 DEF SameBatches
<1>16. CASE /\ m.view > rep[r].view
            /\ Become(r, RequestStateTransfer(rep[r]))
            /\ Network({m}, StateTransferRequests(rep[r], r))
  <2>1. PICK t : t = RequestStateTransfer(rep[r])
    OBVIOUS
  <2>2. Like(rep[r], t) /\ Become(r, t)
    BY <1>1, <1>16, <2>1, LikeSmall
  <2>3. \A x \in StateTransferRequests(rep[r], r) : Honest(r, t, x)
    BY <1>1, <1>3, <1>10, <1>16, <2>2, HonestRequests DEF Like
  <2>. QED BY <1>1, <1>11, <1>16, <2>2, <2>3, HandlesLike
<1>17. CASE /\ m.view = rep[r].view /\ AmLeader(rep[r], r)
            /\ Become(r, s) /\ Network({m}, {})
  <2>1. Counts(r, s)
    BY <1>13, <1>17 DEF SameProgress
  <2>2. BatchesKept(r, s)
    BY <1>7 DEF SameBatches, BatchesKept, KnownBatch, HasBatch
  <2>. QED BY <1>1, <1>6, <1>11, <1>17, <2>1, <2>2, HandlesIntro
<1>18. CASE /\ m.view = rep[r].view /\ AmLeader(rep[r], r) /\ n >= QuorumSize - 1
            /\ Become(r, c) /\ Network({m}, {})
  <2>1. Counts(r, c)
    BY <1>14, <1>18 DEF SameProgress
  <2>2. BatchesKept(r, c)
    BY <1>15 DEF SameBatches, BatchesKept, KnownBatch, HasBatch
  <2>. QED BY <1>1, <1>8, <1>11, <1>18, <2>1, <2>2, HandlesIntro
<1>19. CASE /\ m.view = rep[r].view /\ AmLeader(rep[r], r) /\ n >= QuorumSize - 1
            /\ Become(r, FinishBatch(c, r, m.opnum))
            /\ Network({m}, CommitMessages(c, r) \cup
                                IF next THEN ClosedBatch(c, r) ELSE {})
  <2>1. PICK t : t = FinishBatch(c, r, m.opnum)
    OBVIOUS
  <2>2. /\ t \in ReplicaStates /\ SameProgress(c, t) /\ BatchesKept(r, t)
        /\ next => \A x \in ClosedBatch(c, r) : Honest(r, t, x)
    BY <1>8, <1>15, <2>1, FinishBatchHonest
  <2>3. Counts(r, t)
    BY <1>14, <1>19, <2>2
  <2>4. \A x \in CommitMessages(c, r) : Honest(r, t, x)
    <3>1. t.view = c.view /\ t.lastCommitted = c.lastCommitted /\ c.view = rep[r].view
      BY <1>7, <1>8, <2>2 DEF SameProgress
    <3>2. c.view \in Views /\ c.lastCommitted \in Nat
      BY <1>8 DEF ReplicaStates
    <3>. QED BY <1>19, <3>1, <3>2 DEF CommitMessages, Messages, Honest, AmLeader
  <2>. DEFINE sent == CommitMessages(c, r) \cup IF next THEN ClosedBatch(c, r) ELSE {}
  <2>5. \A x \in sent : Honest(r, t, x)
    BY <2>2, <2>4
  <2>6. Become(r, t) /\ Network({m}, sent)
    BY <1>19, <2>1
  <2>. HIDE DEF sent
  <2>. QED BY <1>1, <1>11, <2>2, <2>3, <2>5, <2>6, HandlesIntro
<1>. QED BY <1>1, <1>10, <1>16, <1>17, <1>18, <1>19

\* HandleCommit.
LEMMA HandlesCommit ==
    ASSUME Typed, NEW r \in Replicas, ReceiveCommit(r)
    PROVE  DoesHandle(r) /\ UNCHANGED issued
<1>. DEFINE s == rep[r]
<1>1. s \in ReplicaStates /\ ~s.aborted /\ UNCHANGED issued
  BY TypedReplica DEF ReceiveCommit, Idle, Running
<1>2. PICK m \in Received(r, "Commit") : HandleCommit(r, m)
  BY DEF ReceiveCommit
<1>3. m \in Messages /\ m \in msgs /\ m.type = "Commit" /\ m.to = r
  BY NormalMessages
<1>4. m.opnum \in Nat /\ m.view \in Views
  BY <1>3 DEF Messages
<1>5. /\ s.status = "NORMAL"
      /\ replies' \subseteq replies \cup RepliesTo(s, r, m.opnum)
      /\ \/ /\ m.view > s.view /\ Become(r, RequestStateTransfer(s))
            /\ Network({m}, StateTransferRequests(s, r))
         \/ (Become(r, Abort(s)) \/ Become(r, Heard(s))) /\ Network({m}, {})
         \/ /\ ~AmLeader(s, r) /\ Become(r, RequestStateTransfer(Heard(s)))
            /\ Network({m}, StateTransferRequests(s, r))
         \/ /\ m.view = s.view /\ ~AmLeader(s, r)
            /\ s.lastCommitted < m.opnum /\ m.opnum <= s.lastOp
            /\ Become(r, CommitUpTo(Heard(s), m.opnum)) /\ Network({m}, {})
  BY <1>2 DEF HandleCommit
<1>6. replies' \subseteq ReplyMessages
  BY <1>1, <1>4, <1>5, RepliesToType DEF Typed
<1>7. Like(s, Abort(s)) /\ Like(s, Heard(s)) /\ Like(s, RequestStateTransfer(s))
  BY <1>1, LikeAbort, LikeSmall
<1>8. Like(s, RequestStateTransfer(Heard(s)))
  <2>1. Heard(s) \in ReplicaStates
    BY <1>7 DEF Like
  <2>. QED BY <1>7, <2>1, LikeSmall, LikeTransitive
<1>9. ASSUME NEW t, Like(s, t), Become(r, t), Network({m}, StateTransferRequests(s, r)),
             m.view > s.view \/ ~AmLeader(s, r)
      PROVE  DoesHandle(r)
  <2>1. \A x \in StateTransferRequests(s, r) : Honest(r, t, x)
    BY <1>1, <1>3, <1>5, <1>9, HonestRequests DEF Like
  <2>. QED BY <1>1, <1>6, <1>9, <2>1, HandlesLike
<1>10. ASSUME NEW t, Like(s, t), Become(r, t), Network({m}, {})
       PROVE  DoesHandle(r)
  BY <1>1, <1>6, <1>10, HandlesLike
<1>11. CASE /\ m.view = s.view /\ ~AmLeader(s, r)
            /\ s.lastCommitted < m.opnum /\ m.opnum <= s.lastOp
            /\ Become(r, CommitUpTo(Heard(s), m.opnum)) /\ Network({m}, {})
  <2>1. PICK u : u = Heard(s)
    OBVIOUS
  <2>2. u \in ReplicaStates /\ SameProgress(s, u) /\ SameBatches(s, u)
    BY <1>7, <2>1 DEF Like
  <2>3. PICK t : t = CommitUpTo(u, m.opnum)
    OBVIOUS
  <2>4. /\ t \in ReplicaStates /\ SameBatches(u, t)
        /\ t.view = u.view /\ t.status = u.status /\ t.log = u.log
        /\ t.lastOp = u.lastOp /\ t.prepareOKs = u.prepareOKs
        /\ \/ m.opnum <= u.lastCommitted
           \/ t.lastCommitted = Min({m.opnum, Len(u.log)})
    BY <1>4, <2>2, <2>3, CommitUpToAny
  <2>5. ~ (m.opnum <= u.lastCommitted)
    <3>1. u.lastCommitted = s.lastCommitted /\ s.lastCommitted \in Nat
      BY <1>1, <2>2, StateFields DEF SameProgress
    <3>. QED BY <1>4, <1>11, <3>1
  <2>6. Follows(r, t)
    <3>1. /\ t.view = s.view /\ t.status = s.status /\ t.log = s.log /\ t.lastOp = s.lastOp
          /\ t.prepareOKs = s.prepareOKs /\ t.lastCommitted = Min({m.opnum, Len(s.log)})
      BY <2>2, <2>4, <2>5 DEF SameProgress
    <3>. QED BY <1>3, <1>5, <1>11, <3>1 DEF Follows
  <2>7. BatchesKept(r, t)
    BY <2>2, <2>4 DEF SameBatches, BatchesKept, KnownBatch, HasBatch
  <2>8. Become(r, t)
    BY <1>11, <2>1, <2>3
  <2>. QED BY <1>1, <1>6, <1>11, <2>4, <2>6, <2>7, <2>8, HandlesIntro
<1>. QED BY <1>1, <1>5, <1>7, <1>8, <1>9, <1>10, <1>11

\* The end of a sequence.
LEMMA SuffixFacts ==
    ASSUME NEW S, NEW qs \in Seq(S), NEW f \in Nat \ {0}
    PROVE  LET t == SubSeq(qs, f, Len(qs))
           IN  /\ t \in Seq(S)
               /\ Len(t) = IF f <= Len(qs) THEN Len(qs) - f + 1 ELSE 0
               /\ \A k \in 1 .. Len(qs) - f + 1 : t[k] = qs[f + k - 1]
<1>1. PICK c \in Nat : c = Len(qs)
  OBVIOUS
<1>2. \A k \in f .. c : qs[k] \in S
  BY <1>1, ElementOfSeq
<1>3. /\ SubSeq(qs, f, c) \in Seq(S)
      /\ Len(SubSeq(qs, f, c)) = IF f <= c THEN c - f + 1 ELSE 0
      /\ \A k \in 1 .. c - f + 1 : SubSeq(qs, f, c)[k] = qs[f + k - 1]
  BY <1>2, SubSeqProperties
<1>. QED BY <1>1, <1>3

\* HandleRequestStateTransfer.
LEMMA HandlesRequestStateTransfer ==
    ASSUME Typed, NEW r \in Replicas, ReceiveRequestStateTransfer(r)
    PROVE  DoesHandle(r) /\ UNCHANGED issued
<1>. DEFINE s == rep[r]
<1>1. s \in ReplicaStates /\ ~s.aborted /\ UNCHANGED <<replies, issued>>
  BY TypedReplica DEF ReceiveRequestStateTransfer, Idle, Running
<1>2. PICK m \in Received(r, "RequestStateTransfer") : HandleRequestStateTransfer(r, m)
  BY DEF ReceiveRequestStateTransfer
<1>3. m \in Messages /\ m \in msgs /\ m.type = "RequestStateTransfer" /\ m.to = r
  BY NormalMessages
<1>4. m.opnum \in Nat /\ m.from \in Replicas /\ m.view \in Views
  BY <1>3 DEF Messages
<1>5. replies' \subseteq ReplyMessages
  BY <1>1 DEF Typed
<1>6. /\ s.status = "NORMAL"
      /\ \/ /\ m.view > s.view /\ Become(r, RequestStateTransfer(s))
            /\ Network({m}, StateTransferRequests(s, r))
         \/ /\ Cardinality({x \in msgs : x.type = "StateTransfer"}) < TransferBound
            /\ Network({m}, {LogDump(s, m)}) /\ UNCHANGED rep
  BY <1>2 DEF HandleRequestStateTransfer
<1>7. CASE /\ m.view > s.view /\ Become(r, RequestStateTransfer(s))
           /\ Network({m}, StateTransferRequests(s, r))
  <2>1. PICK t : t = RequestStateTransfer(s)
    OBVIOUS
  <2>2. Like(s, t) /\ Become(r, t)
    BY <1>1, <1>7, <2>1, LikeSmall
  <2>3. \A x \in StateTransferRequests(s, r) : Honest(r, t, x)
    BY <1>1, <1>3, <1>6, <1>7, <2>2, HonestRequests DEF Like
  <2>. QED BY <1>1, <1>5, <1>7, <2>2, <2>3, HandlesLike
<1>8. CASE /\ Cardinality({x \in msgs : x.type = "StateTransfer"}) < TransferBound
           /\ Network({m}, {LogDump(s, m)}) /\ UNCHANGED rep
  <2>1. PICK es : es = SubSeq(s.log, m.opnum + 1, Len(s.log))
    OBVIOUS
  <2>2. es \in Seq(Entries)
    <3>1. m.opnum + 1 \in Nat \ {0} /\ s.log \in Seq(Entries)
      BY <1>1, <1>4, StateFields
    <3>. QED BY <2>1, <3>1, SuffixFacts
  <2>3. /\ LogDump(s, m).type = "StateTransfer"
        /\ LogDump(s, m) \in Messages
    <3>1. s.view \in Views /\ s.lastCommitted \in Nat /\ m.opnum + 1 \in Nat
      BY <1>1, <1>4 DEF ReplicaStates
    <3>. QED BY <1>4, <2>1, <2>2, <3>1 DEF LogDump, Messages
  <2>4. Honest(r, s, LogDump(s, m))
    BY <1>3, <1>6, <1>8, <2>3 DEF Honest
  <2>5. Become(r, s)
    BY <1>8 DEF Become, Typed
  <2>6. Like(s, s)
    BY <1>1, LikeChanges
  <2>. QED BY <1>1, <1>5, <1>8, <2>4, <2>5, <2>6, HandlesLike
<1>. QED BY <1>1, <1>6, <1>7, <1>8

\* The entries of a log dump take over at operation k.
LEMMA SplicedFacts ==
    ASSUME NEW s \in ReplicaStates, NEW m \in Messages, m.type = "StateTransfer",
           NEW k \in 1 .. Len(s.log) + 1, m.first <= k, k <= LastEntry(m)
    PROVE  LET t == Spliced(s, m, k)
           IN  /\ t \in ReplicaStates /\ SameBatches(s, t)
               /\ t.view = s.view /\ t.status = s.status
               /\ t.lastCommitted = s.lastCommitted /\ t.prepareOKs = s.prepareOKs
               /\ t.lastOp = LastEntry(m) /\ Len(t.log) = LastEntry(m)
               /\ \A j \in 1 .. k - 1 : t.log[j] = s.log[j]
               /\ \A j \in k .. LastEntry(m) : t.log[j] = m.entries[j - m.first + 1]
<1>1. PICK o, f, d : o = LastEntry(m) /\ f = m.first /\ d = m.entries
  OBVIOUS
<1>2. /\ f \in Nat /\ d \in Seq(Entries) /\ Len(d) \in Nat /\ o = f + Len(d) - 1
      /\ s.log \in Seq(Entries) /\ Len(s.log) \in Nat /\ k \in Nat /\ 1 <= k
      /\ k <= Len(s.log) + 1 /\ f <= k /\ k <= o /\ o \in Nat
  <2>1. f \in Nat /\ d \in Seq(Entries)
    BY <1>1 DEF Messages
  <2>2. Len(d) \in Nat /\ o = f + Len(d) - 1 /\ Len(s.log) \in Nat /\ s.log \in Seq(Entries)
    BY <1>1, <2>1, StateFields DEF LastEntry
  <2>. QED BY <1>1, <2>1, <2>2
<1>. DEFINE kept == SubSeq(s.log, 1, k - 1)
            new  == SubSeq(d, k - f + 1, Len(d))
            l    == kept \o new
            t    == Spliced(s, m, k)
<1>3. /\ kept \in Seq(Entries) /\ Len(kept) = k - 1
      /\ \A j \in 1 .. k - 1 : kept[j] = s.log[j]
  <2>1. PICK n : n = k - 1
    OBVIOUS
  <2>2. n \in Nat /\ n <= Len(s.log)
    BY <1>2, <2>1
  <2>3. \A j \in 1 .. n : s.log[j] \in Entries
    BY <1>2, <2>2, ElementOfSeq
  <2>4. /\ SubSeq(s.log, 1, n) \in Seq(Entries)
        /\ Len(SubSeq(s.log, 1, n)) = IF 1 <= n THEN n - 1 + 1 ELSE 0
        /\ \A j \in 1 .. n - 1 + 1 : SubSeq(s.log, 1, n)[j] = s.log[1 + j - 1]
    BY <2>2, <2>3, SubSeqProperties
  <2>5. \A j \in 1 .. n : SubSeq(s.log, 1, n)[j] = s.log[j]
    <3>. TAKE j \in 1 .. n
    <3>1. j \in 1 .. n - 1 + 1 /\ 1 + j - 1 = j
      BY <2>2
    <3>. QED BY <2>4, <3>1
  <2>. QED BY <2>1, <2>2, <2>4, <2>5
<1>4. /\ new \in Seq(Entries) /\ Len(new) = o - k + 1
      /\ \A j \in 1 .. o - k + 1 : new[j] = d[k - f + j]
  <2>1. PICK a : a = k - f + 1
    OBVIOUS
  <2>2. a \in Nat \ {0} /\ a <= Len(d) /\ Len(d) - a + 1 = o - k + 1
    BY <1>2, <2>1
  <2>3. /\ SubSeq(d, a, Len(d)) \in Seq(Entries)
        /\ Len(SubSeq(d, a, Len(d))) = IF a <= Len(d) THEN Len(d) - a + 1 ELSE 0
        /\ \A j \in 1 .. Len(d) - a + 1 : SubSeq(d, a, Len(d))[j] = d[a + j - 1]
    BY <1>2, <2>2, SuffixFacts
  <2>4. \A j \in 1 .. o - k + 1 : SubSeq(d, a, Len(d))[j] = d[k - f + j]
    <3>. TAKE j \in 1 .. o - k + 1
    <3>1. a + j - 1 = k - f + j
      BY <1>2, <2>1
    <3>. QED BY <2>2, <2>3, <3>1
  <2>. QED BY <2>1, <2>2, <2>3, <2>4
<1>5. t = [s EXCEPT !.log = l, !.lastOp = o]
  BY <1>1 DEF Spliced, ReplicaStates
<1>. HIDE DEF kept, new
<1>6. /\ l \in Seq(Entries) /\ Len(l) = o
      /\ \A j \in 1 .. o : l[j] = IF j <= k - 1 THEN kept[j] ELSE new[j - (k - 1)]
  <2>1. /\ l \in Seq(Entries) /\ Len(l) = Len(kept) + Len(new)
        /\ \A j \in 1 .. Len(kept) + Len(new) :
               l[j] = IF j <= Len(kept) THEN kept[j] ELSE new[j - Len(kept)]
    BY <1>3, <1>4, ConcatProperties
  <2>2. Len(kept) + Len(new) = o
    BY <1>2, <1>3, <1>4
  <2>. QED BY <1>3, <2>1, <2>2
<1>. HIDE DEF l, t
<1>7. t \in ReplicaStates
  BY <1>2, <1>5, <1>6 DEF ReplicaStates
<1>8. /\ SameBatches(s, t) /\ t.view = s.view /\ t.status = s.status
      /\ t.lastCommitted = s.lastCommitted /\ t.prepareOKs = s.prepareOKs
      /\ t.lastOp = o /\ t.log = l
  BY <1>5 DEF ReplicaStates, SameBatches
<1>9. \A j \in 1 .. k - 1 : t.log[j] = s.log[j]
  <2>. TAKE j \in 1 .. k - 1
  <2>1. j \in 1 .. o /\ j <= k - 1
    BY <1>2
  <2>. QED BY <1>3, <1>6, <1>8, <2>1
<1>10. \A j \in k .. o : t.log[j] = d[j - f + 1]
  <2>. TAKE j \in k .. o
  <2>1. PICK i : i = j - (k - 1)
    OBVIOUS
  <2>2. j \in 1 .. o /\ ~ (j <= k - 1) /\ i \in 1 .. o - k + 1 /\ k - f + i = j - f + 1
    BY <1>2, <2>1
  <2>. QED BY <1>4, <1>6, <1>8, <2>1, <2>2
<1>. QED BY <1>1, <1>6, <1>7, <1>8, <1>9, <1>10 DEF t

\* The loop over the entries of a log dump installs them or does nothing.
LEMMA InstallEntriesFacts ==
    ASSUME NEW s \in ReplicaStates, NEW m \in Messages, m.type = "StateTransfer"
    PROVE  LET t == InstallEntries(s, m)
           IN  /\ t \in ReplicaStates /\ SameBatches(s, t)
               /\ t.view = s.view /\ t.status = s.status
               /\ t.lastCommitted = s.lastCommitted /\ t.prepareOKs = s.prepareOKs
               /\ \/ t.log = s.log /\ t.lastOp = s.lastOp
                  \/ (\E k \in Nat : Takes(s, m, t.log, k)) /\ t.lastOp = LastEntry(m)
               /\ OldLastOp(s, m) \in Nat
<1>. DEFINE t == InstallEntries(s, m)
<1>1. /\ m.first \in Nat /\ m.entries \in Seq(Entries) /\ Len(m.entries) \in Nat
      /\ LastEntry(m) = m.first + Len(m.entries) - 1
  BY DEF Messages, LastEntry
<1>2. /\ s.log \in Seq(Entries) /\ Len(s.log) \in Nat /\ s.lastOp \in Nat
      /\ s.lastCommitted \in Nat
  BY StateFields
<1>3. ASSUME NEW k \in 1 .. Len(s.log) + 1, m.first <= k, k <= LastEntry(m),
             s.lastCommitted < k,
             k <= Len(s.log) => s.log[k].view < m.entries[k - m.first + 1].view,
             t = Spliced(s, m, k)
      PROVE  /\ t \in ReplicaStates /\ SameBatches(s, t)
             /\ t.view = s.view /\ t.status = s.status
             /\ t.lastCommitted = s.lastCommitted /\ t.prepareOKs = s.prepareOKs
             /\ (\E j \in Nat : Takes(s, m, t.log, j)) /\ t.lastOp = LastEntry(m)
  <2>. HIDE DEF t
  <2>1. /\ t \in ReplicaStates /\ SameBatches(s, t)
        /\ t.view = s.view /\ t.status = s.status
        /\ t.lastCommitted = s.lastCommitted /\ t.prepareOKs = s.prepareOKs
        /\ t.lastOp = LastEntry(m) /\ Len(t.log) = LastEntry(m)
        /\ \A j \in 1 .. k - 1 : t.log[j] = s.log[j]
        /\ \A j \in k .. LastEntry(m) : t.log[j] = m.entries[j - m.first + 1]
    BY <1>3, SplicedFacts
  <2>2. Takes(s, m, t.log, k)
    BY <1>3, <2>1 DEF Takes
  <2>3. k \in Nat
    BY <1>2
  <2>. QED BY <2>1, <2>2, <2>3
<1>4. Like(s, s) /\ Like(s, Abort(s))
  BY LikeChanges, LikeAbort
<1>5. ASSUME Like(s, t)
      PROVE  /\ t \in ReplicaStates /\ SameBatches(s, t)
             /\ t.view = s.view /\ t.status = s.status
             /\ t.lastCommitted = s.lastCommitted /\ t.prepareOKs = s.prepareOKs
             /\ t.log = s.log /\ t.lastOp = s.lastOp
  BY <1>5 DEF Like, SameProgress
<1>6. CASE Replaced(s, m) # {}
  <2>1. PICK k : k = Min(Replaced(s, m))
    OBVIOUS
  <2>2. Replaced(s, m) \subseteq Nat
    BY <1>1 DEF Replaced
  <2>3. k \in Replaced(s, m)
    BY <1>6, <2>1, <2>2, MinOfNat
  <2>4. /\ k \in Nat /\ m.first <= k /\ k <= LastEntry(m) /\ s.lastCommitted < k
        /\ k <= Len(s.log)
    BY <1>1, <2>3 DEF Replaced
  <2>5. k \in 1 .. Len(s.log) + 1
    BY <1>2, <2>4
  <2>6. OldLastOp(s, m) = k
    BY <1>6, <2>1 DEF OldLastOp
  <2>7. \/ t = Abort(s)
        \/ s.log[k].view < m.entries[k - m.first + 1].view /\ t = Spliced(s, m, k)
    BY <1>6, <2>1 DEF InstallEntries
  <2>. HIDE DEF t
  <2>8. CASE t = Abort(s)
    BY <1>4, <1>5, <2>4, <2>6, <2>8 DEF t
  <2>9. CASE s.log[k].view < m.entries[k - m.first + 1].view /\ t = Spliced(s, m, k)
    BY <1>3, <2>4, <2>5, <2>6, <2>9 DEF t
  <2>. QED BY <2>7, <2>8, <2>9
<1>7. CASE Replaced(s, m) = {}
  <2>1. OldLastOp(s, m) \in Nat
    BY <1>2, <1>7 DEF OldLastOp
  <2>2. \/ t = s \/ t = Abort(s)
        \/ /\ ~ (LastEntry(m) <= s.lastOp /\ LastEntry(m) <= Len(s.log))
           /\ m.first <= s.lastOp + 1 /\ s.lastOp = Len(s.log) /\ s.lastCommitted <= s.lastOp
           /\ t = Spliced(s, m, s.lastOp + 1)
    BY <1>7 DEF InstallEntries
  <2>. HIDE DEF t
  <2>3. CASE t = s \/ t = Abort(s)
    BY <1>4, <1>5, <2>1, <2>3 DEF t
  <2>4. CASE /\ ~ (LastEntry(m) <= s.lastOp /\ LastEntry(m) <= Len(s.log))
             /\ m.first <= s.lastOp + 1 /\ s.lastOp = Len(s.log) /\ s.lastCommitted <= s.lastOp
             /\ t = Spliced(s, m, s.lastOp + 1)
    <3>1. PICK k : k = s.lastOp + 1
      OBVIOUS
    <3>2. /\ k \in 1 .. Len(s.log) + 1 /\ m.first <= k /\ k <= LastEntry(m)
          /\ s.lastCommitted < k /\ ~ (k <= Len(s.log))
      <4>1. PICK o, n, l : o = LastEntry(m) /\ n = s.lastOp /\ l = Len(s.log)
        OBVIOUS
      <4>2. o \in Int /\ n \in Nat /\ m.first <= n + 1 /\ n = l /\ s.lastCommitted <= n
        BY <1>1, <1>2, <2>4, <4>1
      <4>3. ~ (o <= n /\ o <= l)
        BY <2>4, <4>1
      <4>4. k = n + 1 /\ k <= o
        BY <3>1, <4>1, <4>2, <4>3
      <4>. QED BY <1>2, <4>1, <4>2, <4>4
    <3>. QED BY <1>3, <2>1, <2>4, <3>1, <3>2 DEF t
  <2>. QED BY <2>2, <2>3, <2>4
<1>. QED BY <1>6, <1>7

\* HandleStateTransfer.
LEMMA HandlesStateTransfer ==
    ASSUME Typed, NEW r \in Replicas, ReceiveStateTransfer(r)
    PROVE  DoesHandle(r) /\ UNCHANGED issued
<1>. DEFINE s == rep[r]
<1>1. s \in ReplicaStates /\ ~s.aborted /\ UNCHANGED issued
  BY TypedReplica DEF ReceiveStateTransfer, Idle, Running
<1>2. PICK m \in Received(r, "StateTransfer") : HandleStateTransfer(r, m)
  BY DEF ReceiveStateTransfer
<1>3. m \in Messages /\ m \in msgs /\ m.type = "StateTransfer" /\ m.to = r
  BY NormalMessages
<1>4. m.opnum \in Nat /\ m.view \in Views /\ m.view \in Nat
  BY <1>3 DEF Messages, Views
<1>5. PICK i, old : i = InstallEntries(s, m) /\ old = OldLastOp(s, m)
  OBVIOUS
<1>6. /\ i \in ReplicaStates /\ SameBatches(s, i)
      /\ i.view = s.view /\ i.status = s.status
      /\ i.lastCommitted = s.lastCommitted /\ i.prepareOKs = s.prepareOKs
      /\ \/ i.log = s.log /\ i.lastOp = s.lastOp
         \/ (\E k \in Nat : Takes(s, m, i.log, k)) /\ i.lastOp = LastEntry(m)
      /\ old \in Nat
  BY <1>1, <1>3, <1>5, InstallEntriesFacts
<1>7. PICK e : e = IF m.view > s.view THEN EnterView(i, r, m.view) ELSE i
  OBVIOUS
<1>8. PICK c : c = CommitUpTo(e, m.opnum)
  OBVIOUS
<1>9. /\ m.view >= s.view
      /\ \/ /\ Become(r, Abort(i)) /\ Network({m}, {}) /\ UNCHANGED replies
         \/ /\ m.opnum <= i.lastOp
            /\ Become(r, [SendPrepareOKs(c, old) EXCEPT !.work = c.pending, !.pending = <<>>])
            /\ Network({m}, PrepareOKsFor(c, r, old))
            /\ replies' = replies \cup RepliesTo(e, r, m.opnum)
  <2>1. /\ m.view >= s.view
        /\ \/ /\ Become(r, Abort(i)) /\ Network({m}, {}) /\ UNCHANGED replies
           \/ /\ m.opnum <= i.lastOp
              /\ \E x \in {CommitUpTo(e, m.opnum)} :
                    /\ Become(r, [SendPrepareOKs(x, old) EXCEPT !.work = x.pending,
                                                               !.pending = <<>>])
                    /\ Network({m}, PrepareOKsFor(x, r, old))
              /\ replies' = replies \cup RepliesTo(e, r, m.opnum)
    BY <1>2, <1>5, <1>7 DEF HandleStateTransfer
  <2>. QED BY <1>8, <2>1
<1>10. /\ e \in ReplicaStates /\ SameBatches(i, e)
       /\ e.view = m.view /\ e.log = i.log /\ e.lastOp = i.lastOp
       /\ e.lastCommitted = i.lastCommitted
       /\ IF m.view > s.view THEN e.status = "NORMAL" /\ e.prepareOKs = {}
          ELSE e.status = s.status /\ e.prepareOKs = s.prepareOKs
  <2>1. CASE m.view > s.view
    <3>1. e = EnterView(i, r, m.view)
      BY <1>7, <2>1
    <3>. QED BY <1>4, <1>6, <2>1, <3>1, EnterViewFacts
  <2>2. CASE ~ (m.view > s.view)
    <3>1. e = i
      BY <1>7, <2>2
    <3>2. m.view = s.view
      <4>1. s.view \in Nat
        BY <1>1, StateFields
      <4>. QED BY <1>4, <1>9, <2>2, <4>1
    <3>. QED BY <1>6, <2>2, <3>1, <3>2 DEF SameBatches
  <2>. QED BY <2>1, <2>2
<1>11. /\ c \in ReplicaStates /\ SameBatches(e, c)
       /\ c.view = e.view /\ c.status = e.status /\ c.log = e.log
       /\ c.lastOp = e.lastOp /\ c.prepareOKs = e.prepareOKs
       /\ \/ m.opnum <= e.lastCommitted /\ c = e
          \/ /\ e.lastCommitted < m.opnum
             /\ c.lastCommitted = Min({m.opnum, Len(e.log)})
  BY <1>4, <1>8, <1>10, CommitUpToAny
<1>12. replies' \subseteq ReplyMessages
  <2>1. RepliesTo(e, r, m.opnum) \subseteq ReplyMessages
    BY <1>4, <1>10, RepliesToType
  <2>. QED BY <1>9, <2>1 DEF Typed
<1>13. CASE Become(r, Abort(i)) /\ Network({m}, {})
  <2>1. PICK t : t = Abort(i)
    OBVIOUS
  <2>2. Like(i, t) /\ t.aborted
    BY <1>6, <2>1, LikeAbort
  <2>3. t \in ReplicaStates /\ SameProgress(i, t) /\ SameBatches(i, t)
    BY <2>2 DEF Like
  <2>4. BatchesKept(r, t)
    BY <1>6, <2>3 DEF SameBatches, BatchesKept, KnownBatch, HasBatch
  <2>5. Transfers(r, t)
    BY <1>3, <1>6, <1>9, <2>2, <2>3 DEF Transfers, SameProgress
  <2>6. Become(r, t)
    BY <1>13, <2>1
  <2>. QED BY <1>1, <1>12, <1>13, <2>3, <2>4, <2>5, <2>6, HandlesIntro
<1>14. CASE /\ m.opnum <= i.lastOp
            /\ Become(r, [SendPrepareOKs(c, old) EXCEPT !.work = c.pending, !.pending = <<>>])
            /\ Network({m}, PrepareOKsFor(c, r, old))
  <2>1. PICK u, w, none : u = SendPrepareOKs(c, old) /\ w = c.pending /\ none = <<>>
    OBVIOUS
  <2>2. Like(c, u)
    BY <1>6, <1>11, <2>1, LikeSendPrepareOKs
  <2>3. u \in ReplicaStates /\ SameProgress(c, u) /\ SameBatches(c, u)
    BY <2>2 DEF Like
  <2>4. w \in Seq(Batches) /\ none \in Seq(Batches) /\ Len(none) = 0
    BY <1>11, <2>1, StateFields
  <2>5. PICK t : t = [u EXCEPT !.work = w, !.pending = none]
    OBVIOUS
  <2>6. t \in ReplicaStates
    BY <2>3, <2>4, <2>5 DEF ReplicaStates
  <2>7. /\ SameProgress(u, t) /\ t.lastPrepare = u.lastPrepare /\ t.work = w
        /\ t.pending = none
    BY <2>3, <2>5 DEF ReplicaStates, SameProgress
  <2>8. SameProgress(c, t)
    BY <2>3, <2>7 DEF SameProgress
  <2>9. /\ t.lastPrepare = s.lastPrepare /\ w = s.pending
    BY <1>6, <1>10, <1>11, <2>1, <2>3, <2>7 DEF SameBatches
  <2>10. BatchesKept(r, t)
    <3>1. ~ \E k \in 1 .. Len(none) : TRUE
      BY <2>4
    <3>. QED BY <2>7, <2>9, <3>1 DEF BatchesKept, KnownBatch, HasBatch
  <2>11. Transfers(r, t)
    <3>1. /\ t.view = m.view /\ t.log = i.log /\ t.lastOp = i.lastOp
          /\ m.opnum <= t.lastOp
          /\ IF m.view > s.view THEN t.status = "NORMAL" /\ t.prepareOKs = {}
             ELSE t.status = s.status /\ t.prepareOKs = s.prepareOKs
      BY <1>10, <1>11, <1>14, <2>8 DEF SameProgress
    <3>2. t.lastCommitted = IF m.opnum <= s.lastCommitted THEN s.lastCommitted
                            ELSE Min({m.opnum, Len(t.log)})
      <4>1. e.lastCommitted = s.lastCommitted /\ s.lastCommitted \in Nat
        BY <1>1, <1>6, <1>10, StateFields
      <4>2. t.lastCommitted = c.lastCommitted /\ t.log = e.log
        BY <1>11, <2>8 DEF SameProgress
      <4>3. CASE m.opnum <= e.lastCommitted /\ c = e
        BY <4>1, <4>2, <4>3
      <4>4. CASE /\ e.lastCommitted < m.opnum
                 /\ c.lastCommitted = Min({m.opnum, Len(e.log)})
        <5>1. ~ (m.opnum <= s.lastCommitted)
          BY <1>4, <4>1, <4>4
        <5>. QED BY <4>2, <4>4, <5>1
      <4>. QED BY <1>11, <4>3, <4>4
    <3>3. \/ t.log = s.log /\ t.lastOp = s.lastOp
          \/ (\E k \in Nat : Takes(s, m, t.log, k)) /\ t.lastOp = LastEntry(m)
      BY <1>6, <3>1
    <3>. QED BY <1>3, <1>9, <3>1, <3>2, <3>3 DEF Transfers
  <2>12. \A x \in PrepareOKsFor(c, r, old) : Honest(r, t, x)
    <3>. TAKE x \in PrepareOKsFor(c, r, old)
    <3>1. /\ x \in Messages /\ x.type = "PrepareOK" /\ x.from = r /\ x.view = c.view
          /\ x.to = GetLeaderIndex(c.view) /\ x.opnum <= c.lastOp
      BY <1>6, <1>11, PrepareOKsForFacts
    <3>2. t.view = c.view /\ t.lastOp = c.lastOp
      BY <2>8 DEF SameProgress
    <3>. QED BY <1>3, <3>1, <3>2 DEF Honest
  <2>13. Become(r, t)
    BY <1>14, <2>1, <2>5
  <2>. QED BY <1>1, <1>12, <1>14, <2>6, <2>10, <2>11, <2>12, <2>13, HandlesIntro
<1>. QED BY <1>1, <1>9, <1>13, <1>14

\* Whatever a handler of the normal case does, it is one of the kinds above.
LEMMA NormalStepHandles ==
    ASSUME Typed, NEW r \in Replicas, NormalStep(r)
    PROVE  DoesHandle(r) /\ issued' \in [Clients -> Nat] /\ Settled(r)
<1>1. issued \in [Clients -> Nat]
  BY DEF Typed
<1>2. Settled(r)
  BY DEF NormalStep
<1>3. CASE \E q \in Requests : UpdatesBefore(q) /\ HandleRequest(r, q)
  BY <1>2, <1>3, HandlesRequest
<1>4. CASE BgRepl(r)
  BY <1>1, <1>2, <1>4, HandlesBgRepl
<1>5. CASE ReplayPending(r)
  BY <1>1, <1>2, <1>5, HandlesPrepare
<1>6. CASE Receive(r)
  <2>1. DoesHandle(r) /\ UNCHANGED issued
    BY <1>6, HandlesPrepare, HandlesPrepareOK, HandlesCommit, HandlesRequestStateTransfer,
       HandlesStateTransfer DEF Receive
  <2>. QED BY <1>1, <1>2, <2>1
<1>7. CASE Timer(r)
  BY <1>1, <1>2, <1>7, HandlesTimer
<1>. QED BY <1>3, <1>4, <1>5, <1>6, <1>7 DEF NormalStep

-------------------------------------------------------------------------------
(* Durability logs, and logs that are installed                            *)

\* Among finitely many numbers there is one with exactly c below it.
LEMMA NumberOfRank ==
    ASSUME NEW S, S \subseteq Nat, IsFiniteSet(S), NEW b \in Nat, \A x \in S : x <= b,
           NEW c \in Nat, c < Cardinality(S)
    PROVE  \E k \in S : Cardinality({j \in S : j < k}) = c
<1>. DEFINE Below(k) == {j \in S : j < k}
            High == {k \in S : Cardinality(Below(k)) >= c}
<1>1. ASSUME NEW T, T \subseteq S
      PROVE  IsFiniteSet(T) /\ Cardinality(T) \in Nat
  BY <1>1, FS_Subset, FS_CardinalityType
<1>2. ASSUME NEW T, T \subseteq S, T # {}
      PROVE  \E k \in T : /\ {j \in T : j < k} = T \ {k}
                          /\ Cardinality(T \ {k}) = Cardinality(T) - 1
                          /\ \A j \in T : j <= k
  <2>1. T \subseteq Nat /\ \A x \in T : x <= b
    BY <1>2
  <2>2. PICK k : k = Max(T)
    OBVIOUS
  <2>3. k \in T /\ \A x \in T : x <= k
    BY <1>2, <2>1, <2>2, MaxOfNat
  <2>4. {j \in T : j < k} = T \ {k}
    <3>1. \A j \in T : j < k <=> j # k
      BY <2>1, <2>3
    <3>. QED BY <3>1
  <2>5. Cardinality(T \ {k}) = Cardinality(T) - 1
    BY <1>1, <1>2, <2>3, FS_RemoveElement
  <2>. QED BY <2>3, <2>4, <2>5
<1>3. High # {}
  <2>1. S # {}
    BY FS_EmptySet
  <2>2. PICK k \in S : Below(k) = S \ {k} /\ Cardinality(S \ {k}) = Cardinality(S) - 1
    BY <1>2, <2>1
  <2>3. Cardinality(S) \in Nat
    BY <1>1
  <2>4. Cardinality(Below(k)) >= c
    BY <2>2, <2>3
  <2>. QED BY <2>4
<1>4. PICK k \in High : \A j \in High : k <= j
  <2>1. High \subseteq Nat
    OBVIOUS
  <2>. HIDE DEF High
  <2>. QED BY <1>3, <2>1, LeastNumber
<1>5. Cardinality(Below(k)) \in Nat /\ Cardinality(Below(k)) >= c /\ k \in S
  BY <1>1
<1>6. CASE Cardinality(Below(k)) = c
  BY <1>5, <1>6
<1>7. CASE Cardinality(Below(k)) > c
  <2>1. Below(k) \subseteq S /\ Below(k) # {}
    BY <1>5, <1>7, FS_EmptySet
  <2>2. PICK j \in Below(k) : /\ {i \in Below(k) : i < j} = Below(k) \ {j}
                              /\ Cardinality(Below(k) \ {j}) = Cardinality(Below(k)) - 1
                              /\ \A i \in Below(k) : i <= j
    <3>. HIDE DEF Below
    <3>. QED BY <1>2, <2>1
  <2>3. j \in S /\ j \in Nat /\ k \in Nat /\ j < k
    BY <1>5, <2>2
  <2>4. Below(j) = {i \in Below(k) : i < j}
    <3>1. \A i \in S : i < j => i < k
      BY <2>3
    <3>. QED BY <3>1
  <2>5. Cardinality(Below(j)) = Cardinality(Below(k)) - 1
    BY <2>2, <2>4
  <2>6. Cardinality(Below(j)) >= c
    BY <1>5, <1>7, <2>5
  <2>7. j \in High
    BY <2>3, <2>6
  <2>8. k <= j
    BY <1>4, <2>7
  <2>. QED BY <2>3, <2>8
<1>. QED BY <1>5, <1>6, <1>7

\* Some elements of a sequence.
LEMMA KeepType ==
    ASSUME NEW T, NEW s \in Seq(T), NEW S
    PROVE  Keep(s, S) \in Seq(T)
<1>. DEFINE kept == {k \in 1 .. Len(s) : s[k] \in S}
            Rank(k) == Cardinality({j \in kept : j < k})
<1>1. PICK b : b = Len(s)
  OBVIOUS
<1>2. b \in Nat
  BY <1>1
<1>3. kept \subseteq Nat /\ \A x \in kept : x <= b
  BY <1>1, <1>2
<1>4. IsFiniteSet(kept)
  <2>1. IsFiniteSet(1 .. b)
    BY <1>2, FS_Interval
  <2>2. kept \in SUBSET (1 .. b)
    BY <1>1
  <2>. HIDE DEF kept
  <2>. QED BY <2>1, <2>2, FS_Subset
<1>5. PICK n : n = Cardinality(kept)
  OBVIOUS
<1>6. n \in Nat
  <2>. HIDE DEF kept
  <2>. QED BY <1>4, <1>5, FS_CardinalityType
<1>7. \A k \in kept : s[k] \in T
  BY ElementOfSeq
<1>8. ASSUME NEW i \in 1 .. n
      PROVE  s[CHOOSE k \in kept : Rank(k) = i - 1] \in T
  <2>1. i - 1 \in Nat /\ i - 1 < n
    BY <1>6
  <2>2. \E k \in kept : Rank(k) = i - 1
    <3>. HIDE DEF kept
    <3>. QED BY <1>2, <1>3, <1>4, <1>5, <2>1, NumberOfRank
  <2>. HIDE DEF kept, Rank
  <2>. QED BY <1>7, <2>2
<1>9. Keep(s, S) = [i \in 1 .. n |-> s[CHOOSE k \in kept : Rank(k) = i - 1]]
  BY <1>5 DEF Keep
<1>. HIDE DEF kept, Rank
<1>10. Keep(s, S) \in [1 .. n -> T]
  BY <1>8, <1>9
<1>. QED BY <1>6, <1>10

\* A topological sort returns a sequence of requests.
LEMMA MergedLogsType ==
    ASSUME NEW logs \in [Replicas -> Seq(Requests)], NEW V \in SUBSET Replicas,
           NEW merged \in MergedLogs(logs, V)
    PROVE  merged \in Seq(Requests)
<1>. DEFINE parts == {ToSet(logs[r]) : r \in V}
            f == [r \in V |-> ToSet(logs[r])]
            D == DurabilitySet(logs, V)
<1>1. ASSUME NEW r \in V
      PROVE  IsFiniteSet(ToSet(logs[r])) /\ ToSet(logs[r]) \subseteq Requests
  <2>1. PICK s, n : s = logs[r] /\ n = Len(logs[r])
    OBVIOUS
  <2>2. s \in Seq(Requests) /\ n \in Nat /\ DOMAIN s = 1 .. n
    BY <2>1
  <2>3. ToSet(s) \subseteq Requests
    BY <2>2 DEF ToSet
  <2>4. s \in [1 .. n -> ToSet(s)] /\ \A q \in ToSet(s) : \E i \in 1 .. n : s[i] = q
    BY <2>2 DEF ToSet
  <2>5. s \in Surjection(1 .. n, ToSet(s))
    BY <2>4 DEF Surjection
  <2>6. IsFiniteSet(1 .. n)
    BY <2>2, FS_Interval
  <2>. QED BY <2>1, <2>3, <2>5, <2>6, FS_Surjection
<1>2. IsFiniteSet(parts)
  <2>1. IsFiniteSet(V)
    BY MoreReplicas
  <2>2. f \in Surjection(V, parts)
    BY DEF Surjection
  <2>. HIDE DEF f, parts
  <2>. QED BY <2>1, <2>2, FS_Surjection
<1>3. IsFiniteSet(D)
  <2>1. \A T \in parts : IsFiniteSet(T)
    BY <1>1
  <2>2. D = UNION parts
    BY DEF DurabilitySet
  <2>. HIDE DEF D, parts
  <2>. QED BY <1>2, <2>1, <2>2, FS_UNION
<1>4. D \subseteq Requests
  BY <1>1 DEF DurabilitySet
<1>. HIDE DEF D
<1>5. PICK n : n = Cardinality(D)
  OBVIOUS
<1>6. n \in Nat
  BY <1>3, <1>5, FS_CardinalityType
<1>7. merged \in [1 .. n -> D]
  BY <1>5 DEF MergedLogs, SetToSeqs, D
<1>8. merged \in Seq(D)
  BY <1>6, <1>7
<1>. QED BY <1>4, <1>8

\* Log t is log l up to n, where entries es from operation f on, which l does not agree
\* with, take over.
InstalledAs(l, f, es, n, t) ==
    /\ \A j \in 1 .. Len(t) :
           \/ /\ j <= n /\ t[j] = l[j]
              /\ \A i \in 1 .. Len(es) : j = f + i - 1 => l[j].view = es[i].view
           \/ \E i \in 1 .. Len(es) : j = f + i - 1 /\ t[j] = es[i]
    /\ \/ Len(t) = n /\ f + Len(es) - 1 <= n
       \/ /\ Len(t) = f + Len(es) - 1
          /\ \E i \in 1 .. Len(es) : f + i - 1 > n \/ l[f + i - 1].view # es[i].view

\* RemoveAfter and Install: what is kept of the log, and what takes over.
LEMMA InstallFacts ==
    ASSUME NEW l \in Seq(Entries), NEW lastop \in Nat, NEW f \in Nat, NEW es \in Seq(Entries),
           f > 0, f <= Min({lastop, Len(l)}) + 1
    PROVE  \E n \in Nat : \E t \in Seq(Entries) :
               /\ n = Min({lastop, Len(l)}) /\ n <= Len(l)
               /\ t = Install(l, lastop, f, es)
               /\ InstalledAs(l, f, es, n, t)
<1>. DEFINE kept  == SubSeq(l, 1, Min({lastop, Len(l)}))
            parts == {k \in 1 .. Len(es) : \/ f + k - 1 > Len(kept)
                                           \/ kept[f + k - 1].view # es[k].view}
            t     == Install(l, lastop, f, es)
<1>1. PICK n : n = Min({lastop, Len(l)})
  OBVIOUS
<1>2. PICK c : c = Len(es)
  OBVIOUS
<1>3. n \in Nat /\ n <= Len(l) /\ c \in Nat /\ f <= n + 1 /\ Len(l) \in Nat
  <2>1. Len(l) \in Nat /\ c \in Nat
    BY <1>2
  <2>2. n = IF lastop <= Len(l) THEN lastop ELSE Len(l)
    BY <1>1, <2>1, MinOfTwo
  <2>. QED BY <1>1, <2>1, <2>2
<1>4. /\ kept \in Seq(Entries) /\ Len(kept) = n
      /\ \A j \in 1 .. n : kept[j] = l[j]
  <2>1. \A j \in 1 .. n : l[j] \in Entries
    BY <1>3, ElementOfSeq
  <2>2. /\ SubSeq(l, 1, n) \in Seq(Entries)
        /\ Len(SubSeq(l, 1, n)) = IF 1 <= n THEN n - 1 + 1 ELSE 0
        /\ \A j \in 1 .. n - 1 + 1 : SubSeq(l, 1, n)[j] = l[1 + j - 1]
    BY <1>3, <2>1, SubSeqProperties
  <2>3. \A j \in 1 .. n : SubSeq(l, 1, n)[j] = l[j]
    <3>. TAKE j \in 1 .. n
    <3>1. j \in 1 .. n - 1 + 1 /\ 1 + j - 1 = j
      BY <1>3
    <3>. QED BY <2>2, <3>1
  <2>4. kept = SubSeq(l, 1, n)
    BY <1>1
  <2>5. Len(SubSeq(l, 1, n)) = n
    BY <1>3, <2>2
  <2>. HIDE DEF kept
  <2>. QED BY <2>2, <2>3, <2>4, <2>5
<1>5. t = IF parts = {} THEN kept
          ELSE SubSeq(kept, 1, f + Min(parts) - 2) \o SubSeq(es, Min(parts), Len(es))
  BY DEF Install
<1>. HIDE DEF kept, t
<1>. SUFFICES t \in Seq(Entries) /\ InstalledAs(l, f, es, n, t)
  BY <1>1, <1>3 DEF t
<1>6. CASE parts = {}
  <2>1. t = kept
    BY <1>5, <1>6
  <2>2. f + c - 1 <= n
    <3>1. CASE c = 0
      BY <1>3, <3>1
    <3>2. CASE c # 0
      <4>1. c \in 1 .. Len(es)
        BY <1>2, <1>3, <3>2
      <4>2. ~ (f + c - 1 > Len(kept))
        BY <1>6, <4>1
      <4>. QED BY <1>3, <1>4, <4>2
    <3>. QED BY <3>1, <3>2
  <2>3. Len(t) = n /\ \A j \in 1 .. Len(t) : j <= n /\ t[j] = l[j]
    BY <1>3, <1>4, <2>1
  <2>4. ASSUME NEW j \in 1 .. Len(t), NEW i \in 1 .. Len(es), j = f + i - 1
        PROVE  l[j].view = es[i].view
    <3>1. kept[f + i - 1].view = es[i].view
      BY <1>6
    <3>2. j \in 1 .. n
      BY <1>3, <2>3
    <3>. QED BY <1>4, <2>4, <3>1, <3>2
  <2>5. t \in Seq(Entries)
    BY <1>4, <2>1
  <2>. QED BY <1>2, <2>2, <2>3, <2>4, <2>5 DEF InstalledAs
<1>7. CASE parts # {}
  <2>1. PICK p : p = Min(parts)
    OBVIOUS
  <2>2. p \in parts /\ \A x \in parts : p <= x
    <3>1. parts \subseteq Nat
      OBVIOUS
    <3>. HIDE DEF parts
    <3>. QED BY <1>7, <2>1, <3>1, MinOfNat
  <2>3. p \in 1 .. c /\ p \in Nat /\ (f + p - 1 > n \/ kept[f + p - 1].view # es[p].view)
    BY <1>2, <1>3, <1>4, <2>2
  <2>4. f + p - 2 <= n
    <3>1. CASE p = 1
      BY <1>3, <3>1
    <3>2. CASE p # 1
      <4>1. PICK q : q = p - 1
        OBVIOUS
      <4>2. q \in 1 .. Len(es) /\ q < p /\ q \in Nat
        BY <1>2, <1>3, <2>3, <3>2, <4>1
      <4>3. q \notin parts
        BY <2>2, <2>3, <4>2
      <4>4. ~ (f + q - 1 > Len(kept))
        BY <4>2, <4>3
      <4>. QED BY <1>3, <1>4, <2>3, <4>1, <4>4
    <3>. QED BY <3>1, <3>2
  <2>. HIDE DEF parts
  <2>5. PICK g : g = f + p - 2
    OBVIOUS
  <2>6. g \in Int /\ g <= n /\ g >= -1
    BY <1>3, <2>3, <2>4, <2>5
  <2>7. PICK head, tail : head = SubSeq(kept, 1, g) /\ tail = SubSeq(es, p, Len(es))
    OBVIOUS
  <2>8. t = head \o tail
    BY <1>5, <1>7, <2>1, <2>5, <2>7
  <2>9. /\ head \in Seq(Entries) /\ Len(head) = IF 1 <= g THEN g ELSE 0
        /\ \A j \in 1 .. g : head[j] = l[j]
    <3>1. \A j \in 1 .. g : kept[j] \in Entries
      BY <1>3, <1>4, <2>6, ElementOfSeq
    <3>2. /\ SubSeq(kept, 1, g) \in Seq(Entries)
          /\ Len(SubSeq(kept, 1, g)) = IF 1 <= g THEN g - 1 + 1 ELSE 0
          /\ \A j \in 1 .. g - 1 + 1 : SubSeq(kept, 1, g)[j] = kept[1 + j - 1]
      BY <2>6, <3>1, SubSeqProperties
    <3>3. \A j \in 1 .. g : SubSeq(kept, 1, g)[j] = l[j]
      <4>. TAKE j \in 1 .. g
      <4>1. j \in 1 .. g - 1 + 1 /\ 1 + j - 1 = j /\ j \in 1 .. n
        BY <1>3, <2>6
      <4>2. SubSeq(kept, 1, g)[j] = kept[j]
        BY <3>2, <4>1
      <4>. QED BY <1>4, <4>1, <4>2
    <3>. QED BY <2>6, <2>7, <3>2, <3>3
  <2>10. /\ tail \in Seq(Entries) /\ Len(tail) = c - p + 1
         /\ \A j \in 1 .. c - p + 1 : tail[j] = es[p + j - 1]
    <3>1. p \in Nat \ {0} /\ p <= Len(es)
      BY <1>2, <1>3, <2>3
    <3>. QED BY <1>2, <2>7, <3>1, SuffixFacts
  <2>11. /\ t \in Seq(Entries) /\ Len(t) = Len(head) + Len(tail)
         /\ \A j \in 1 .. Len(head) + Len(tail) :
                t[j] = IF j <= Len(head) THEN head[j] ELSE tail[j - Len(head)]
    BY <2>8, <2>9, <2>10, ConcatProperties
  <2>12. ASSUME f > 0
         PROVE  \E i \in 1 .. Len(es) : f + i - 1 > n \/ l[f + i - 1].view # es[i].view
    <3>1. CASE f + p - 1 > n
      BY <1>2, <2>3, <3>1
    <3>2. CASE f > 0 /\ ~ (f + p - 1 > n)
      <4>1. f + p - 1 \in 1 .. n
        BY <1>3, <2>3, <3>2
      <4>. QED BY <1>2, <1>4, <2>3, <4>1
    <3>. QED BY <2>12, <3>1, <3>2
  <2>13. ASSUME f > 0
         PROVE  /\ Len(t) = f + c - 1
                /\ \A j \in 1 .. Len(t) :
                      \/ /\ j <= n /\ t[j] = l[j]
                         /\ \A i \in 1 .. Len(es) : j = f + i - 1 => l[j].view = es[i].view
                      \/ \E i \in 1 .. Len(es) : j = f + i - 1 /\ t[j] = es[i]
    <3>1. Len(head) = g /\ g \in Nat
      BY <1>3, <2>3, <2>5, <2>6, <2>9, <2>13
    <3>2. Len(t) = f + c - 1
      BY <1>3, <2>3, <2>5, <2>10, <2>11, <3>1, SMTT(20)
    <3>3. ASSUME NEW j \in 1 .. Len(t)
          PROVE  \/ /\ j <= n /\ t[j] = l[j]
                    /\ \A i \in 1 .. Len(es) : j = f + i - 1 => l[j].view = es[i].view
                 \/ \E i \in 1 .. Len(es) : j = f + i - 1 /\ t[j] = es[i]
      <4>1. j \in 1 .. Len(head) + Len(tail)
        BY <2>11
      <4>2. CASE j <= g
        <5>1. j \in 1 .. g /\ j <= n
          BY <1>3, <2>6, <4>1, <4>2
        <5>2. t[j] = l[j]
          BY <2>9, <2>11, <3>1, <4>1, <4>2, <5>1
        <5>3. ASSUME NEW i \in 1 .. Len(es), j = f + i - 1
              PROVE  l[j].view = es[i].view
          <6>1. i < p /\ i \in Nat
            <7>1. i \in Nat /\ p \in Nat /\ f + i - 1 <= g
              BY <1>2, <1>3, <2>3, <4>2, <5>3
            <7>. QED BY <1>3, <2>5, <7>1
          <6>2. i \notin parts
            BY <2>2, <2>3, <6>1
          <6>3. kept[f + i - 1].view = es[i].view
            BY <6>2 DEF parts
          <6>4. j \in 1 .. n
            BY <1>3, <2>6, <4>1, <4>2, <5>1
          <6>. QED BY <1>4, <5>3, <6>3, <6>4
        <5>. QED BY <5>1, <5>2, <5>3
      <4>3. CASE ~ (j <= g)
        <5>1. PICK i : i = p + (j - g) - 1
          OBVIOUS
        <5>2. j - g \in 1 .. c - p + 1 /\ i \in 1 .. c /\ j = f + i - 1
          BY <1>3, <2>3, <2>5, <2>10, <3>1, <4>1, <4>3, <5>1
        <5>3. t[j] = es[i]
          BY <2>10, <2>11, <3>1, <4>1, <4>3, <5>1, <5>2
        <5>. QED BY <1>2, <5>2, <5>3
      <4>. QED BY <4>2, <4>3
    <3>. QED BY <3>2, <3>3
  <2>. QED BY <1>2, <1>3, <2>11, <2>12, <2>13 DEF InstalledAs
<1>. QED BY <1>6, <1>7

-------------------------------------------------------------------------------
(* What a handler of a view change may do                                  *)

\* Message m carries a piece of log l.
PartOf(m, l) ==
    /\ m.first > 0
    /\ \A i \in 1 .. Len(m.entries) :
           m.first + i - 1 \in 1 .. Len(l) /\ m.entries[i] = l[m.first + i - 1]

\* What replica r tells the others when a view change makes it t.
Announces(r, t, m) ==
    /\ m \in Messages \cup ViewChangeMessages
    /\ m.type \in {"StartViewChange", "DoViewChange", "StartView", "PrepareOK"}
    /\ Located(m)
    /\ m.type # "PrepareOK" => m.view = t.view
    /\ m.type \in {"DoViewChange", "StartView"} => PartOf(m, t.log)

\* Entry j of log l is that of a message of the change to view v.
Brought(r, v, l, j) ==
    \E m \in msgs \cup ballots[r] :
        /\ m \in ViewChangeMessages /\ m.type \in {"DoViewChange", "StartView"}
        /\ m.view = v
        /\ \E i \in 1 .. Len(m.entries) : j = m.first + i - 1 /\ l[j] = m.entries[i]

\* View v is that of replica r, one that a timeout enters, or that of a message.
Moves(r, v) ==
    \/ v = rep[r].view
    \/ v <= MaxView
    \/ \E m \in msgs : m \in ViewChangeMessages /\ m.view = v

\* A handler of a view change: replica r becomes t and sends messages.  It moves to a
\* newer view, or enters the one it is changing to, or fails; its log keeps entries,
\* takes those of messages, and gets new ones if it becomes a leader.
Changes(r, t, sent) ==
    LET s == rep[r] IN
    /\ t \in ReplicaStates
    /\ rep' = [rep EXCEPT ![r] = t]
    /\ msgs' \subseteq msgs \cup sent
    /\ replies' \subseteq ReplyMessages
    /\ ~s.aborted
    /\ SameBatches(s, t)
    /\ Moves(r, t.view)
    /\ \A m \in sent : Announces(r, t, m)
    /\ \A p \in Replicas : \A m \in ballots'[p] : m \in ballots[p] \/ m \in msgs
    /\ \/ SameProgress(s, t) /\ t.aborted
       \/ /\ t.view > s.view \/ (t.view = s.view /\ s.status # "NORMAL")
          /\ \A j \in 1 .. Len(t.log) :
                 \/ j <= Len(s.log) /\ t.log[j] = s.log[j]
                 \/ Brought(r, t.view, t.log, j)
                 \/ AmLeader(t, r) /\ t.status = "NORMAL" /\ t.log[j].view = t.view

DoesChange(r) == \E t, sent : Changes(r, t, sent)

\* The variables of the other parts keep their types.
OthersTyped ==
    /\ issued' \in [Clients -> Nat]
    /\ ballots' \in [Replicas -> SUBSET ViewChangeMessages]
    /\ \A p \in Replicas : \A m \in ballots'[p] : Located(m)
    /\ dur' \in [Replicas -> Seq(Requests)]
    /\ told' \in [Replicas -> [view : Views, status : Statuses]]
    /\ acks' \subseteq [req : Requests, from : Replicas, view : Views]

\* A message of a view change is one of ViewChangeMessages.
LEMMA ChangeMessages ==
    ASSUME Typed, NEW r, NEW type, NEW m \in Received(r, type),
           type \in {"StartViewChange", "DoViewChange", "StartView"}
    PROVE  /\ m \in ViewChangeMessages /\ m \in msgs /\ m.type = type /\ m.to = r
           /\ m.view \in Views /\ m.view \in Nat /\ m.lastCommitted \in Nat /\ Located(m)
           /\ type \in {"StartViewChange", "DoViewChange"} => m.from \in Replicas
           /\ type \in {"DoViewChange", "StartView"} =>
                  /\ m.lastOp \in Nat /\ m.first \in Nat /\ m.entries \in Seq(Entries)
<1>1. m \in AllMessages /\ m \in msgs /\ m.type = type /\ m.to = r /\ Located(m)
  BY DEF Typed, Received
<1>2. m \notin Messages /\ m \notin RecoveryMessages
  BY <1>1 DEF Messages, RecoveryMessages
<1>3. m \in ViewChangeMessages
  BY <1>1, <1>2 DEF AllMessages
<1>4. m.view \in Views /\ m.view \in Nat /\ m.lastCommitted \in Nat
  BY <1>3 DEF ViewChangeMessages, Views
<1>5. type \in {"StartViewChange", "DoViewChange"} => m.from \in Replicas
  BY <1>1, <1>3 DEF ViewChangeMessages
<1>6. type \in {"DoViewChange", "StartView"} =>
          m.lastOp \in Nat /\ m.first \in Nat /\ m.entries \in Seq(Entries)
  BY <1>1, <1>3 DEF ViewChangeMessages
<1>. QED BY <1>1, <1>3, <1>4, <1>5, <1>6

\* The fields of a DOVIEWCHANGE.
LEMMA DoViewChangeFields ==
    ASSUME NEW m \in ViewChangeMessages, m.type = "DoViewChange"
    PROVE  /\ m.from \in Replicas /\ m.view \in Views /\ m.lastNormalView \in Views
           /\ m.lastOp \in Nat /\ m.lastCommitted \in Nat /\ m.first \in Nat
           /\ m.entries \in Seq(Entries) /\ m.durlog \in Seq(Requests)
BY DEF ViewChangeMessages

\* The update of the ballots, the durability log and what its server is told.
LEMMA SettleType ==
    ASSUME Typed, NEW r \in Replicas, rep' \in [Replicas -> ReplicaStates],
           NEW votes, votes \subseteq ViewChangeMessages, \A m \in votes : Located(m),
           NEW log \in Seq(Requests), Settle(r, votes, log), issued' \in [Clients -> Nat]
    PROVE  /\ OthersTyped
           /\ \A p \in Replicas : \A m \in ballots'[p] :
                  IF p = r THEN m \in votes ELSE m \in ballots[p]
<1>1. PICK kept : kept = IF rep'[r].status = "VIEW_CHANGE"
                         THEN {m \in votes : m.view = rep'[r].view} ELSE {}
  OBVIOUS
<1>2. kept \subseteq votes
  BY <1>1
<1>3. ballots' = [ballots EXCEPT ![r] = kept]
  BY <1>1 DEF Settle
<1>4. ballots \in [Replicas -> SUBSET ViewChangeMessages]
      /\ \A p \in Replicas : \A m \in ballots[p] : Located(m)
  BY DEF Typed
<1>5. \A p \in Replicas : \A m \in ballots'[p] : IF p = r THEN m \in votes ELSE m \in ballots[p]
  BY <1>2, <1>3, <1>4
<1>6. ballots' \in [Replicas -> SUBSET ViewChangeMessages]
  BY <1>2, <1>3, <1>4
<1>7. \A p \in Replicas : \A m \in ballots'[p] : Located(m)
  BY <1>4, <1>5
<1>8. dur' \in [Replicas -> Seq(Requests)]
  <2>1. PICK d : d = EraseExecuted(log, r)
    OBVIOUS
  <2>2. d \in Seq(Requests)
    BY <2>1, KeepType DEF EraseExecuted
  <2>3. dur' = [dur EXCEPT ![r] = d]
    BY <2>1 DEF Settle
  <2>. QED BY <2>2, <2>3 DEF Typed
<1>9. told' \in [Replicas -> [view : Views, status : Statuses]]
  <2>1. PICK x : x = [view |-> rep'[r].view, status |-> rep'[r].status]
    OBVIOUS
  <2>2. rep'[r] \in ReplicaStates
    OBVIOUS
  <2>3. x \in [view : Views, status : Statuses]
    BY <2>1, <2>2 DEF ReplicaStates
  <2>4. told' = told \/ told' = [told EXCEPT ![r] = x]
    BY <2>1 DEF Settle, Inform
  <2>. QED BY <2>3, <2>4 DEF Typed
<1>10. acks' \subseteq [req : Requests, from : Replicas, view : Views]
  BY DEF Settle, Typed
<1>. QED BY <1>5, <1>6, <1>7, <1>8, <1>9, <1>10 DEF OthersTyped

\* StartViewChange only changes the view, the status and the timers.
LEMMA StartViewChangeFacts ==
    ASSUME NEW s \in ReplicaStates, NEW v \in Views
    PROVE  LET t == StartViewChange(s, v)
           IN  /\ t \in ReplicaStates /\ SameBatches(s, t)
               /\ t.view = v /\ t.status = "VIEW_CHANGE"
               /\ t.log = s.log /\ t.lastOp = s.lastOp /\ t.lastCommitted = s.lastCommitted
               /\ t.prepareOKs = s.prepareOKs /\ t.aborted = s.aborted
<1>1. PICK ts, status : /\ ts = (s.timers \cup {"viewChange"})
                                   \ {"nullCommit", "resendPrepare", "closeBatch", "bgRepl"}
                        /\ status = "VIEW_CHANGE"
  OBVIOUS
<1>2. ts \in SUBSET Timers /\ status \in Statuses
  BY <1>1, StateFields DEF Timers, Statuses
<1>3. PICK t : t = StartViewChange(s, v)
  OBVIOUS
<1>4. t = [s EXCEPT !.view = v, !.status = status, !.timers = ts]
  BY <1>1, <1>3 DEF StartViewChange
<1>5. t \in ReplicaStates
  BY <1>2, <1>4 DEF ReplicaStates
<1>6. /\ SameBatches(s, t) /\ t.view = v /\ t.status = status
      /\ t.log = s.log /\ t.lastOp = s.lastOp /\ t.lastCommitted = s.lastCommitted
      /\ t.prepareOKs = s.prepareOKs /\ t.aborted = s.aborted
  BY <1>4 DEF ReplicaStates, SameBatches
<1>. QED BY <1>1, <1>3, <1>5, <1>6

\* A replica that does not ignore a message of a view change joins it.
LEMMA JoinedFacts ==
    ASSUME NEW s \in ReplicaStates, NEW m, m.view \in Views, Concerns(m, s), NEW r \in Replicas
    PROVE  LET t == Joined(s, m)
           IN  /\ t \in ReplicaStates /\ SameBatches(s, t)
               /\ t.view = m.view /\ t.status = "VIEW_CHANGE"
               /\ t.log = s.log /\ t.lastOp = s.lastOp /\ t.lastCommitted = s.lastCommitted
               /\ t.prepareOKs = s.prepareOKs /\ t.aborted = s.aborted
               /\ t.view > s.view \/ (t.view = s.view /\ s.status # "NORMAL")
               /\ \A x \in JoiningMessages(s, r, m) :
                      /\ x \in ViewChangeMessages /\ x.type = "StartViewChange"
                      /\ x.view = m.view
<1>. DEFINE t == Joined(s, m)
<1>1. CASE m.view > s.view
  <2>1. t = StartViewChange(s, m.view)
    BY <1>1 DEF Joined
  <2>2. /\ t \in ReplicaStates /\ SameBatches(s, t)
        /\ t.view = m.view /\ t.status = "VIEW_CHANGE"
        /\ t.log = s.log /\ t.lastOp = s.lastOp /\ t.lastCommitted = s.lastCommitted
        /\ t.prepareOKs = s.prepareOKs /\ t.aborted = s.aborted
    BY <2>1, StartViewChangeFacts
  <2>. HIDE DEF t
  <2>3. t.view \in Views /\ t.lastCommitted \in Nat
    BY <2>2 DEF ReplicaStates
  <2>4. \A x \in StartViewChangeMessages(t, r) :
            /\ x \in ViewChangeMessages /\ x.type = "StartViewChange"
            /\ x.view = t.view
    BY <2>3 DEF StartViewChangeMessages, ViewChangeMessages
  <2>. QED BY <1>1, <2>2, <2>4 DEF JoiningMessages, t
<1>2. CASE ~ (m.view > s.view)
  <2>1. t = s /\ JoiningMessages(s, r, m) = {}
    BY <1>2 DEF Joined, JoiningMessages
  <2>2. m.view = s.view /\ s.status = "VIEW_CHANGE"
    BY <1>2 DEF Concerns
  <2>. QED BY <2>1, <2>2 DEF SameBatches
<1>. QED BY <1>1, <1>2

\* Ballots of the view of the message.
LEMMA BallotsFacts ==
    ASSUME Typed, NEW r \in Replicas, NEW m \in msgs, m \in ViewChangeMessages
    PROVE  /\ Ballots(r, m) \subseteq ViewChangeMessages
           /\ \A x \in Ballots(r, m) : /\ Located(x) /\ x.view = m.view
                                       /\ x \in ballots[r] \/ x \in msgs
           /\ m \in Ballots(r, m)
BY DEF Typed, Ballots

\* The smallest of what the messages say is executed.
LEMMA LeastCommittedType ==
    ASSUME NEW votes, votes \subseteq ViewChangeMessages, votes # {}, 
           \A m \in votes : m.lastCommitted \in Nat
    PROVE  LeastCommitted(votes) \in Nat
<1>. DEFINE S == {m.lastCommitted : m \in votes}
<1>1. S \subseteq Nat /\ S # {}
  OBVIOUS
<1>. HIDE DEF S
<1>2. Min(S) \in Nat
  BY <1>1, MinOfNat
<1>. QED BY <1>2 DEF LeastCommitted, S

\* The dump of a log from an opnum.
LEMMA DumpFacts ==
    ASSUME NEW l \in Seq(Entries), NEW k \in Nat
    PROVE  LET f  == DumpFrom(k)
               es == SubSeq(l, f, Len(l))
           IN  /\ f \in Nat /\ f > 0 /\ es \in Seq(Entries)
               /\ \A i \in 1 .. Len(es) : f + i - 1 \in 1 .. Len(l) /\ es[i] = l[f + i - 1]
<1>1. PICK f : f = DumpFrom(k)
  OBVIOUS
<1>2. f \in Nat \ {0}
  BY <1>1, MaxOfTwo DEF DumpFrom
<1>3. PICK n : n = Len(l)
  OBVIOUS
<1>4. n \in Nat
  BY <1>3
<1>5. PICK es : es = SubSeq(l, f, Len(l))
  OBVIOUS
<1>6. /\ es \in Seq(Entries) /\ Len(es) = IF f <= n THEN n - f + 1 ELSE 0
      /\ \A i \in 1 .. n - f + 1 : es[i] = l[f + i - 1]
  BY <1>2, <1>3, <1>5, SuffixFacts
<1>7. ASSUME NEW i \in 1 .. Len(es)
      PROVE  f + i - 1 \in 1 .. n /\ es[i] = l[f + i - 1]
  <2>1. i \in 1 .. n - f + 1
    BY <1>2, <1>4, <1>6
  <2>. QED BY <1>2, <1>4, <1>6, <2>1
<1>. QED BY <1>1, <1>2, <1>3, <1>5, <1>6, <1>7


-------------------------------------------------------------------------------
(* The handlers of a view change                                           *)

\* A handler of a view change that keeps the log of its replica, and announces a
\* change to a newer view.
LEMMA ChangesQuietly ==
    ASSUME Typed, NEW r \in Replicas, ~rep[r].aborted, NEW t \in ReplicaStates,
           SameBatches(rep[r], t), t.log = rep[r].log,
           t.view > rep[r].view \/ (t.view = rep[r].view /\ rep[r].status # "NORMAL"),
           Moves(r, t.view), NEW sent, NEW gone, Become(r, t), Network(gone, sent),
           \A m \in sent : Announces(r, t, m), replies' \subseteq ReplyMessages,
           NEW votes, votes \subseteq ViewChangeMessages, \A m \in votes : Located(m),
           \A m \in votes : m \in ballots[r] \/ m \in msgs,
           Settle(r, votes, dur[r]), UNCHANGED issued
    PROVE  DoesChange(r) /\ OthersTyped
<1>1. rep' = [rep EXCEPT ![r] = t] /\ msgs' \subseteq msgs \cup sent
  BY DEF Become, Network
<1>2. rep' \in [Replicas -> ReplicaStates] /\ dur[r] \in Seq(Requests)
      /\ issued' \in [Clients -> Nat]
  BY <1>1 DEF Typed
<1>3. /\ OthersTyped
      /\ \A p \in Replicas : \A m \in ballots'[p] :
             IF p = r THEN m \in votes ELSE m \in ballots[p]
  BY <1>2, SettleType
<1>4. \A p \in Replicas : \A m \in ballots'[p] : m \in ballots[p] \/ m \in msgs
  BY <1>3
<1>5. Changes(r, t, sent)
  BY <1>1, <1>4 DEF Changes
<1>. QED BY <1>3, <1>5 DEF DoesChange

\* A STARTVIEWCHANGE.
LEMMA AnnouncesStart ==
    ASSUME NEW r, NEW t, NEW m \in ViewChangeMessages, m.type = "StartViewChange",
           m.view = t.view
    PROVE  Announces(r, t, m)
BY DEF Announces, Located

\* The viewChangeTimeout.
LEMMA ChangesTimeout ==
    ASSUME Typed, NEW r \in Replicas, ViewChangeTimeout(r)
    PROVE  DoesChange(r) /\ OthersTyped
<1>1. rep[r] \in ReplicaStates /\ ~rep[r].aborted
  BY TypedReplica DEF ViewChangeTimeout, Idle, Running
<1>2. PICK v : v = rep[r].view + 1
  OBVIOUS
<1>3. v \in Views /\ v > rep[r].view
  BY <1>1, <1>2, StateFields DEF Views
<1>4. PICK t : t = StartViewChange(rep[r], v)
  OBVIOUS
<1>5. /\ t \in ReplicaStates /\ SameBatches(rep[r], t) /\ t.view = v /\ t.log = rep[r].log
  BY <1>1, <1>3, <1>4, StartViewChangeFacts
<1>6. Become(r, t) /\ Network({}, StartViewChangeMessages(t, r)) /\ Settle(r, {}, dur[r])
      /\ UNCHANGED <<replies, issued>>
  BY <1>2, <1>4 DEF ViewChangeTimeout
<1>7. t.view \in Views /\ t.lastCommitted \in Nat
  BY <1>5 DEF ReplicaStates
<1>8. \A m \in StartViewChangeMessages(t, r) : Announces(r, t, m)
  <2>1. \A m \in StartViewChangeMessages(t, r) :
            m \in ViewChangeMessages /\ m.type = "StartViewChange" /\ m.view = t.view
    BY <1>7 DEF StartViewChangeMessages, ViewChangeMessages
  <2>. QED BY <2>1, AnnouncesStart
<1>9. replies' \subseteq ReplyMessages
  BY <1>6 DEF Typed
<1>10. PICK sent, gone : sent = StartViewChangeMessages(t, r) /\ gone = {}
  OBVIOUS
<1>11. /\ Network(gone, sent) /\ \A m \in sent : Announces(r, t, m)
       /\ t.view > rep[r].view \/ (t.view = rep[r].view /\ rep[r].status # "NORMAL")
       /\ Settle(r, gone, dur[r]) /\ gone \subseteq ViewChangeMessages
       /\ \A m \in gone : Located(m) /\ (m \in ballots[r] \/ m \in msgs)
  BY <1>3, <1>5, <1>6, <1>8, <1>10
<1>12. Moves(r, t.view)
  <2>1. rep[r].view < MaxView /\ rep[r].view \in Nat /\ MaxView \in Nat
    BY <1>1, StateFields, ViewChangeAssumption DEF ViewChangeTimeout
  <2>. QED BY <1>2, <1>5, <2>1 DEF Moves
<1>. QED BY <1>1, <1>5, <1>6, <1>9, <1>11, <1>12, ChangesQuietly

\* The last view of a log.
LEMMA LastEntryViewType ==
    ASSUME NEW l \in Seq(Entries)
    PROVE  LastEntryView(l) \in Views /\ LastEntryView(l) \in Nat
<1>1. CASE l = <<>>
  BY <1>1 DEF LastEntryView, Views
<1>2. CASE l # <<>>
  <2>1. Len(l) \in 1 .. Len(l)
    BY <1>2
  <2>2. l[Len(l)] \in Entries
    BY <2>1, ElementOfSeq
  <2>. QED BY <1>2, <2>2 DEF LastEntryView, Entries, Views
<1>. QED BY <1>1, <1>2

\* A DOVIEWCHANGE tells the leader of the view what the replica has.
LEMMA DoViewChangeAnnounced ==
    ASSUME Typed, NEW r \in Replicas, NEW s \in ReplicaStates,
           NEW votes, votes \subseteq ViewChangeMessages, votes # {},
           \A m \in votes : m.lastCommitted \in Nat
    PROVE  Announces(r, s, DoViewChange(s, r, votes))
<1>1. /\ s.view \in Views /\ s.log \in Seq(Entries) /\ s.lastOp \in Nat
      /\ s.lastCommitted \in Nat
  BY DEF ReplicaStates
<1>2. PICK k, f, es : /\ k = Min({LeastCommitted(votes), s.lastCommitted})
                      /\ f = DumpFrom(k)
                      /\ es = SubSeq(s.log, f, Len(s.log))
  OBVIOUS
<1>3. k \in Nat
  <2>1. LeastCommitted(votes) \in Nat
    BY LeastCommittedType
  <2>. QED BY <1>1, <1>2, <2>1, MinOfTwo
<1>4. /\ f \in Nat /\ f > 0 /\ es \in Seq(Entries)
      /\ \A i \in 1 .. Len(es) : f + i - 1 \in 1 .. Len(s.log) /\ es[i] = s.log[f + i - 1]
  BY <1>1, <1>2, <1>3, DumpFacts
<1>5. PICK to, v, d : to = GetLeaderIndex(s.view) /\ v = LastEntryView(s.log) /\ d = dur[r]
  OBVIOUS
<1>6. to \in Replicas /\ v \in Views /\ d \in Seq(Requests)
  BY <1>1, <1>5, LeaderType, LastEntryViewType DEF Typed
<1>7. PICK m : m = DoViewChange(s, r, votes)
  OBVIOUS
<1>8. m = [type |-> "DoViewChange", to |-> to, from |-> r, view |-> s.view,
           lastNormalView |-> v, lastOp |-> s.lastOp, lastCommitted |-> s.lastCommitted,
           first |-> f, entries |-> es, durlog |-> d]
  BY <1>2, <1>5, <1>7 DEF DoViewChange
<1>9. m \in ViewChangeMessages
  BY <1>1, <1>4, <1>6, <1>8 DEF ViewChangeMessages
<1>10. /\ m.type = "DoViewChange" /\ m.to = GetLeaderIndex(m.view) /\ m.view = s.view
       /\ m.first = f /\ m.entries = es
  BY <1>5, <1>8
<1>11. PartOf(m, s.log) /\ Located(m)
  BY <1>4, <1>10 DEF PartOf, Located
<1>. QED BY <1>7, <1>9, <1>10, <1>11 DEF Announces

\* Something counted is something.
LEMMA CountedNonempty ==
    ASSUME NEW S, Cardinality(S) >= QuorumSize - 1
    PROVE  S # {}
<1>1. Cardinality({}) = 0 /\ F \in Nat \ {0}
  BY FS_EmptySet, ConfigAssumption
<1>. QED BY <1>1 DEF QuorumSize

\* A STARTVIEWCHANGE of another replica.
LEMMA ChangesStartViewChange ==
    ASSUME Typed, NEW r \in Replicas, ReceiveStartViewChange(r)
    PROVE  DoesChange(r) /\ OthersTyped
<1>1. rep[r] \in ReplicaStates /\ ~rep[r].aborted
  BY TypedReplica DEF ReceiveStartViewChange, Idle, Running
<1>2. PICK m \in Received(r, "StartViewChange") : HandleStartViewChange(r, m)
  BY DEF ReceiveStartViewChange
<1>3. m \in ViewChangeMessages /\ m \in msgs /\ m.view \in Views
  BY <1>2, ChangeMessages
<1>4. PICK s, votes, svcs, joining :
          /\ s = Joined(rep[r], m) /\ votes = Ballots(r, m)
          /\ svcs = OfType(votes, "StartViewChange")
          /\ joining = JoiningMessages(rep[r], r, m)
  OBVIOUS
<1>5. PICK sent : sent = joining \cup IF SendsDoViewChange(s, r, svcs)
                                      THEN {DoViewChange(s, r, svcs)} ELSE {}
  OBVIOUS
<1>6. /\ Concerns(m, rep[r]) /\ Become(r, s) /\ Network({m}, sent)
      /\ Settle(r, votes, dur[r]) /\ UNCHANGED <<replies, issued>>
  BY <1>2, <1>4, <1>5 DEF HandleStartViewChange, ReceiveStartViewChange
<1>7. /\ s \in ReplicaStates /\ SameBatches(rep[r], s) /\ s.log = rep[r].log
      /\ s.view = m.view
      /\ s.view > rep[r].view \/ (s.view = rep[r].view /\ rep[r].status # "NORMAL")
      /\ \A x \in joining : /\ x \in ViewChangeMessages /\ x.type = "StartViewChange"
                            /\ x.view = m.view
  BY <1>1, <1>3, <1>4, <1>6, JoinedFacts
<1>8. /\ votes \subseteq ViewChangeMessages
      /\ \A x \in votes : Located(x) /\ (x \in ballots[r] \/ x \in msgs)
  BY <1>3, <1>4, BallotsFacts
<1>9. \A x \in sent : Announces(r, s, x)
  <2>1. \A x \in joining : Announces(r, s, x)
    BY <1>7, AnnouncesStart
  <2>2. CASE SendsDoViewChange(s, r, svcs)
    <3>1. Cardinality(svcs) >= QuorumSize - 1
      BY <2>2 DEF SendsDoViewChange
    <3>2. svcs # {} /\ svcs \subseteq ViewChangeMessages
      BY <1>4, <1>8, <3>1, CountedNonempty DEF OfType
    <3>3. \A x \in svcs : x.lastCommitted \in Nat
      BY <3>2 DEF ViewChangeMessages
    <3>4. Announces(r, s, DoViewChange(s, r, svcs))
      BY <1>7, <3>2, <3>3, DoViewChangeAnnounced
    <3>. QED BY <1>5, <2>1, <3>4
  <2>3. CASE ~SendsDoViewChange(s, r, svcs)
    BY <1>5, <2>1, <2>3
  <2>. QED BY <2>2, <2>3
<1>10. replies' \subseteq ReplyMessages
  BY <1>6 DEF Typed
<1>11. Moves(r, s.view)
  BY <1>3, <1>7 DEF Moves
<1>. QED BY <1>1, <1>6, <1>7, <1>8, <1>9, <1>10, <1>11, ChangesQuietly

\* The log of a message is installed, or the replica fails.
LEMMA InstalledFacts ==
    ASSUME NEW s \in ReplicaStates, ~s.aborted, NEW x, NEW m, Located(x),
           x.type \in {"DoViewChange", "StartView"}, x.lastOp \in Nat, x.first \in Nat,
           x.entries \in Seq(Entries)
    PROVE  LET t == Installed(s, x, m)
           IN  /\ t \in ReplicaStates /\ SameBatches(s, t)
               /\ t.view = s.view /\ t.status = s.status /\ t.lastOp = s.lastOp
               /\ t.lastCommitted = s.lastCommitted /\ t.prepareOKs = s.prepareOKs
               /\ t.aborted => t = Abort(s)
               /\ \A j \in 1 .. Len(t.log) :
                      \/ j <= Len(s.log) /\ t.log[j] = s.log[j]
                      \/ \E i \in 1 .. Len(x.entries) :
                             j = x.first + i - 1 /\ t.log[j] = x.entries[i]
<1>. DEFINE t == Installed(s, x, m)
<1>1. s.log \in Seq(Entries) /\ s.lastCommitted \in Nat /\ Len(s.log) \in Nat /\ x.first > 0
  BY DEF ReplicaStates, Located
<1>2. CASE t = s
  <2>. HIDE DEF t
  <2>1. \A j \in 1 .. Len(t.log) : j <= Len(s.log)
    BY <1>1, <1>2
  <2>2. SameBatches(s, t)
    BY <1>2 DEF SameBatches
  <2>3. /\ t \in ReplicaStates /\ t.view = s.view /\ t.status = s.status /\ t.lastOp = s.lastOp
        /\ t.lastCommitted = s.lastCommitted /\ t.prepareOKs = s.prepareOKs /\ t.log = s.log
        /\ ~t.aborted
    BY <1>2
  <2>. QED BY <2>1, <2>2, <2>3 DEF t
<1>3. CASE t = Abort(s)
  <2>. HIDE DEF t
  <2>1. Like(s, t)
    BY <1>3, LikeAbort
  <2>2. /\ t \in ReplicaStates /\ SameBatches(s, t) /\ t.view = s.view
        /\ t.status = s.status /\ t.lastOp = s.lastOp /\ t.log = s.log
        /\ t.lastCommitted = s.lastCommitted /\ t.prepareOKs = s.prepareOKs
    BY <2>1 DEF Like, SameProgress
  <2>3. \A j \in 1 .. Len(t.log) : j <= Len(s.log)
    BY <1>1, <2>2
  <2>. QED BY <1>3, <2>2, <2>3 DEF t
<1>4. CASE t # s /\ t # Abort(s)
  <2>1. ~LeavesGap(s, x) /\ t = [s EXCEPT !.log = Install(@, x.lastOp, x.first, x.entries)]
    <3>. HIDE DEF t
    <3>1. t = IF x.entries = <<>>
              THEN IF s.lastCommitted = m.lastCommitted /\ m.lastOp = m.lastCommitted THEN s
                   ELSE Abort(s)
              ELSE IF TooFewEntries(s, x) \/ LeavesGap(s, x) THEN Abort(s)
              ELSE [s EXCEPT !.log = Install(@, x.lastOp, x.first, x.entries)]
      BY DEF t, Installed
    <3>. QED BY <1>4, <3>1
  <2>. HIDE DEF t
  <2>2. x.first <= Min({x.lastOp, Len(s.log)}) + 1
    <3>1. Min({x.lastOp, Len(s.log)}) \in Nat
      BY <1>1, MinOfTwo
    <3>. QED BY <2>1, <3>1 DEF LeavesGap
  <2>3. PICK b, o, f, es : b = s.log /\ o = x.lastOp /\ f = x.first /\ es = x.entries
    OBVIOUS
  <2>4. \E n \in Nat : \E l \in Seq(Entries) :
            /\ n = Min({o, Len(b)}) /\ n <= Len(b)
            /\ l = Install(b, o, f, es)
            /\ InstalledAs(b, f, es, n, l)
    <3>1. /\ b \in Seq(Entries) /\ o \in Nat /\ f \in Nat /\ es \in Seq(Entries)
          /\ f > 0 /\ f <= Min({o, Len(b)}) + 1
      BY <1>1, <2>2, <2>3
    <3>. QED BY <3>1, InstallFacts, Zenon
  <2>5. PICK n \in Nat, l \in Seq(Entries) :
            /\ n = Min({o, Len(b)}) /\ n <= Len(b)
            /\ l = Install(b, o, f, es)
            /\ InstalledAs(b, f, es, n, l)
    BY <2>4, Zenon
  <2>6. t = [s EXCEPT !.log = l]
    BY <2>1, <2>3, <2>5
  <2>7. t \in ReplicaStates
    BY <2>5, <2>6 DEF ReplicaStates
  <2>8. /\ SameBatches(s, t) /\ t.view = s.view /\ t.status = s.status /\ t.lastOp = s.lastOp
        /\ t.lastCommitted = s.lastCommitted /\ t.prepareOKs = s.prepareOKs
        /\ t.log = l /\ t.aborted = s.aborted
    BY <2>6 DEF ReplicaStates, SameBatches
  <2>9. \A j \in 1 .. Len(l) : j <= n => j <= Len(s.log)
    BY <1>1, <2>3, <2>5
  <2>10. \A j \in 1 .. Len(l) :
             \/ j <= Len(s.log) /\ l[j] = s.log[j]
             \/ \E i \in 1 .. Len(x.entries) : j = x.first + i - 1 /\ l[j] = x.entries[i]
    <3>1. \A j \in 1 .. Len(l) :
              \/ j <= Len(b) /\ l[j] = b[j]
              \/ \E i \in 1 .. Len(es) : j = f + i - 1 /\ l[j] = es[i]
      BY <2>3, <2>5, <2>9 DEF InstalledAs
    <3>. QED BY <2>3, <3>1
  <2>11. ~t.aborted
    BY <2>8
  <2>. QED BY <2>7, <2>8, <2>10, <2>11 DEF t
<1>. QED BY <1>2, <1>3, <1>4

\* Entries of the new leader's view are added for the durability log.
LEMMA AddDurableFacts ==
    ASSUME NEW s \in ReplicaStates, NEW qs \in Seq(Requests)
    PROVE  LET t == AddDurable(s, qs)
           IN  /\ t \in ReplicaStates /\ SameBatches(s, t)
               /\ t.view = s.view /\ t.status = s.status
               /\ t.lastCommitted = s.lastCommitted /\ t.prepareOKs = s.prepareOKs
               /\ \A j \in 1 .. Len(t.log) :
                      \/ j <= Len(s.log) /\ t.log[j] = s.log[j]
                      \/ t.log[j].view = s.view
<1>1. /\ s.log \in Seq(Entries) /\ Len(s.log) \in Nat /\ s.lastOp \in Nat /\ s.view \in Views
      /\ s.clientTable \in Tables /\ Len(qs) \in Nat
  <2>1. s.view \in Views
    BY DEF ReplicaStates
  <2>. QED BY <2>1, StateFields
<1>2. CASE qs # <<>> /\ s.lastOp # Len(s.log)
  <2>1. AddDurable(s, qs) = Abort(s)
    BY <1>2 DEF AddDurable
  <2>2. PICK t : t = Abort(s)
    OBVIOUS
  <2>3. Like(s, t)
    BY <2>2, LikeAbort
  <2>4. /\ t \in ReplicaStates /\ SameBatches(s, t) /\ t.view = s.view
        /\ t.status = s.status /\ t.log = s.log
        /\ t.lastCommitted = s.lastCommitted /\ t.prepareOKs = s.prepareOKs
    BY <2>3 DEF Like, SameProgress
  <2>5. \A j \in 1 .. Len(t.log) : j <= Len(s.log)
    BY <1>1, <2>4
  <2>. QED BY <2>1, <2>2, <2>4, <2>5
<1>3. CASE ~ (qs # <<>> /\ s.lastOp # Len(s.log))
  <2>1. PICK new, k, table, none :
            /\ new = [i \in 1 .. Len(qs) |-> [view |-> s.view, req |-> qs[i]]]
            /\ k = s.lastOp + Len(qs)
            /\ table = UpdateClientTable(s.clientTable, qs)
            /\ none = <<>>
    OBVIOUS
  <2>2. new \in Seq(Entries) /\ Len(new) = Len(qs) /\ \A i \in 1 .. Len(new) : new[i].view = s.view
    <3>1. \A i \in 1 .. Len(qs) : qs[i] \in Requests
      BY ElementOfSeq
    <3>2. \A i \in 1 .. Len(qs) : [view |-> s.view, req |-> qs[i]] \in Entries
      BY <1>1, <3>1 DEF Entries
    <3>. QED BY <1>1, <2>1, <3>2
  <2>3. k \in Nat /\ table \in Tables /\ none \in Seq(Requests)
    BY <1>1, <2>1, UpdateClientTableType
  <2>4. PICK l : l = s.log \o new
    OBVIOUS
  <2>5. /\ l \in Seq(Entries) /\ Len(l) = Len(s.log) + Len(new)
        /\ \A j \in 1 .. Len(s.log) + Len(new) :
               l[j] = IF j <= Len(s.log) THEN s.log[j] ELSE new[j - Len(s.log)]
    <3>1. PICK b : b = s.log
      OBVIOUS
    <3>2. b \in Seq(Entries) /\ new \in Seq(Entries)
      BY <1>1, <2>2, <3>1
    <3>3. /\ b \o new \in Seq(Entries) /\ Len(b \o new) = Len(b) + Len(new)
          /\ \A j \in 1 .. Len(b) + Len(new) :
                 (b \o new)[j] = IF j <= Len(b) THEN b[j] ELSE new[j - Len(b)]
      BY <3>2, ConcatProperties
    <3>. QED BY <2>4, <3>1, <3>3
  <2>6. ASSUME NEW j \in 1 .. Len(l)
        PROVE  \/ j <= Len(s.log) /\ l[j] = s.log[j]
               \/ l[j].view = s.view
    <3>1. CASE j <= Len(s.log)
      BY <2>5, <3>1
    <3>2. CASE ~ (j <= Len(s.log))
      <4>1. j - Len(s.log) \in 1 .. Len(new)
        BY <1>1, <2>2, <2>5, <3>2
      <4>. QED BY <2>2, <2>5, <3>2, <4>1
    <3>. QED BY <3>1, <3>2
  <2>7. PICK t : t = AddDurable(s, qs)
    OBVIOUS
  <2>8. t = [s EXCEPT !.log = l, !.lastOp = k, !.clientTable = table, !.queue = none]
    BY <1>3, <2>1, <2>4, <2>7 DEF AddDurable
  <2>9. t \in ReplicaStates
    BY <2>3, <2>5, <2>8 DEF ReplicaStates, Tables
  <2>10. /\ SameBatches(s, t) /\ t.view = s.view /\ t.status = s.status
         /\ t.lastCommitted = s.lastCommitted /\ t.prepareOKs = s.prepareOKs /\ t.log = l
    BY <2>8 DEF ReplicaStates, SameBatches
  <2>. QED BY <2>6, <2>7, <2>9, <2>10
<1>. QED BY <1>2, <1>3

\* An assignment to lastOp.
LEMMA LastOpChange ==
    ASSUME NEW s \in ReplicaStates, NEW k \in Nat
    PROVE  LET t == [s EXCEPT !.lastOp = k]
           IN  /\ t \in ReplicaStates /\ SameBatches(s, t)
               /\ t.view = s.view /\ t.status = s.status /\ t.log = s.log /\ t.lastOp = k
               /\ t.lastCommitted = s.lastCommitted /\ t.prepareOKs = s.prepareOKs
               /\ t.aborted = s.aborted /\ t.clientTable = s.clientTable
<1>1. PICK t : t = [s EXCEPT !.lastOp = k]
  OBVIOUS
<1>2. t \in ReplicaStates
  BY <1>1 DEF ReplicaStates
<1>3. /\ SameBatches(s, t)
      /\ t.view = s.view /\ t.status = s.status /\ t.log = s.log /\ t.lastOp = k
      /\ t.lastCommitted = s.lastCommitted /\ t.prepareOKs = s.prepareOKs
      /\ t.aborted = s.aborted /\ t.clientTable = s.clientTable
  BY <1>1 DEF ReplicaStates, SameBatches
<1>. QED BY <1>1, <1>2, <1>3

\* A replica that enters a view with entries of its own and of a message.
LEMMA ChangesEntering ==
    ASSUME Typed, NEW r \in Replicas, ~rep[r].aborted, NEW t \in ReplicaStates,
           SameBatches(rep[r], t), rep' = [rep EXCEPT ![r] = t],
           t.view > rep[r].view \/ (t.view = rep[r].view /\ rep[r].status # "NORMAL"),
           Moves(r, t.view),
           \A j \in 1 .. Len(t.log) :
               \/ j <= Len(rep[r].log) /\ t.log[j] = rep[r].log[j]
               \/ Brought(r, t.view, t.log, j)
               \/ AmLeader(t, r) /\ t.status = "NORMAL" /\ t.log[j].view = t.view,
           NEW sent, msgs' \subseteq msgs \cup sent, \A m \in sent : Announces(r, t, m),
           replies' \subseteq ReplyMessages,
           NEW votes, votes \subseteq ViewChangeMessages, \A m \in votes : Located(m),
           \A m \in votes : m \in ballots[r] \/ m \in msgs,
           NEW log \in Seq(Requests), Settle(r, votes, log), UNCHANGED issued
    PROVE  DoesChange(r) /\ OthersTyped
<1>1. rep' \in [Replicas -> ReplicaStates] /\ issued' \in [Clients -> Nat]
  BY DEF Typed
<1>2. /\ OthersTyped
      /\ \A p \in Replicas : \A m \in ballots'[p] :
             IF p = r THEN m \in votes ELSE m \in ballots[p]
  BY <1>1, SettleType
<1>3. \A p \in Replicas : \A m \in ballots'[p] : m \in ballots[p] \/ m \in msgs
  BY <1>2
<1>4. Changes(r, t, sent)
  BY <1>3 DEF Changes
<1>. QED BY <1>2, <1>4 DEF DoesChange

\* A STARTVIEW.
LEMMA ChangesStartView ==
    ASSUME Typed, NEW r \in Replicas, ReceiveStartView(r)
    PROVE  DoesChange(r) /\ OthersTyped
<1>1. rep[r] \in ReplicaStates /\ ~rep[r].aborted
  BY TypedReplica DEF ReceiveStartView, Idle, Running
<1>2. PICK m \in Received(r, "StartView") : HandleStartView(r, m)
  BY DEF ReceiveStartView
<1>3. /\ m \in ViewChangeMessages /\ m \in msgs /\ m.type = "StartView" /\ Located(m)
      /\ m.view \in Views /\ m.view \in Nat /\ m.lastCommitted \in Nat /\ m.lastOp \in Nat
      /\ m.first \in Nat /\ m.entries \in Seq(Entries)
  BY <1>2, ChangeMessages
<1>4. PICK i : i = Installed(rep[r], m, m)
  OBVIOUS
<1>5. PICK e : e = [EnterView(i, r, m.view) EXCEPT !.lastOp = m.lastOp]
  OBVIOUS
<1>6. PICK c : c = CommitUpTo(e, m.lastCommitted)
  OBVIOUS
<1>7. /\ Concerns(m, rep[r])
      /\ IF i.aborted
         THEN Become(r, i) /\ Network({m}, {}) /\ UNCHANGED replies
         ELSE /\ Become(r, IF c.aborted THEN c ELSE SendPrepareOKs(c, rep[r].lastOp))
              /\ Network({m}, IF c.aborted THEN {} ELSE PrepareOKsFor(c, r, rep[r].lastOp))
              /\ replies' = replies \cup RepliesTo(e, r, m.lastCommitted)
      /\ Settle(r, {}, dur[r])
  BY <1>2, <1>4, <1>5, <1>6 DEF HandleStartView
<1>8. /\ i \in ReplicaStates /\ SameBatches(rep[r], i)
      /\ i.view = rep[r].view /\ i.status = rep[r].status /\ i.lastOp = rep[r].lastOp
      /\ i.lastCommitted = rep[r].lastCommitted /\ i.prepareOKs = rep[r].prepareOKs
      /\ i.aborted => i = Abort(rep[r])
      /\ \A j \in 1 .. Len(i.log) :
             \/ j <= Len(rep[r].log) /\ i.log[j] = rep[r].log[j]
             \/ \E k \in 1 .. Len(m.entries) :
                    j = m.first + k - 1 /\ i.log[j] = m.entries[k]
  <2>1. PICK s : s = rep[r]
    OBVIOUS
  <2>2. /\ s \in ReplicaStates /\ ~s.aborted /\ Located(m)
        /\ m.type \in {"DoViewChange", "StartView"} /\ m.lastOp \in Nat /\ m.first \in Nat
        /\ m.entries \in Seq(Entries)
    BY <1>1, <1>3, <2>1
  <2>3. LET t == Installed(s, m, m)
        IN  /\ t \in ReplicaStates /\ SameBatches(s, t)
            /\ t.view = s.view /\ t.status = s.status /\ t.lastOp = s.lastOp
            /\ t.lastCommitted = s.lastCommitted /\ t.prepareOKs = s.prepareOKs
            /\ t.aborted => t = Abort(s)
            /\ \A j \in 1 .. Len(t.log) :
                   \/ j <= Len(s.log) /\ t.log[j] = s.log[j]
                   \/ \E k \in 1 .. Len(m.entries) :
                          j = m.first + k - 1 /\ t.log[j] = m.entries[k]
    BY <2>2, InstalledFacts
  <2>. QED BY <1>4, <2>1, <2>3, Zenon
<1>9. \/ m.view > rep[r].view
      \/ m.view = rep[r].view /\ rep[r].status # "NORMAL"
  BY <1>7 DEF Concerns
<1>10. UNCHANGED issued /\ dur[r] \in Seq(Requests)
  BY DEF ReceiveStartView, Typed
<1>11. PICK none : none = {}
  OBVIOUS
<1>12. /\ Settle(r, none, dur[r]) /\ none \subseteq ViewChangeMessages
       /\ \A x \in none : Located(x)
       /\ \A x \in none : x \in ballots[r] \/ x \in msgs
  BY <1>7, <1>11
<1>13. CASE i.aborted
  <2>1. Like(rep[r], i)
    BY <1>1, <1>8, <1>13, LikeAbort
  <2>2. SameProgress(rep[r], i) /\ SameBatches(rep[r], i)
    BY <2>1 DEF Like
  <2>3. Become(r, i) /\ Network({m}, {}) /\ UNCHANGED replies
    BY <1>7, <1>13
  <2>4. /\ rep' = [rep EXCEPT ![r] = i] /\ msgs' \subseteq msgs \cup {}
        /\ replies' \subseteq ReplyMessages
    BY <2>3 DEF Become, Network, Typed
  <2>5. rep' \in [Replicas -> ReplicaStates] /\ issued' \in [Clients -> Nat]
    BY <1>8, <1>10, <2>4 DEF Typed
  <2>6. /\ OthersTyped
        /\ \A p \in Replicas : \A x \in ballots'[p] :
               IF p = r THEN x \in none ELSE x \in ballots[p]
    BY <1>10, <1>12, <2>5, SettleType
  <2>7. \A p \in Replicas : \A x \in ballots'[p] : x \in ballots[p] \/ x \in msgs
    BY <1>12, <2>6
  <2>8. Changes(r, i, {})
    BY <1>1, <1>8, <1>13, <2>2, <2>4, <2>7 DEF Changes, Moves
  <2>. QED BY <2>6, <2>8 DEF DoesChange
<1>14. CASE ~i.aborted
  <2>1. PICK d : d = EnterView(i, r, m.view)
    OBVIOUS
  <2>2. /\ d \in ReplicaStates /\ SameBatches(i, d)
        /\ d.view = m.view /\ d.status = "NORMAL" /\ d.log = i.log
    BY <1>3, <1>8, <2>1, EnterViewFacts
  <2>3. /\ e \in ReplicaStates /\ SameBatches(d, e)
        /\ e.view = d.view /\ e.status = d.status /\ e.log = d.log
    BY <1>3, <1>5, <2>1, <2>2, LastOpChange
  <2>4. /\ c \in ReplicaStates /\ SameBatches(e, c)
        /\ c.view = e.view /\ c.status = e.status /\ c.log = e.log
    BY <1>3, <1>6, <2>3, CommitUpToAny
  <2>5. PICK t : t = IF c.aborted THEN c ELSE SendPrepareOKs(c, rep[r].lastOp)
    OBVIOUS
  <2>6. Like(c, t)
    <3>1. rep[r].lastOp \in Nat
      BY <1>1, StateFields
    <3>. QED BY <2>4, <2>5, <3>1, LikeSendPrepareOKs, LikeChanges
  <2>7. /\ t \in ReplicaStates /\ SameBatches(c, t) /\ t.view = m.view /\ t.log = i.log
    BY <2>2, <2>3, <2>4, <2>6 DEF Like, SameProgress
  <2>8. SameBatches(rep[r], t)
    BY <1>8, <2>2, <2>3, <2>4, <2>7 DEF SameBatches
  <2>9. PICK sent : sent = IF c.aborted THEN {} ELSE PrepareOKsFor(c, r, rep[r].lastOp)
    OBVIOUS
  <2>10. /\ rep' = [rep EXCEPT ![r] = t] /\ msgs' \subseteq msgs \cup sent
         /\ replies' \subseteq ReplyMessages
    <3>1. /\ Become(r, t) /\ Network({m}, sent)
          /\ replies' = replies \cup RepliesTo(e, r, m.lastCommitted)
      BY <1>7, <1>14, <2>5, <2>9
    <3>2. RepliesTo(e, r, m.lastCommitted) \subseteq ReplyMessages
      BY <1>3, <2>3, RepliesToType
    <3>. QED BY <3>1, <3>2 DEF Become, Network, Typed
  <2>11. \A x \in sent : Announces(r, t, x)
    <3>. SUFFICES ASSUME NEW x \in sent
                  PROVE  Announces(r, t, x)
      OBVIOUS
    <3>1. x \in PrepareOKsFor(c, r, rep[r].lastOp) /\ rep[r].lastOp \in Nat
      BY <1>1, <2>9, StateFields
    <3>2. x \in Messages /\ x.type = "PrepareOK"
      BY <2>4, <3>1, PrepareOKsForFacts
    <3>. QED BY <3>2 DEF Announces, Located
  <2>12. \A j \in 1 .. Len(t.log) :
             \/ j <= Len(rep[r].log) /\ t.log[j] = rep[r].log[j]
             \/ Brought(r, t.view, t.log, j)
             \/ AmLeader(t, r) /\ t.status = "NORMAL" /\ t.log[j].view = t.view
    <3>. SUFFICES ASSUME NEW j \in 1 .. Len(i.log),
                         \E k \in 1 .. Len(m.entries) :
                             j = m.first + k - 1 /\ i.log[j] = m.entries[k]
                  PROVE  Brought(r, m.view, i.log, j)
      BY <1>8, <2>7
    <3>. QED BY <1>3 DEF Brought
  <2>13. t.view > rep[r].view \/ (t.view = rep[r].view /\ rep[r].status # "NORMAL")
    BY <1>9, <2>7
  <2>14. Moves(r, t.view)
    BY <1>3, <2>7 DEF Moves
  <2>. QED BY <1>1, <1>10, <1>12, <2>7, <2>8, <2>10, <2>11, <2>12, <2>13, <2>14, ChangesEntering
<1>. QED BY <1>13, <1>14

\* Log b is that of s with entries of message x.
TakesFrom(s, x, b) ==
    /\ b \in ReplicaStates /\ SameBatches(s, b) /\ b.view = s.view
    /\ \A j \in 1 .. Len(b.log) :
           \/ j <= Len(s.log) /\ b.log[j] = s.log[j]
           \/ \E i \in 1 .. Len(x.entries) : j = x.first + i - 1 /\ b.log[j] = x.entries[i]

\* The log that a new leader starts with.
LEMMA ChosenLog ==
    ASSUME NEW s \in ReplicaStates, ~s.aborted, NEW x, NEW m, Located(x),
           x.type = "DoViewChange", x.lastOp \in Nat, x.first \in Nat,
           x.entries \in Seq(Entries), NEW latest
    PROVE  TakesFrom(s, x, IF latest = {} THEN s ELSE Installed(s, x, m))
<1>1. CASE latest = {}
  <2>1. Len(s.log) \in Nat
    BY StateFields
  <2>2. \A j \in 1 .. Len(s.log) : j <= Len(s.log)
    BY <2>1
  <2>. QED BY <1>1, <2>2 DEF TakesFrom, SameBatches
<1>2. CASE latest # {}
  <2>1. x.type \in {"DoViewChange", "StartView"}
    OBVIOUS
  <2>2. PICK b : b = Installed(s, x, m)
    OBVIOUS
  <2>3. /\ b \in ReplicaStates /\ SameBatches(s, b) /\ b.view = s.view
        /\ \A j \in 1 .. Len(b.log) :
               \/ j <= Len(s.log) /\ b.log[j] = s.log[j]
               \/ \E i \in 1 .. Len(x.entries) :
                      j = x.first + i - 1 /\ b.log[j] = x.entries[i]
    BY <2>1, <2>2, InstalledFacts
  <2>4. TakesFrom(s, x, b)
    BY <2>3 DEF TakesFrom
  <2>. QED BY <1>2, <2>2, <2>4
<1>. QED BY <1>1, <1>2

\* A new leader, as BecomeLeader has it, once message x is chosen.
NewLeader(r, s, m, votes, joining, latest, k, upto, x, merged, least) ==
    LET t == [(IF latest = {} THEN s ELSE Installed(s, x, m)) EXCEPT !.lastOp = k]
        u == AddDurable(t, Unordered(t.clientTable, merged))
        e == EnterView(u, r, s.view)
        c == IF latest = {} THEN e ELSE CommitUpTo(e, x.lastCommitted)
    IN
    IF t.aborted \/ u.aborted
    THEN /\ Become(r, Abort(s)) /\ Network({m}, joining) /\ Settle(r, votes, dur[r])
         /\ UNCHANGED replies
    ELSE /\ Become(r, c)
         /\ Network({m}, joining \cup
                IF c.aborted THEN {} ELSE StartViewMessages(c, r, Min({least, upto})))
         /\ replies' = replies \cup
                IF latest = {} THEN {} ELSE RepliesTo(e, r, x.lastCommitted)
         /\ Settle(r, {}, merged)

\* BecomeLeader chooses a message, an order and a STARTVIEWCHANGE, or fails.
LEMMA BecomeLeaderCases ==
    ASSUME NEW r, NEW s, NEW m, NEW votes, NEW joining,
           BecomeLeader(r, s, m, votes, joining)
    PROVE  LET dvcs   == OfType(votes, "DoViewChange")
               svcs   == OfType(votes, "StartViewChange")
               latest == LatestMsg(s.log, dvcs)
               newest == IF latest = {} THEN <<LastEntryView(s.log), Len(s.log)>>
                         ELSE Viewstamp(CHOOSE x \in latest : TRUE)
               equals == {x \in dvcs : x.lastNormalView = newest[1]}
               logs   == MergeLogs(r, equals)
               voting == {r} \cup {x.from : x \in equals}
               upto   == Min({s.lastCommitted, LeastCommitted(dvcs)})
           IN  \/ \E x \in IF latest = {} THEN {m} ELSE ReadFrom(latest, dvcs) :
                  \E merged \in MergedLogs(logs, voting) :
                  \E least \in LeastSVC(svcs, upto) :
                      NewLeader(r, s, m, votes, joining, latest, newest[2], upto, x, merged, least)
               \/ /\ Become(r, Abort(s)) /\ Network({m}, joining) /\ Settle(r, votes, dur[r])
                  /\ UNCHANGED replies
<1>. DEFINE dvcs   == OfType(votes, "DoViewChange")
            svcs   == OfType(votes, "StartViewChange")
            latest == LatestMsg(s.log, dvcs)
            newest == IF latest = {} THEN <<LastEntryView(s.log), Len(s.log)>>
                      ELSE Viewstamp(CHOOSE x \in latest : TRUE)
            equals == {x \in dvcs : x.lastNormalView = newest[1]}
            logs   == MergeLogs(r, equals)
            voting == {r} \cup {x.from : x \in equals}
            upto   == Min({s.lastCommitted, LeastCommitted(dvcs)})
            B(x, merged, least) ==
                LET t == [(IF latest = {} THEN s ELSE Installed(s, x, m))
                              EXCEPT !.lastOp = newest[2]]
                    u == AddDurable(t, Unordered(t.clientTable, merged))
                    e == EnterView(u, r, s.view)
                    c == IF latest = {} THEN e ELSE CommitUpTo(e, x.lastCommitted)
                IN
                IF t.aborted \/ u.aborted
                THEN /\ Become(r, Abort(s))
                     /\ Network({m}, joining)
                     /\ Settle(r, votes, dur[r])
                     /\ UNCHANGED replies
                ELSE /\ Become(r, c)
                     /\ Network({m}, joining \cup
                            IF c.aborted THEN {} ELSE StartViewMessages(c, r, Min({least, upto})))
                     /\ replies' = replies \cup
                            IF latest = {} THEN {} ELSE RepliesTo(e, r, x.lastCommitted)
                     /\ Settle(r, {}, merged)
<1>1. \/ \E x \in IF latest = {} THEN {m} ELSE ReadFrom(latest, dvcs) :
         \E merged \in MergedLogs(logs, voting) :
         \E least \in LeastSVC(svcs, upto) : B(x, merged, least)
      \/ /\ latest # {} \/ MergedLogs(logs, voting) = {}
         /\ Become(r, Abort(s))
         /\ Network({m}, joining)
         /\ Settle(r, votes, dur[r])
         /\ UNCHANGED replies
  BY ZenonT(60) DEF BecomeLeader
<1>2. ASSUME NEW x, NEW merged, NEW least, B(x, merged, least)
      PROVE  NewLeader(r, s, m, votes, joining, latest, newest[2], upto, x, merged, least)
  <2>1. B(x, merged, least)
    BY <1>2
  <2>. HIDE DEF dvcs, svcs, latest, newest, equals, logs, voting, upto
  <2>. QED BY <2>1, Zenon DEF NewLeader
<1>. HIDE DEF B
<1>. QED BY <1>1, <1>2, Zenon

\* The logs that a new leader merges are those of replicas.
LEMMA MergeInputs ==
    ASSUME Typed, NEW r \in Replicas, NEW votes, votes \subseteq ViewChangeMessages,
           \A x \in votes : x.type = "DoViewChange"
    PROVE  /\ MergeLogs(r, votes) \in [Replicas -> Seq(Requests)]
           /\ {r} \cup {x.from : x \in votes} \in SUBSET Replicas
<1>1. \A x \in votes : x.from \in Replicas /\ x.durlog \in Seq(Requests)
  BY DoViewChangeFields
<1>2. ASSUME NEW p \in Replicas
      PROVE  (IF \E x \in votes : x.from = p
              THEN (CHOOSE x \in votes : x.from = p).durlog ELSE dur[r]) \in Seq(Requests)
  <2>1. CASE \E x \in votes : x.from = p
    <3>1. (CHOOSE x \in votes : x.from = p) \in votes
      BY <2>1
    <3>. QED BY <1>1, <2>1, <3>1
  <2>2. CASE ~ \E x \in votes : x.from = p
    BY <2>2 DEF Typed
  <2>. QED BY <2>1, <2>2
<1>3. MergeLogs(r, votes) \in [Replicas -> Seq(Requests)]
  BY <1>2 DEF MergeLogs
<1>. QED BY <1>1, <1>3

\* What a STARTVIEWCHANGE says is executed, or what lies behind the map.
LEMMA LeastSVCType ==
    ASSUME NEW svcs, svcs \subseteq ViewChangeMessages, NEW most \in Nat,
           NEW least \in LeastSVC(svcs, most)
    PROVE  least \in Nat
<1>1. CASE svcs = {}
  BY <1>1 DEF LeastSVC
<1>2. CASE svcs # {}
  <2>1. \A x \in svcs : x.lastCommitted \in Nat
    BY DEF ViewChangeMessages
  <2>2. LeastCommitted(svcs) \in Nat
    BY <1>2, <2>1, LeastCommittedType
  <2>. QED BY <1>2, <2>2 DEF LeastSVC
<1>. QED BY <1>1, <1>2

\* A new leader: the newest log, the merged durability log at its end, and the view.
LEMMA ChangesBecomeLeader ==
    ASSUME Typed, NEW r \in Replicas, ~rep[r].aborted, NEW s \in ReplicaStates, ~s.aborted,
           SameBatches(rep[r], s), s.log = rep[r].log, GetLeaderIndex(s.view) = r,
           s.view > rep[r].view \/ (s.view = rep[r].view /\ rep[r].status # "NORMAL"),
           Moves(r, s.view), NEW votes, votes \subseteq ViewChangeMessages,
           \A x \in votes : Located(x) /\ x.view = s.view /\ (x \in ballots[r] \/ x \in msgs),
           NEW m \in votes, m.type = "DoViewChange",
           NEW joining,
           \A x \in joining : /\ x \in ViewChangeMessages /\ x.type = "StartViewChange"
                              /\ x.view = s.view,
           BecomeLeader(r, s, m, votes, joining), UNCHANGED issued
    PROVE  DoesChange(r) /\ OthersTyped
<1>. DEFINE dvcs   == OfType(votes, "DoViewChange")
            svcs   == OfType(votes, "StartViewChange")
            latest == LatestMsg(s.log, dvcs)
            newest == IF latest = {} THEN <<LastEntryView(s.log), Len(s.log)>>
                      ELSE Viewstamp(CHOOSE x \in latest : TRUE)
            equals == {x \in dvcs : x.lastNormalView = newest[1]}
            logs   == MergeLogs(r, equals)
            voting == {r} \cup {x.from : x \in equals}
            upto   == Min({s.lastCommitted, LeastCommitted(dvcs)})
<1>1. dvcs = OfType(votes, "DoViewChange") /\ svcs = OfType(votes, "StartViewChange")
  OBVIOUS
<1>2. /\ latest = LatestMsg(s.log, dvcs)
      /\ newest = IF latest = {} THEN <<LastEntryView(s.log), Len(s.log)>>
                  ELSE Viewstamp(CHOOSE x \in latest : TRUE)
  OBVIOUS
<1>3. equals = {x \in dvcs : x.lastNormalView = newest[1]}
  OBVIOUS
<1>4. logs = MergeLogs(r, equals) /\ upto = Min({s.lastCommitted, LeastCommitted(dvcs)})
  OBVIOUS
<1>5. voting = {r} \cup {x.from : x \in equals}
  OBVIOUS
<1>6. \/ \E x \in IF latest = {} THEN {m} ELSE ReadFrom(latest, dvcs) :
         \E merged \in MergedLogs(logs, voting) :
         \E least \in LeastSVC(svcs, upto) :
             NewLeader(r, s, m, votes, joining, latest, newest[2], upto, x, merged, least)
      \/ /\ Become(r, Abort(s)) /\ Network({m}, joining) /\ Settle(r, votes, dur[r])
         /\ UNCHANGED replies
  BY BecomeLeaderCases
<1>. HIDE DEF dvcs, svcs, latest, newest, equals, logs, voting, upto
<1>7. /\ s.log \in Seq(Entries) /\ Len(s.log) \in Nat /\ s.view \in Views /\ s.view \in Nat
      /\ s.lastCommitted \in Nat
  BY DEF ReplicaStates, Views
<1>8. /\ dvcs \subseteq ViewChangeMessages /\ dvcs \subseteq votes
      /\ \A x \in dvcs : x.type = "DoViewChange"
      /\ svcs \subseteq ViewChangeMessages /\ m \in dvcs
  BY <1>1 DEF OfType
<1>9. \A x \in dvcs : /\ x.from \in Replicas /\ x.lastOp \in Nat /\ x.lastCommitted \in Nat
                      /\ x.first \in Nat /\ x.entries \in Seq(Entries)
                      /\ x.durlog \in Seq(Requests)
  BY <1>8, DoViewChangeFields
<1>10. latest \subseteq dvcs
  BY <1>2 DEF LatestMsg
<1>11. newest[2] \in Nat
  <2>1. CASE latest = {}
    BY <1>2, <1>7, <2>1
  <2>2. CASE latest # {}
    <3>1. PICK x : x = CHOOSE y \in latest : TRUE
      OBVIOUS
    <3>2. x \in dvcs
      BY <1>10, <2>2, <3>1
    <3>3. newest = <<x.lastNormalView, x.lastOp>>
      BY <1>2, <2>2, <3>1 DEF Viewstamp
    <3>. QED BY <1>9, <3>2, <3>3
  <2>. QED BY <2>1, <2>2
<1>12. PICK k : k = newest[2]
  OBVIOUS
<1>13. upto \in Nat
  <2>1. LeastCommitted(dvcs) \in Nat
    BY <1>8, <1>9, LeastCommittedType
  <2>. QED BY <1>4, <1>7, <2>1, MinOfTwo
<1>14. \A least \in LeastSVC(svcs, upto) : least \in Nat
  BY <1>8, <1>13, LeastSVCType
<1>15. logs \in [Replicas -> Seq(Requests)] /\ voting \in SUBSET Replicas
  <2>1. equals \subseteq dvcs
    BY <1>3
  <2>. QED BY <1>4, <1>5, <1>8, <2>1, MergeInputs
<1>16. \A x \in joining : \A t : t.view = s.view => Announces(r, t, x)
  BY AnnouncesStart
<1>17. CASE /\ Become(r, Abort(s)) /\ Network({m}, joining) /\ Settle(r, votes, dur[r])
            /\ UNCHANGED replies
  <2>1. PICK t : t = Abort(s)
    OBVIOUS
  <2>2. Like(s, t)
    BY <2>1, LikeAbort
  <2>3. /\ t \in ReplicaStates /\ SameBatches(rep[r], t) /\ t.log = rep[r].log
        /\ t.view = s.view
    BY <2>2 DEF Like, SameProgress, SameBatches
  <2>4. replies' \subseteq ReplyMessages
    BY <1>17 DEF Typed
  <2>5. PICK gone : gone = {m}
    OBVIOUS
  <2>6. Become(r, t) /\ Network(gone, joining) /\ Settle(r, votes, dur[r])
    BY <1>17, <2>1, <2>5
  <2>7. \A x \in joining : Announces(r, t, x)
    BY <1>16, <2>3
  <2>8. /\ t.view > rep[r].view \/ (t.view = rep[r].view /\ rep[r].status # "NORMAL")
        /\ Moves(r, t.view)
    BY <2>3
  <2>9. /\ \A x \in votes : Located(x)
        /\ \A x \in votes : x \in ballots[r] \/ x \in msgs
    OBVIOUS
  <2>. QED BY <2>3, <2>4, <2>6, <2>7, <2>8, <2>9, ChangesQuietly
<1>18. CASE \E x \in IF latest = {} THEN {m} ELSE ReadFrom(latest, dvcs) :
            \E merged \in MergedLogs(logs, voting) :
            \E least \in LeastSVC(svcs, upto) :
                NewLeader(r, s, m, votes, joining, latest, newest[2], upto, x, merged, least)
  <2>1. PICK x \in IF latest = {} THEN {m} ELSE ReadFrom(latest, dvcs) :
             \E merged \in MergedLogs(logs, voting) :
             \E least \in LeastSVC(svcs, upto) :
                 NewLeader(r, s, m, votes, joining, latest, newest[2], upto, x, merged, least)
    BY <1>18, Zenon
  <2>2. PICK merged \in MergedLogs(logs, voting), least \in LeastSVC(svcs, upto) :
             NewLeader(r, s, m, votes, joining, latest, newest[2], upto, x, merged, least)
    BY <2>1, Zenon
  <2>3. PICK b : b = IF latest = {} THEN s ELSE Installed(s, x, m)
    OBVIOUS
  <2>4. PICK t : t = [b EXCEPT !.lastOp = k]
    OBVIOUS
  <2>5. PICK u : u = AddDurable(t, Unordered(t.clientTable, merged))
    OBVIOUS
  <2>6. PICK e : e = EnterView(u, r, s.view)
    OBVIOUS
  <2>7. PICK c : c = IF latest = {} THEN e ELSE CommitUpTo(e, x.lastCommitted)
    OBVIOUS
  <2>8. PICK sent : sent = joining \cup
                         IF c.aborted THEN {} ELSE StartViewMessages(c, r, Min({least, upto}))
    OBVIOUS
  <2>9. IF t.aborted \/ u.aborted
         THEN /\ Become(r, Abort(s)) /\ Network({m}, joining) /\ Settle(r, votes, dur[r])
              /\ UNCHANGED replies
         ELSE /\ Become(r, c)
              /\ Network({m}, sent)
              /\ replies' = replies \cup
                     IF latest = {} THEN {} ELSE RepliesTo(e, r, x.lastCommitted)
              /\ Settle(r, {}, merged)
    BY <1>12, <2>2, <2>3, <2>4, <2>5, <2>6, <2>7, <2>8, Zenon DEF NewLeader
  <2>10. CASE t.aborted \/ u.aborted
    BY <1>17, <2>9, <2>10
  <2>11. SUFFICES ASSUME ~ (t.aborted \/ u.aborted)
                  PROVE  DoesChange(r) /\ OthersTyped
    BY <2>10
  <2>12. /\ Become(r, c) /\ Network({m}, sent)
         /\ replies' = replies \cup IF latest = {} THEN {} ELSE RepliesTo(e, r, x.lastCommitted)
         /\ Settle(r, {}, merged)
    BY <2>9, <2>11
  <2>13. x \in dvcs
    BY <1>8, <2>1 DEF ReadFrom
  <2>14. /\ x \in votes /\ Located(x) /\ x.view = s.view /\ x \in ViewChangeMessages
        /\ x.type = "DoViewChange" /\ (x \in ballots[r] \/ x \in msgs)
        /\ x.lastOp \in Nat /\ x.lastCommitted \in Nat /\ x.first \in Nat
        /\ x.entries \in Seq(Entries)
    BY <1>8, <1>9, <2>13
  <2>15. /\ b \in ReplicaStates /\ SameBatches(s, b) /\ b.view = s.view
        /\ \A j \in 1 .. Len(b.log) :
               \/ j <= Len(s.log) /\ b.log[j] = s.log[j]
               \/ \E i \in 1 .. Len(x.entries) :
                      j = x.first + i - 1 /\ b.log[j] = x.entries[i]
    <3>1. TakesFrom(s, x, IF latest = {} THEN s ELSE Installed(s, x, m))
      BY <2>14, ChosenLog
    <3>2. TakesFrom(s, x, b)
      BY <2>3, <3>1
    <3>. QED BY <3>2 DEF TakesFrom
  <2>16. /\ t \in ReplicaStates /\ SameBatches(b, t) /\ t.view = b.view /\ t.log = b.log
        /\ t.clientTable = b.clientTable
    BY <1>11, <1>12, <2>4, <2>15, LastOpChange
  <2>17. merged \in Seq(Requests)
    BY <1>15, MergedLogsType
  <2>18. Unordered(t.clientTable, merged) \in Seq(Requests)
    BY <2>17, KeepType DEF Unordered
  <2>19. /\ u \in ReplicaStates /\ SameBatches(t, u) /\ u.view = t.view
        /\ \A j \in 1 .. Len(u.log) :
               \/ j <= Len(t.log) /\ u.log[j] = t.log[j]
               \/ u.log[j].view = t.view
    <3>1. PICK qs : qs = Unordered(t.clientTable, merged)
      OBVIOUS
    <3>2. qs \in Seq(Requests) /\ u = AddDurable(t, qs)
      BY <2>5, <2>18, <3>1
    <3>3. LET d == AddDurable(t, qs)
          IN  /\ d \in ReplicaStates /\ SameBatches(t, d)
              /\ d.view = t.view /\ d.status = t.status
              /\ d.lastCommitted = t.lastCommitted /\ d.prepareOKs = t.prepareOKs
              /\ \A j \in 1 .. Len(d.log) :
                     \/ j <= Len(t.log) /\ d.log[j] = t.log[j]
                     \/ d.log[j].view = t.view
      BY <2>16, <3>2, AddDurableFacts
    <3>. QED BY <3>2, <3>3, Zenon
  <2>20. /\ e \in ReplicaStates /\ SameBatches(u, e) /\ e.view = s.view /\ e.status = "NORMAL"
        /\ e.log = u.log
    BY <1>7, <2>6, <2>19, EnterViewFacts
  <2>21. /\ c \in ReplicaStates /\ SameBatches(e, c) /\ c.view = e.view /\ c.status = e.status
        /\ c.log = e.log
    <3>1. CASE latest = {}
      BY <2>7, <2>20, <3>1 DEF SameBatches
    <3>2. CASE latest # {}
      <4>1. PICK n : n = x.lastCommitted
        OBVIOUS
      <4>2. n \in Nat /\ e \in ReplicaStates
        BY <2>14, <2>20, <4>1
      <4>3. c = CommitUpTo(e, n)
        BY <2>7, <3>2, <4>1
      <4>. QED BY <4>2, <4>3, CommitUpToAny
    <3>. QED BY <3>1, <3>2
  <2>22. SameBatches(rep[r], c)
    BY <2>15, <2>16, <2>19, <2>20, <2>21 DEF SameBatches
  <2>23. \A j \in 1 .. Len(c.log) :
             \/ j <= Len(rep[r].log) /\ c.log[j] = rep[r].log[j]
             \/ Brought(r, c.view, c.log, j)
             \/ AmLeader(c, r) /\ c.status = "NORMAL" /\ c.log[j].view = c.view
    <3>. SUFFICES ASSUME NEW j \in 1 .. Len(c.log), c.log[j].view # c.view
                  PROVE  \/ j <= Len(rep[r].log) /\ c.log[j] = rep[r].log[j]
                         \/ Brought(r, c.view, c.log, j)
      BY <2>20, <2>21 DEF AmLeader
    <3>1. j \in 1 .. Len(u.log) /\ c.log[j] = u.log[j] /\ c.view = t.view
      BY <2>15, <2>16, <2>20, <2>21
    <3>2. j <= Len(t.log) /\ u.log[j] = t.log[j]
      BY <2>19, <3>1
    <3>3. j \in 1 .. Len(b.log) /\ c.log[j] = b.log[j]
      <4>1. Len(t.log) \in Nat /\ t.log = b.log
        BY <2>16, StateFields
      <4>. QED BY <3>1, <3>2, <4>1
    <3>4. \/ j <= Len(s.log) /\ b.log[j] = s.log[j]
          \/ \E i \in 1 .. Len(x.entries) : j = x.first + i - 1 /\ b.log[j] = x.entries[i]
      BY <2>15, <3>3
    <3>5. CASE \E i \in 1 .. Len(x.entries) : j = x.first + i - 1 /\ b.log[j] = x.entries[i]
      <4>1. \E i \in 1 .. Len(x.entries) : j = x.first + i - 1 /\ c.log[j] = x.entries[i]
        BY <3>3, <3>5
      <4>2. x.view = c.view
        BY <2>14, <2>20, <2>21
      <4>. QED BY <2>14, <4>1, <4>2 DEF Brought
    <3>. QED BY <3>3, <3>4, <3>5
  <2>24. \A y \in sent : Announces(r, c, y)
    <3>1. CASE c.aborted
      BY <1>16, <2>8, <2>20, <2>21, <3>1
    <3>2. CASE ~c.aborted
      <4>. SUFFICES ASSUME NEW y \in StartViewMessages(c, r, Min({least, upto}))
                    PROVE  Announces(r, c, y)
        BY <1>16, <2>8, <2>20, <2>21, <3>2
      <4>1. PICK n : n = Min({least, upto})
        OBVIOUS
      <4>2. n \in Nat
        <5>1. least \in Nat
          BY <1>14
        <5>. QED BY <1>13, <4>1, <5>1, MinOfTwo
      <4>3. PICK f, es : f = DumpFrom(n) /\ es = SubSeq(c.log, f, Len(c.log))
        OBVIOUS
      <4>4. /\ c.log \in Seq(Entries) /\ c.view \in Views /\ c.lastOp \in Nat
            /\ c.lastCommitted \in Nat
        BY <2>21 DEF ReplicaStates
      <4>5. /\ f \in Nat /\ f > 0 /\ es \in Seq(Entries)
            /\ \A i \in 1 .. Len(es) : f + i - 1 \in 1 .. Len(c.log) /\ es[i] = c.log[f + i - 1]
        BY <4>2, <4>3, <4>4, DumpFacts
      <4>6. PICK p \in Replicas \ {r} :
                y = [type |-> "StartView", to |-> p, view |-> c.view, lastOp |-> c.lastOp,
                     lastCommitted |-> c.lastCommitted, first |-> f, entries |-> es]
        BY <4>1, <4>3 DEF StartViewMessages
      <4>7. y \in ViewChangeMessages
        BY <4>4, <4>5, <4>6 DEF ViewChangeMessages
      <4>8. y.type = "StartView" /\ y.view = c.view /\ y.first = f /\ y.entries = es
        BY <4>6
      <4>9. PartOf(y, c.log) /\ Located(y)
        BY <4>5, <4>8 DEF PartOf, Located
      <4>. QED BY <4>7, <4>8, <4>9 DEF Announces
    <3>. QED BY <3>1, <3>2
  <2>25. /\ rep' = [rep EXCEPT ![r] = c] /\ msgs' \subseteq msgs \cup sent
         /\ replies' \subseteq ReplyMessages
    <3>1. RepliesTo(e, r, x.lastCommitted) \subseteq ReplyMessages
      BY <2>14, <2>20, RepliesToType
    <3>2. replies \subseteq ReplyMessages
      BY DEF Typed
    <3>3. replies' \subseteq ReplyMessages
      BY <2>12, <3>1, <3>2
    <3>. QED BY <2>12, <3>3 DEF Become, Network
  <2>26. /\ c.view > rep[r].view \/ (c.view = rep[r].view /\ rep[r].status # "NORMAL")
         /\ Moves(r, c.view)
    BY <2>20, <2>21
  <2>27. PICK none : none = {}
    OBVIOUS
  <2>28. /\ Settle(r, none, merged) /\ none \subseteq ViewChangeMessages
         /\ \A y \in none : Located(y)
         /\ \A y \in none : y \in ballots[r] \/ y \in msgs
    BY <2>12, <2>27
  <2>. QED BY <2>17, <2>21, <2>22, <2>23, <2>24, <2>25, <2>26, <2>28, ChangesEntering
<1>. QED BY <1>6, <1>17, <1>18

\* A DOVIEWCHANGE.
LEMMA ChangesDoViewChange ==
    ASSUME Typed, NEW r \in Replicas, ReceiveDoViewChange(r)
    PROVE  DoesChange(r) /\ OthersTyped
<1>1. rep[r] \in ReplicaStates /\ ~rep[r].aborted
  BY TypedReplica DEF ReceiveDoViewChange, Idle, Running
<1>2. PICK m \in Received(r, "DoViewChange") : HandleDoViewChange(r, m)
  BY DEF ReceiveDoViewChange
<1>3. /\ m \in ViewChangeMessages /\ m \in msgs /\ m.type = "DoViewChange" /\ m.to = r
      /\ Located(m) /\ m.view \in Views
  BY <1>2, ChangeMessages
<1>4. PICK s, votes, joining :
          /\ s = Joined(rep[r], m) /\ votes = Ballots(r, m)
          /\ joining = JoiningMessages(rep[r], r, m)
  OBVIOUS
<1>5. /\ Concerns(m, rep[r])
      /\ \/ /\ Become(r, s) /\ Network({m}, joining) /\ Settle(r, votes, dur[r])
            /\ UNCHANGED replies
         \/ BecomeLeader(r, s, m, votes, joining)
  BY <1>2, <1>4 DEF HandleDoViewChange
<1>6. /\ s \in ReplicaStates /\ SameBatches(rep[r], s) /\ s.log = rep[r].log
      /\ s.view = m.view /\ s.aborted = rep[r].aborted
      /\ s.view > rep[r].view \/ (s.view = rep[r].view /\ rep[r].status # "NORMAL")
      /\ \A x \in joining : /\ x \in ViewChangeMessages /\ x.type = "StartViewChange"
                            /\ x.view = s.view
  BY <1>1, <1>3, <1>4, <1>5, JoinedFacts
<1>7. /\ votes \subseteq ViewChangeMessages /\ m \in votes
      /\ \A x \in votes : Located(x) /\ x.view = s.view /\ (x \in ballots[r] \/ x \in msgs)
  BY <1>3, <1>4, <1>6, BallotsFacts
<1>8. UNCHANGED issued /\ Moves(r, s.view)
  BY <1>3, <1>6 DEF ReceiveDoViewChange, Moves
<1>9. CASE /\ Become(r, s) /\ Network({m}, joining) /\ Settle(r, votes, dur[r])
           /\ UNCHANGED replies
  <2>1. \A x \in joining : Announces(r, s, x)
    BY <1>6, AnnouncesStart
  <2>2. replies' \subseteq ReplyMessages
    BY <1>9 DEF Typed
  <2>3. PICK gone : gone = {m}
    OBVIOUS
  <2>4. Become(r, s) /\ Network(gone, joining) /\ Settle(r, votes, dur[r])
    BY <1>9, <2>3
  <2>. QED BY <1>1, <1>6, <1>7, <1>8, <2>1, <2>2, <2>4, ChangesQuietly
<1>10. CASE BecomeLeader(r, s, m, votes, joining)
  <2>1. GetLeaderIndex(s.view) = r
    BY <1>3, <1>6 DEF Located
  <2>. QED BY <1>1, <1>3, <1>6, <1>7, <1>8, <1>10, <2>1, ChangesBecomeLeader
<1>. QED BY <1>5, <1>9, <1>10
-------------------------------------------------------------------------------
(* Every step, and the types                                               *)

\* Queueing an update changes nothing that a log depends on.
LEMMA HandlesUpdate ==
    ASSUME Typed, NEW r \in Replicas, NEW q \in Requests, HandleUpdate(r, q)
    PROVE  DoesHandle(r) /\ OthersTyped /\ UNCHANGED ballots
<1>1. rep[r] \in ReplicaStates /\ ~rep[r].aborted /\ UNCHANGED <<msgs, replies, ballots, told>>
  BY TypedReplica DEF HandleUpdate, Running
<1>2. PICK qs : qs = Append(rep[r].queue, q)
  OBVIOUS
<1>3. qs \in Seq(Requests)
  BY <1>1, <1>2, StateFields
<1>4. \E t : Like(rep[r], t) /\ Become(r, t)
  <2>1. Become(r, [rep[r] EXCEPT !.queue = qs]) \/ UNCHANGED rep
    BY <1>2 DEF HandleUpdate
  <2>2. Like(rep[r], [rep[r] EXCEPT !.queue = qs]) /\ Like(rep[r], rep[r])
    BY <1>1, <1>3, LikeChanges
  <2>3. UNCHANGED rep => Become(r, rep[r])
    BY DEF Become, Typed
  <2>. QED BY <2>1, <2>2, <2>3
<1>5. DoesHandle(r)
  <2>1. msgs' \subseteq msgs /\ replies' \subseteq ReplyMessages
    BY <1>1 DEF Typed
  <2>. QED BY <1>1, <1>4, <2>1, HandlesQuietly
<1>6. issued' \in [Clients -> Nat]
  <2>1. issued \in [Clients -> Nat] /\ q.client \in Clients /\ q.id \in Nat
    BY RequestFields DEF Typed
  <2>2. PICK n : n = Max({issued[q.client], q.id})
    OBVIOUS
  <2>3. n \in Nat
    BY <2>1, <2>2, MaxOfTwo
  <2>4. issued' = [issued EXCEPT ![q.client] = n]
    BY <2>2 DEF HandleUpdate, Arrives
  <2>. QED BY <2>1, <2>3, <2>4
<1>7. dur' \in [Replicas -> Seq(Requests)]
  <2>1. PICK d : d = Keep(dur[r], Requests \ {q})
    OBVIOUS
  <2>2. dur \in [Replicas -> Seq(Requests)]
    BY DEF Typed
  <2>3. d \in Seq(Requests)
    BY <2>1, <2>2, KeepType
  <2>4. Append(d, q) \in Seq(Requests)
    BY <2>3
  <2>5. dur' = [dur EXCEPT ![r] = Append(d, q)]
    BY <2>1 DEF HandleUpdate
  <2>. QED BY <2>2, <2>4, <2>5
<1>8. acks' \subseteq [req : Requests, from : Replicas, view : Views]
  <2>1. told[r].view \in Views
    BY DEF Typed
  <2>2. acks' = acks \cup {[req |-> q, from |-> r, view |-> told[r].view]}
    BY DEF HandleUpdate
  <2>. QED BY <2>1, <2>2 DEF Typed
<1>9. OthersTyped
  BY <1>1, <1>6, <1>7, <1>8 DEF OthersTyped, Typed
<1>. QED BY <1>1, <1>5, <1>9

\* The server of a replica is told of its view.
LEMMA TellsStatus ==
    ASSUME Typed, NEW r \in Replicas, StatusUpdateArrives(r)
    PROVE  OthersTyped /\ UNCHANGED <<vars, ballots>>
<1>1. PICK x : x = [view |-> rep[r].view, status |-> rep[r].status]
  OBVIOUS
<1>2. x \in [view : Views, status : Statuses]
  BY <1>1, TypedReplica DEF ReplicaStates
<1>3. UNCHANGED <<vars, ballots, dur, acks>> /\ told' = [told EXCEPT ![r] = x]
  BY <1>1 DEF StatusUpdateArrives
<1>4. told' \in [Replicas -> [view : Views, status : Statuses]]
  BY <1>2, <1>3 DEF Typed
<1>. QED BY <1>3, <1>4 DEF OthersTyped, Typed, vars

\* Ballots come from the network.
BallotsReceived == \A p \in Replicas : \A m \in ballots'[p] : m \in ballots[p] \/ m \in msgs

\* A step of a replica is one of the kinds above.
LEMMA StepCases ==
    ASSUME Typed, NEW r \in Replicas, ViewChangeStep(r)
    PROVE  /\ DoesHandle(r) \/ DoesChange(r) \/ UNCHANGED vars
           /\ OthersTyped /\ BallotsReceived
<1>1. CASE NormalStep(r)
  <2>1. DoesHandle(r) /\ issued' \in [Clients -> Nat] /\ Settled(r)
    BY <1>1, NormalStepHandles
  <2>2. rep' \in [Replicas -> ReplicaStates]
    <3>1. PICK t : t \in ReplicaStates /\ rep' = [rep EXCEPT ![r] = t]
      BY <2>1 DEF DoesHandle, Handles
    <3>. QED BY <3>1 DEF Typed
  <2>3. PICK votes, log : votes = ballots[r] /\ log = dur[r]
    OBVIOUS
  <2>4. /\ votes \subseteq ViewChangeMessages /\ \A m \in votes : Located(m)
        /\ log \in Seq(Requests) /\ Settle(r, votes, log)
    BY <2>1, <2>3 DEF Typed, Settled
  <2>5. /\ OthersTyped
        /\ \A p \in Replicas : \A m \in ballots'[p] :
               IF p = r THEN m \in votes ELSE m \in ballots[p]
    BY <2>1, <2>2, <2>4, SettleType
  <2>. QED BY <2>1, <2>3, <2>5 DEF BallotsReceived
<1>2. CASE \E q \in Requests : HandleUpdate(r, q)
  BY <1>2, HandlesUpdate DEF BallotsReceived
<1>3. CASE StatusUpdateArrives(r)
  BY <1>3, TellsStatus DEF BallotsReceived
<1>4. ASSUME DoesChange(r), OthersTyped
      PROVE  DoesChange(r) /\ OthersTyped /\ BallotsReceived
  BY <1>4 DEF DoesChange, Changes, BallotsReceived
<1>5. CASE ViewChangeTimeout(r)
  BY <1>4, <1>5, ChangesTimeout
<1>6. CASE ReceiveStartViewChange(r)
  BY <1>4, <1>6, ChangesStartViewChange
<1>7. CASE ReceiveDoViewChange(r)
  BY <1>4, <1>7, ChangesDoViewChange
<1>8. CASE ReceiveStartView(r)
  BY <1>4, <1>8, ChangesStartView
<1>. QED BY <1>1, <1>2, <1>3, <1>5, <1>6, <1>7, <1>8 DEF ViewChangeStep

\* The kinds of steps keep the types, and send nothing but the messages of the normal
\* case and of view changes.
LEMMA StepTyped ==
    ASSUME Typed, NEW r \in Replicas, OthersTyped,
           DoesHandle(r) \/ DoesChange(r) \/ UNCHANGED vars
    PROVE  Typed' /\ \A m \in msgs' : m \in msgs \/ m \in Messages \cup ViewChangeMessages
<1>1. \A m \in Messages : Located(m)
  BY DEF Messages, Located
<1>2. ASSUME NEW t \in ReplicaStates, NEW sent, rep' = [rep EXCEPT ![r] = t],
             msgs' \subseteq msgs \cup sent, replies' \subseteq ReplyMessages,
             \A m \in sent : m \in Messages \cup ViewChangeMessages /\ Located(m)
      PROVE  Typed' /\ \A m \in msgs' : m \in msgs \/ m \in Messages \cup ViewChangeMessages
  <2>1. rep' \in [Replicas -> ReplicaStates]
    BY <1>2 DEF Typed
  <2>2. \A m \in msgs' : m \in AllMessages /\ Located(m)
    BY <1>2 DEF Typed, AllMessages
  <2>3. \A m \in msgs' : m \in msgs \/ m \in Messages \cup ViewChangeMessages
    BY <1>2
  <2>4. (\A m \in msgs : Located(m))' /\ msgs' \subseteq AllMessages
    BY <2>2 DEF Located
  <2>. QED BY <1>2, <2>1, <2>3, <2>4 DEF OthersTyped, Typed, Located
<1>3. CASE DoesHandle(r)
  <2>1. PICK t, sent : Handles(r, t, sent)
    BY <1>3 DEF DoesHandle
  <2>2. \A m \in sent : m \in Messages /\ Located(m)
    BY <1>1, <2>1 DEF Handles, Honest
  <2>. QED BY <1>2, <2>1, <2>2 DEF Handles
<1>4. CASE DoesChange(r)
  <2>1. PICK t, sent : Changes(r, t, sent)
    BY <1>4 DEF DoesChange
  <2>2. \A m \in sent : m \in Messages \cup ViewChangeMessages /\ Located(m)
    BY <2>1 DEF Changes, Announces
  <2>. QED BY <1>2, <2>1, <2>2 DEF Changes
<1>5. CASE UNCHANGED vars
  BY <1>5 DEF vars, OthersTyped, Typed, Located
<1>. QED BY <1>3, <1>4, <1>5

\* The initial state of a replica that does not recover.
LEMMA NewReplicaType ==
    ASSUME NEW r
    PROVE  NewReplica(r) \in ReplicaStates
<1>. DEFINE ts == IF GetLeaderIndex(0) = r THEN {"nullCommit", "bgRepl"} ELSE {"viewChange"}
            table == [c \in Clients |-> NewClient]
            full == TRUE
            dead == FALSE
<1>1. /\ ts \in SUBSET Timers /\ table \in [Clients -> TableEntries] /\ NoBatch \in Batches
      /\ full \in BOOLEAN /\ dead \in BOOLEAN
  BY DEF Timers, NewClient, TableEntries, NoBatch, Batches, Views
<1>2. NewReplica(r) =
         [view |-> 0, status |-> "NORMAL",
          log |-> <<>>, lastOp |-> 0, lastCommitted |-> 0,
          lastBatchEnd |-> 0, batchComplete |-> full, lastPrepare |-> NoBatch,
          clientTable |-> table,
          addresses |-> {}, prepareOKs |-> {}, pending |-> <<>>, work |-> <<>>,
          lastTransfer |-> <<0, 0>>, queue |-> <<>>, timers |-> ts, aborted |-> dead]
  BY DEF NewReplica
<1>. HIDE DEF ts, table, full, dead
<1>. QED BY <1>1, <1>2 DEF ReplicaStates, Views, Statuses

LEMMA InitTyped == ViewChangeInit => Typed
<1>. SUFFICES ASSUME ViewChangeInit
              PROVE  Typed
  OBVIOUS
<1>1. rep \in [Replicas -> ReplicaStates]
  BY NewReplicaType DEF ViewChangeInit, Init
<1>2. dur \in [Replicas -> Seq(Requests)] /\ issued \in [Clients -> Nat]
  BY DEF ViewChangeInit, Init
<1>3. told \in [Replicas -> [view : Views, status : Statuses]]
  BY DEF ViewChangeInit, Views, Statuses
<1>4. /\ ballots \in [Replicas -> SUBSET ViewChangeMessages]
      /\ \A r \in Replicas : ballots[r] = {}
  BY DEF ViewChangeInit
<1>. QED BY <1>1, <1>2, <1>3, <1>4 DEF ViewChangeInit, Init, Typed

\* What a view change keeps of the types.
ViewChangeTyped == Typed /\ msgs \subseteq Messages \cup ViewChangeMessages

\* Every step without a crash keeps the types.
LEMMA ViewChangeTypeKept == ViewChangeTyped /\ [ViewChangeNext]_allVars => ViewChangeTyped'
<1>. SUFFICES ASSUME ViewChangeTyped, [ViewChangeNext]_allVars
              PROVE  ViewChangeTyped'
  OBVIOUS
<1>1. CASE UNCHANGED allVars
  BY <1>1 DEF ViewChangeTyped, Typed, Located, allVars, vars, viewChangeVars
<1>2. ASSUME NEW r \in Up, ViewChangeStep(r)
      PROVE  ViewChangeTyped'
  <2>1. r \in Replicas /\ Typed
    BY NetworkAssumption DEF ViewChangeTyped
  <2>2. /\ OthersTyped
        /\ DoesHandle(r) \/ DoesChange(r) \/ UNCHANGED vars
    BY <1>2, <2>1, StepCases
  <2>3. Typed' /\ \A m \in msgs' : m \in msgs \/ m \in Messages \cup ViewChangeMessages
    BY <2>1, <2>2, StepTyped
  <2>. QED BY <2>3 DEF ViewChangeTyped
<1>. QED BY <1>1, <1>2 DEF ViewChangeNext

\* Without a crash every variable keeps its declared type, whatever view changes,
\* state transfers and failed assertions there are.
THEOREM ViewChangeTypeCorrect == ViewChangeSpec => []ViewChangeTypeOK
<1>1. ViewChangeInit => ViewChangeTyped
  BY InitTyped DEF ViewChangeTyped, ViewChangeInit, Init
<1>2. ViewChangeTyped /\ [ViewChangeNext]_allVars => ViewChangeTyped'
  BY ViewChangeTypeKept
<1>3. ViewChangeTyped => ViewChangeTypeOK
  BY DEF ViewChangeTyped, Typed, ViewChangeTypeOK
<1>. QED BY <1>1, <1>2, <1>3, PTL DEF ViewChangeSpec

-------------------------------------------------------------------------------
(* Viewstamps                                                              *)

\* Batch b orders entry e as operation k.
InBatch(b, k, e) ==
    \E i \in 1 .. Len(b.requests) :
        k = b.batchstart + i - 1 /\ e = [view |-> b.view, req |-> b.requests[i]]

\* Message m carries entry e as operation k.
Carries(m, k, e) ==
    \/ /\ m.type \in {"StateTransfer", "DoViewChange", "StartView"}
       /\ \E i \in 1 .. Len(m.entries) : k = m.first + i - 1 /\ e = m.entries[i]
    \/ m.type = "Prepare" /\ InBatch(m.batch, k, e)

\* Entry e is operation k of the log of replica state s.
HasEntry(s, k, e) == k \in 1 .. Len(s.log) /\ s.log[k] = e

\* Entry e is operation k in the log or in a batch of replica state s.
Stores(s, k, e) == HasEntry(s, k, e) \/ \E b \in Batches : HasBatch(s, b) /\ InBatch(b, k, e)

\* Entry e is operation k anywhere: at a replica, in the network, or in a ballot.
Held(k, e) ==
    \/ \E r \in Replicas : Stores(rep[r], k, e)
    \/ \E m \in msgs : Carries(m, k, e)
    \/ \E r \in Replicas : \E m \in ballots[r] : Carries(m, k, e)

\* The leader of view v has entered it, or a later one.
Entered(v) ==
    LET s == rep[GetLeaderIndex(v)] IN s.view > v \/ (s.view = v /\ s.status = "NORMAL")

\* Nothing that is held is of a view that the leader has not entered.
HeldEntered == \A k \in Nat : \A e \in Entries : Held(k, e) => Entered(e.view)

\* The leader of a view has in its log all that is held of the view.
LeaderHolds ==
    \A r \in Replicas : \A k \in Nat : \A e \in Entries :
        Leads(r) /\ Held(k, e) /\ e.view = rep[r].view => HasEntry(rep[r], k, e)

\* Entries of the same view and operation are the same.
HeldUnique ==
    \A k \in Nat : \A d, e \in Entries : Held(k, d) /\ Held(k, e) /\ d.view = e.view => d = e

\* A log holds no entry of a view that is newer than that of its replica.
OwnViews(s) == \A k \in 1 .. Len(s.log) : s.log[k].view <= s.view

\* Neither does a message carry an entry of a view that is newer than its own.
CarriedViews(m) ==
    m.type \in {"StateTransfer", "DoViewChange", "StartView"} =>
        \A i \in 1 .. Len(m.entries) : m.entries[i].view <= m.view

ViewsPast ==
    /\ \A r \in Replicas : Running(r) => OwnViews(rep[r])
    /\ \A m \in msgs : CarriedViews(m)
    /\ \A r \in Replicas : \A m \in ballots[r] : CarriedViews(m)

\* No replica goes beyond the bound of the views.
ViewsBounded ==
    /\ \A r \in Replicas : rep[r].view <= MaxView
    /\ \A m \in msgs :
           m.type \in {"StateTransfer", "StartViewChange", "DoViewChange", "StartView"}
               => m.view <= MaxView

\* Nor are there more state transfers than their bound.
TransfersBounded == TransferBound = 0 => \A m \in msgs : m.type # "StateTransfer"

ViewstampInv ==
    /\ ViewChangeTyped
    /\ HeldEntered /\ LeaderHolds /\ HeldUnique
    /\ ViewsPast /\ ViewsBounded /\ TransfersBounded

\* Every entry of view s.view of log s.log is in the log of t.
KeepsView(s, t) ==
    \A k \in 1 .. Len(s.log) : s.log[k].view = s.view => HasEntry(t, k, s.log[k])

\* Replica r, a leader, has become t and ordered entry e as operation k.
Adds(r, t, k, e) ==
    /\ HasEntry(t, k, e) /\ e.view = t.view
    /\ AmLeader(t, r) /\ t.status = "NORMAL"
    /\ rep[r].view = t.view /\ rep[r].status = "NORMAL" => KeepsView(rep[r], t)

\* A replica does not go back to an older view, nor out of the view it has entered.
Advances(s, t) ==
    t.view > s.view \/ (t.view = s.view /\ (s.status = "NORMAL" => t.status = "NORMAL"))

\* Replica r becomes t, and nothing new is held but what it has ordered as a leader.
Extends(r, t) ==
    /\ t \in ReplicaStates /\ rep' = [rep EXCEPT ![r] = t]
    /\ Running(r)
    /\ Advances(rep[r], t)
    /\ \A k \in Nat : \A e \in Entries : Held(k, e)' => Held(k, e) \/ Adds(r, t, k, e)
    /\ Leads(r) /\ t.view = rep[r].view /\ ~t.aborted => KeepsView(rep[r], t)

\* A view that the leader of it has entered stays entered.
LEMMA EnteredStays ==
    ASSUME Typed, NEW r \in Replicas, NEW t, Extends(r, t), NEW v \in Views, Entered(v)
    PROVE  Entered(v)'
<1>1. PICK p : p = GetLeaderIndex(v)
  OBVIOUS
<1>2. p \in Replicas /\ v \in Nat
  BY <1>1, LeaderType DEF Views
<1>3. rep[p].view > v \/ (rep[p].view = v /\ rep[p].status = "NORMAL")
  BY <1>1 DEF Entered
<1>4. /\ rep' = [rep EXCEPT ![r] = t] /\ t.view \in Nat /\ rep[r].view \in Nat
      /\ Advances(rep[r], t)
  BY TypedReplica, StateFields DEF Extends
<1>5. rep'[p] = IF p = r THEN t ELSE rep[p]
  BY <1>2, <1>4 DEF Typed
<1>6. rep'[p].view > v \/ (rep'[p].view = v /\ rep'[p].status = "NORMAL")
  BY <1>2, <1>3, <1>4, <1>5 DEF Advances
<1>. QED BY <1>1, <1>6 DEF Entered

\* A leader whose view has been entered was in it before.
LEMMA LedBefore ==
    ASSUME Typed, NEW r \in Replicas, NEW t, Extends(r, t), AmLeader(t, r), Entered(t.view)
    PROVE  rep[r].view = t.view /\ rep[r].status = "NORMAL" /\ Leads(r)
<1>1. /\ t.view \in Nat /\ rep[r].view \in Nat /\ Advances(rep[r], t) /\ Running(r)
  BY TypedReplica, StateFields DEF Extends
<1>2. rep[r].view > t.view \/ (rep[r].view = t.view /\ rep[r].status = "NORMAL")
  BY DEF Entered, AmLeader
<1>3. rep[r].view = t.view /\ rep[r].status = "NORMAL"
  BY <1>1, <1>2 DEF Advances
<1>. QED BY <1>1, <1>3 DEF Leads, AmLeader

\* The step keeps what relates the entries to the leaders of their views.
LEMMA ExtendsUnique ==
    ASSUME Typed, HeldEntered, LeaderHolds, HeldUnique, NEW r \in Replicas, NEW t, Extends(r, t)
    PROVE  HeldEntered' /\ LeaderHolds' /\ HeldUnique'
<1>1. /\ t \in ReplicaStates /\ rep' = [rep EXCEPT ![r] = t]
      /\ \A k \in Nat : \A e \in Entries : Held(k, e)' => Held(k, e) \/ Adds(r, t, k, e)
      /\ Leads(r) /\ t.view = rep[r].view /\ ~t.aborted => KeepsView(rep[r], t)
  BY DEF Extends
<1>2. /\ rep'[r] = t /\ \A p \in Replicas : p # r => rep'[p] = rep[p]
  BY <1>1 DEF Typed
<1>3. \A e \in Entries : e.view \in Views
  BY DEF Entries
<1>4. HeldEntered'
  <2>. SUFFICES ASSUME NEW k \in Nat, NEW e \in Entries, Held(k, e)'
                PROVE  Entered(e.view)'
    BY DEF HeldEntered
  <2>1. CASE Held(k, e)
    BY <1>3, <2>1, EnteredStays DEF HeldEntered
  <2>2. CASE Adds(r, t, k, e)
    BY <1>2, <2>2 DEF Adds, AmLeader, Entered
  <2>. QED BY <1>1, <2>1, <2>2
\* What was held of the view of t was in the log of r.
<1>5. ASSUME NEW k \in Nat, NEW e \in Entries, Held(k, e), AmLeader(t, r), e.view = t.view
      PROVE  /\ Leads(r) /\ rep[r].view = t.view /\ rep[r].status = "NORMAL"
             /\ HasEntry(rep[r], k, e)
             /\ KeepsView(rep[r], t) => HasEntry(t, k, e)
  <2>1. Entered(t.view)
    BY <1>5 DEF HeldEntered
  <2>2. rep[r].view = t.view /\ rep[r].status = "NORMAL" /\ Leads(r)
    BY <1>5, <2>1, LedBefore
  <2>3. HasEntry(rep[r], k, e)
    BY <1>5, <2>2 DEF LeaderHolds
  <2>. QED BY <1>5, <2>2, <2>3 DEF KeepsView, HasEntry
<1>6. LeaderHolds'
  <2>. SUFFICES ASSUME NEW p \in Replicas, NEW k \in Nat, NEW e \in Entries,
                       Leads(p)', Held(k, e)', e.view = rep'[p].view
                PROVE  HasEntry(rep'[p], k, e)
    BY DEF LeaderHolds
  <2>1. CASE p = r
    <3>1. AmLeader(t, r) /\ t.status = "NORMAL" /\ ~t.aborted /\ e.view = t.view
      BY <1>2, <2>1 DEF Leads, Running
    <3>2. CASE Held(k, e)
      <4>1. /\ Leads(r) /\ rep[r].view = t.view
            /\ KeepsView(rep[r], t) => HasEntry(t, k, e)
        BY <1>5, <3>1, <3>2
      <4>. QED BY <1>1, <1>2, <2>1, <3>1, <4>1
    <3>3. CASE Adds(r, t, k, e)
      BY <1>2, <2>1, <3>3 DEF Adds
    <3>. QED BY <1>1, <3>2, <3>3
  <2>2. CASE p # r
    <3>1. rep'[p] = rep[p] /\ Leads(p)
      BY <1>2, <2>2 DEF Leads, Running
    <3>2. ~Adds(r, t, k, e)
      BY <2>2, <3>1 DEF Adds, AmLeader, Leads
    <3>. QED BY <1>1, <3>1, <3>2 DEF LeaderHolds
  <2>. QED BY <2>1, <2>2
<1>7. HeldUnique'
  <2>1. ASSUME NEW k \in Nat, NEW d \in Entries, NEW e \in Entries, Held(k, d)', Held(k, e)',
               d.view = e.view, Adds(r, t, k, e)
        PROVE  d = e
    <3>1. /\ t.log[k] = e /\ e.view = t.view /\ AmLeader(t, r)
          /\ rep[r].view = t.view /\ rep[r].status = "NORMAL" => KeepsView(rep[r], t)
      BY <2>1 DEF Adds, HasEntry
    <3>2. HasEntry(t, k, d)
      <4>1. CASE Held(k, d)
        <5>1. /\ rep[r].view = t.view /\ rep[r].status = "NORMAL"
              /\ KeepsView(rep[r], t) => HasEntry(t, k, d)
          BY <1>5, <2>1, <3>1, <4>1
        <5>. QED BY <3>1, <5>1
      <4>2. CASE Adds(r, t, k, d)
        BY <4>2 DEF Adds
      <4>. QED BY <1>1, <2>1, <4>1, <4>2
    <3>. QED BY <3>1, <3>2 DEF HasEntry
  <2>. SUFFICES ASSUME NEW k \in Nat, NEW d \in Entries, NEW e \in Entries,
                       Held(k, d)', Held(k, e)', d.view = e.view
                PROVE  d = e
    BY DEF HeldUnique
  <2>2. CASE Held(k, d) /\ Held(k, e)
    BY <2>2 DEF HeldUnique
  <2>. QED BY <1>1, <2>1, <2>2
<1>. QED BY <1>4, <1>6, <1>7

\* What a message of replica t carries is at t.
LEMMA HeldFrom ==
    ASSUME Typed, NEW r \in Replicas, NEW t \in ReplicaStates, rep' = [rep EXCEPT ![r] = t],
           BatchesKept(r, t), BallotsReceived, NEW sent, msgs' \subseteq msgs \cup sent,
           \A m \in sent : \A j \in Nat : \A d \in Entries : Carries(m, j, d) => Stores(t, j, d),
           NEW k \in Nat, NEW e \in Entries, Held(k, e)'
    PROVE  Held(k, e) \/ HasEntry(t, k, e)
<1>1. rep'[r] = t /\ \A p \in Replicas : p # r => rep'[p] = rep[p]
  BY DEF Typed
<1>2. ASSUME Stores(t, k, e)
      PROVE  Held(k, e) \/ HasEntry(t, k, e)
  <2>1. SUFFICES ASSUME NEW b \in Batches, HasBatch(t, b), InBatch(b, k, e)
                 PROVE  Held(k, e) \/ HasEntry(t, k, e)
    BY <1>2 DEF Stores
  <2>2. CASE HasBatch(rep[r], b)
    BY <2>1, <2>2 DEF Held, Stores
  <2>3. CASE \E m \in msgs : m.type = "Prepare" /\ m.batch = b
    BY <2>1, <2>3 DEF Held, Carries
  <2>4. CASE CutFrom(t, b)
    <3>1. PICK i \in 1 .. Len(b.requests) :
              k = b.batchstart + i - 1 /\ e = [view |-> b.view, req |-> b.requests[i]]
      BY <2>1 DEF InBatch
    <3>2. t.log[k] = e /\ b.batchstart \in Nat \ {0}
          /\ b.batchstart + Len(b.requests) - 1 <= Len(t.log)
      BY <2>4, <3>1 DEF CutFrom
    <3>3. Len(b.requests) \in Nat /\ Len(t.log) \in Nat
      BY StateFields DEF Batches
    <3>4. k \in 1 .. Len(t.log)
      <4>1. PICK a, n, l : a = b.batchstart /\ n = Len(b.requests) /\ l = Len(t.log)
        OBVIOUS
      <4>2. a \in Nat \ {0} /\ n \in Nat /\ l \in Nat /\ i \in 1 .. n
            /\ a + n - 1 <= l /\ k = a + i - 1
        BY <3>1, <3>2, <3>3, <4>1
      <4>3. k \in 1 .. l
        BY <4>2
      <4>. QED BY <4>1, <4>3
    <3>. QED BY <3>2, <3>4 DEF HasEntry
  <2>. QED BY <2>1, <2>2, <2>3, <2>4 DEF BatchesKept, KnownBatch
<1>3. CASE \E p \in Replicas : Stores(rep'[p], k, e)
  BY <1>1, <1>2, <1>3 DEF Held
<1>4. CASE \E m \in msgs' : Carries(m, k, e)
  BY <1>2, <1>4 DEF Held
<1>5. CASE \E p \in Replicas : \E m \in ballots'[p] : Carries(m, k, e)
  BY <1>5 DEF Held, BallotsReceived
<1>. QED BY <1>3, <1>4, <1>5 DEF Held

\* The entries of a log dump are those of the log.
LEMMA DumpEntries ==
    ASSUME NEW s \in ReplicaStates, NEW x \in Messages, x.type = "RequestStateTransfer",
           NEW m, m = LogDump(s, x)
    PROVE  /\ m.type = "StateTransfer" /\ m.view = s.view /\ m.first \in Nat
           /\ Len(m.entries) \in Nat
           /\ \A i \in 1 .. Len(m.entries) : HasEntry(s, m.first + i - 1, m.entries[i])
<1>1. x.opnum \in Nat /\ s.log \in Seq(Entries) /\ Len(s.log) \in Nat
  BY StateFields DEF Messages
<1>2. PICK f, es : f = x.opnum + 1 /\ es = SubSeq(s.log, f, Len(s.log))
  OBVIOUS
<1>3. m.type = "StateTransfer" /\ m.view = s.view /\ m.first = f /\ m.entries = es
  BY <1>2 DEF LogDump
<1>4. f \in Nat \ {0}
  BY <1>1, <1>2
<1>5. /\ es \in Seq(Entries) /\ Len(es) = IF f <= Len(s.log) THEN Len(s.log) - f + 1 ELSE 0
      /\ \A i \in 1 .. Len(s.log) - f + 1 : es[i] = s.log[f + i - 1]
  BY <1>1, <1>2, <1>4, SuffixFacts
<1>6. ASSUME NEW i \in 1 .. Len(es)
      PROVE  HasEntry(s, f + i - 1, es[i])
  <2>1. i \in 1 .. Len(s.log) - f + 1 /\ f + i - 1 \in 1 .. Len(s.log)
    BY <1>1, <1>4, <1>5
  <2>. QED BY <1>5, <2>1 DEF HasEntry
<1>. QED BY <1>3, <1>4, <1>5, <1>6

\* What a handler of the normal case sends is what its replica has.
LEMMA HonestCarries ==
    ASSUME Typed, NEW r \in Replicas, NEW t \in ReplicaStates, NEW m, Honest(r, t, m),
           NEW k \in Nat, NEW e \in Entries, Carries(m, k, e)
    PROVE  Stores(t, k, e)
<1>1. m \in Messages
  BY DEF Honest
<1>2. m.type \in {"Prepare", "PrepareOK", "Commit", "RequestStateTransfer", "StateTransfer"}
  BY <1>1 DEF Messages
<1>3. CASE m.type = "Prepare"
  <2>1. m.batch = t.lastPrepare /\ t.lastPrepare \in Batches /\ InBatch(m.batch, k, e)
    BY <1>3, StateFields DEF Honest, Carries
  <2>. QED BY <2>1 DEF Stores, HasBatch
<1>4. CASE m.type = "StateTransfer"
  <2>1. PICK x \in msgs : x \in Messages /\ x.type = "RequestStateTransfer" /\ m = LogDump(t, x)
    BY <1>4 DEF Honest
  <2>2. \A i \in 1 .. Len(m.entries) : HasEntry(t, m.first + i - 1, m.entries[i])
    BY <2>1, DumpEntries
  <2>. QED BY <1>4, <2>2 DEF Carries, Stores
<1>. QED BY <1>2, <1>3, <1>4 DEF Carries

\* So is what a handler of a view change sends.
LEMMA AnnouncedCarries ==
    ASSUME NEW r \in Replicas, NEW t \in ReplicaStates, NEW m, Announces(r, t, m),
           NEW k \in Nat, NEW e \in Entries, Carries(m, k, e)
    PROVE  Stores(t, k, e)
<1>1. m.type \in {"StartViewChange", "DoViewChange", "StartView", "PrepareOK"}
  BY DEF Announces
<1>2. m.type \in {"DoViewChange", "StartView"}
      /\ \E i \in 1 .. Len(m.entries) : k = m.first + i - 1 /\ e = m.entries[i]
  BY <1>1 DEF Carries
<1>3. PartOf(m, t.log)
  BY <1>2 DEF Announces
<1>4. HasEntry(t, k, e)
  BY <1>2, <1>3 DEF PartOf, HasEntry
<1>. QED BY <1>4 DEF Stores

\* What a replica has in its log is held.
LEMMA LogIsHeld ==
    ASSUME NEW r \in Replicas, NEW k, NEW e, HasEntry(rep[r], k, e)
    PROVE  Held(k, e)
BY DEF Held, Stores

\* A batch that a replica knows is held.
LEMMA BatchIsHeld ==
    ASSUME NEW r \in Replicas, NEW b \in Batches, KnownBatch(r, b),
           NEW k, NEW e, InBatch(b, k, e)
    PROVE  Held(k, e)
BY DEF KnownBatch, Held, Stores, Carries

\* A leader that orders a request keeps its log.
LEMMA OrdersAdds ==
    ASSUME NEW r \in Replicas, rep[r] \in ReplicaStates, NEW t, Orders(r, t),
           NEW k \in Nat, NEW e \in Entries, HasEntry(t, k, e)
    PROVE  HasEntry(rep[r], k, e) \/ Adds(r, t, k, e)
<1>1. PICK s, l : s = rep[r] /\ l = s.log
  OBVIOUS
<1>2. l \in Seq(Entries) /\ Len(l) \in Nat
  BY <1>1, StateFields
<1>3. PICK q \in Requests : t.log = Append(l, [view |-> s.view, req |-> q])
  BY <1>1 DEF Orders
<1>4. /\ Len(t.log) = Len(l) + 1
      /\ \A j \in 1 .. Len(l) : t.log[j] = l[j]
      /\ t.log[Len(l) + 1] = [view |-> s.view, req |-> q]
  BY <1>2, <1>3
<1>5. CASE k <= Len(l)
  BY <1>1, <1>2, <1>4, <1>5 DEF HasEntry
<1>6. CASE ~ (k <= Len(l))
  <2>1. k = Len(l) + 1
    BY <1>2, <1>4, <1>6 DEF HasEntry
  <2>2. e.view = t.view /\ AmLeader(t, r) /\ t.status = "NORMAL"
    BY <1>1, <1>4, <2>1 DEF HasEntry, Orders, AmLeader
  <2>3. KeepsView(s, t)
    BY <1>1, <1>2, <1>4 DEF KeepsView, HasEntry
  <2>. QED BY <1>1, <2>2, <2>3 DEF Adds
<1>. QED BY <1>5, <1>6

\* A batch that is appended is in the log.
LEMMA AppendsHeld ==
    ASSUME NEW r \in Replicas, rep[r] \in ReplicaStates, NEW t, Appends(r, t),
           NEW k \in Nat, NEW e, HasEntry(t, k, e)
    PROVE  Held(k, e)
<1>1. PICK s : s = rep[r]
  OBVIOUS
<1>2. PICK b \in Batches :
           /\ KnownBatch(r, b)
           /\ b.opnum = b.batchstart + Len(b.requests) - 1
           /\ b.batchstart <= s.lastOp + 1
           /\ Len(t.log) = b.opnum
           /\ \A j \in 1 .. Len(s.log) : t.log[j] = s.log[j]
           /\ \A j \in Len(s.log) + 1 .. Len(t.log) :
                  t.log[j] = [view |-> b.view, req |-> b.requests[j - b.batchstart + 1]]
  BY <1>1 DEF Appends
<1>3. s.lastOp = Len(s.log) /\ Len(s.log) \in Nat
  BY <1>1, StateFields DEF Appends
<1>4. b.batchstart \in Nat /\ Len(b.requests) \in Nat
  BY DEF Batches
<1>5. PICK a, n, l : a = b.batchstart /\ n = Len(b.requests) /\ l = Len(s.log)
  OBVIOUS
<1>6. a \in Nat /\ n \in Nat /\ l \in Nat /\ a <= l + 1 /\ k \in 1 .. a + n - 1
  BY <1>2, <1>3, <1>4, <1>5 DEF HasEntry
<1>7. CASE k <= l
  <2>1. k \in 1 .. l
    BY <1>6, <1>7
  <2>. QED BY <1>1, <1>2, <1>5, <2>1, LogIsHeld DEF HasEntry
<1>8. CASE ~ (k <= l)
  <2>1. PICK i : i = k - a + 1
    OBVIOUS
  <2>2. i \in 1 .. n /\ k = a + i - 1 /\ k \in l + 1 .. a + n - 1
    BY <1>6, <1>8, <2>1
  <2>3. e = [view |-> b.view, req |-> b.requests[i]]
    BY <1>2, <1>5, <2>1, <2>2 DEF HasEntry
  <2>4. InBatch(b, k, e)
    BY <1>5, <2>2, <2>3 DEF InBatch
  <2>. QED BY <1>2, <2>4, BatchIsHeld
<1>. QED BY <1>6, <1>7, <1>8

\* An entry that a state transfer leaves was in the log or is in the message.
LEMMA TakesEntry ==
    ASSUME NEW s \in ReplicaStates, NEW m \in Messages, m.type = "StateTransfer",
           NEW l, NEW n \in Nat, Takes(s, m, l, n), NEW k \in 1 .. Len(l)
    PROVE  \/ k < n /\ k \in 1 .. Len(s.log) /\ l[k] = s.log[k]
           \/ \E i \in 1 .. Len(m.entries) : k = m.first + i - 1 /\ l[k] = m.entries[i]
<1>1. PICK a, c, z : a = m.first /\ c = Len(m.entries) /\ z = Len(s.log)
  OBVIOUS
<1>2. a \in Nat /\ c \in Nat /\ z \in Nat
  BY <1>1, StateFields DEF Messages
<1>3. /\ n \in 1 .. z + 1 /\ a <= n /\ n <= a + c - 1 /\ Len(l) = a + c - 1
      /\ \A j \in 1 .. n - 1 : l[j] = s.log[j]
      /\ \A j \in n .. a + c - 1 : l[j] = m.entries[j - a + 1]
  BY <1>1 DEF Takes, LastEntry
<1>4. k \in 1 .. a + c - 1
  BY <1>3
<1>5. CASE k < n
  <2>1. k \in 1 .. n - 1 /\ k \in 1 .. z
    BY <1>2, <1>3, <1>4, <1>5
  <2>. QED BY <1>1, <1>3, <1>5, <2>1
<1>6. CASE ~ (k < n)
  <2>1. PICK i : i = k - a + 1
    OBVIOUS
  <2>2. i \in 1 .. c /\ k = a + i - 1 /\ k \in n .. a + c - 1
    BY <1>2, <1>3, <1>4, <1>6, <2>1
  <2>. QED BY <1>1, <1>3, <2>1, <2>2
<1>. QED BY <1>5, <1>6

\* What a message of the network carries is held.
LEMMA TransferIsHeld ==
    ASSUME NEW m \in msgs, m.type = "StateTransfer", NEW i \in 1 .. Len(m.entries),
           NEW k, k = m.first + i - 1
    PROVE  Held(k, m.entries[i])
BY DEF Held, Carries

\* Whatever a handler of the normal case has in the log is not new, or ordered now.
LEMMA HandlesHeld ==
    ASSUME Typed, NEW r \in Replicas, NEW t, NEW sent, Handles(r, t, sent),
           NEW k \in Nat, NEW e \in Entries, HasEntry(t, k, e)
    PROVE  Held(k, e) \/ Adds(r, t, k, e)
<1>1. rep[r] \in ReplicaStates /\ t \in ReplicaStates
  BY TypedReplica DEF Handles
<1>2. CASE t.log = rep[r].log
  BY <1>2, LogIsHeld DEF HasEntry
<1>3. CASE Orders(r, t)
  BY <1>1, <1>3, OrdersAdds, LogIsHeld
<1>4. CASE Appends(r, t)
  BY <1>1, <1>4, AppendsHeld
<1>5. CASE Transfers(r, t) /\ t.log # rep[r].log
  <2>1. PICK m \in msgs : /\ m \in Messages /\ m.type = "StateTransfer"
                          /\ \E n \in Nat : Takes(rep[r], m, t.log, n)
    BY <1>5 DEF Transfers
  <2>2. PICK n \in Nat : Takes(rep[r], m, t.log, n)
    BY <2>1
  <2>3. k \in 1 .. Len(t.log) /\ t.log[k] = e
    BY DEF HasEntry
  <2>4. \/ k \in 1 .. Len(rep[r].log) /\ t.log[k] = rep[r].log[k]
        \/ \E i \in 1 .. Len(m.entries) : k = m.first + i - 1 /\ t.log[k] = m.entries[i]
    BY <1>1, <2>1, <2>2, <2>3, TakesEntry
  <2>. QED BY <2>1, <2>3, <2>4, LogIsHeld, TransferIsHeld DEF HasEntry
<1>. QED BY <1>2, <1>3, <1>4, <1>5 DEF Handles, Stays, SameProgress, Counts, Follows

\* Whatever a handler of a view change has in the log is not new, or ordered now.
LEMMA ChangesHeld ==
    ASSUME Typed, NEW r \in Replicas, NEW t, NEW sent, Changes(r, t, sent),
           NEW k \in Nat, NEW e \in Entries, HasEntry(t, k, e)
    PROVE  Held(k, e) \/ Adds(r, t, k, e)
<1>1. rep[r].view \in Nat /\ t.view \in Nat
  BY TypedReplica, StateFields DEF Changes
<1>2. CASE SameProgress(rep[r], t)
  BY <1>2, LogIsHeld DEF SameProgress, HasEntry
<1>3. CASE /\ t.view > rep[r].view \/ (t.view = rep[r].view /\ rep[r].status # "NORMAL")
           /\ \A j \in 1 .. Len(t.log) :
                  \/ j <= Len(rep[r].log) /\ t.log[j] = rep[r].log[j]
                  \/ Brought(r, t.view, t.log, j)
                  \/ AmLeader(t, r) /\ t.status = "NORMAL" /\ t.log[j].view = t.view
  <2>1. k \in 1 .. Len(t.log) /\ t.log[k] = e
    BY DEF HasEntry
  <2>2. CASE k <= Len(rep[r].log) /\ t.log[k] = rep[r].log[k]
    <3>1. k \in 1 .. Len(rep[r].log)
      BY <2>1, <2>2
    <3>. QED BY <2>1, <2>2, <3>1, LogIsHeld DEF HasEntry
  <2>3. CASE Brought(r, t.view, t.log, k)
    BY <2>1, <2>3 DEF Brought, Held, Carries
  <2>4. CASE AmLeader(t, r) /\ t.status = "NORMAL" /\ t.log[k].view = t.view
    BY <1>1, <1>3, <2>1, <2>4 DEF Adds, HasEntry
  <2>. QED BY <1>3, <2>1, <2>2, <2>3, <2>4
<1>. QED BY <1>2, <1>3 DEF Changes

\* The replicas do not go back in the normal case.
LEMMA HandlesAdvances ==
    ASSUME Typed, NEW r \in Replicas, NEW t, NEW sent, Handles(r, t, sent)
    PROVE  Advances(rep[r], t)
<1>1. rep[r].view \in Nat
  BY TypedReplica, StateFields
<1>2. CASE t.view = rep[r].view /\ t.status = rep[r].status
  BY <1>2 DEF Advances
<1>3. CASE Transfers(r, t)
  <2>1. PICK m \in msgs :
            /\ m \in Messages /\ m.type = "StateTransfer" /\ m.view >= rep[r].view
            /\ \/ t.view = rep[r].view /\ t.status = rep[r].status
               \/ /\ t.view = m.view
                  /\ m.view > rep[r].view \/ t.status = rep[r].status
    BY <1>3 DEF Transfers
  <2>2. m.view \in Nat
    BY <2>1 DEF Messages, Views
  <2>. QED BY <1>1, <2>1, <2>2 DEF Advances
<1>. QED BY <1>2, <1>3 DEF Handles, Stays, SameProgress, Orders, Counts, Follows, Appends

\* Nor in a view change.
LEMMA ChangesAdvances ==
    ASSUME Typed, NEW r \in Replicas, NEW t, NEW sent, Changes(r, t, sent)
    PROVE  Advances(rep[r], t)
BY DEF Changes, SameProgress, Advances

\* The log dump that a leader installs leaves the entries of its view in its log: the
\* entry at which the dump takes over, of an older view than that of the dump, is one
\* of the first view, and that of the dump one of the leader's, who has it already.
LEMMA TransfersKeep ==
    ASSUME Typed, LeaderHolds, ViewsPast, ViewsBounded, TransfersBounded,
           MaxView <= 1 \/ TransferBound = 0,
           NEW r \in Replicas, NEW t \in ReplicaStates, Transfers(r, t),
           Leads(r), t.view = rep[r].view, ~t.aborted
    PROVE  KeepsView(rep[r], t)
<1>1. PICK s : s = rep[r]
  OBVIOUS
<1>2. PICK m \in msgs :
          /\ m \in Messages /\ m.type = "StateTransfer"
          /\ t.log = s.log \/ \E n \in Nat : Takes(s, m, t.log, n)
          /\ t.view = m.view
  BY <1>1 DEF Transfers
<1>3. s \in ReplicaStates /\ s.log \in Seq(Entries) /\ Len(s.log) \in Nat /\ s.view \in Nat
  BY <1>1, TypedReplica, StateFields
<1>4. CASE t.log = s.log
  BY <1>1, <1>4 DEF KeepsView, HasEntry
<1>5. ASSUME NEW n \in Nat, Takes(s, m, t.log, n)
      PROVE  KeepsView(s, t)
  <2>1. m.view <= 1 /\ m.view = s.view
    <3>1. TransferBound # 0
      BY <1>2 DEF TransfersBounded
    <3>2. m.view <= MaxView /\ MaxView \in Nat /\ MaxView <= 1
      BY <1>2, <3>1, ViewChangeAssumption DEF ViewsBounded
    <3>. QED BY <1>1, <1>2, <1>3, <3>2
  <2>2. PICK a, c : a = m.first /\ c = Len(m.entries)
    OBVIOUS
  <2>3. a \in Nat /\ c \in Nat /\ m.entries \in Seq(Entries)
    BY <1>2, <2>2 DEF Messages
  <2>4. /\ n \in 1 .. Len(s.log) + 1 /\ a <= n /\ n <= a + c - 1
        /\ n <= Len(s.log) => s.log[n].view < m.entries[n - a + 1].view
        /\ Len(t.log) = a + c - 1
        /\ \A j \in 1 .. n - 1 : t.log[j] = s.log[j]
    BY <1>5, <2>2 DEF Takes, LastEntry
  <2>5. ~ (n <= Len(s.log))
    <3>. SUFFICES ASSUME n <= Len(s.log)
                  PROVE  FALSE
      OBVIOUS
    <3>1. PICK i : i = n - a + 1
      OBVIOUS
    <3>2. i \in 1 .. c /\ n = a + i - 1 /\ n \in 1 .. Len(s.log)
      BY <1>3, <2>3, <2>4, <3>1
    <3>3. PICK d, e : d = s.log[n] /\ e = m.entries[i]
      OBVIOUS
    <3>4. d \in Entries /\ e \in Entries
      BY <1>3, <2>2, <2>3, <3>2, <3>3, ElementOfSeq
    <3>5. d.view \in Nat /\ e.view \in Nat
      BY <3>4 DEF Entries, Views
    <3>6. d.view < e.view
      BY <2>4, <3>1, <3>3
    <3>7. Held(n, e)
      BY <1>2, <2>2, <3>2, <3>3, TransferIsHeld
    <3>8. e.view <= m.view
      BY <1>2, <2>2, <3>2, <3>3 DEF ViewsPast, CarriedViews
    <3>9. e.view = s.view
      BY <1>3, <2>1, <3>5, <3>6, <3>8
    <3>10. HasEntry(s, n, e)
      BY <1>1, <3>2, <3>4, <3>7, <3>9 DEF LeaderHolds
    <3>. QED BY <3>3, <3>5, <3>6, <3>10 DEF HasEntry
  <2>6. \A j \in 1 .. Len(s.log) : j \in 1 .. n - 1 /\ j \in 1 .. a + c - 1
    BY <1>3, <2>3, <2>4, <2>5
  <2>. QED BY <2>4, <2>6 DEF KeepsView, HasEntry
<1>. QED BY <1>1, <1>2, <1>4, <1>5

\* A handler of the normal case.
LEMMA HandlesExtends ==
    ASSUME ViewstampInv, MaxView <= 1 \/ TransferBound = 0, BallotsReceived,
           NEW r \in Replicas, NEW t, NEW sent, Handles(r, t, sent)
    PROVE  Extends(r, t)
<1>1. /\ Typed /\ t \in ReplicaStates /\ rep' = [rep EXCEPT ![r] = t] /\ Running(r)
      /\ BatchesKept(r, t) /\ msgs' \subseteq msgs \cup sent
  BY DEF ViewstampInv, ViewChangeTyped, Handles, Running
<1>2. rep[r] \in ReplicaStates
  BY <1>1, TypedReplica
<1>3. Advances(rep[r], t)
  BY <1>1, HandlesAdvances
<1>4. ASSUME NEW k \in Nat, NEW e \in Entries, Held(k, e)'
      PROVE  Held(k, e) \/ Adds(r, t, k, e)
  <2>1. \A m \in sent : \A j \in Nat : \A d \in Entries : Carries(m, j, d) => Stores(t, j, d)
    BY <1>1, HonestCarries DEF Handles
  <2>2. Held(k, e) \/ HasEntry(t, k, e)
    BY <1>1, <1>4, <2>1, HeldFrom
  <2>. QED BY <1>1, <2>2, HandlesHeld
<1>5. ASSUME Leads(r), t.view = rep[r].view, ~t.aborted
      PROVE  KeepsView(rep[r], t)
  <2>1. CASE t.log = rep[r].log
    BY <2>1 DEF KeepsView, HasEntry
  <2>2. CASE Orders(r, t)
    <3>1. PICK l : l = rep[r].log
      OBVIOUS
    <3>2. l \in Seq(Entries) /\ Len(l) \in Nat
      BY <1>2, <3>1, StateFields
    <3>3. PICK e : t.log = Append(l, e)
      BY <2>2, <3>1 DEF Orders
    <3>4. Len(t.log) = Len(l) + 1 /\ \A j \in 1 .. Len(l) : t.log[j] = l[j]
      BY <3>2, <3>3
    <3>. QED BY <3>1, <3>2, <3>4 DEF KeepsView, HasEntry
  <2>3. CASE Appends(r, t)
    BY <1>5, <2>3 DEF Appends, Leads
  <2>4. CASE Transfers(r, t)
    BY <1>1, <1>5, <2>4, TransfersKeep DEF ViewstampInv
  <2>. QED BY <2>1, <2>2, <2>3, <2>4 DEF Handles, Stays, SameProgress, Counts, Follows
<1>. QED BY <1>1, <1>3, <1>4, <1>5 DEF Extends

\* A handler of a view change.
LEMMA ChangesExtends ==
    ASSUME Typed, BallotsReceived, NEW r \in Replicas, NEW t, NEW sent, Changes(r, t, sent)
    PROVE  Extends(r, t)
<1>1. /\ t \in ReplicaStates /\ rep' = [rep EXCEPT ![r] = t] /\ Running(r)
      /\ SameBatches(rep[r], t) /\ msgs' \subseteq msgs \cup sent
  BY DEF Changes, Running
<1>2. Advances(rep[r], t)
  BY ChangesAdvances
<1>3. BatchesKept(r, t)
  BY <1>1 DEF BatchesKept, KnownBatch, HasBatch, SameBatches
<1>4. ASSUME NEW k \in Nat, NEW e \in Entries, Held(k, e)'
      PROVE  Held(k, e) \/ Adds(r, t, k, e)
  <2>1. \A m \in sent : \A j \in Nat : \A d \in Entries : Carries(m, j, d) => Stores(t, j, d)
    BY <1>1, AnnouncedCarries DEF Changes
  <2>2. Held(k, e) \/ HasEntry(t, k, e)
    BY <1>1, <1>3, <1>4, <2>1, HeldFrom
  <2>. QED BY <2>2, ChangesHeld
<1>5. ASSUME Leads(r), t.view = rep[r].view, ~t.aborted
      PROVE  KeepsView(rep[r], t)
  <2>1. rep[r].view \in Nat /\ rep[r].status = "NORMAL"
    BY <1>5, TypedReplica, StateFields DEF Leads
  <2>. QED BY <1>5, <2>1 DEF Changes
<1>. QED BY <1>1, <1>2, <1>4, <1>5 DEF Extends

\* The log of a replica stays behind its view in the normal case.
LEMMA HandlesOwnViews ==
    ASSUME Typed, ViewsPast, NEW r \in Replicas, NEW t, NEW sent, Handles(r, t, sent), ~t.aborted
    PROVE  OwnViews(t)
<1>1. PICK s : s = rep[r]
  OBVIOUS
<1>2. s \in ReplicaStates /\ t \in ReplicaStates /\ OwnViews(s)
  BY <1>1, TypedReplica DEF Handles, ViewsPast, Running
<1>3. s.log \in Seq(Entries) /\ s.view \in Nat /\ t.view \in Nat /\ Len(s.log) \in Nat
  BY <1>2, StateFields
<1>4. \A k \in 1 .. Len(s.log) : s.log[k].view \in Nat /\ s.log[k].view <= s.view
  <2>1. \A k \in 1 .. Len(s.log) : s.log[k] \in Entries
    BY <1>3, ElementOfSeq
  <2>. QED BY <1>2, <2>1 DEF Entries, Views, OwnViews
<1>5. CASE t.log = s.log /\ t.view = s.view
  BY <1>4, <1>5 DEF OwnViews
<1>6. CASE Orders(r, t)
  <2>1. PICK l : l = s.log
    OBVIOUS
  <2>2. l \in Seq(Entries) /\ Len(l) \in Nat
    BY <1>3, <2>1
  <2>3. PICK q : t.log = Append(l, [view |-> s.view, req |-> q]) /\ t.view = s.view
    BY <1>1, <1>6, <2>1 DEF Orders
  <2>4. /\ Len(t.log) = Len(l) + 1 /\ \A j \in 1 .. Len(l) : t.log[j] = l[j]
        /\ t.log[Len(l) + 1] = [view |-> s.view, req |-> q]
    BY <2>2, <2>3
  <2>5. \A j \in 1 .. Len(t.log) : j \in 1 .. Len(l) \/ j = Len(l) + 1
    BY <2>2, <2>4
  <2>. QED BY <1>3, <1>4, <2>1, <2>3, <2>4, <2>5 DEF OwnViews
<1>7. CASE Appends(r, t)
  <2>1. /\ t.view = s.view
        /\ \A k \in 1 .. Len(s.log) : t.log[k] = s.log[k]
        /\ \A k \in Len(s.log) + 1 .. Len(t.log) : t.log[k].view = s.view
    <3>1. PICK b \in Batches :
              /\ b.view = s.view /\ t.view = s.view
              /\ \A k \in 1 .. Len(s.log) : t.log[k] = s.log[k]
              /\ \A k \in Len(s.log) + 1 .. Len(t.log) :
                     t.log[k] = [view |-> b.view, req |-> b.requests[k - b.batchstart + 1]]
      BY <1>1, <1>7, Zenon DEF Appends
    <3>2. \A k \in Len(s.log) + 1 .. Len(t.log) : t.log[k].view = b.view
      <4>. SUFFICES ASSUME NEW k \in Len(s.log) + 1 .. Len(t.log)
                    PROVE  t.log[k].view = b.view
        OBVIOUS
      <4>1. PICK q : q = b.requests[k - b.batchstart + 1]
        OBVIOUS
      <4>2. t.log[k] = [view |-> b.view, req |-> q]
        BY <3>1, <4>1, Zenon
      <4>. QED BY <4>2
    <3>. QED BY <3>1, <3>2
  <2>2. \A k \in 1 .. Len(t.log) : k \in 1 .. Len(s.log) \/ k \in Len(s.log) + 1 .. Len(t.log)
    BY <1>2, <1>3, StateFields
  <2>. QED BY <1>3, <1>4, <2>1, <2>2 DEF OwnViews
<1>8. CASE Transfers(r, t)
  <2>1. PICK m \in msgs :
            /\ m \in Messages /\ m.type = "StateTransfer" /\ m.view >= s.view
            /\ t.log = s.log \/ \E n \in Nat : Takes(s, m, t.log, n)
            /\ t.view = m.view
    BY <1>1, <1>8 DEF Transfers
  <2>2. \A i \in 1 .. Len(m.entries) : m.entries[i].view <= m.view
    BY <2>1 DEF ViewsPast, CarriedViews
  <2>3. \A k \in 1 .. Len(s.log) : s.log[k].view <= t.view
    BY <1>3, <1>4, <2>1
  <2>4. CASE t.log = s.log
    BY <2>3, <2>4 DEF OwnViews
  <2>5. ASSUME NEW n \in Nat, Takes(s, m, t.log, n)
        PROVE  OwnViews(t)
    <3>1. \A k \in 1 .. Len(t.log) :
              \/ k \in 1 .. Len(s.log) /\ t.log[k] = s.log[k]
              \/ \E i \in 1 .. Len(m.entries) : t.log[k] = m.entries[i]
      BY <1>2, <2>1, <2>5, TakesEntry
    <3>. QED BY <2>1, <2>2, <2>3, <3>1 DEF OwnViews
  <2>. QED BY <2>1, <2>4, <2>5
<1>. QED BY <1>1, <1>5, <1>6, <1>7, <1>8 DEF Handles, Stays, SameProgress, Counts, Follows

\* So it does in a view change.
LEMMA ChangesOwnViews ==
    ASSUME Typed, ViewsPast, NEW r \in Replicas, NEW t, NEW sent, Changes(r, t, sent)
    PROVE  OwnViews(t)
<1>1. PICK s : s = rep[r]
  OBVIOUS
<1>2. s \in ReplicaStates /\ t \in ReplicaStates /\ OwnViews(s)
  BY <1>1, TypedReplica DEF Changes, ViewsPast, Running
<1>3. s.log \in Seq(Entries) /\ s.view \in Nat /\ t.view \in Nat /\ Len(s.log) \in Nat
      /\ t.log \in Seq(Entries)
  BY <1>2, StateFields
<1>4. \A k \in 1 .. Len(s.log) : s.log[k].view \in Nat /\ s.log[k].view <= s.view
  <2>1. \A k \in 1 .. Len(s.log) : s.log[k] \in Entries
    BY <1>3, ElementOfSeq
  <2>. QED BY <1>2, <2>1 DEF Entries, Views, OwnViews
<1>5. CASE SameProgress(s, t)
  BY <1>4, <1>5 DEF OwnViews, SameProgress
<1>6. CASE /\ t.view >= s.view
           /\ \A j \in 1 .. Len(t.log) :
                  \/ j <= Len(s.log) /\ t.log[j] = s.log[j]
                  \/ Brought(r, t.view, t.log, j)
                  \/ t.log[j].view = t.view
  <2>. SUFFICES ASSUME NEW j \in 1 .. Len(t.log)
                PROVE  t.log[j].view <= t.view
    BY DEF OwnViews
  <2>1. CASE j <= Len(s.log) /\ t.log[j] = s.log[j]
    <3>1. j \in 1 .. Len(s.log)
      BY <2>1
    <3>2. PICK v, w, x : v = s.log[j].view /\ w = s.view /\ x = t.view
      OBVIOUS
    <3>3. v \in Nat /\ w \in Nat /\ x \in Nat /\ v <= w /\ x >= w
      BY <1>3, <1>4, <1>6, <3>1, <3>2
    <3>4. v <= x
      BY <3>3
    <3>. QED BY <2>1, <3>2, <3>4
  <2>2. CASE Brought(r, t.view, t.log, j)
    <3>1. PICK m \in msgs \cup ballots[r] :
              /\ m.type \in {"DoViewChange", "StartView"} /\ m.view = t.view
              /\ \E i \in 1 .. Len(m.entries) : t.log[j] = m.entries[i]
      BY <2>2 DEF Brought
    <3>2. CarriedViews(m)
      BY <3>1 DEF ViewsPast
    <3>. QED BY <3>1, <3>2 DEF CarriedViews
  <2>3. CASE t.log[j].view = t.view
    BY <1>3, <2>3
  <2>. QED BY <1>6, <2>1, <2>2, <2>3
<1>7. t.view > s.view \/ t.view = s.view => t.view >= s.view
  BY <1>3
<1>. QED BY <1>1, <1>5, <1>6, <1>7 DEF Changes

\* What holds of the replica, and of what it sends, holds of all after the step.
LEMMA ViewsPastAfter ==
    ASSUME Typed, ViewsPast, BallotsReceived, NEW r \in Replicas, NEW t,
           rep' = [rep EXCEPT ![r] = t], ~t.aborted => OwnViews(t),
           NEW sent, msgs' \subseteq msgs \cup sent, \A m \in sent : CarriedViews(m)
    PROVE  ViewsPast'
<1>1. rep'[r] = t /\ \A p \in Replicas : p # r => rep'[p] = rep[p]
  BY DEF Typed
<1>2. \A p \in Replicas : ~rep'[p].aborted => OwnViews(rep'[p])
  BY <1>1 DEF ViewsPast, Running
<1>3. \A m \in msgs' : CarriedViews(m)
  BY DEF ViewsPast
<1>4. \A p \in Replicas : \A m \in ballots'[p] : CarriedViews(m)
  BY DEF ViewsPast, BallotsReceived
<1>. QED BY <1>2, <1>3, <1>4 DEF ViewsPast, Running

\* A handler of the normal case leaves views and transfers within their bounds.
LEMMA HandlesBounds ==
    ASSUME ViewstampInv, BallotsReceived, NEW r \in Replicas, NEW t, NEW sent,
           Handles(r, t, sent)
    PROVE  ViewsPast' /\ ViewsBounded' /\ TransfersBounded'
<1>1. /\ Typed /\ t \in ReplicaStates /\ rep' = [rep EXCEPT ![r] = t] /\ ~rep[r].aborted
      /\ msgs' \subseteq msgs \cup sent /\ \A m \in sent : Honest(r, t, m)
      /\ ViewsPast /\ ViewsBounded /\ TransfersBounded
  BY DEF ViewstampInv, ViewChangeTyped, Handles
<1>2. rep[r] \in ReplicaStates /\ rep[r].view \in Nat /\ MaxView \in Nat
  BY <1>1, TypedReplica, StateFields, ViewChangeAssumption
<1>3. ASSUME NEW m \in sent, m.type = "StateTransfer"
      PROVE  /\ t = rep[r] /\ m.view = t.view /\ CarriedViews(m)
             /\ TransferBound # 0
  <2>1. /\ t = rep[r] /\ Cardinality({x \in msgs : x.type = "StateTransfer"}) < TransferBound
        /\ \E x \in msgs : /\ x \in Messages /\ x.type = "RequestStateTransfer"
                           /\ m = LogDump(t, x)
    BY <1>1, <1>3 DEF Honest
  <2>2. /\ m.view = t.view /\ Len(m.entries) \in Nat
        /\ \A i \in 1 .. Len(m.entries) : HasEntry(t, m.first + i - 1, m.entries[i])
    BY <1>1, <2>1, DumpEntries
  <2>3. OwnViews(t)
    BY <1>1, <2>1 DEF ViewsPast, Running
  <2>4. CarriedViews(m)
    BY <2>2, <2>3 DEF CarriedViews, HasEntry, OwnViews
  <2>5. TransferBound # 0
    <3>. SUFFICES ASSUME TransferBound = 0
                  PROVE  FALSE
      OBVIOUS
    <3>1. {x \in msgs : x.type = "StateTransfer"} = {}
      BY <1>1 DEF TransfersBounded
    <3>2. Cardinality({x \in msgs : x.type = "StateTransfer"}) = 0
      BY <3>1, FS_EmptySet
    <3>. QED BY <2>1, <3>2
  <2>. QED BY <2>1, <2>2, <2>4, <2>5
<1>4. \A m \in sent : m.type \in {"StartViewChange", "DoViewChange", "StartView"} => FALSE
  BY <1>1 DEF Honest, Messages
<1>5. ViewsPast'
  <2>1. ~t.aborted => OwnViews(t)
    BY <1>1, HandlesOwnViews
  <2>2. \A m \in sent : CarriedViews(m)
    BY <1>3, <1>4 DEF CarriedViews
  <2>. QED BY <1>1, <2>1, <2>2, ViewsPastAfter
<1>6. ViewsBounded'
  <2>1. t.view <= MaxView
    <3>1. CASE t.view = rep[r].view
      BY <1>1, <3>1 DEF ViewsBounded
    <3>2. CASE Transfers(r, t) /\ t.view # rep[r].view
      BY <1>1, <3>2 DEF Transfers, ViewsBounded
    <3>. QED BY <3>1, <3>2 DEF Handles, Stays, SameProgress, Orders, Counts, Follows, Appends
  <2>2. \A p \in Replicas : rep'[p].view <= MaxView
    BY <1>1, <2>1 DEF ViewsBounded, Typed
  <2>3. \A m \in sent :
            m.type \in {"StateTransfer", "StartViewChange", "DoViewChange", "StartView"}
                => m.view <= MaxView
    BY <1>3, <1>4, <2>1
  <2>. QED BY <1>1, <2>2, <2>3 DEF ViewsBounded
<1>7. TransfersBounded'
  BY <1>1, <1>3 DEF TransfersBounded
<1>. QED BY <1>5, <1>6, <1>7

\* So does a handler of a view change.
LEMMA ChangesBounds ==
    ASSUME ViewstampInv, BallotsReceived, NEW r \in Replicas, NEW t, NEW sent,
           Changes(r, t, sent)
    PROVE  ViewsPast' /\ ViewsBounded' /\ TransfersBounded'
<1>1. /\ Typed /\ t \in ReplicaStates /\ rep' = [rep EXCEPT ![r] = t] /\ Moves(r, t.view)
      /\ msgs' \subseteq msgs \cup sent /\ \A m \in sent : Announces(r, t, m)
      /\ ViewsPast /\ ViewsBounded /\ TransfersBounded
  BY DEF ViewstampInv, ViewChangeTyped, Changes
<1>2. OwnViews(t)
  BY <1>1, ChangesOwnViews
<1>3. \A m \in sent : m.type \in {"StartViewChange", "DoViewChange", "StartView", "PrepareOK"}
  BY <1>1 DEF Announces
<1>4. ViewsPast'
  <2>1. \A m \in sent : CarriedViews(m)
    <3>. SUFFICES ASSUME NEW m \in sent, m.type \in {"DoViewChange", "StartView"}
                  PROVE  CarriedViews(m)
      BY <1>3 DEF CarriedViews
    <3>1. m.view = t.view /\ PartOf(m, t.log)
      BY <1>1 DEF Announces
    <3>. QED BY <1>2, <3>1 DEF CarriedViews, OwnViews, PartOf
  <2>. QED BY <1>1, <1>2, <2>1, ViewsPastAfter
<1>5. ViewsBounded'
  <2>1. t.view <= MaxView
    <3>1. CASE \E m \in msgs : m \in ViewChangeMessages /\ m.view = t.view
      <4>1. \A m \in ViewChangeMessages : m.type \in {"StartViewChange", "DoViewChange", "StartView"}
        BY DEF ViewChangeMessages
      <4>. QED BY <1>1, <3>1, <4>1 DEF ViewsBounded
    <3>. QED BY <1>1, <3>1 DEF Moves, ViewsBounded
  <2>2. \A p \in Replicas : rep'[p].view <= MaxView
    BY <1>1, <2>1 DEF ViewsBounded, Typed
  <2>3. \A m \in sent :
            m.type \in {"StateTransfer", "StartViewChange", "DoViewChange", "StartView"}
                => m.view <= MaxView
    BY <1>1, <2>1 DEF Announces
  <2>. QED BY <1>1, <2>2, <2>3 DEF ViewsBounded
<1>6. TransfersBounded'
  BY <1>1, <1>3 DEF TransfersBounded
<1>. QED BY <1>4, <1>5, <1>6

\* A step that does nothing to the replicas and the network adds nothing.
LEMMA HeldBefore ==
    ASSUME UNCHANGED vars, BallotsReceived, NEW k, NEW e, Held(k, e)'
    PROVE  Held(k, e)
<1>1. rep' = rep /\ msgs' = msgs
  BY DEF vars
<1>2. CASE \E r \in Replicas : Stores(rep'[r], k, e)
  BY <1>1, <1>2 DEF Held
<1>3. CASE \E m \in msgs' : Carries(m, k, e)
  BY <1>1, <1>3 DEF Held
<1>4. CASE \E r \in Replicas : \E m \in ballots'[r] : Carries(m, k, e)
  BY <1>4 DEF Held, BallotsReceived
<1>. QED BY <1>2, <1>3, <1>4 DEF Held

\* It keeps the invariant.
LEMMA NothingNew ==
    ASSUME ViewstampInv, UNCHANGED vars, BallotsReceived
    PROVE  /\ HeldEntered' /\ LeaderHolds' /\ HeldUnique'
           /\ ViewsPast' /\ ViewsBounded' /\ TransfersBounded'
<1>1. /\ HeldEntered /\ LeaderHolds /\ HeldUnique
      /\ ViewsPast /\ ViewsBounded /\ TransfersBounded
      /\ rep' = rep /\ msgs' = msgs
  BY DEF ViewstampInv, vars
<1>2. \A k, e : Held(k, e)' => Held(k, e)
  BY HeldBefore
<1>3. HeldEntered'
  BY <1>1, <1>2 DEF HeldEntered, Entered
<1>4. LeaderHolds'
  <2>1. \A r : Leads(r)' <=> Leads(r)
    BY <1>1 DEF Leads, Running
  <2>. QED BY <1>1, <1>2, <2>1 DEF LeaderHolds
<1>5. HeldUnique'
  BY <1>1, <1>2 DEF HeldUnique
<1>6. ViewsBounded' /\ TransfersBounded'
  BY <1>1 DEF ViewsBounded, TransfersBounded
<1>7. ViewsPast'
  <2>1. \A p \in Replicas : ~rep'[p].aborted => OwnViews(rep'[p])
    BY <1>1 DEF ViewsPast, Running
  <2>2. \A m \in msgs' : CarriedViews(m)
    BY <1>1 DEF ViewsPast
  <2>3. \A p \in Replicas : \A m \in ballots'[p] : CarriedViews(m)
    BY <1>1 DEF ViewsPast, BallotsReceived
  <2>. QED BY <2>1, <2>2, <2>3 DEF ViewsPast, Running
<1>. QED BY <1>3, <1>4, <1>5, <1>6, <1>7

\* Nothing is held when the system starts.
LEMMA ViewstampStarts == ViewChangeInit => ViewstampInv
<1>. SUFFICES ASSUME ViewChangeInit
              PROVE  ViewstampInv
  OBVIOUS
<1>1. /\ rep = [r \in Replicas |-> NewReplica(r)] /\ msgs = {}
      /\ ballots = [r \in Replicas |-> {}]
  BY DEF ViewChangeInit, Init
<1>2. Typed /\ ViewChangeTyped
  BY <1>1, InitTyped DEF ViewChangeTyped
<1>3. ASSUME NEW r \in Replicas
      PROVE  /\ rep[r].view = 0 /\ Len(rep[r].log) = 0
             /\ \A b \in Batches : HasBatch(rep[r], b) => Len(b.requests) = 0
  <2>1. PICK s : s = rep[r]
    OBVIOUS
  <2>2. /\ s.view = 0 /\ s.log = <<>> /\ s.pending = <<>> /\ s.work = <<>>
        /\ s.lastPrepare = NoBatch
    BY <1>1, <2>1 DEF NewReplica
  <2>3. \A b : HasBatch(s, b) => b = NoBatch
    BY <2>2 DEF HasBatch
  <2>. QED BY <2>1, <2>2, <2>3 DEF NoBatch
<1>4. ASSUME NEW k, NEW e
      PROVE  ~Held(k, e)
  <2>1. \A r \in Replicas : ~Stores(rep[r], k, e)
    BY <1>3 DEF Stores, HasEntry, InBatch
  <2>. QED BY <1>1, <2>1 DEF Held
<1>5. HeldEntered /\ LeaderHolds /\ HeldUnique
  BY <1>4 DEF HeldEntered, LeaderHolds, HeldUnique
<1>6. ViewsPast
  BY <1>1, <1>3 DEF ViewsPast, OwnViews
<1>7. ViewsBounded /\ TransfersBounded
  BY <1>1, <1>3, ViewChangeAssumption DEF ViewsBounded, TransfersBounded
<1>. QED BY <1>2, <1>5, <1>6, <1>7 DEF ViewstampInv

\* Every step keeps the invariant.
LEMMA ViewstampKept ==
    ASSUME MaxView <= 1 \/ TransferBound = 0
    PROVE  ViewstampInv /\ [ViewChangeNext]_allVars => ViewstampInv'
<1>. SUFFICES ASSUME ViewstampInv, [ViewChangeNext]_allVars
              PROVE  ViewstampInv'
  OBVIOUS
<1>1. ViewChangeTyped'
  BY ViewChangeTypeKept DEF ViewstampInv
<1>2. CASE UNCHANGED allVars
  <2>1. UNCHANGED vars /\ BallotsReceived
    BY <1>2 DEF allVars, viewChangeVars, BallotsReceived
  <2>. QED BY <1>1, <2>1, NothingNew DEF ViewstampInv
<1>3. ASSUME NEW r \in Up, ViewChangeStep(r)
      PROVE  ViewstampInv'
  <2>1. r \in Replicas /\ Typed /\ HeldEntered /\ LeaderHolds /\ HeldUnique
    BY NetworkAssumption DEF ViewstampInv, ViewChangeTyped
  <2>2. (DoesHandle(r) \/ DoesChange(r) \/ UNCHANGED vars) /\ BallotsReceived
    BY <1>3, <2>1, StepCases
  <2>3. CASE DoesHandle(r)
    <3>1. PICK t, sent : Handles(r, t, sent)
      BY <2>3 DEF DoesHandle
    <3>2. Extends(r, t)
      BY <2>1, <2>2, <3>1, HandlesExtends
    <3>3. HeldEntered' /\ LeaderHolds' /\ HeldUnique'
      BY <2>1, <3>2, ExtendsUnique
    <3>4. ViewsPast' /\ ViewsBounded' /\ TransfersBounded'
      BY <2>1, <2>2, <3>1, HandlesBounds
    <3>. QED BY <1>1, <3>3, <3>4 DEF ViewstampInv
  <2>4. CASE DoesChange(r)
    <3>1. PICK t, sent : Changes(r, t, sent)
      BY <2>4 DEF DoesChange
    <3>2. Extends(r, t)
      BY <2>1, <2>2, <3>1, ChangesExtends
    <3>3. HeldEntered' /\ LeaderHolds' /\ HeldUnique'
      BY <2>1, <3>2, ExtendsUnique
    <3>4. ViewsPast' /\ ViewsBounded' /\ TransfersBounded'
      BY <2>1, <2>2, <3>1, ChangesBounds
    <3>. QED BY <1>1, <3>3, <3>4 DEF ViewstampInv
  <2>5. CASE UNCHANGED vars
    BY <1>1, <2>2, <2>5, NothingNew DEF ViewstampInv
  <2>. QED BY <2>2, <2>3, <2>4, <2>5
<1>. QED BY <1>2, <1>3 DEF ViewChangeNext

\* Entries of logs and messages are held.
LEMMA AnywhereHeld ==
    ASSUME ViewChangeTyped, NEW y \in EntriesAnywhere
    PROVE  y[1] \in Nat /\ y[2] \in Entries /\ Held(y[1], y[2])
<1>1. CASE \E r \in Replicas : y \in Numbered(rep[r].log, 1)
  <2>1. PICK r \in Replicas : y \in Numbered(rep[r].log, 1)
    BY <1>1
  <2>2. PICK l : l = rep[r].log
    OBVIOUS
  <2>3. l \in Seq(Entries)
    BY <2>2, TypedReplica, StateFields DEF ViewChangeTyped
  <2>4. PICK k \in 1 .. Len(l) : y = <<1 + k - 1, l[k]>>
    BY <2>1, <2>2, <2>3 DEF Numbered
  <2>5. y[1] = k /\ y[2] = l[k]
    BY <2>4
  <2>6. l[k] \in Entries
    BY <2>3, ElementOfSeq
  <2>. QED BY <2>2, <2>5, <2>6, LogIsHeld DEF HasEntry
<1>2. CASE \E m \in msgs : /\ m.type \in {"StateTransfer", "DoViewChange", "StartView"}
                           /\ y \in Numbered(m.entries, m.first)
  <2>1. PICK m \in msgs : /\ m.type \in {"StateTransfer", "DoViewChange", "StartView"}
                          /\ y \in Numbered(m.entries, m.first)
    BY <1>2
  <2>2. PICK es, f : es = m.entries /\ f = m.first
    OBVIOUS
  <2>3. m \in Messages \cup ViewChangeMessages
    BY DEF ViewChangeTyped
  <2>4. es \in Seq(Entries) /\ f \in Nat
    BY <2>1, <2>2, <2>3 DEF Messages, ViewChangeMessages
  <2>5. PICK k \in 1 .. Len(es) : y = <<f + k - 1, es[k]>>
    BY <2>1, <2>2, <2>4 DEF Numbered
  <2>6. y[1] = f + k - 1 /\ y[2] = es[k]
    BY <2>5
  <2>7. es[k] \in Entries /\ f + k - 1 \in Nat
    BY <2>4, ElementOfSeq
  <2>. QED BY <2>1, <2>2, <2>6, <2>7 DEF Held, Carries
<1>3. \/ \E r \in Replicas : y \in Numbered(rep[r].log, 1)
      \/ \E m \in msgs : /\ m.type \in {"StateTransfer", "DoViewChange", "StartView"}
                         /\ y \in Numbered(m.entries, m.first)
  BY DEF EntriesAnywhere
<1>. QED BY <1>1, <1>2, <1>3

\* A viewstamp names one request, in every log and every message: only the leader of a
\* view orders in it, a replica that leads it does so once it has entered it, and it
\* keeps what it has ordered.  The bounds are needed: with a third view, a leader that
\* installs the log dump of a state transfer may drop what it has ordered.
THEOREM ViewstampsUniqueHolds ==
    ASSUME MaxView <= 1 \/ TransferBound = 0
    PROVE  ViewChangeSpec => []ViewstampsUnique
<1>1. ViewChangeInit => ViewstampInv
  BY ViewstampStarts
<1>2. ViewstampInv /\ [ViewChangeNext]_allVars => ViewstampInv'
  BY ViewstampKept
<1>3. ViewstampInv => ViewstampsUnique
  <2>. SUFFICES ASSUME ViewstampInv
                PROVE  ViewstampsUnique
    OBVIOUS
  <2>1. \A x \in EntriesAnywhere : x[1] \in Nat /\ x[2] \in Entries /\ Held(x[1], x[2])
    BY AnywhereHeld DEF ViewstampInv
  <2>. QED BY <2>1 DEF ViewstampInv, HeldUnique, ViewstampsUnique
<1>. QED BY <1>1, <1>2, <1>3, PTL DEF ViewChangeSpec
-------------------------------------------------------------------------------
(* Crash and recovery: the types                                           *)

\* The types of the variables of VRRecovery.
RecoveryTyped ==
    /\ Typed
    /\ recoveryNonce \in [Replicas -> Nat]
    /\ recoveryResponseQuorum \in [Replicas -> SUBSET RecoveryMessages]
    /\ \A r \in Replicas : \A x \in recoveryResponseQuorum[r] : x.type = "RecoveryResponse"

\* The fields of a RECOVERYRESPONSE.
LEMMA ResponseFields ==
    ASSUME NEW x \in RecoveryMessages, x.type = "RecoveryResponse"
    PROVE  /\ x.to \in Replicas /\ x.from \in Replicas /\ x.view \in Views /\ x.nonce \in Nat
           /\ x.lastOp \in Nat /\ x.lastCommitted \in Nat /\ x.entries \in Seq(Entries)
           /\ x.durlog \in Seq(Requests) /\ Len(x.entries) \in Nat
<1>1. /\ x.to \in Replicas /\ x.from \in Replicas /\ x.view \in Views /\ x.nonce \in Nat
      /\ x.lastOp \in Nat /\ x.lastCommitted \in Nat /\ x.entries \in Seq(Entries)
      /\ x.durlog \in Seq(Requests)
  BY DEF RecoveryMessages
<1>. QED BY <1>1

\* A message of a recovery is one of RecoveryMessages.
LEMMA RecoveryReceived ==
    ASSUME Typed, NEW r, NEW type \in {"Recovery", "RecoveryResponse"},
           NEW m \in Received(r, type)
    PROVE  /\ m \in RecoveryMessages /\ m \in msgs /\ m.type = type /\ m.to = r
           /\ type = "Recovery" => m.from \in Replicas /\ m.nonce \in Nat
<1>1. m \in AllMessages /\ m \in msgs /\ m.type = type /\ m.to = r
  BY DEF Typed, Received
<1>2. m \notin Messages /\ m \notin ViewChangeMessages
  BY <1>1 DEF Messages, ViewChangeMessages
<1>3. m \in RecoveryMessages
  BY <1>1, <1>2 DEF AllMessages
<1>4. type = "Recovery" => m.from \in Replicas /\ m.nonce \in Nat
  BY <1>1, <1>3 DEF RecoveryMessages
<1>. QED BY <1>1, <1>3, <1>4

\* Messages of a recovery are typed whoever sends them.
LEMMA RecoverySent ==
    ASSUME Typed, NEW gone, NEW sent, Network(gone, sent), sent \subseteq RecoveryMessages
    PROVE  /\ msgs' \subseteq AllMessages /\ \A m \in msgs' : Located(m)
           /\ msgs' \subseteq msgs \cup sent
<1>1. msgs' \subseteq msgs \cup sent
  BY DEF Network
<1>2. \A m \in sent : m \in AllMessages /\ Located(m)
  BY DEF RecoveryMessages, AllMessages, Located
<1>. QED BY <1>1, <1>2 DEF Typed

\* What is kept of the responses.
LEMMA KeepResponsesType ==
    ASSUME RecoveryTyped, NEW r \in Replicas, NEW votes, votes \subseteq RecoveryMessages,
           \A x \in votes : x.type = "RecoveryResponse", KeepResponses(r, votes)
    PROVE  /\ recoveryResponseQuorum' \in [Replicas -> SUBSET RecoveryMessages]
           /\ \A p \in Replicas : \A x \in recoveryResponseQuorum'[p] :
                  x.type = "RecoveryResponse"
           /\ \A p \in Replicas : \A x \in recoveryResponseQuorum'[p] :
                  IF p = r THEN x \in votes ELSE x \in recoveryResponseQuorum[p]
<1>1. PICK kept : kept = IF rep'[r].status = "NORMAL" THEN {} ELSE votes
  OBVIOUS
<1>2. kept \subseteq votes
  BY <1>1
<1>3. recoveryResponseQuorum' = [recoveryResponseQuorum EXCEPT ![r] = kept]
  BY <1>1 DEF KeepResponses
<1>. QED BY <1>2, <1>3 DEF RecoveryTyped

\* The responses that a replica counts when it receives one.
LEMMA CountedResponses ==
    ASSUME RecoveryTyped, NEW r \in Replicas, NEW m \in Received(r, "RecoveryResponse"),
           NEW votes, votes = IF Awaited(r, m) THEN Responses(r, m)
                              ELSE recoveryResponseQuorum[r]
    PROVE  /\ votes \subseteq RecoveryMessages
           /\ \A x \in votes : x.type = "RecoveryResponse"
           /\ \A x \in votes : x \in recoveryResponseQuorum[r]
                                   \/ (x = m /\ m.nonce = recoveryNonce[r])
<1>1. m \in RecoveryMessages /\ m.type = "RecoveryResponse"
  BY RecoveryReceived DEF RecoveryTyped
<1>2. recoveryResponseQuorum[r] \subseteq RecoveryMessages
      /\ \A x \in recoveryResponseQuorum[r] : x.type = "RecoveryResponse"
  BY DEF RecoveryTyped
<1>. QED BY <1>1, <1>2 DEF Responses, Awaited

\* A replica that is started again.
LEMMA RecoveringReplicaFacts ==
    ASSUME NEW r
    PROVE  LET t == RecoveringReplica(r)
           IN  /\ t \in ReplicaStates /\ t.view = 0 /\ t.status = "RECOVERING"
               /\ t.log = <<>> /\ t.lastOp = 0 /\ t.lastCommitted = 0 /\ t.prepareOKs = {}
               /\ t.lastPrepare = NoBatch /\ t.pending = <<>> /\ t.work = <<>>
<1>1. PICK n : n = NewReplica(r)
  OBVIOUS
<1>2. n \in ReplicaStates
  BY <1>1, NewReplicaType
<1>3. /\ n.view = 0 /\ n.log = <<>> /\ n.lastOp = 0 /\ n.lastCommitted = 0
      /\ n.prepareOKs = {} /\ n.lastPrepare = NoBatch /\ n.pending = <<>> /\ n.work = <<>>
  BY <1>1 DEF NewReplica
<1>4. PICK ts, status : ts = RecoveryTimers /\ status = "RECOVERING"
  OBVIOUS
<1>5. ts \in SUBSET Timers /\ status \in Statuses
  BY <1>4 DEF RecoveryTimers, Timers, Statuses
<1>6. PICK t : t = RecoveringReplica(r)
  OBVIOUS
<1>7. t = [n EXCEPT !.status = status, !.timers = ts]
  BY <1>1, <1>4, <1>6 DEF RecoveringReplica
<1>8. t \in ReplicaStates
  BY <1>2, <1>5, <1>7 DEF ReplicaStates
<1>9. /\ t.view = n.view /\ t.status = status
      /\ t.log = n.log /\ t.lastOp = n.lastOp /\ t.lastCommitted = n.lastCommitted
      /\ t.prepareOKs = n.prepareOKs
      /\ t.lastPrepare = n.lastPrepare /\ t.pending = n.pending /\ t.work = n.work
  BY <1>2, <1>7 DEF ReplicaStates
<1>. QED BY <1>3, <1>4, <1>6, <1>8, <1>9

\* The longer log, unless an entry of another view makes way for that of the leader.
Regained(l, es, t) ==
    /\ t \in Seq(Entries)
    /\ \A j \in 1 .. Len(t) : \/ j <= Len(l) /\ t[j] = l[j]
                              \/ j <= Len(es) /\ t[j] = es[j]
    /\ \/ Len(t) = Len(l) /\ Len(es) <= Len(l)
       \/ /\ Len(t) = Len(es)
          /\ \/ Len(es) > Len(l)
             \/ \E i \in 1 .. Len(l) : i <= Len(es) /\ l[i].view # es[i].view

LEMMA RegainedLog ==
    ASSUME NEW l \in Seq(Entries), NEW es \in Seq(Entries)
    PROVE  Regained(l, es, Install(l, Len(l), 1, es))
<1>1. Len(l) \in Nat /\ Len(es) \in Nat
  OBVIOUS
<1>2. PICK c, d : c = Len(l) /\ d = Len(es)
  OBVIOUS
<1>3. c \in Nat /\ d \in Nat
  BY <1>1, <1>2
<1>4. PICK f : f = 1
  OBVIOUS
<1>5. Min({c, Len(l)}) = c
  <2>1. Min({c, c}) = c
    BY <1>3, MinOfTwo
  <2>. QED BY <1>2, <2>1
<1>6. f > 0 /\ f <= Min({c, Len(l)}) + 1 /\ f \in Nat
  BY <1>3, <1>4, <1>5
<1>7. \E n \in Nat : \E t \in Seq(Entries) :
          /\ n = Min({c, Len(l)}) /\ n <= Len(l)
          /\ t = Install(l, c, f, es)
          /\ InstalledAs(l, f, es, n, t)
  BY <1>3, <1>6, InstallFacts
<1>8. PICK t \in Seq(Entries) : t = Install(l, c, f, es) /\ InstalledAs(l, f, es, c, t)
  BY <1>5, <1>7
<1>9. \A i \in 1 .. d : f + i - 1 = i
  BY <1>3, <1>4
<1>10. /\ \A j \in 1 .. Len(t) : \/ j <= c /\ t[j] = l[j]
                               \/ \E i \in 1 .. d : j = f + i - 1 /\ t[j] = es[i]
       /\ \/ Len(t) = c /\ f + d - 1 <= c
          \/ /\ Len(t) = f + d - 1
             /\ \E i \in 1 .. d : f + i - 1 > c \/ l[f + i - 1].view # es[i].view
  BY <1>2, <1>8 DEF InstalledAs
<1>11. \A j \in 1 .. Len(t) : \/ j <= c /\ t[j] = l[j]
                              \/ j <= d /\ t[j] = es[j]
  BY <1>3, <1>9, <1>10
<1>12. \/ Len(t) = c /\ d <= c
       \/ /\ Len(t) = d
          /\ d > c \/ \E i \in 1 .. c : i <= d /\ l[i].view # es[i].view
  <2>1. CASE Len(t) = c /\ f + d - 1 <= c
    BY <1>3, <1>4, <2>1
  <2>2. CASE /\ Len(t) = f + d - 1
             /\ \E i \in 1 .. d : f + i - 1 > c \/ l[f + i - 1].view # es[i].view
    <3>1. PICK i \in 1 .. d : i > c \/ l[i].view # es[i].view
      BY <1>9, <2>2
    <3>2. Len(t) = d
      BY <1>3, <1>4, <2>2
    <3>3. CASE i > c
      BY <1>3, <3>1, <3>2, <3>3
    <3>4. CASE ~ (i > c)
      <4>1. i \in 1 .. c /\ i <= d /\ l[i].view # es[i].view
        BY <1>3, <3>1, <3>4
      <4>. QED BY <3>2, <4>1
    <3>. QED BY <3>3, <3>4
  <2>. QED BY <1>10, <2>1, <2>2
<1>. QED BY <1>2, <1>4, <1>8, <1>11, <1>12 DEF Regained

\* A replica that has recovered.
LEMMA RecoveredFacts ==
    ASSUME Typed, NEW r \in Replicas, NEW x \in RecoveryMessages, x.type = "RecoveryResponse"
    PROVE  LET s == rep[r]
               t == CommitUpTo(Recovered(r, x), x.lastCommitted)
           IN  /\ t \in ReplicaStates /\ SameBatches(s, t)
               /\ t.view = x.view /\ t.status = "NORMAL" /\ t.lastOp = x.lastOp
               /\ Regained(s.log, x.entries, t.log)
               /\ \/ t.lastCommitted = s.lastCommitted
                  \/ t.lastCommitted = Min({x.lastCommitted, Len(t.log)})
               /\ RepliesTo(Recovered(r, x), r, x.lastCommitted) \subseteq ReplyMessages
<1>1. PICK s : s = rep[r]
  OBVIOUS
<1>2. s \in ReplicaStates /\ s.log \in Seq(Entries)
  BY <1>1, TypedReplica, StateFields
<1>3. /\ x.view \in Views /\ x.lastOp \in Nat /\ x.lastCommitted \in Nat
      /\ x.entries \in Seq(Entries)
  BY ResponseFields
<1>4. PICK l : l = Install(s.log, Len(s.log), 1, x.entries)
  OBVIOUS
<1>5. Regained(s.log, x.entries, l) /\ l \in Seq(Entries)
  BY <1>2, <1>3, <1>4, RegainedLog DEF Regained
<1>6. PICK i : i = [s EXCEPT !.log = l]
  OBVIOUS
<1>7. i \in ReplicaStates
  BY <1>2, <1>5, <1>6 DEF ReplicaStates
<1>8. SameBatches(s, i) /\ i.log = l /\ i.lastCommitted = s.lastCommitted
  BY <1>2, <1>6 DEF ReplicaStates, SameBatches
<1>9. PICK d : d = EnterView(i, r, x.view)
  OBVIOUS
<1>10. /\ d \in ReplicaStates /\ SameBatches(i, d) /\ d.view = x.view /\ d.status = "NORMAL"
       /\ d.log = i.log /\ d.lastCommitted = i.lastCommitted
  BY <1>3, <1>7, <1>9, EnterViewFacts
<1>11. PICK e : e = [d EXCEPT !.lastOp = x.lastOp]
  OBVIOUS
<1>12. /\ e \in ReplicaStates /\ SameBatches(d, e) /\ e.view = d.view /\ e.status = d.status
       /\ e.log = d.log /\ e.lastOp = x.lastOp /\ e.lastCommitted = d.lastCommitted
  BY <1>3, <1>10, <1>11, LastOpChange
<1>13. e = Recovered(r, x)
  <2>1. i = [rep[r] EXCEPT !.log = Install(@, Len(@), 1, x.entries)]
    BY <1>1, <1>4, <1>6
  <2>. QED BY <1>9, <1>11, <2>1 DEF Recovered
<1>14. PICK t : t = CommitUpTo(e, x.lastCommitted)
  OBVIOUS
<1>15. /\ t \in ReplicaStates /\ SameBatches(e, t) /\ t.view = e.view /\ t.status = e.status
       /\ t.log = e.log /\ t.lastOp = e.lastOp
       /\ \/ t = e
          \/ t.lastCommitted = Min({x.lastCommitted, Len(e.log)})
  BY <1>3, <1>12, <1>14, CommitUpToAny
<1>16. RepliesTo(e, r, x.lastCommitted) \subseteq ReplyMessages
  BY <1>3, <1>12, RepliesToType
<1>17. SameBatches(s, t)
  BY <1>8, <1>10, <1>12, <1>15 DEF SameBatches
<1>18. /\ t.view = x.view /\ t.status = "NORMAL" /\ t.lastOp = x.lastOp /\ t.log = l
       /\ \/ t.lastCommitted = s.lastCommitted
          \/ t.lastCommitted = Min({x.lastCommitted, Len(t.log)})
  BY <1>8, <1>10, <1>12, <1>15
<1>. QED BY <1>1, <1>5, <1>13, <1>14, <1>15, <1>16, <1>17, <1>18

\* The types after a step.
LEMMA TypedAfter ==
    ASSUME OthersTyped, rep' \in [Replicas -> ReplicaStates], msgs' \subseteq AllMessages,
           \A m \in msgs' : Located(m), replies' \subseteq ReplyMessages
    PROVE  Typed'
BY DEF OthersTyped, Typed, Located

\* What is left alone keeps its type.
LEMMA OthersLeft ==
    ASSUME Typed, UNCHANGED issued, UNCHANGED viewChangeVars
    PROVE  OthersTyped
BY DEF viewChangeVars, Typed, OthersTyped

\* A replica asks the others for what it has lost.
LEMMA RequestRecoveryFacts ==
    ASSUME NEW r \in Replicas, NEW nonce \in Nat
    PROVE  \A m \in RequestRecovery(r, nonce) :
               /\ m \in RecoveryMessages /\ m.type = "Recovery"
               /\ m.from = r /\ m.nonce = nonce
BY DEF RequestRecovery, RecoveryMessages

\* A crash.
LEMMA CrashStep ==
    ASSUME RecoveryTyped, NEW r \in Replicas, Crash(r)
    PROVE  /\ rep' = [rep EXCEPT ![r] = RecoveringReplica(r)]
           /\ \A m \in msgs' : m \in msgs \/ m \in RequestRecovery(r, recoveryNonce[r] + 1)
           /\ recoveryNonce' = [recoveryNonce EXCEPT ![r] = recoveryNonce[r] + 1]
           /\ recoveryResponseQuorum' = [recoveryResponseQuorum EXCEPT ![r] = {}]
           /\ RecoveryTyped'
<1>1. PICK n : n = recoveryNonce[r] + 1
  OBVIOUS
<1>2. n \in Nat
  BY <1>1 DEF RecoveryTyped
<1>3. /\ rep' = [rep EXCEPT ![r] = RecoveringReplica(r)]
      /\ Network({}, RequestRecovery(r, n))
      /\ recoveryNonce' = [recoveryNonce EXCEPT ![r] = n]
      /\ recoveryResponseQuorum' = [recoveryResponseQuorum EXCEPT ![r] = {}]
      /\ ballots' = [ballots EXCEPT ![r] = {}]
      /\ dur' = [dur EXCEPT ![r] = <<>>]
      /\ UNCHANGED <<replies, issued, acks>>
  BY <1>1, Zenon DEF Crash, Become
<1>4. RequestRecovery(r, n) \subseteq RecoveryMessages
  BY <1>2, RequestRecoveryFacts
<1>5. Typed
  BY DEF RecoveryTyped
<1>6. /\ msgs' \subseteq AllMessages /\ \A m \in msgs' : Located(m)
      /\ msgs' \subseteq msgs \cup RequestRecovery(r, n)
  BY <1>3, <1>4, <1>5, RecoverySent
<1>7. rep' \in [Replicas -> ReplicaStates]
  <2>1. RecoveringReplica(r) \in ReplicaStates
    BY RecoveringReplicaFacts
  <2>. QED BY <1>3, <1>5, <2>1 DEF Typed
<1>8. told' \in [Replicas -> [view : Views, status : Statuses]]
  <2>1. PICK x : x = [view |-> 0, status |-> IF StatusDelay THEN "NORMAL" ELSE "RECOVERING"]
    OBVIOUS
  <2>2. x \in [view : Views, status : Statuses]
    BY <2>1 DEF Views, Statuses
  <2>3. told' = [told EXCEPT ![r] = x]
    BY <2>1, Zenon DEF Crash
  <2>. QED BY <1>5, <2>2, <2>3 DEF Typed
<1>9. OthersTyped
  <2>1. ballots' \in [Replicas -> SUBSET ViewChangeMessages]
    BY <1>3, <1>5 DEF Typed
  <2>2. \A p \in Replicas : \A m \in ballots'[p] : Located(m)
    BY <1>3, <1>5 DEF Typed
  <2>3. dur' \in [Replicas -> Seq(Requests)]
    BY <1>3, <1>5 DEF Typed
  <2>. QED BY <1>3, <1>5, <1>8, <2>1, <2>2, <2>3 DEF OthersTyped, Typed
<1>10. Typed'
  <2>1. replies' \subseteq ReplyMessages
    BY <1>3, <1>5 DEF Typed
  <2>. QED BY <1>6, <1>7, <1>9, <2>1, TypedAfter
<1>11. RecoveryTyped'
  <2>1. recoveryNonce' \in [Replicas -> Nat]
    BY <1>2, <1>3 DEF RecoveryTyped
  <2>2. /\ recoveryResponseQuorum' \in [Replicas -> SUBSET RecoveryMessages]
        /\ \A p \in Replicas : \A x \in recoveryResponseQuorum'[p] :
               x.type = "RecoveryResponse"
    BY <1>3 DEF RecoveryTyped
  <2>. QED BY <1>10, <2>1, <2>2 DEF RecoveryTyped
<1>. QED BY <1>1, <1>3, <1>6, <1>11

\* What replica r sends while another one or itself recovers.
RecoveryTalk(r, m) ==
    \/ m \in RequestRecovery(r, recoveryNonce[r])
    \/ /\ rep[r].status = "NORMAL"
       /\ \E x \in msgs : /\ x \in RecoveryMessages /\ x.type = "Recovery" /\ x.to = r
                          /\ m = RecoveryResponse(r, x)

\* A response is typed.
LEMMA RecoveryResponseType ==
    ASSUME Typed, NEW r \in Replicas, NEW x \in RecoveryMessages, x.type = "Recovery"
    PROVE  LET m == RecoveryResponse(r, x)
           IN  /\ m \in RecoveryMessages /\ m.type = "RecoveryResponse"
               /\ m.from = r /\ m.to = x.from /\ m.nonce = x.nonce /\ m.view = rep[r].view
               /\ IF AmLeader(rep[r], r) THEN m.lastOp = rep[r].lastOp /\ m.entries = rep[r].log
                  ELSE m.lastOp = 0 /\ m.entries = <<>>
<1>1. x.from \in Replicas /\ x.nonce \in Nat
  BY DEF RecoveryMessages
<1>2. PICK o, c : /\ o = IF AmLeader(rep[r], r) THEN rep[r].lastOp ELSE 0
                  /\ c = IF AmLeader(rep[r], r) THEN rep[r].lastCommitted ELSE 0
  OBVIOUS
<1>3. PICK l : l = IF AmLeader(rep[r], r) THEN rep[r].log ELSE <<>>
  OBVIOUS
<1>4. PICK d : d = IF AmLeader(rep[r], r) THEN dur[r] ELSE <<>>
  OBVIOUS
<1>5. /\ rep[r].view \in Views /\ rep[r].lastOp \in Nat /\ rep[r].lastCommitted \in Nat
      /\ rep[r].log \in Seq(Entries) /\ dur[r] \in Seq(Requests)
  BY DEF Typed, ReplicaStates
<1>6. o \in Nat /\ c \in Nat /\ l \in Seq(Entries) /\ d \in Seq(Requests)
  BY <1>2, <1>3, <1>4, <1>5
<1>7. PICK v : v = rep[r].view
  OBVIOUS
<1>8. PICK m : m = RecoveryResponse(r, x)
  OBVIOUS
<1>9. m = [type |-> "RecoveryResponse", to |-> x.from, from |-> r, view |-> v,
           nonce |-> x.nonce, lastOp |-> o, lastCommitted |-> c, entries |-> l, durlog |-> d]
  BY <1>2, <1>3, <1>4, <1>7, <1>8 DEF RecoveryResponse
<1>10. m \in RecoveryMessages
  BY <1>1, <1>5, <1>6, <1>7, <1>9 DEF RecoveryMessages
<1>11. /\ m.type = "RecoveryResponse" /\ m.from = r /\ m.to = x.from /\ m.nonce = x.nonce
       /\ m.view = v /\ m.lastOp = o /\ m.entries = l
  BY <1>9
<1>. QED BY <1>2, <1>3, <1>7, <1>8, <1>10, <1>11

\* A replica asks again, or answers.
LEMMA TalkStep ==
    ASSUME RecoveryTyped, NEW r \in Replicas, SendRecoveryMessages(r) \/ HandleRecovery(r)
    PROVE  /\ UNCHANGED <<rep, recoveryVars>>
           /\ \A m \in msgs' : m \in msgs \/ RecoveryTalk(r, m)
           /\ RecoveryTyped'
<1>1. /\ UNCHANGED <<rep, replies, issued, viewChangeVars, recoveryVars>>
      /\ \E gone, sent : Network(gone, sent) /\ \A m \in sent : RecoveryTalk(r, m)
  <2>1. CASE SendRecoveryMessages(r)
    <3>1. \A m \in RequestRecovery(r, recoveryNonce[r]) : RecoveryTalk(r, m)
      BY DEF RecoveryTalk
    <3>. QED BY <2>1, <3>1 DEF SendRecoveryMessages
  <2>2. CASE HandleRecovery(r)
    <3>1. PICK x \in Received(r, "Recovery") :
              Network({x}, IF rep[r].status = "NORMAL" THEN {RecoveryResponse(r, x)} ELSE {})
      BY <2>2 DEF HandleRecovery
    <3>2. PICK sent : sent = IF rep[r].status = "NORMAL" THEN {RecoveryResponse(r, x)} ELSE {}
      OBVIOUS
    <3>3. x \in RecoveryMessages /\ x \in msgs /\ x.type = "Recovery" /\ x.to = r
      BY RecoveryReceived DEF RecoveryTyped
    <3>4. \A m \in sent : RecoveryTalk(r, m)
      BY <3>2, <3>3 DEF RecoveryTalk
    <3>5. Network({x}, sent)
      BY <3>1, <3>2
    <3>. QED BY <2>2, <3>4, <3>5 DEF HandleRecovery
  <2>. QED BY <2>1, <2>2
<1>2. PICK gone, sent : Network(gone, sent) /\ \A m \in sent : RecoveryTalk(r, m)
  BY <1>1
<1>3. Typed /\ recoveryNonce[r] \in Nat
  BY DEF RecoveryTyped
<1>4. sent \subseteq RecoveryMessages
  BY <1>2, <1>3, RequestRecoveryFacts, RecoveryResponseType DEF RecoveryTalk
<1>5. /\ msgs' \subseteq AllMessages /\ \A m \in msgs' : Located(m)
      /\ msgs' \subseteq msgs \cup sent
  BY <1>2, <1>3, <1>4, RecoverySent
<1>6. Typed'
  <2>1. OthersTyped
    BY <1>1, <1>3, OthersLeft
  <2>2. rep' \in [Replicas -> ReplicaStates] /\ replies' \subseteq ReplyMessages
    BY <1>1, <1>3 DEF Typed
  <2>. QED BY <1>5, <2>1, <2>2, TypedAfter
<1>. QED BY <1>1, <1>2, <1>5, <1>6 DEF recoveryVars, RecoveryTyped

\* A response is counted, or completes the recovery.
LEMMA ResponseStep ==
    ASSUME RecoveryTyped, NEW r \in Replicas, NEW p, ReceiveRecoveryResponse(r, p)
    PROVE  /\ msgs' \subseteq msgs /\ UNCHANGED recoveryNonce
           /\ \A q \in Replicas : \A x \in recoveryResponseQuorum'[q] :
                  \/ x \in recoveryResponseQuorum[q]
                  \/ /\ q = r /\ x \in Received(r, "RecoveryResponse")
                     /\ x.nonce = recoveryNonce[r]
           /\ \/ UNCHANGED rep
              \/ rep' = [rep EXCEPT ![r] = Abort(rep[r])]
              \/ \E x \in RecoveryMessages :
                     /\ x.type = "RecoveryResponse"
                     /\ rep[r].status = "RECOVERING"
                     /\ x.from = GetLeaderIndex(x.view) /\ x.from # r
                     /\ \/ x \in recoveryResponseQuorum[r]
                        \/ x \in Received(r, "RecoveryResponse") /\ x.nonce = recoveryNonce[r]
                     /\ rep' = [rep EXCEPT ![r] =
                                   CommitUpTo(Recovered(r, x), x.lastCommitted)]
           /\ RecoveryTyped'
<1>1. PICK m \in Received(r, "RecoveryResponse") : HandleRecoveryResponse(r, m)
  BY DEF ReceiveRecoveryResponse
<1>2. PICK votes : votes = IF Awaited(r, m) THEN Responses(r, m)
                           ELSE recoveryResponseQuorum[r]
  OBVIOUS
<1>3. /\ votes \subseteq RecoveryMessages
      /\ \A x \in votes : x.type = "RecoveryResponse"
      /\ \A x \in votes : x \in recoveryResponseQuorum[r]
                              \/ (x = m /\ m.nonce = recoveryNonce[r])
  BY <1>2, CountedResponses
<1>4. KeepResponses(r, votes) /\ Network({m}, {})
  BY <1>1, <1>2 DEF HandleRecoveryResponse
<1>5. UNCHANGED <<issued, recoveryNonce>> /\ Typed
  BY DEF ReceiveRecoveryResponse, RecoveryTyped
<1>6. /\ recoveryResponseQuorum' \in [Replicas -> SUBSET RecoveryMessages]
      /\ \A q \in Replicas : \A x \in recoveryResponseQuorum'[q] :
             x.type = "RecoveryResponse"
      /\ \A q \in Replicas : \A x \in recoveryResponseQuorum'[q] :
             IF q = r THEN x \in votes ELSE x \in recoveryResponseQuorum[q]
  BY <1>3, <1>4, KeepResponsesType
<1>7. \A q \in Replicas : \A x \in recoveryResponseQuorum'[q] :
          \/ x \in recoveryResponseQuorum[q]
          \/ /\ q = r /\ x \in Received(r, "RecoveryResponse") /\ x.nonce = recoveryNonce[r]
  BY <1>3, <1>6
<1>8. /\ msgs' \subseteq msgs
      /\ msgs' \subseteq AllMessages /\ \A x \in msgs' : Located(x)
  BY <1>4, <1>5 DEF Network, Typed
<1>9. PICK highest : highest = Max({x.view : x \in Responses(r, m)})
  OBVIOUS
<1>10. \/ UNCHANGED <<rep, replies, viewChangeVars>>
       \/ Become(r, Abort(rep[r])) /\ UNCHANGED <<replies, viewChangeVars>>
       \/ /\ Awaited(r, m) /\ GetLeaderIndex(highest) # r
          /\ \E x \in LeaderResponse(Responses(r, m), highest) :
                 /\ Become(r, CommitUpTo(Recovered(r, x), x.lastCommitted))
                 /\ replies' = replies \cup RepliesTo(Recovered(r, x), r, x.lastCommitted)
                 /\ Settle(r, {}, x.durlog)
  BY <1>1, <1>9 DEF HandleRecoveryResponse
<1>11. ASSUME NEW t, t \in ReplicaStates, Become(r, t), OthersTyped,
              replies' \subseteq ReplyMessages
       PROVE  RecoveryTyped'
  <2>1. rep' \in [Replicas -> ReplicaStates]
    BY <1>5, <1>11 DEF Become, Typed
  <2>2. Typed'
    BY <1>8, <1>11, <2>1, TypedAfter
  <2>. QED BY <1>5, <1>6, <2>2 DEF RecoveryTyped
<1>12. rep[r] \in ReplicaStates
  BY <1>5, TypedReplica
<1>13. CASE UNCHANGED <<rep, replies, viewChangeVars>>
  <2>1. OthersTyped
    BY <1>5, <1>13, OthersLeft
  <2>2. Become(r, rep[r]) /\ replies' \subseteq ReplyMessages
    BY <1>5, <1>13 DEF Become, Typed
  <2>3. RecoveryTyped'
    BY <1>11, <1>12, <2>1, <2>2
  <2>. QED BY <1>5, <1>7, <1>8, <1>13, <2>3
<1>14. CASE Become(r, Abort(rep[r])) /\ UNCHANGED <<replies, viewChangeVars>>
  <2>1. OthersTyped
    BY <1>5, <1>14, OthersLeft
  <2>2. Abort(rep[r]) \in ReplicaStates /\ replies' \subseteq ReplyMessages
    BY <1>5, <1>12, <1>14, AbortType DEF Typed
  <2>3. RecoveryTyped'
    BY <1>11, <1>14, <2>1, <2>2
  <2>. QED BY <1>5, <1>7, <1>8, <1>14, <2>3 DEF Become
<1>15. CASE /\ Awaited(r, m) /\ GetLeaderIndex(highest) # r
            /\ \E x \in LeaderResponse(Responses(r, m), highest) :
                   /\ Become(r, CommitUpTo(Recovered(r, x), x.lastCommitted))
                   /\ replies' = replies \cup RepliesTo(Recovered(r, x), r, x.lastCommitted)
                   /\ Settle(r, {}, x.durlog)
  <2>1. PICK x \in LeaderResponse(Responses(r, m), highest) :
            /\ Become(r, CommitUpTo(Recovered(r, x), x.lastCommitted))
            /\ replies' = replies \cup RepliesTo(Recovered(r, x), r, x.lastCommitted)
            /\ Settle(r, {}, x.durlog)
    BY <1>15
  <2>2. x \in votes /\ x.from = GetLeaderIndex(x.view) /\ x.from # r
    BY <1>2, <1>15 DEF LeaderResponse
  <2>3. x \in RecoveryMessages /\ x.type = "RecoveryResponse"
    BY <1>3, <2>2
  <2>4. PICK t : t = CommitUpTo(Recovered(r, x), x.lastCommitted)
    OBVIOUS
  <2>5. t \in ReplicaStates
        /\ RepliesTo(Recovered(r, x), r, x.lastCommitted) \subseteq ReplyMessages
    BY <1>5, <2>3, <2>4, RecoveredFacts
  <2>6. rep' = [rep EXCEPT ![r] = t]
    BY <2>1, <2>4 DEF Become
  <2>7. rep' \in [Replicas -> ReplicaStates] /\ issued' \in [Clients -> Nat]
    BY <1>5, <2>5, <2>6 DEF Typed
  <2>8. PICK none, log : none = {} /\ log = x.durlog
    OBVIOUS
  <2>9. /\ log \in Seq(Requests) /\ none \subseteq ViewChangeMessages
        /\ \A y \in none : Located(y)
    BY <2>3, <2>8, ResponseFields
  <2>10. Settle(r, none, log)
    BY <2>1, <2>8
  <2>11. OthersTyped
    BY <1>5, <2>7, <2>9, <2>10, SettleType
  <2>12. replies' \subseteq ReplyMessages
    BY <1>5, <2>1, <2>5 DEF Typed
  <2>13. RecoveryTyped'
    BY <1>11, <2>5, <2>6, <2>11, <2>12 DEF Become
  <2>14. rep[r].status = "RECOVERING"
    BY <1>15 DEF Awaited
  <2>15. \/ x \in recoveryResponseQuorum[r]
         \/ x \in Received(r, "RecoveryResponse") /\ x.nonce = recoveryNonce[r]
    BY <1>3, <2>2
  <2>. QED BY <1>5, <1>7, <1>8, <2>2, <2>3, <2>4, <2>6, <2>13, <2>14, <2>15
<1>. QED BY <1>10, <1>13, <1>14, <1>15

-------------------------------------------------------------------------------
(* Recovery while view 0 lasts: the invariant                              *)

\* A replica in view 0: all it has is of that view, and it has executed nothing, and
\* holds nothing for sent, that is not in its log.
CalmState(s) ==
    /\ s.view = 0 /\ s.status \in {"NORMAL", "RECOVERING"}
    /\ \A k \in 1 .. Len(s.log) : s.log[k].view = 0
    /\ s.lastOp <= Len(s.log) /\ s.lastCommitted <= Len(s.log)
    /\ \A b \in Batches : HasBatch(s, b) => b.view = 0

\* A message of view 0: nobody acknowledges or sends a log dump to himself as the
\* leader, and the leader asks for none.
CalmMessage(m) ==
    /\ m.type \notin {"StartViewChange", "DoViewChange", "StartView"}
    /\ m.type = "Prepare" => m.batch.view = 0
    /\ m.type \notin {"Prepare", "Recovery"} => m.view = 0
    /\ m.type \in {"StateTransfer", "RecoveryResponse"} =>
           \A k \in 1 .. Len(m.entries) : m.entries[k].view = 0
    /\ m.type = "StateTransfer" => m.to # Leader
    /\ m.type = "RequestStateTransfer" => m.from # Leader
    /\ m.type = "PrepareOK" => m.from # Leader /\ m.to = Leader
    /\ m.type = "RecoveryResponse" => m.lastOp <= Len(m.entries)

\* No recovery is asked for or answered before it has begun.
NonceKnown(m) ==
    /\ m.type = "Recovery" => m.nonce <= recoveryNonce[m.from]
    /\ m.type = "RecoveryResponse" => m.nonce <= recoveryNonce[m.to]

\* What a replica has, and what a message carries, goes up to operation n at most.
Within(s, n) == Len(s.log) <= n /\ \A b \in Batches : HasBatch(s, b) => b.opnum <= n

MessageWithin(m, n) ==
    /\ m.type = "Prepare" => m.batch.opnum <= n
    /\ m.type = "PrepareOK" => m.opnum <= n
    /\ m.type = "StateTransfer" /\ Len(m.entries) > 0 => LastEntry(m) <= n
    /\ m.type = "RecoveryResponse" => Len(m.entries) <= n

\* Replica p has acknowledged operation j, in this life or in an earlier one.
Acked(p, j) ==
    \/ \E m \in msgs : m.type = "PrepareOK" /\ m.from = p /\ m.opnum = j
    \/ <<j, p>> \in rep[Leader].prepareOKs

\* x answers what replica r has asked for since it was started.
Answers(r, x) ==
    /\ x \in recoveryResponseQuorum[r] \/ (x \in msgs /\ x.type = "RecoveryResponse" /\ x.to = r)
    /\ x.nonce = recoveryNonce[r]

Backers(s) == {p \in Replicas \ {Leader} : \E j \in Nat : j >= s.lastCommitted
                                                          /\ <<j, p>> \in s.prepareOKs}

\* The leader has executed what f others acknowledged.
OrderBacked(s) ==
    /\ \A j \in Nat : <<j, Leader>> \notin s.prepareOKs
    /\ s.lastCommitted > 0 => Cardinality(Backers(s)) >= F
    /\ s.status # "NORMAL" => s.lastCommitted = 0

\* Nothing goes beyond the log of the leader, unless it has lost it.
LeaderFirst ==
    rep[Leader].status = "NORMAL" =>
        LET n == Len(rep[Leader].log) IN
        /\ rep[Leader].lastOp = n
        /\ \A r \in Replicas : Within(rep[r], n)
        /\ \A m \in msgs : MessageWithin(m, n)
        /\ \A r \in Replicas : \A x \in recoveryResponseQuorum[r] : Len(x.entries) <= n
        /\ \A p \in Replicas, j \in Nat : Acked(p, j) => j <= n

\* What a replica that takes part has acknowledged is in its log.
AcksReached ==
    \A p \in Replicas, j \in Nat :
        rep[p].status = "NORMAL" /\ Acked(p, j) => j <= Len(rep[p].log)

\* What a replica that recovers has acknowledged is in the log that the leader sends
\* it, or it has it again already, from a log dump.
AcksAnswered ==
    \A r \in Replicas : \A x \in RecoveryMessages :
        Answers(r, x) /\ x.from = Leader /\ rep[r].status # "NORMAL" =>
            \A j \in Nat : Acked(r, j) => j <= Len(x.entries) \/ j <= Len(rep[r].log)

RecoveryInv ==
    /\ RecoveryTyped
    /\ \A r \in Replicas : CalmState(rep[r])
    /\ \A m \in msgs : CalmMessage(m) /\ NonceKnown(m)
    /\ \A r \in Replicas : \A x \in recoveryResponseQuorum[r] :
           CalmMessage(x) /\ x.to = r /\ x.nonce = recoveryNonce[r]
    /\ OrderBacked(rep[Leader])
    /\ LeaderFirst
    /\ AcksReached
    /\ AcksAnswered

\* What replica r, which becomes t, may send.
Says(r, t, m) ==
    /\ CalmMessage(m) /\ NonceKnown(m)
    /\ rep[Leader].status = "NORMAL" => MessageWithin(m, Len(rep'[Leader].log))
    /\ m.type = "PrepareOK" => m.from = r /\ m.opnum <= Len(t.log)
    /\ m.type = "RecoveryResponse" /\ m.from = Leader =>
           rep[Leader].status = "NORMAL" /\ m.entries = rep[Leader].log

\* What replica r may become, if it does not crash.
GoesOn(r, t) ==
    /\ CalmState(t)
    /\ Len(rep[r].log) <= Len(t.log)
    /\ r = Leader =>
           /\ t.status = rep[r].status
           /\ t.status = "NORMAL" => t.lastOp = Len(t.log)
           /\ OrderBacked(t)
           /\ \A p \in Replicas, j \in Nat : <<j, p>> \in t.prepareOKs => Acked(p, j)
    /\ rep[Leader].status = "NORMAL" => Within(t, Len(rep'[Leader].log))
    /\ t.status = "NORMAL" /\ rep[r].status # "NORMAL" =>
           \A j \in Nat : Acked(r, j) => j <= Len(t.log)

\* A step that is not a crash keeps the invariant.
LEMMA GoingOn ==
    ASSUME RecoveryInv, RecoveryTyped', NEW r \in Replicas, NEW t \in ReplicaStates, NEW sent,
           rep' = [rep EXCEPT ![r] = t],
           \A m \in msgs' : m \in msgs \/ m \in sent,
           UNCHANGED recoveryNonce,
           \A q \in Replicas : \A x \in recoveryResponseQuorum'[q] :
               \/ x \in recoveryResponseQuorum[q]
               \/ q = r /\ x \in Received(r, "RecoveryResponse") /\ x.nonce = recoveryNonce[r],
           GoesOn(r, t), \A m \in sent : Says(r, t, m)
    PROVE  RecoveryInv'
<1>1. /\ Leader \in Replicas /\ rep \in [Replicas -> ReplicaStates]
      /\ rep' \in [Replicas -> ReplicaStates]
  BY LeaderIsReplica DEF RecoveryInv, RecoveryTyped, Typed
<1>2. \A p \in Replicas : /\ Len(rep[p].log) \in Nat /\ Len(rep'[p].log) \in Nat
                          /\ Len(rep[p].log) <= Len(rep'[p].log)
                          /\ p # r => rep'[p] = rep[p]
  <2>. SUFFICES ASSUME NEW p \in Replicas
                PROVE  /\ Len(rep[p].log) \in Nat /\ Len(rep'[p].log) \in Nat
                       /\ Len(rep[p].log) <= Len(rep'[p].log)
                       /\ p # r => rep'[p] = rep[p]
    OBVIOUS
  <2>1. Len(rep[p].log) \in Nat /\ Len(rep'[p].log) \in Nat
    BY <1>1, StateFields
  <2>2. rep'[p] = IF p = r THEN t ELSE rep[p]
    BY <1>1
  <2>. QED BY <2>1, <2>2 DEF GoesOn
<1>3. rep'[r] = t
  BY <1>1
<1>4. rep'[Leader].status = rep[Leader].status
  BY <1>1, <1>2, <1>3 DEF GoesOn
<1>5. \A p \in Replicas, j \in Nat : Acked(p, j)' =>
          \/ Acked(p, j)
          \/ /\ p = r /\ j <= Len(t.log)
             /\ rep[Leader].status = "NORMAL" => j <= Len(rep'[Leader].log)
  <2>. SUFFICES ASSUME NEW p \in Replicas, NEW j \in Nat, Acked(p, j)'
                PROVE  \/ Acked(p, j)
                       \/ /\ p = r /\ j <= Len(t.log)
                          /\ rep[Leader].status = "NORMAL" => j <= Len(rep'[Leader].log)
    OBVIOUS
  <2>1. CASE \E m \in msgs' : m.type = "PrepareOK" /\ m.from = p /\ m.opnum = j
    BY <2>1 DEF Acked, Says, MessageWithin
  <2>2. CASE <<j, p>> \in rep'[Leader].prepareOKs
    BY <1>1, <1>2, <1>3, <2>2 DEF Acked, GoesOn
  <2>3. \/ \E m \in msgs' : m.type = "PrepareOK" /\ m.from = p /\ m.opnum = j
        \/ <<j, p>> \in rep'[Leader].prepareOKs
    BY DEF Acked, Leader
  <2>. QED BY <2>1, <2>2, <2>3
<1>6. \A p \in Replicas : CalmState(rep'[p])
  BY <1>2, <1>3 DEF RecoveryInv, GoesOn
<1>7. \A m \in msgs' : CalmMessage(m) /\ NonceKnown(m)
  BY DEF RecoveryInv, Says
<1>8. \A q \in Replicas : \A x \in recoveryResponseQuorum'[q] :
          CalmMessage(x) /\ x.to = q /\ x.nonce = recoveryNonce[q]
  BY DEF RecoveryInv, Received
<1>9. OrderBacked(rep'[Leader])
  BY <1>2, <1>3, <1>1 DEF RecoveryInv, GoesOn
<1>10. ASSUME rep[Leader].status = "NORMAL"
       PROVE  /\ rep'[Leader].lastOp = Len(rep'[Leader].log)
              /\ \A p \in Replicas : Within(rep'[p], Len(rep'[Leader].log))
              /\ \A m \in msgs' : MessageWithin(m, Len(rep'[Leader].log))
              /\ \A q \in Replicas : \A x \in recoveryResponseQuorum'[q] :
                     Len(x.entries) <= Len(rep'[Leader].log)
              /\ \A p \in Replicas, j \in Nat : Acked(p, j)' => j <= Len(rep'[Leader].log)
  <2>1. PICK n, k \in Nat : n = Len(rep[Leader].log) /\ k = Len(rep'[Leader].log) /\ n <= k
    BY <1>1, <1>2
  <2>2. /\ rep[Leader].lastOp = n
        /\ \A q \in Replicas : Within(rep[q], n)
        /\ \A m \in msgs : MessageWithin(m, n)
        /\ \A q \in Replicas : \A x \in recoveryResponseQuorum[q] : Len(x.entries) <= n
        /\ \A p \in Replicas, j \in Nat : Acked(p, j) => j <= n
    BY <1>10, <2>1 DEF RecoveryInv, LeaderFirst
  <2>3. rep'[Leader].lastOp = k
    BY <1>1, <1>2, <1>3, <1>10, <2>1, <2>2 DEF GoesOn
  <2>4. \A p \in Replicas : Within(rep'[p], k)
    <3>. SUFFICES ASSUME NEW p \in Replicas
                  PROVE  Within(rep'[p], k)
      OBVIOUS
    <3>1. CASE p = r
      BY <1>3, <1>10, <2>1, <3>1 DEF GoesOn
    <3>2. CASE p # r
      <4>1. rep'[p] = rep[p] /\ Within(rep[p], n) /\ Len(rep[p].log) \in Nat
        BY <1>2, <2>2, <3>2
      <4>2. \A b \in Batches : b.opnum \in Nat
        BY DEF Batches
      <4>. QED BY <2>1, <4>1, <4>2 DEF Within
    <3>. QED BY <3>1, <3>2
  <2>5. \A m \in msgs' : MessageWithin(m, k)
    <3>. SUFFICES ASSUME NEW m \in msgs, MessageWithin(m, n)
                  PROVE  MessageWithin(m, k)
      BY <1>10, <2>1, <2>2 DEF Says
    <3>1. m \in AllMessages
      BY DEF RecoveryInv, RecoveryTyped, Typed
    <3>2. m.type = "Prepare" => m.batch.opnum \in Nat
      BY <3>1 DEF AllMessages, Messages, ViewChangeMessages, RecoveryMessages, Batches
    <3>3. m.type = "PrepareOK" => m.opnum \in Nat
      BY <3>1 DEF AllMessages, Messages, ViewChangeMessages, RecoveryMessages
    <3>4. m.type = "StateTransfer" => LastEntry(m) \in Int
      <4>. SUFFICES ASSUME m.type = "StateTransfer"
                    PROVE  LastEntry(m) \in Int
        OBVIOUS
      <4>1. m.first \in Nat /\ m.entries \in Seq(Entries)
        BY <3>1 DEF AllMessages, Messages, ViewChangeMessages, RecoveryMessages
      <4>2. Len(m.entries) \in Nat
        BY <4>1
      <4>. QED BY <4>1, <4>2 DEF LastEntry
    <3>5. m.type = "RecoveryResponse" => Len(m.entries) \in Nat
      <4>. SUFFICES ASSUME m.type = "RecoveryResponse"
                    PROVE  Len(m.entries) \in Nat
        OBVIOUS
      <4>1. m.entries \in Seq(Entries)
        BY <3>1 DEF AllMessages, Messages, ViewChangeMessages, RecoveryMessages
      <4>. QED BY <4>1
    <3>6. m.type = "Prepare" => m.batch.opnum <= k
      BY <2>1, <3>2 DEF MessageWithin
    <3>7. m.type = "PrepareOK" => m.opnum <= k
      BY <2>1, <3>3 DEF MessageWithin
    <3>8. m.type = "StateTransfer" /\ Len(m.entries) > 0 => LastEntry(m) <= k
      BY <2>1, <3>4 DEF MessageWithin
    <3>9. m.type = "RecoveryResponse" => Len(m.entries) <= k
      BY <2>1, <3>5 DEF MessageWithin
    <3>. QED BY <3>6, <3>7, <3>8, <3>9 DEF MessageWithin
  <2>6. \A q \in Replicas : \A x \in recoveryResponseQuorum'[q] : Len(x.entries) <= k
    <3>. SUFFICES ASSUME NEW q \in Replicas, NEW x \in recoveryResponseQuorum'[q]
                  PROVE  Len(x.entries) <= k
      OBVIOUS
    <3>1. x \in RecoveryMessages /\ x.type = "RecoveryResponse"
      BY DEF RecoveryTyped
    <3>2. Len(x.entries) \in Nat
      BY <3>1, ResponseFields
    <3>3. Len(x.entries) <= n
      BY <2>2, <3>1 DEF Received, MessageWithin
    <3>. QED BY <2>1, <3>2, <3>3
  <2>7. \A p \in Replicas, j \in Nat : Acked(p, j)' => j <= k
    <3>. SUFFICES ASSUME NEW p \in Replicas, NEW j \in Nat, Acked(p, j)'
                  PROVE  j <= k
      OBVIOUS
    <3>1. j <= n \/ j <= Len(rep'[Leader].log)
      BY <1>5, <1>10, <2>2
    <3>. QED BY <2>1, <3>1
  <2>. QED BY <2>1, <2>3, <2>4, <2>5, <2>6, <2>7
<1>11. \A p \in Replicas, j \in Nat :
           rep'[p].status = "NORMAL" /\ Acked(p, j)' => j <= Len(rep'[p].log)
  <2>. SUFFICES ASSUME NEW p \in Replicas, NEW j \in Nat,
                       rep'[p].status = "NORMAL", Acked(p, j)'
                PROVE  j <= Len(rep'[p].log)
    OBVIOUS
  <2>1. PICK k, n \in Nat : k = Len(rep[p].log) /\ n = Len(rep'[p].log) /\ k <= n
    BY <1>2
  <2>2. CASE Acked(p, j)
    <3>1. CASE rep[p].status = "NORMAL"
      BY <2>1, <2>2, <3>1 DEF RecoveryInv, AcksReached
    <3>2. CASE rep[p].status # "NORMAL"
      <4>1. p = r
        BY <1>2, <3>2
      <4>. QED BY <1>3, <2>2, <3>2, <4>1 DEF GoesOn
    <3>. QED BY <3>1, <3>2
  <2>. QED BY <1>3, <1>5, <2>2
<1>12. \A q \in Replicas : \A x \in RecoveryMessages :
           Answers(q, x)' /\ x.from = Leader /\ rep'[q].status # "NORMAL" =>
               \A j \in Nat : Acked(q, j)' => j <= Len(x.entries) \/ j <= Len(rep'[q].log)
  <2>. SUFFICES ASSUME NEW q \in Replicas, NEW x \in RecoveryMessages, NEW j \in Nat,
                       Answers(q, x)', x.from = Leader, rep'[q].status # "NORMAL",
                       Acked(q, j)'
                PROVE  j <= Len(x.entries) \/ j <= Len(rep'[q].log)
    OBVIOUS
  <2>1. PICK k, n \in Nat : k = Len(rep[q].log) /\ n = Len(rep'[q].log) /\ k <= n
    BY <1>2
  <2>2. CASE ~Acked(q, j)
    BY <1>3, <1>5, <2>2
  <2>3. CASE Acked(q, j) /\ rep[q].status = "NORMAL"
    BY <2>1, <2>3 DEF RecoveryInv, AcksReached
  <2>4. CASE Acked(q, j) /\ rep[q].status # "NORMAL"
    <3>1. Answers(q, x) \/ (x \in sent /\ x.type = "RecoveryResponse")
      BY DEF Answers, Received
    <3>2. CASE Answers(q, x)
      <4>1. j <= Len(x.entries) \/ j <= Len(rep[q].log)
        BY <2>4, <3>2 DEF RecoveryInv, AcksAnswered
      <4>. QED BY <2>1, <4>1
    <3>3. CASE x \in sent /\ x.type = "RecoveryResponse"
      <4>1. rep[Leader].status = "NORMAL" /\ x.entries = rep[Leader].log
        BY <3>3 DEF Says
      <4>2. j <= Len(rep[Leader].log)
        BY <2>4, <4>1 DEF RecoveryInv, LeaderFirst
      <4>. QED BY <4>1, <4>2
    <3>. QED BY <3>1, <3>2, <3>3
  <2>. QED BY <2>2, <2>3, <2>4
<1>13. (\A p \in Replicas : CalmState(rep[p]))'
  BY <1>6
<1>14. (\A m \in msgs : CalmMessage(m) /\ NonceKnown(m))'
  BY <1>7 DEF NonceKnown, CalmMessage
<1>15. (\A q \in Replicas : \A x \in recoveryResponseQuorum[q] :
            CalmMessage(x) /\ x.to = q /\ x.nonce = recoveryNonce[q])'
  BY <1>8
<1>16. LeaderFirst'
  BY <1>4, <1>10 DEF LeaderFirst
<1>17. AcksReached' /\ AcksAnswered'
  BY <1>11, <1>12 DEF AcksReached, AcksAnswered
<1>. QED BY <1>9, <1>13, <1>14, <1>15, <1>16, <1>17 DEF RecoveryInv

-------------------------------------------------------------------------------
(* Recovery while view 0 lasts: the handlers of the normal case            *)

\* What a handler of the normal case makes of the progress of replica r.
Progresses(r, t) ==
    /\ t.view = 0 /\ t.status = rep[r].status
    /\ \A k \in 1 .. Len(t.log) : t.log[k].view = 0
    /\ t.lastOp <= Len(t.log) /\ t.lastCommitted <= Len(t.log)
    /\ Len(rep[r].log) <= Len(t.log)
    /\ r = Leader =>
           /\ t.status = "NORMAL" => t.lastOp = Len(t.log)
           /\ OrderBacked(t)
           /\ \A p \in Replicas, j \in Nat : <<j, p>> \in t.prepareOKs => Acked(p, j)
    /\ r # Leader /\ rep[Leader].status = "NORMAL" => Len(t.log) <= Len(rep[Leader].log)

\* What the invariant says of a replica and of a message.
LEMMA CalmReplica ==
    ASSUME RecoveryInv, NEW r \in Replicas, NEW t \in ReplicaStates
    PROVE  /\ rep[r] \in ReplicaStates /\ CalmState(rep[r]) /\ Typed
           /\ Leader \in Replicas /\ (AmLeader(rep[r], r) <=> r = Leader)
           /\ Len(rep[r].log) \in Nat /\ rep[r].lastOp \in Nat /\ rep[r].lastCommitted \in Nat
           /\ Len(t.log) \in Nat /\ t.lastOp \in Nat /\ t.lastCommitted \in Nat
           /\ Len(rep[Leader].log) \in Nat
           /\ r = Leader =>
                  /\ rep[r].status = "NORMAL" => rep[r].lastOp = Len(rep[r].log)
                  /\ OrderBacked(rep[r])
                  /\ \A p \in Replicas, j \in Nat : <<j, p>> \in rep[r].prepareOKs => Acked(p, j)
           /\ rep[Leader].status = "NORMAL" => Within(rep[r], Len(rep[Leader].log))
<1>1. Leader \in Replicas /\ Typed /\ CalmState(rep[r])
  BY LeaderIsReplica DEF RecoveryInv, RecoveryTyped
<1>2. rep[r] \in ReplicaStates /\ rep[Leader] \in ReplicaStates
  BY <1>1, TypedReplica
<1>3. /\ Len(rep[r].log) \in Nat /\ rep[r].lastOp \in Nat /\ rep[r].lastCommitted \in Nat
      /\ Len(t.log) \in Nat /\ t.lastOp \in Nat /\ t.lastCommitted \in Nat
      /\ Len(rep[Leader].log) \in Nat
  BY <1>2, StateFields
<1>4. AmLeader(rep[r], r) <=> r = Leader
  BY <1>1 DEF AmLeader, CalmState, Leader
<1>5. r = Leader => /\ rep[r].status = "NORMAL" => rep[r].lastOp = Len(rep[r].log)
                    /\ OrderBacked(rep[r])
  BY DEF RecoveryInv, LeaderFirst
<1>6. r = Leader =>
          \A p \in Replicas, j \in Nat : <<j, p>> \in rep[r].prepareOKs => Acked(p, j)
  BY DEF Acked
<1>7. rep[Leader].status = "NORMAL" => Within(rep[r], Len(rep[Leader].log))
  BY DEF RecoveryInv, LeaderFirst
<1>. QED BY <1>1, <1>2, <1>3, <1>4, <1>5, <1>6, <1>7

LEMMA ProgressesStays ==
    ASSUME RecoveryInv, NEW r \in Replicas, NEW t \in ReplicaStates, Stays(r, t)
    PROVE  Progresses(r, t)
<1>1. SameProgress(rep[r], t)
  BY DEF Stays
<1>2. OrderBacked(rep[r]) => OrderBacked(t)
  BY <1>1 DEF SameProgress, OrderBacked, Backers
<1>. QED BY <1>1, <1>2, CalmReplica DEF SameProgress, CalmState, Within, Progresses

LEMMA ProgressesOrders ==
    ASSUME RecoveryInv, NEW r \in Replicas, NEW t \in ReplicaStates, Orders(r, t)
    PROVE  Progresses(r, t)
<1>1. PICK s : s = rep[r]
  OBVIOUS
<1>2. /\ s.status = "NORMAL" /\ r = Leader /\ s.lastOp = Len(s.log)
      /\ t.lastOp = s.lastOp + 1
      /\ t.view = s.view /\ t.status = s.status
      /\ t.lastCommitted = s.lastCommitted /\ t.prepareOKs = s.prepareOKs
  BY <1>1, CalmReplica DEF Orders
<1>3. PICK q \in Requests : t.log = Append(s.log, [view |-> s.view, req |-> q])
  BY <1>1 DEF Orders
<1>4. s \in ReplicaStates /\ CalmState(s) /\ OrderBacked(s)
      /\ \A p \in Replicas, j \in Nat : <<j, p>> \in s.prepareOKs => Acked(p, j)
  BY <1>1, <1>2, CalmReplica
<1>5. s.log \in Seq(Entries) /\ Len(s.log) \in Nat /\ s.lastCommitted \in Nat
  BY <1>4, StateFields
<1>6. PICK l, e : l = s.log /\ e = [view |-> s.view, req |-> q]
  OBVIOUS
<1>7. e.view = 0 /\ e \in Entries
  BY <1>4, <1>6 DEF CalmState, Entries, Views
<1>8. /\ Len(t.log) = Len(l) + 1
      /\ \A k \in 1 .. Len(l) : t.log[k] = l[k]
      /\ t.log[Len(l) + 1] = e
  BY <1>3, <1>5, <1>6, <1>7
<1>9. \A k \in 1 .. Len(t.log) : t.log[k].view = 0
  <2>. TAKE k \in 1 .. Len(t.log)
  <2>1. k \in 1 .. Len(l) \/ k = Len(l) + 1
    BY <1>5, <1>6, <1>8
  <2>2. \A j \in 1 .. Len(l) : l[j].view = 0
    BY <1>4, <1>6 DEF CalmState
  <2>. QED BY <1>7, <1>8, <2>1, <2>2
<1>10. OrderBacked(t)
  BY <1>2, <1>4 DEF OrderBacked, Backers
<1>11. /\ t.lastOp = Len(t.log) /\ t.lastCommitted <= Len(t.log) /\ Len(s.log) <= Len(t.log)
       /\ t.view = 0
  BY <1>2, <1>4, <1>5, <1>6, <1>8 DEF CalmState
<1>12. t.lastOp \in Nat
  BY <1>2, <1>5
<1>. QED BY <1>1, <1>2, <1>4, <1>9, <1>10, <1>11, <1>12 DEF Progresses

LEMMA ProgressesCounts ==
    ASSUME RecoveryInv, NEW r \in Replicas, NEW t \in ReplicaStates, Counts(r, t)
    PROVE  Progresses(r, t)
<1>1. PICK s : s = rep[r]
  OBVIOUS
<1>2. /\ s.status = "NORMAL" /\ r = Leader
      /\ t.view = s.view /\ t.status = s.status /\ t.log = s.log /\ t.lastOp = s.lastOp
  BY <1>1, CalmReplica DEF Counts
<1>3. PICK m \in msgs :
          /\ m \in Messages /\ m.type = "PrepareOK"
          /\ t.prepareOKs = s.prepareOKs \cup {<<m.opnum, m.from>>}
          /\ \/ t.lastCommitted = s.lastCommitted
             \/ /\ s.lastCommitted < m.opnum
                /\ Cardinality({p \in Replicas : <<m.opnum, p>> \in t.prepareOKs})
                       >= QuorumSize - 1
                /\ t.lastCommitted = Min({m.opnum, Len(s.log)})
  BY <1>1 DEF Counts
<1>4. s \in ReplicaStates /\ CalmState(s) /\ OrderBacked(s)
      /\ (s.status = "NORMAL" => s.lastOp = Len(s.log))
      /\ \A p \in Replicas, j \in Nat : <<j, p>> \in s.prepareOKs => Acked(p, j)
  BY <1>1, <1>2, CalmReplica
<1>5. /\ s.log \in Seq(Entries) /\ Len(s.log) \in Nat /\ s.lastCommitted \in Nat
      /\ s.lastOp \in Nat
  BY <1>4, StateFields
<1>6. m.opnum \in Nat /\ m.from \in Replicas /\ m.from # Leader
  BY <1>3 DEF Messages, RecoveryInv, CalmMessage
<1>7. /\ \A p \in Replicas, j \in Nat : <<j, p>> \in t.prepareOKs => Acked(p, j)
      /\ \A j \in Nat : <<j, Leader>> \notin t.prepareOKs
  <2>1. Acked(m.from, m.opnum)
    BY <1>3 DEF Acked
  <2>2. \A j \in Nat : <<j, Leader>> \notin s.prepareOKs
    BY <1>4 DEF OrderBacked
  <2>. QED BY <1>3, <1>4, <1>6, <2>1, <2>2
<1>8. t.lastCommitted \in Nat /\ t.lastCommitted <= Len(s.log)
      /\ (t.lastCommitted = s.lastCommitted \/ t.lastCommitted <= m.opnum)
  <2>1. CASE t.lastCommitted = s.lastCommitted
    BY <1>4, <1>5, <2>1 DEF CalmState
  <2>2. CASE t.lastCommitted = Min({m.opnum, Len(s.log)})
    <3>1. t.lastCommitted = IF m.opnum <= Len(s.log) THEN m.opnum ELSE Len(s.log)
      BY <1>5, <1>6, <2>2, MinOfTwo
    <3>. QED BY <1>5, <1>6, <3>1
  <2>. QED BY <1>3, <2>1, <2>2
<1>9. t.lastCommitted > 0 => Cardinality(Backers(t)) >= F
  <2>. SUFFICES ASSUME t.lastCommitted > 0
                PROVE  Cardinality(Backers(t)) >= F
    OBVIOUS
  <2>1. Backers(t) \in SUBSET Replicas
    BY DEF Backers
  <2>2. F \in Nat /\ QuorumSize - 1 = F
    BY ConfigAssumption DEF QuorumSize
  <2>3. CASE t.lastCommitted = s.lastCommitted
    <3>1. Cardinality(Backers(s)) >= F
      BY <1>4, <2>3 DEF OrderBacked
    <3>2. Backers(s) \subseteq Backers(t)
      BY <1>3, <2>3 DEF Backers
    <3>3. Cardinality(Backers(s)) <= Cardinality(Backers(t))
          /\ Cardinality(Backers(s)) \in Nat /\ Cardinality(Backers(t)) \in Nat
      BY <2>1, <3>2, MoreReplicas
    <3>. QED BY <2>2, <3>1, <3>3
  <2>4. CASE t.lastCommitted # s.lastCommitted
    <3>1. PICK A : A = {p \in Replicas : <<m.opnum, p>> \in t.prepareOKs}
      OBVIOUS
    <3>2. Cardinality(A) >= F /\ t.lastCommitted <= m.opnum
      BY <1>3, <1>8, <2>2, <2>4, <3>1
    <3>3. A \subseteq Backers(t)
      <4>. SUFFICES ASSUME NEW p \in A
                    PROVE  p \in Backers(t)
        OBVIOUS
      <4>1. p \in Replicas /\ <<m.opnum, p>> \in t.prepareOKs
        BY <3>1
      <4>2. p # Leader
        BY <1>6, <1>7, <4>1
      <4>3. m.opnum >= t.lastCommitted
        BY <1>6, <1>8, <3>2
      <4>. QED BY <1>6, <4>1, <4>2, <4>3 DEF Backers
    <3>4. Cardinality(A) <= Cardinality(Backers(t))
          /\ Cardinality(A) \in Nat /\ Cardinality(Backers(t)) \in Nat
      BY <2>1, <3>3, MoreReplicas
    <3>. QED BY <2>2, <3>2, <3>4
  <2>. QED BY <2>3, <2>4
<1>10. OrderBacked(t)
  BY <1>2, <1>7, <1>9 DEF OrderBacked
<1>11. /\ t.view = 0 /\ \A k \in 1 .. Len(t.log) : t.log[k].view = 0
       /\ t.lastOp <= Len(t.log) /\ t.lastOp = Len(t.log)
       /\ t.lastCommitted <= Len(t.log) /\ Len(s.log) <= Len(t.log)
  BY <1>2, <1>4, <1>5, <1>8 DEF CalmState
<1>. QED BY <1>1, <1>2, <1>7, <1>10, <1>11 DEF Progresses

LEMMA ProgressesFollows ==
    ASSUME RecoveryInv, NEW r \in Replicas, NEW t \in ReplicaStates, Follows(r, t)
    PROVE  Progresses(r, t)
<1>1. PICK s : s = rep[r]
  OBVIOUS
<1>2. /\ r # Leader
      /\ t.view = s.view /\ t.status = s.status /\ t.log = s.log /\ t.lastOp = s.lastOp
      /\ \E m \in msgs : m \in Messages /\ m.type = "Commit"
                         /\ t.lastCommitted = Min({m.opnum, Len(s.log)})
  BY <1>1, CalmReplica DEF Follows
<1>3. s \in ReplicaStates /\ CalmState(s) /\ Len(s.log) \in Nat
      /\ (rep[Leader].status = "NORMAL" => Len(s.log) <= Len(rep[Leader].log))
  BY <1>1, CalmReplica DEF Within
<1>4. t.lastCommitted <= Len(s.log)
  <2>1. PICK m \in Messages : m.type = "Commit" /\ t.lastCommitted = Min({m.opnum, Len(s.log)})
    BY <1>2
  <2>2. m.opnum \in Nat
    BY <2>1 DEF Messages
  <2>3. t.lastCommitted = IF m.opnum <= Len(s.log) THEN m.opnum ELSE Len(s.log)
    BY <1>3, <2>1, <2>2, MinOfTwo
  <2>. QED BY <1>3, <2>2, <2>3
<1>. QED BY <1>1, <1>2, <1>3, <1>4 DEF Progresses, CalmState

\* A batch that the replica has, or that a PREPARE brings it.
LEMMA KnownCalm ==
    ASSUME RecoveryInv, NEW r \in Replicas, NEW b \in Batches, KnownBatch(r, b)
    PROVE  /\ b.view = 0 /\ b.opnum \in Nat
           /\ rep[Leader].status = "NORMAL" => b.opnum <= Len(rep[Leader].log)
<1>1. b.opnum \in Nat
  BY DEF Batches
<1>2. CASE HasBatch(rep[r], b)
  BY <1>1, <1>2 DEF RecoveryInv, CalmState, LeaderFirst, Within
<1>3. CASE \E m \in msgs : m.type = "Prepare" /\ m.batch = b
  BY <1>1, <1>3 DEF RecoveryInv, CalmMessage, LeaderFirst, MessageWithin
<1>. QED BY <1>2, <1>3 DEF KnownBatch

LEMMA ProgressesAppends ==
    ASSUME RecoveryInv, NEW r \in Replicas, NEW t \in ReplicaStates, Appends(r, t)
    PROVE  Progresses(r, t)
<1>1. PICK s : s = rep[r]
  OBVIOUS
<1>2. /\ r # Leader /\ s.lastOp = Len(s.log)
      /\ t.view = s.view /\ t.status = s.status /\ t.lastCommitted = s.lastCommitted
  BY <1>1, CalmReplica DEF Appends
<1>3. PICK b \in Batches :
          /\ KnownBatch(r, b) /\ s.lastOp < b.opnum
          /\ t.lastOp = b.opnum /\ Len(t.log) = b.opnum
          /\ \A k \in 1 .. Len(s.log) : t.log[k] = s.log[k]
          /\ \A k \in Len(s.log) + 1 .. Len(t.log) :
                 t.log[k] = [view |-> b.view, req |-> b.requests[k - b.batchstart + 1]]
  BY <1>1 DEF Appends
<1>4. s \in ReplicaStates /\ CalmState(s) /\ Len(s.log) \in Nat /\ s.lastCommitted \in Nat
  BY <1>1, CalmReplica
<1>5. /\ b.view = 0 /\ b.opnum \in Nat
      /\ rep[Leader].status = "NORMAL" => b.opnum <= Len(rep[Leader].log)
  BY <1>3, KnownCalm
<1>6. \A k \in 1 .. Len(t.log) : t.log[k].view = 0
  <2>. TAKE k \in 1 .. Len(t.log)
  <2>1. k \in 1 .. Len(s.log) \/ k \in Len(s.log) + 1 .. Len(t.log)
    BY <1>3, <1>4, <1>5
  <2>2. CASE k \in 1 .. Len(s.log)
    BY <1>3, <1>4, <2>2 DEF CalmState
  <2>3. CASE k \in Len(s.log) + 1 .. Len(t.log)
    <3>1. t.log[k] = [view |-> b.view, req |-> b.requests[k - b.batchstart + 1]]
      BY <1>3, <2>3
    <3>. QED BY <1>5, <3>1
  <2>. QED BY <2>1, <2>2, <2>3
<1>7. /\ t.view = 0 /\ t.lastOp <= Len(t.log) /\ t.lastCommitted <= Len(t.log)
      /\ Len(s.log) <= Len(t.log)
  BY <1>2, <1>3, <1>4, <1>5 DEF CalmState
<1>8. rep[Leader].status = "NORMAL" => Len(t.log) <= Len(rep[Leader].log)
  BY <1>3, <1>5
<1>. QED BY <1>1, <1>2, <1>6, <1>7, <1>8 DEF Progresses

LEMMA ProgressesTransfers ==
    ASSUME RecoveryInv, NEW r \in Replicas, NEW t \in ReplicaStates, Transfers(r, t)
    PROVE  Progresses(r, t)
<1>1. PICK s : s = rep[r]
  OBVIOUS
<1>2. PICK m \in msgs :
          /\ m \in Messages /\ m.type = "StateTransfer" /\ m.to = r /\ m.view >= s.view
          /\ \/ t.log = s.log /\ t.lastOp = s.lastOp
             \/ /\ \E k \in Nat : Takes(s, m, t.log, k)
                /\ t.lastOp = LastEntry(m)
          /\ \/ /\ t.aborted
                /\ t.view = s.view /\ t.status = s.status
                /\ t.lastCommitted = s.lastCommitted /\ t.prepareOKs = s.prepareOKs
             \/ /\ t.view = m.view /\ m.opnum <= t.lastOp
                /\ IF m.view > s.view THEN t.status = "NORMAL" /\ t.prepareOKs = {}
                   ELSE t.status = s.status /\ t.prepareOKs = s.prepareOKs
                /\ t.lastCommitted = IF m.opnum <= s.lastCommitted THEN s.lastCommitted
                                     ELSE Min({m.opnum, Len(t.log)})
  BY <1>1 DEF Transfers
<1>3. /\ CalmMessage(m) /\ m.opnum \in Nat
      /\ rep[Leader].status = "NORMAL" => MessageWithin(m, Len(rep[Leader].log))
      /\ m.first \in Nat /\ m.entries \in Seq(Entries)
  BY <1>2 DEF RecoveryInv, LeaderFirst, Messages
<1>4. /\ r # Leader /\ m.view = 0 /\ \A k \in 1 .. Len(m.entries) : m.entries[k].view = 0
  BY <1>2, <1>3 DEF CalmMessage
<1>5. /\ s \in ReplicaStates /\ CalmState(s) /\ Len(s.log) \in Nat /\ s.lastCommitted \in Nat
      /\ s.lastOp \in Nat /\ s.view = 0
      /\ (rep[Leader].status = "NORMAL" => Len(s.log) <= Len(rep[Leader].log))
      /\ Len(t.log) \in Nat
  BY <1>1, CalmReplica DEF Within, CalmState
<1>6. t.view = 0 /\ t.status = s.status
  BY <1>2, <1>4, <1>5
<1>7. /\ \A k \in 1 .. Len(t.log) : t.log[k].view = 0
      /\ t.lastOp <= Len(t.log) /\ Len(s.log) <= Len(t.log)
      /\ rep[Leader].status = "NORMAL" => Len(t.log) <= Len(rep[Leader].log)
  <2>1. CASE t.log = s.log /\ t.lastOp = s.lastOp
    BY <1>5, <2>1 DEF CalmState
  <2>2. CASE (\E k \in Nat : Takes(s, m, t.log, k)) /\ t.lastOp = LastEntry(m)
    <3>1. PICK k \in Nat : Takes(s, m, t.log, k)
      BY <2>2
    <3>2. PICK c, f, o \in Int : c = Len(m.entries) /\ f = m.first /\ o = LastEntry(m)
                                 /\ o = f + c - 1 /\ c \in Nat /\ f \in Nat
      <4>1. Len(m.entries) \in Nat
        BY <1>3
      <4>. QED BY <1>3, <4>1 DEF LastEntry
    <3>3. /\ k \in 1 .. Len(s.log) + 1 /\ f <= k /\ k <= o
          /\ k <= Len(s.log) => s.log[k].view < m.entries[k - f + 1].view
          /\ Len(t.log) = o
          /\ \A j \in 1 .. k - 1 : t.log[j] = s.log[j]
          /\ \A j \in k .. o : t.log[j] = m.entries[j - f + 1]
      BY <3>1, <3>2 DEF Takes
    <3>4. \A j \in k .. o : j - f + 1 \in 1 .. c
      <4>1. /\ k \in Int /\ f \in Int /\ c \in Int /\ o \in Int
            /\ f <= k /\ o = f + c - 1
        BY <3>1, <3>2, <3>3
      <4>. TAKE j \in k .. o
      <4>2. j \in Int /\ k <= j /\ j <= o
        BY <4>1
      <4>. QED BY <4>1, <4>2
    <3>5. \A j \in k .. o : m.entries[j - f + 1].view = 0
      BY <1>4, <3>2, <3>4
    <3>6. ~ (k <= Len(s.log))
      <4>. SUFFICES ASSUME k <= Len(s.log)
                    PROVE  FALSE
        OBVIOUS
      <4>1. k \in 1 .. Len(s.log) /\ k \in k .. o
        BY <3>2, <3>3
      <4>2. s.log[k].view = 0
        BY <1>5, <4>1 DEF CalmState
      <4>3. m.entries[k - f + 1].view = 0
        BY <3>5, <4>1
      <4>. QED BY <3>3, <4>2, <4>3
    <3>7. \A j \in 1 .. Len(t.log) : t.log[j].view = 0
      <4>. TAKE j \in 1 .. Len(t.log)
      <4>1. (j \in 1 .. k - 1 /\ j \in 1 .. Len(s.log)) \/ j \in k .. o
        BY <1>5, <3>2, <3>3, <3>6
      <4>2. \A i \in 1 .. Len(s.log) : s.log[i].view = 0
        BY <1>5 DEF CalmState
      <4>. QED BY <3>3, <3>5, <4>1, <4>2
    <3>8. Len(m.entries) > 0
      BY <3>2, <3>3
    <3>9. rep[Leader].status = "NORMAL" => Len(t.log) <= Len(rep[Leader].log)
      BY <1>2, <1>3, <3>2, <3>3, <3>8 DEF MessageWithin
    <3>. QED BY <1>5, <2>2, <3>2, <3>3, <3>6, <3>7, <3>9
  <2>. QED BY <1>2, <2>1, <2>2
<1>8. t.lastCommitted <= Len(t.log)
  <2>1. CASE t.lastCommitted = s.lastCommitted
    BY <1>5, <1>7, <2>1 DEF CalmState
  <2>2. CASE t.lastCommitted = Min({m.opnum, Len(t.log)})
    <3>1. t.lastCommitted = IF m.opnum <= Len(t.log) THEN m.opnum ELSE Len(t.log)
      BY <1>3, <1>5, <2>2, MinOfTwo
    <3>. QED BY <1>3, <1>5, <3>1
  <2>. QED BY <1>2, <2>1, <2>2
<1>. QED BY <1>1, <1>4, <1>6, <1>7, <1>8 DEF Progresses


LEMMA HandlesProgress ==
    ASSUME RecoveryInv, NEW r \in Replicas, NEW t, NEW sent, Handles(r, t, sent)
    PROVE  Progresses(r, t)
<1>1. t \in ReplicaStates
      /\ \/ Stays(r, t) \/ Orders(r, t) \/ Counts(r, t) \/ Follows(r, t) \/ Appends(r, t)
         \/ Transfers(r, t)
  BY DEF Handles
<1>. QED BY <1>1, ProgressesStays, ProgressesOrders, ProgressesCounts, ProgressesFollows,
            ProgressesAppends, ProgressesTransfers

\* The log of the leader after a step of replica r.
LEMMA GrownLeader ==
    ASSUME RecoveryInv, NEW r \in Replicas, NEW t \in ReplicaStates,
           rep' = [rep EXCEPT ![r] = t], Progresses(r, t)
    PROVE  /\ Len(rep[Leader].log) \in Nat /\ Len(rep'[Leader].log) \in Nat
           /\ Len(rep[Leader].log) <= Len(rep'[Leader].log)
           /\ rep[Leader].status = "NORMAL" => Len(t.log) <= Len(rep'[Leader].log)
<1>1. Leader \in Replicas /\ rep \in [Replicas -> ReplicaStates]
  BY LeaderIsReplica DEF RecoveryInv, RecoveryTyped, Typed
<1>2. Len(rep[Leader].log) \in Nat /\ Len(t.log) \in Nat
  BY CalmReplica
<1>3. rep'[Leader] = IF r = Leader THEN t ELSE rep[Leader]
  BY <1>1
<1>. QED BY <1>2, <1>3 DEF Progresses

\* The batches of a replica after a step of it.
LEMMA HandledBatches ==
    ASSUME RecoveryInv, NEW r \in Replicas, NEW t, NEW sent, Handles(r, t, sent),
           NEW b \in Batches, HasBatch(t, b)
    PROVE  /\ b.view = 0
           /\ rep[Leader].status = "NORMAL" => b.opnum <= Len(rep'[Leader].log)
<1>1. /\ t \in ReplicaStates /\ rep' = [rep EXCEPT ![r] = t]
      /\ KnownBatch(r, b) \/ CutFrom(t, b)
  BY DEF Handles, BatchesKept
<1>2. Progresses(r, t)
  BY HandlesProgress
<1>3. /\ Len(rep[Leader].log) \in Nat /\ Len(rep'[Leader].log) \in Nat
      /\ Len(rep[Leader].log) <= Len(rep'[Leader].log)
      /\ rep[Leader].status = "NORMAL" => Len(t.log) <= Len(rep'[Leader].log)
  BY <1>1, <1>2, GrownLeader
<1>4. b.opnum \in Nat /\ Len(t.log) \in Nat
  BY <1>1, CalmReplica DEF Batches
<1>5. CASE KnownBatch(r, b)
  <2>1. /\ b.view = 0
        /\ rep[Leader].status = "NORMAL" => b.opnum <= Len(rep[Leader].log)
    BY <1>5, KnownCalm
  <2>. QED BY <1>3, <1>4, <2>1
<1>6. CASE CutFrom(t, b)
  <2>1. b.view = t.view /\ b.opnum <= Len(t.log) /\ t.view = 0
    BY <1>2, <1>6 DEF CutFrom, Progresses
  <2>. QED BY <1>3, <1>4, <2>1
<1>. QED BY <1>1, <1>5, <1>6

\* A log dump of view 0.
LEMMA CalmDump ==
    ASSUME RecoveryInv, NEW r \in Replicas, NEW x \in msgs, x \in Messages,
           x.type = "RequestStateTransfer", NEW m, m = LogDump(rep[r], x)
    PROVE  /\ m.type = "StateTransfer" /\ m.to # Leader /\ m.view = 0
           /\ \A k \in 1 .. Len(m.entries) : m.entries[k].view = 0
           /\ Len(m.entries) > 0 => LastEntry(m) <= Len(rep[r].log)
<1>1. CalmState(rep[r]) /\ rep[r] \in ReplicaStates
  BY CalmReplica DEF RecoveryInv, RecoveryTyped, Typed
<1>2. PICK l, a : l = rep[r].log /\ a = x.opnum + 1
  OBVIOUS
<1>3. PICK n : n = Len(l)
  OBVIOUS
<1>4. l \in Seq(Entries) /\ n \in Nat /\ a \in Nat \ {0}
  BY <1>1, <1>2, <1>3, StateFields DEF Messages
<1>5. \A k \in a .. n : l[k] \in Entries
  BY <1>3, <1>4, ElementOfSeq
<1>6. PICK e : e = SubSeq(l, a, n)
  OBVIOUS
<1>7. /\ Len(e) = IF a <= n THEN n - a + 1 ELSE 0
      /\ \A k \in 1 .. n - a + 1 : e[k] = l[a + k - 1]
  BY <1>4, <1>5, <1>6, SubSeqProperties
<1>8. /\ m.type = "StateTransfer" /\ m.to = x.from /\ m.view = rep[r].view
      /\ m.first = a /\ m.entries = e
  BY <1>2, <1>3, <1>6 DEF LogDump
<1>9. \A k \in 1 .. Len(e) : e[k].view = 0
  <2>. SUFFICES ASSUME NEW k \in 1 .. Len(e)
                PROVE  e[k].view = 0
    OBVIOUS
  <2>1. k \in 1 .. n - a + 1 /\ a + k - 1 \in 1 .. n
    BY <1>4, <1>7
  <2>2. \A j \in 1 .. n : l[j].view = 0
    BY <1>1, <1>2, <1>3 DEF CalmState
  <2>. QED BY <1>7, <2>1, <2>2
<1>10. x.from # Leader
  BY DEF RecoveryInv, CalmMessage
<1>11. Len(e) > 0 => a + Len(e) - 1 <= n
  BY <1>4, <1>7
<1>. QED BY <1>1, <1>2, <1>3, <1>8, <1>9, <1>10, <1>11 DEF CalmState, LastEntry

\* What a handler of the normal case sends.
LEMMA HandlesSays ==
    ASSUME RecoveryInv, NEW r \in Replicas, NEW t, NEW sent, Handles(r, t, sent), NEW m \in sent
    PROVE  Says(r, t, m)
<1>1. /\ t \in ReplicaStates /\ rep' = [rep EXCEPT ![r] = t] /\ Honest(r, t, m)
  BY DEF Handles
<1>2. Progresses(r, t)
  BY HandlesProgress
<1>3. /\ Len(rep[Leader].log) \in Nat /\ Len(rep'[Leader].log) \in Nat
      /\ Len(rep[Leader].log) <= Len(rep'[Leader].log)
      /\ rep[Leader].status = "NORMAL" => Len(t.log) <= Len(rep'[Leader].log)
  BY <1>1, <1>2, GrownLeader
<1>4. /\ t.view = 0 /\ (AmLeader(rep[r], r) <=> r = Leader)
      /\ t.lastOp \in Nat /\ Len(t.log) \in Nat /\ t.lastOp <= Len(t.log)
      /\ (AmLeader(t, r) <=> r = Leader)
  BY <1>1, <1>2, CalmReplica DEF Progresses, AmLeader, Leader
<1>5. m \in Messages
  BY <1>1 DEF Honest
<1>6. CASE m.type = "Prepare"
  <2>1. m.batch \in Batches /\ HasBatch(t, m.batch)
    BY <1>1, <1>5, <1>6, PrepareBatch DEF Honest, HasBatch
  <2>2. /\ m.batch.view = 0
        /\ rep[Leader].status = "NORMAL" => m.batch.opnum <= Len(rep'[Leader].log)
    BY <2>1, HandledBatches
  <2>. QED BY <1>6, <2>2 DEF Says, CalmMessage, NonceKnown, MessageWithin
<1>7. CASE m.type = "PrepareOK"
  <2>1. /\ m.from = r /\ m.view = 0 /\ m.to = Leader /\ m.opnum <= t.lastOp
        /\ ~AmLeader(rep[r], r) \/ \E x \in msgs : x.type = "StateTransfer" /\ x.to = r
    BY <1>1, <1>4, <1>7 DEF Honest, Leader
  <2>2. r # Leader
    BY <1>4, <2>1 DEF RecoveryInv, CalmMessage
  <2>3. m.opnum \in Nat
    BY <1>5, <1>7 DEF Messages
  <2>4. m.opnum <= Len(t.log)
        /\ (rep[Leader].status = "NORMAL" => m.opnum <= Len(rep'[Leader].log))
    BY <1>3, <1>4, <2>1, <2>3
  <2>. QED BY <1>7, <2>1, <2>2, <2>4 DEF Says, CalmMessage, NonceKnown, MessageWithin
<1>8. CASE m.type = "Commit"
  <2>1. m.view = 0
    BY <1>1, <1>4, <1>8 DEF Honest
  <2>. QED BY <1>8, <2>1 DEF Says, CalmMessage, NonceKnown, MessageWithin
<1>9. CASE m.type = "RequestStateTransfer"
  <2>1. /\ m.view = 0 /\ m.from = r
        /\ \/ ~AmLeader(t, r)
           \/ \E b \in Batches : KnownBatch(r, b) /\ b.view > 0
           \/ \E x \in msgs : x \in Messages /\ x.type # "Prepare" /\ x.view > 0
    BY <1>1, <1>4, <1>9 DEF Honest
  <2>2. ~(\E b \in Batches : KnownBatch(r, b) /\ b.view > 0)
    BY KnownCalm
  <2>3. ~(\E x \in msgs : x \in Messages /\ x.type # "Prepare" /\ x.view > 0)
    BY DEF RecoveryInv, CalmMessage, Messages
  <2>4. r # Leader
    BY <1>4, <2>1, <2>2, <2>3
  <2>. QED BY <1>9, <2>1, <2>4 DEF Says, CalmMessage, NonceKnown, MessageWithin
<1>10. CASE m.type = "StateTransfer"
  <2>1. /\ t = rep[r]
        /\ \E x \in msgs : /\ x \in Messages /\ x.type = "RequestStateTransfer"
                           /\ m = LogDump(rep[r], x)
    BY <1>1, <1>10 DEF Honest
  <2>2. /\ m.to # Leader /\ m.view = 0
        /\ \A k \in 1 .. Len(m.entries) : m.entries[k].view = 0
        /\ Len(m.entries) > 0 => LastEntry(m) <= Len(rep[r].log)
    BY <2>1, CalmDump
  <2>3. Len(m.entries) > 0 => LastEntry(m) \in Int
    <3>1. m.first \in Nat /\ m.entries \in Seq(Entries)
      BY <1>5, <1>10 DEF Messages
    <3>2. Len(m.entries) \in Nat
      BY <3>1
    <3>. QED BY <3>1, <3>2 DEF LastEntry
  <2>4. PICK l, n, k : l = LastEntry(m) /\ n = Len(rep[r].log) /\ k = Len(rep'[Leader].log)
    OBVIOUS
  <2>5. /\ n \in Nat /\ k \in Nat
        /\ Len(m.entries) > 0 => l \in Int /\ l <= n
        /\ rep[Leader].status = "NORMAL" => n <= k
    BY <1>3, <1>4, <2>1, <2>2, <2>3, <2>4
  <2>6. rep[Leader].status = "NORMAL" /\ Len(m.entries) > 0 => l <= k
    BY <2>5
  <2>7. rep[Leader].status = "NORMAL" /\ Len(m.entries) > 0 =>
            LastEntry(m) <= Len(rep'[Leader].log)
    BY <2>4, <2>6
  <2>. QED BY <1>10, <2>2, <2>7 DEF Says, CalmMessage, NonceKnown, MessageWithin
<1>11. m.type \in {"Prepare", "PrepareOK", "Commit", "RequestStateTransfer", "StateTransfer"}
  BY <1>5 DEF Messages
<1>. QED BY <1>6, <1>7, <1>8, <1>9, <1>10, <1>11

\* What a handler of the normal case makes of the replica.
LEMMA HandlesGoesOn ==
    ASSUME RecoveryInv, NEW r \in Replicas, NEW t, NEW sent, Handles(r, t, sent)
    PROVE  GoesOn(r, t)
<1>1. t \in ReplicaStates /\ rep' = [rep EXCEPT ![r] = t]
  BY DEF Handles
<1>2. Progresses(r, t)
  BY HandlesProgress
<1>3. rep[Leader].status = "NORMAL" => Len(t.log) <= Len(rep'[Leader].log)
  BY <1>1, <1>2, GrownLeader
<1>4. rep[r].status \in {"NORMAL", "RECOVERING"}
  BY DEF RecoveryInv, CalmState
<1>5. CalmState(t)
  BY <1>2, <1>4, HandledBatches DEF Progresses, CalmState
<1>6. rep[Leader].status = "NORMAL" => Within(t, Len(rep'[Leader].log))
  BY <1>3, HandledBatches DEF Within
<1>. QED BY <1>2, <1>5, <1>6 DEF GoesOn, Progresses

\* Without a view change nothing but the handlers of the normal case is left.
LEMMA NormalOnly ==
    ASSUME MaxView = 0, RecoveryInv, NEW r \in Replicas, ViewChangeStep(r)
    PROVE  DoesHandle(r) \/ UNCHANGED vars
<1>1. Typed /\ rep[r].view = 0
  BY DEF RecoveryInv, RecoveryTyped, CalmState
<1>2. \A type \in {"StartViewChange", "DoViewChange", "StartView"} : Received(r, type) = {}
  BY DEF RecoveryInv, CalmMessage, Received
<1>3. CASE NormalStep(r)
  BY <1>1, <1>3, NormalStepHandles
<1>4. CASE \E q \in Requests : HandleUpdate(r, q)
  BY <1>1, <1>4, HandlesUpdate
<1>5. CASE StatusUpdateArrives(r)
  BY <1>5 DEF StatusUpdateArrives
<1>6. ~ViewChangeTimeout(r)
  BY <1>1 DEF ViewChangeTimeout
<1>7. ~ReceiveStartViewChange(r) /\ ~ReceiveDoViewChange(r) /\ ~ReceiveStartView(r)
  BY <1>2 DEF ReceiveStartViewChange, ReceiveDoViewChange, ReceiveStartView
<1>. QED BY <1>3, <1>4, <1>5, <1>6, <1>7 DEF ViewChangeStep

\* A replica that is like it was.
LEMMA GoesOnLike ==
    ASSUME RecoveryInv, NEW r \in Replicas, NEW t, Like(rep[r], t),
           rep' = [rep EXCEPT ![r] = t]
    PROVE  GoesOn(r, t)
<1>1. t \in ReplicaStates /\ SameProgress(rep[r], t) /\ SameBatches(rep[r], t)
  BY DEF Like
<1>2. Progresses(r, t)
  BY <1>1, ProgressesStays DEF Stays
<1>3. \A b \in Batches : HasBatch(t, b) => HasBatch(rep[r], b)
  BY <1>1 DEF SameBatches, HasBatch
<1>4. /\ CalmState(rep[r]) /\ t.status = rep[r].status
      /\ rep[Leader].status = "NORMAL" => Within(rep[r], Len(rep[Leader].log))
  BY <1>1, CalmReplica DEF SameProgress
<1>5. CalmState(t)
  BY <1>2, <1>3, <1>4 DEF Progresses, CalmState
<1>6. /\ Len(rep[Leader].log) \in Nat /\ Len(rep'[Leader].log) \in Nat
      /\ Len(rep[Leader].log) <= Len(rep'[Leader].log)
      /\ rep[Leader].status = "NORMAL" => Len(t.log) <= Len(rep'[Leader].log)
  BY <1>1, <1>2, GrownLeader
<1>7. rep[Leader].status = "NORMAL" => Within(t, Len(rep'[Leader].log))
  <2>. SUFFICES ASSUME rep[Leader].status = "NORMAL", NEW b \in Batches, HasBatch(t, b)
                PROVE  b.opnum <= Len(rep'[Leader].log)
    BY <1>6 DEF Within
  <2>1. b.opnum \in Nat /\ b.opnum <= Len(rep[Leader].log)
    BY <1>3, <1>4 DEF Within, Batches
  <2>. QED BY <1>6, <2>1
<1>. QED BY <1>2, <1>5, <1>7 DEF GoesOn, Progresses

\* A step that leaves the replicas as they are.
LEMMA StandingStill ==
    ASSUME RecoveryInv, RecoveryTyped', NEW r \in Replicas, UNCHANGED rep, NEW sent,
           \A m \in msgs' : m \in msgs \/ m \in sent,
           UNCHANGED recoveryNonce,
           \A q \in Replicas : \A x \in recoveryResponseQuorum'[q] :
               \/ x \in recoveryResponseQuorum[q]
               \/ q = r /\ x \in Received(r, "RecoveryResponse") /\ x.nonce = recoveryNonce[r],
           \A m \in sent : Says(r, rep[r], m)
    PROVE  RecoveryInv'
<1>1. rep \in [Replicas -> ReplicaStates]
  BY DEF RecoveryInv, RecoveryTyped, Typed
<1>2. PICK t \in ReplicaStates : t = rep[r]
  BY <1>1
<1>3. rep' = [rep EXCEPT ![r] = t]
  BY <1>1, <1>2
<1>4. Like(rep[r], t)
  BY <1>2, LikeChanges
<1>5. GoesOn(r, t)
  BY <1>3, <1>4, GoesOnLike
<1>6. \A m \in sent : Says(r, t, m)
  BY <1>2
<1>. QED BY <1>3, <1>5, <1>6, GoingOn

\* A step of VRViewChange.
LEMMA ViewChangeStepCalm ==
    ASSUME MaxView = 0, RecoveryInv, NEW r \in Replicas, ViewChangeStep(r),
           KeepResponses(r, recoveryResponseQuorum[r]), UNCHANGED recoveryNonce
    PROVE  RecoveryInv'
<1>1. RecoveryTyped /\ Typed
  BY DEF RecoveryInv, RecoveryTyped
<1>2. Typed'
  <2>1. OthersTyped /\ (DoesHandle(r) \/ DoesChange(r) \/ UNCHANGED vars)
    BY <1>1, StepCases
  <2>. QED BY <1>1, <2>1, StepTyped
<1>3. PICK votes : votes = recoveryResponseQuorum[r]
  OBVIOUS
<1>4. votes \subseteq RecoveryMessages /\ \A x \in votes : x.type = "RecoveryResponse"
  BY <1>1, <1>3 DEF RecoveryTyped
<1>5. KeepResponses(r, votes)
  BY <1>3
<1>6. /\ recoveryResponseQuorum' \in [Replicas -> SUBSET RecoveryMessages]
      /\ \A p \in Replicas : \A x \in recoveryResponseQuorum'[p] :
             x.type = "RecoveryResponse"
      /\ \A p \in Replicas : \A x \in recoveryResponseQuorum'[p] :
             IF p = r THEN x \in votes ELSE x \in recoveryResponseQuorum[p]
  BY <1>1, <1>4, <1>5, KeepResponsesType
<1>7. \A p \in Replicas : \A x \in recoveryResponseQuorum'[p] : x \in recoveryResponseQuorum[p]
  BY <1>3, <1>6
<1>8. RecoveryTyped'
  BY <1>1, <1>2, <1>6 DEF RecoveryTyped
<1>9. CASE DoesHandle(r)
  <2>1. PICK t, sent : Handles(r, t, sent)
    BY <1>9 DEF DoesHandle
  <2>2. /\ t \in ReplicaStates /\ rep' = [rep EXCEPT ![r] = t]
        /\ \A m \in msgs' : m \in msgs \/ m \in sent
    BY <2>1 DEF Handles
  <2>3. GoesOn(r, t)
    BY <2>1, HandlesGoesOn
  <2>4. \A m \in sent : Says(r, t, m)
    BY <2>1, HandlesSays
  <2>. QED BY <1>7, <1>8, <2>2, <2>3, <2>4, GoingOn
<1>10. CASE UNCHANGED vars
  <2>3. PICK none : none = {}
    OBVIOUS
  <2>1. UNCHANGED rep /\ \A m \in msgs' : m \in msgs \/ m \in none
    BY <1>10 DEF vars
  <2>2. \A m \in none : Says(r, rep[r], m)
    BY <2>3
  <2>. QED BY <1>7, <1>8, <2>1, <2>2, StandingStill
<1>. QED BY <1>9, <1>10, NormalOnly

\* Asking for what is lost, and answering.
LEMMA TalkSays ==
    ASSUME RecoveryInv, NEW r \in Replicas, UNCHANGED rep, NEW m, RecoveryTalk(r, m)
    PROVE  Says(r, rep[r], m)
<1>1. /\ Typed /\ CalmState(rep[r]) /\ Len(rep[r].log) \in Nat
      /\ (AmLeader(rep[r], r) <=> r = Leader)
  BY CalmReplica, StateFields, TypedReplica DEF RecoveryInv, RecoveryTyped, Typed
<1>2. \A p \in Replicas : recoveryNonce[p] \in Nat
  BY DEF RecoveryInv, RecoveryTyped
<1>3. CASE m \in RequestRecovery(r, recoveryNonce[r])
  <2>1. m.type = "Recovery" /\ m.from = r /\ m.nonce = recoveryNonce[r]
    BY <1>2, <1>3, RequestRecoveryFacts
  <2>2. m.nonce <= recoveryNonce[m.from]
    BY <1>2, <2>1
  <2>. QED BY <2>1, <2>2 DEF Says, CalmMessage, NonceKnown, MessageWithin
<1>4. CASE /\ rep[r].status = "NORMAL"
           /\ \E x \in msgs : /\ x \in RecoveryMessages /\ x.type = "Recovery" /\ x.to = r
                              /\ m = RecoveryResponse(r, x)
  <2>1. PICK x \in msgs : /\ x \in RecoveryMessages /\ x.type = "Recovery"
                          /\ m = RecoveryResponse(r, x)
    BY <1>4
  <2>2. /\ m.type = "RecoveryResponse"
        /\ m.from = r /\ m.to = x.from /\ m.nonce = x.nonce /\ m.view = rep[r].view
        /\ IF r = Leader THEN m.lastOp = rep[r].lastOp /\ m.entries = rep[r].log
           ELSE m.lastOp = 0 /\ m.entries = <<>>
    BY <1>1, <2>1, RecoveryResponseType
  <2>3. m.nonce <= recoveryNonce[m.to]
    BY <2>1, <2>2 DEF RecoveryInv, NonceKnown
  <2>4. /\ \A k \in 1 .. Len(m.entries) : m.entries[k].view = 0
        /\ m.lastOp <= Len(m.entries) /\ m.view = 0
    BY <1>1, <2>2 DEF CalmState
  <2>5. rep[Leader].status = "NORMAL" => Len(m.entries) <= Len(rep'[Leader].log)
    <3>1. Len(rep[Leader].log) \in Nat
      BY CalmReplica, TypedReplica, <1>1
    <3>. QED BY <2>2, <3>1
  <2>6. m.from = Leader => rep[Leader].status = "NORMAL" /\ m.entries = rep[Leader].log
    BY <1>4, <2>2
  <2>. QED BY <2>2, <2>3, <2>4, <2>5, <2>6 DEF Says, CalmMessage, NonceKnown, MessageWithin
<1>. QED BY <1>3, <1>4 DEF RecoveryTalk

LEMMA TalkStepCalm ==
    ASSUME RecoveryInv, NEW r \in Replicas, SendRecoveryMessages(r) \/ HandleRecovery(r)
    PROVE  RecoveryInv'
<1>1. /\ UNCHANGED <<rep, recoveryVars>>
      /\ \A m \in msgs' : m \in msgs \/ RecoveryTalk(r, m)
      /\ RecoveryTyped'
  BY TalkStep DEF RecoveryInv
<1>2. UNCHANGED <<rep, recoveryNonce, recoveryResponseQuorum>>
  BY <1>1 DEF recoveryVars
<1>3. PICK sent : sent = {m \in msgs' : RecoveryTalk(r, m)}
  OBVIOUS
<1>4. \A m \in msgs' : m \in msgs \/ m \in sent
  BY <1>1, <1>3
<1>5. \A m \in sent : Says(r, rep[r], m)
  BY <1>2, <1>3, TalkSays
<1>6. \A q \in Replicas : \A x \in recoveryResponseQuorum'[q] :
          \/ x \in recoveryResponseQuorum[q]
          \/ q = r /\ x \in Received(r, "RecoveryResponse") /\ x.nonce = recoveryNonce[r]
  BY <1>2
<1>. QED BY <1>1, <1>2, <1>4, <1>5, <1>6, StandingStill

\* The log that a replica regains while all entries are of view 0.
LEMMA RegainedCalm ==
    ASSUME NEW l \in Seq(Entries), NEW es \in Seq(Entries), NEW t, Regained(l, es, t),
           \A k \in 1 .. Len(l) : l[k].view = 0, \A k \in 1 .. Len(es) : es[k].view = 0
    PROVE  /\ t \in Seq(Entries) /\ \A k \in 1 .. Len(t) : t[k].view = 0
           /\ Len(l) <= Len(t) /\ Len(es) <= Len(t)
           /\ (Len(t) = Len(l) \/ Len(t) = Len(es))
<1>1. PICK a, b : a = Len(l) /\ b = Len(es)
  OBVIOUS
<1>2. a \in Nat /\ b \in Nat
  BY <1>1
<1>3. /\ t \in Seq(Entries)
      /\ \A j \in 1 .. Len(t) : (j <= a /\ t[j] = l[j]) \/ (j <= b /\ t[j] = es[j])
      /\ \/ Len(t) = a /\ b <= a
         \/ Len(t) = b /\ (b > a \/ \E i \in 1 .. a : i <= b /\ l[i].view # es[i].view)
  BY <1>1 DEF Regained
<1>4. ~ \E i \in 1 .. a : i <= b /\ l[i].view # es[i].view
  BY <1>1, <1>2
<1>5. \A k \in 1 .. Len(t) : t[k].view = 0
  BY <1>1, <1>2, <1>3
<1>. QED BY <1>1, <1>2, <1>3, <1>4, <1>5

\* A replica that has recovered has what it has ever acknowledged.
LEMMA RecoveredGoesOn ==
    ASSUME RecoveryInv, NEW r \in Replicas, NEW x \in RecoveryMessages,
           x.type = "RecoveryResponse", rep[r].status = "RECOVERING",
           x.from = GetLeaderIndex(x.view), x.from # r,
           x \in recoveryResponseQuorum[r]
               \/ (x \in Received(r, "RecoveryResponse") /\ x.nonce = recoveryNonce[r]),
           NEW t, t = CommitUpTo(Recovered(r, x), x.lastCommitted),
           rep' = [rep EXCEPT ![r] = t]
    PROVE  t \in ReplicaStates /\ GoesOn(r, t)
<1>1. /\ CalmMessage(x) /\ Answers(r, x)
      /\ rep[Leader].status = "NORMAL" => Len(x.entries) <= Len(rep[Leader].log)
  BY DEF RecoveryInv, Received, Answers, LeaderFirst, MessageWithin
<1>2. /\ x.view = 0 /\ x.from = Leader /\ r # Leader /\ x.lastOp <= Len(x.entries)
      /\ \A k \in 1 .. Len(x.entries) : x.entries[k].view = 0
  BY <1>1 DEF CalmMessage, Leader
<1>3. x.lastOp \in Nat /\ x.lastCommitted \in Nat /\ x.entries \in Seq(Entries)
      /\ Len(x.entries) \in Nat
  BY ResponseFields
<1>4. PICK s : s = rep[r]
  OBVIOUS
<1>5. Typed /\ s \in ReplicaStates /\ CalmState(s)
  BY <1>4, TypedReplica DEF RecoveryInv, RecoveryTyped
<1>6. s.log \in Seq(Entries) /\ Len(s.log) \in Nat /\ s.lastCommitted \in Nat
  BY <1>5, StateFields
<1>7. /\ t \in ReplicaStates /\ SameBatches(s, t)
      /\ t.view = x.view /\ t.status = "NORMAL" /\ t.lastOp = x.lastOp
      /\ Regained(s.log, x.entries, t.log)
      /\ \/ t.lastCommitted = s.lastCommitted
         \/ t.lastCommitted = Min({x.lastCommitted, Len(t.log)})
  BY <1>4, <1>5, RecoveredFacts
<1>8. /\ t.log \in Seq(Entries) /\ \A k \in 1 .. Len(t.log) : t.log[k].view = 0
      /\ Len(s.log) <= Len(t.log) /\ Len(x.entries) <= Len(t.log)
      /\ Len(t.log) = Len(s.log) \/ Len(t.log) = Len(x.entries)
  <2>1. \A k \in 1 .. Len(s.log) : s.log[k].view = 0
    BY <1>5 DEF CalmState
  <2>. QED BY <1>2, <1>3, <1>6, <1>7, <2>1, RegainedCalm
<1>9. PICK n \in Nat : n = Len(t.log)
  BY <1>8
<1>10. t.lastCommitted <= n
  <2>1. CASE t.lastCommitted = s.lastCommitted
    BY <1>5, <1>6, <1>8, <1>9, <2>1 DEF CalmState
  <2>2. CASE t.lastCommitted = Min({x.lastCommitted, n})
    <3>1. t.lastCommitted = IF x.lastCommitted <= n THEN x.lastCommitted ELSE n
      BY <1>3, <1>9, <2>2, MinOfTwo
    <3>. QED BY <1>3, <1>9, <3>1
  <2>. QED BY <1>7, <1>9, <2>1, <2>2
<1>11. \A b \in Batches : HasBatch(t, b) => HasBatch(s, b)
  BY <1>7 DEF SameBatches, HasBatch
<1>12. CalmState(t)
  <2>1. t.lastOp <= Len(t.log)
    BY <1>2, <1>3, <1>7, <1>8, <1>9
  <2>. QED BY <1>2, <1>5, <1>7, <1>8, <1>9, <1>10, <1>11, <2>1 DEF CalmState
<1>13. rep[Leader].status = "NORMAL" => Within(t, Len(rep'[Leader].log))
  <2>1. rep'[Leader] = rep[Leader]
    BY <1>2, <1>5, LeaderIsReplica DEF Typed
  <2>2. rep[Leader].status = "NORMAL" => Within(s, Len(rep[Leader].log))
    BY <1>4 DEF RecoveryInv, LeaderFirst
  <2>. QED BY <1>1, <1>8, <1>11, <2>1, <2>2 DEF Within
<1>14. \A j \in Nat : Acked(r, j) => j <= Len(t.log)
  <2>. SUFFICES ASSUME NEW j \in Nat, Acked(r, j)
                PROVE  j <= Len(t.log)
    OBVIOUS
  <2>1. j <= Len(x.entries) \/ j <= Len(s.log)
    BY <1>1, <1>2, <1>4 DEF RecoveryInv, AcksAnswered
  <2>. QED BY <1>3, <1>6, <1>8, <1>9, <2>1
<1>. QED BY <1>2, <1>4, <1>7, <1>8, <1>12, <1>13, <1>14 DEF GoesOn

\* A response.
LEMMA ResponseStepCalm ==
    ASSUME RecoveryInv, NEW r \in Replicas, NEW p, ReceiveRecoveryResponse(r, p)
    PROVE  RecoveryInv'
<1>1. /\ msgs' \subseteq msgs /\ UNCHANGED recoveryNonce
      /\ \A q \in Replicas : \A x \in recoveryResponseQuorum'[q] :
             \/ x \in recoveryResponseQuorum[q]
             \/ /\ q = r /\ x \in Received(r, "RecoveryResponse")
                /\ x.nonce = recoveryNonce[r]
      /\ \/ UNCHANGED rep
         \/ rep' = [rep EXCEPT ![r] = Abort(rep[r])]
         \/ \E x \in RecoveryMessages :
                /\ x.type = "RecoveryResponse"
                /\ rep[r].status = "RECOVERING"
                /\ x.from = GetLeaderIndex(x.view) /\ x.from # r
                /\ \/ x \in recoveryResponseQuorum[r]
                   \/ x \in Received(r, "RecoveryResponse") /\ x.nonce = recoveryNonce[r]
                /\ rep' = [rep EXCEPT ![r] =
                              CommitUpTo(Recovered(r, x), x.lastCommitted)]
      /\ RecoveryTyped'
  BY ResponseStep DEF RecoveryInv
<1>7. PICK none : none = {}
  OBVIOUS
<1>2. /\ \A m \in msgs' : m \in msgs \/ m \in none
      /\ \A m \in none : Says(r, rep[r], m)
  BY <1>1, <1>7
<1>3. CASE UNCHANGED rep
  BY <1>1, <1>2, <1>3, StandingStill
<1>4. ASSUME NEW t \in ReplicaStates, rep' = [rep EXCEPT ![r] = t], GoesOn(r, t)
      PROVE  RecoveryInv'
  <2>1. \A m \in none : Says(r, t, m)
    BY <1>7
  <2>. QED BY <1>1, <1>2, <1>4, <2>1, GoingOn
<1>5. CASE rep' = [rep EXCEPT ![r] = Abort(rep[r])]
  <2>1. PICK t : t = Abort(rep[r])
    OBVIOUS
  <2>2. rep[r] \in ReplicaStates
    BY TypedReplica DEF RecoveryInv, RecoveryTyped
  <2>3. Like(rep[r], t) /\ t \in ReplicaStates /\ rep' = [rep EXCEPT ![r] = t]
    BY <1>5, <2>1, <2>2, LikeAbort DEF Like
  <2>4. GoesOn(r, t)
    BY <2>3, GoesOnLike
  <2>. QED BY <1>4, <2>3, <2>4
<1>6. CASE \E x \in RecoveryMessages :
                /\ x.type = "RecoveryResponse"
                /\ rep[r].status = "RECOVERING"
                /\ x.from = GetLeaderIndex(x.view) /\ x.from # r
                /\ \/ x \in recoveryResponseQuorum[r]
                   \/ x \in Received(r, "RecoveryResponse") /\ x.nonce = recoveryNonce[r]
                /\ rep' = [rep EXCEPT ![r] =
                              CommitUpTo(Recovered(r, x), x.lastCommitted)]
  <2>1. PICK x \in RecoveryMessages :
                /\ x.type = "RecoveryResponse"
                /\ rep[r].status = "RECOVERING"
                /\ x.from = GetLeaderIndex(x.view) /\ x.from # r
                /\ \/ x \in recoveryResponseQuorum[r]
                   \/ x \in Received(r, "RecoveryResponse") /\ x.nonce = recoveryNonce[r]
                /\ rep' = [rep EXCEPT ![r] =
                              CommitUpTo(Recovered(r, x), x.lastCommitted)]
    BY <1>6
  <2>2. PICK t : t = CommitUpTo(Recovered(r, x), x.lastCommitted)
    OBVIOUS
  <2>3. rep' = [rep EXCEPT ![r] = t]
    BY <2>1, <2>2
  <2>4. t \in ReplicaStates /\ GoesOn(r, t)
    BY <2>1, <2>2, <2>3, RecoveredGoesOn
  <2>. QED BY <1>4, <2>3, <2>4
<1>. QED BY <1>1, <1>3, <1>5, <1>6

\* A crash.
LEMMA CrashStepCalm ==
    ASSUME RecoveryInv, NEW r \in Replicas, Crash(r)
    PROVE  RecoveryInv'
<1>1. PICK n : n = recoveryNonce[r] + 1
  OBVIOUS
<1>2. PICK z : z = RecoveringReplica(r)
  OBVIOUS
<1>3. /\ rep' = [rep EXCEPT ![r] = z]
      /\ \A m \in msgs' : m \in msgs \/ m \in RequestRecovery(r, n)
      /\ recoveryNonce' = [recoveryNonce EXCEPT ![r] = n]
      /\ recoveryResponseQuorum' = [recoveryResponseQuorum EXCEPT ![r] = {}]
      /\ RecoveryTyped'
  BY <1>1, <1>2, CrashStep DEF RecoveryInv
<1>4. /\ z \in ReplicaStates /\ z.view = 0 /\ z.status = "RECOVERING"
      /\ z.log = <<>> /\ z.lastOp = 0 /\ z.lastCommitted = 0 /\ z.prepareOKs = {}
      /\ z.lastPrepare = NoBatch /\ z.pending = <<>> /\ z.work = <<>>
  BY <1>2, RecoveringReplicaFacts
<1>5. /\ Leader \in Replicas /\ rep \in [Replicas -> ReplicaStates]
      /\ recoveryNonce \in [Replicas -> Nat]
      /\ recoveryResponseQuorum \in [Replicas -> SUBSET RecoveryMessages]
  BY LeaderIsReplica DEF RecoveryInv, RecoveryTyped, Typed
<1>6. /\ rep'[r] = z /\ recoveryNonce'[r] = n /\ recoveryResponseQuorum'[r] = {}
      /\ \A p \in Replicas : p # r => /\ rep'[p] = rep[p]
                                      /\ recoveryNonce'[p] = recoveryNonce[p]
                                      /\ recoveryResponseQuorum'[p] = recoveryResponseQuorum[p]
      /\ n \in Nat /\ recoveryNonce[r] < n
      /\ \A p \in Replicas : /\ recoveryNonce[p] \in Nat /\ recoveryNonce'[p] \in Nat
                             /\ recoveryNonce[p] <= recoveryNonce'[p]
  BY <1>1, <1>3, <1>5
<1>7. \A b : HasBatch(z, b) => b.view = 0 /\ b.opnum = 0
  BY <1>4 DEF HasBatch, NoBatch
<1>8. CalmState(z) /\ Len(z.log) = 0
  BY <1>4, <1>7 DEF CalmState
<1>9. \A m \in RequestRecovery(r, n) :
          m \in RecoveryMessages /\ m.type = "Recovery" /\ m.from = r /\ m.nonce = n
  BY <1>6, RequestRecoveryFacts
<1>10. \A p \in Replicas : CalmState(rep'[p])
  BY <1>6, <1>8 DEF RecoveryInv
<1>11. \A m \in msgs' : CalmMessage(m)
  BY <1>3, <1>9 DEF RecoveryInv, CalmMessage
<1>12. \A m \in msgs' : /\ m.type = "Recovery" => m.nonce <= recoveryNonce'[m.from]
                        /\ m.type = "RecoveryResponse" => m.nonce <= recoveryNonce'[m.to]
  <2>1. ASSUME NEW m \in msgs, m.type = "Recovery"
        PROVE  m.nonce <= recoveryNonce'[m.from]
    <3>1. m \in AllMessages
      BY DEF RecoveryInv, RecoveryTyped, Typed
    <3>2. m.from \in Replicas /\ m.nonce \in Nat
      BY <2>1, <3>1 DEF AllMessages, Messages, ViewChangeMessages, RecoveryMessages
    <3>3. m.nonce <= recoveryNonce[m.from]
      BY <2>1 DEF RecoveryInv, NonceKnown
    <3>. QED BY <1>6, <3>2, <3>3
  <2>2. ASSUME NEW m \in msgs, m.type = "RecoveryResponse"
        PROVE  m.nonce <= recoveryNonce'[m.to]
    <3>1. m \in AllMessages
      BY DEF RecoveryInv, RecoveryTyped, Typed
    <3>2. m.to \in Replicas /\ m.nonce \in Nat
      BY <2>2, <3>1 DEF AllMessages, Messages, ViewChangeMessages, RecoveryMessages
    <3>3. m.nonce <= recoveryNonce[m.to]
      BY <2>2 DEF RecoveryInv, NonceKnown
    <3>. QED BY <1>6, <3>2, <3>3
  <2>3. ASSUME NEW m \in RequestRecovery(r, n)
        PROVE  m.type = "Recovery" /\ m.nonce <= recoveryNonce'[m.from]
    BY <1>6, <1>9
  <2>4. "Recovery" # "RecoveryResponse"
    OBVIOUS
  <2>. QED BY <1>3, <2>1, <2>2, <2>3, <2>4
<1>13. \A q \in Replicas : \A x \in recoveryResponseQuorum'[q] :
           CalmMessage(x) /\ x.to = q /\ x.nonce = recoveryNonce'[q]
  BY <1>6 DEF RecoveryInv
<1>14. OrderBacked(rep'[Leader])
  <2>1. CASE r = Leader
    BY <1>4, <1>6, <2>1 DEF OrderBacked
  <2>2. CASE r # Leader
    BY <1>5, <1>6, <2>2 DEF RecoveryInv
  <2>. QED BY <2>1, <2>2
<1>15. \A p \in Replicas, j \in Nat : Acked(p, j)' => Acked(p, j)
  <2>. SUFFICES ASSUME NEW p \in Replicas, NEW j \in Nat, Acked(p, j)'
                PROVE  Acked(p, j)
    OBVIOUS
  <2>1. \/ \E m \in msgs' : m.type = "PrepareOK" /\ m.from = p /\ m.opnum = j
        \/ <<j, p>> \in rep'[Leader].prepareOKs
    BY DEF Acked, Leader
  <2>2. (\E m \in msgs' : m.type = "PrepareOK" /\ m.from = p /\ m.opnum = j)
            => \E m \in msgs : m.type = "PrepareOK" /\ m.from = p /\ m.opnum = j
    BY <1>3, <1>9
  <2>3. <<j, p>> \in rep'[Leader].prepareOKs => <<j, p>> \in rep[Leader].prepareOKs
    BY <1>4, <1>5, <1>6
  <2>. QED BY <2>1, <2>2, <2>3 DEF Acked
<1>16. ASSUME rep'[Leader].status = "NORMAL"
       PROVE  /\ rep'[Leader].lastOp = Len(rep'[Leader].log)
              /\ \A p \in Replicas : Within(rep'[p], Len(rep'[Leader].log))
              /\ \A m \in msgs' : MessageWithin(m, Len(rep'[Leader].log))
              /\ \A q \in Replicas : \A x \in recoveryResponseQuorum'[q] :
                     Len(x.entries) <= Len(rep'[Leader].log)
              /\ \A p \in Replicas, j \in Nat : Acked(p, j)' => j <= Len(rep'[Leader].log)
  <2>1. r # Leader /\ rep'[Leader] = rep[Leader]
    BY <1>4, <1>5, <1>6, <1>16
  <2>2. PICK k : k = Len(rep[Leader].log)
    OBVIOUS
  <2>3. k \in Nat
    BY <1>5, <2>2, StateFields
  <2>4. /\ rep[Leader].lastOp = k
        /\ \A q \in Replicas : Within(rep[q], k)
        /\ \A m \in msgs : MessageWithin(m, k)
        /\ \A q \in Replicas : \A x \in recoveryResponseQuorum[q] : Len(x.entries) <= k
        /\ \A p \in Replicas, j \in Nat : Acked(p, j) => j <= k
    BY <1>16, <2>1, <2>2 DEF RecoveryInv, LeaderFirst
  <2>5. Within(z, k)
    BY <1>7, <1>8, <2>3 DEF Within
  <2>6. \A m \in msgs' : MessageWithin(m, k)
    BY <1>3, <1>9, <2>4 DEF MessageWithin
  <2>7. \A p \in Replicas : Within(rep'[p], k)
    BY <1>6, <2>4, <2>5
  <2>. QED BY <1>6, <1>15, <2>1, <2>2, <2>4, <2>6, <2>7
<1>17. \A p \in Replicas, j \in Nat :
           rep'[p].status = "NORMAL" /\ Acked(p, j)' => j <= Len(rep'[p].log)
  BY <1>4, <1>6, <1>15 DEF RecoveryInv, AcksReached
<1>18. \A q \in Replicas : \A x \in RecoveryMessages :
           Answers(q, x)' /\ x.from = Leader /\ rep'[q].status # "NORMAL" =>
               \A j \in Nat : Acked(q, j)' => j <= Len(x.entries) \/ j <= Len(rep'[q].log)
  <2>. SUFFICES ASSUME NEW q \in Replicas, NEW x \in RecoveryMessages, NEW j \in Nat,
                       Answers(q, x)', x.from = Leader, rep'[q].status # "NORMAL",
                       Acked(q, j)'
                PROVE  j <= Len(x.entries) \/ j <= Len(rep'[q].log)
    OBVIOUS
  <2>1. /\ \/ x \in recoveryResponseQuorum'[q]
           \/ x \in msgs' /\ x.type = "RecoveryResponse" /\ x.to = q
        /\ x.nonce = recoveryNonce'[q]
    BY DEF Answers
  <2>2. q # r
    <3>. SUFFICES ASSUME q = r
                  PROVE  FALSE
      OBVIOUS
    <3>1. x \in msgs /\ x.type = "RecoveryResponse" /\ x.to = r /\ x.nonce = n
      BY <1>3, <1>6, <1>9, <2>1
    <3>2. n <= recoveryNonce[r]
      BY <3>1 DEF RecoveryInv, NonceKnown
    <3>. QED BY <1>6, <3>2
  <2>3. Answers(q, x)
    BY <1>3, <1>6, <1>9, <2>1, <2>2 DEF Answers
  <2>4. Acked(q, j) /\ rep'[q] = rep[q]
    BY <1>6, <1>15, <2>2
  <2>. QED BY <2>3, <2>4 DEF RecoveryInv, AcksAnswered
<1>19. (\A p \in Replicas : CalmState(rep[p]))'
  BY <1>10
<1>20. (\A m \in msgs : CalmMessage(m) /\ NonceKnown(m))'
  BY <1>11, <1>12 DEF NonceKnown, CalmMessage
<1>21. (\A q \in Replicas : \A x \in recoveryResponseQuorum[q] :
            CalmMessage(x) /\ x.to = q /\ x.nonce = recoveryNonce[q])'
  BY <1>13
<1>22. LeaderFirst'
  BY <1>16 DEF LeaderFirst
<1>23. AcksReached' /\ AcksAnswered'
  BY <1>17, <1>18 DEF AcksReached, AcksAnswered
<1>. QED BY <1>3, <1>14, <1>19, <1>20, <1>21, <1>22, <1>23 DEF RecoveryInv

-------------------------------------------------------------------------------
(* Recovery while view 0 lasts: the theorems                               *)

LEMMA RecoveryStarts == RecoveryInit => RecoveryInv
<1>. SUFFICES ASSUME RecoveryInit
              PROVE  RecoveryInv
  OBVIOUS
<1>1. Typed
  BY InitTyped DEF RecoveryInit
<1>2. /\ recoveryNonce = [r \in Replicas |-> 0]
      /\ recoveryResponseQuorum = [r \in Replicas |-> {}]
      /\ rep = [r \in Replicas |-> NewReplica(r)] /\ msgs = {}
  BY DEF RecoveryInit, ViewChangeInit, Init
<1>3. RecoveryTyped
  BY <1>1, <1>2 DEF RecoveryTyped
<1>4. \A r \in Replicas :
          /\ rep[r].view = 0 /\ rep[r].status = "NORMAL" /\ rep[r].log = <<>>
          /\ rep[r].lastOp = 0 /\ rep[r].lastCommitted = 0
          /\ rep[r].prepareOKs = {}
          /\ rep[r].lastPrepare = NoBatch /\ rep[r].pending = <<>> /\ rep[r].work = <<>>
  BY <1>2 DEF NewReplica
<1>5. \A r \in Replicas : \A b : HasBatch(rep[r], b) => b.view = 0 /\ b.opnum = 0
  BY <1>4 DEF HasBatch, NoBatch
<1>6. \A r \in Replicas : CalmState(rep[r]) /\ Within(rep[r], 0) /\ Len(rep[r].log) = 0
  BY <1>4, <1>5 DEF CalmState, Within
<1>7. Leader \in Replicas
  BY LeaderIsReplica
<1>8. OrderBacked(rep[Leader])
  BY <1>4, <1>7 DEF OrderBacked
<1>9. \A p \in Replicas, j \in Nat : ~Acked(p, j)
  BY <1>2, <1>4, <1>7 DEF Acked
<1>10. LeaderFirst
  BY <1>2, <1>4, <1>6, <1>7, <1>9 DEF LeaderFirst
<1>11. AcksReached /\ AcksAnswered
  BY <1>9 DEF AcksReached, AcksAnswered
<1>. QED BY <1>2, <1>3, <1>6, <1>8, <1>10, <1>11 DEF RecoveryInv

LEMMA RecoveryKept ==
    ASSUME MaxView = 0, RecoveryInv, [RecoveryNext]_everything
    PROVE  RecoveryInv'
<1>1. CASE UNCHANGED everything
  <2>1. UNCHANGED <<rep, msgs, replies, issued, ballots, dur, told, acks,
                    recoveryNonce, recoveryResponseQuorum>>
    BY <1>1 DEF everything, allVars, vars, viewChangeVars, recoveryVars
  <2>2. RecoveryTyped'
    BY <2>1 DEF RecoveryInv, RecoveryTyped, Typed, Located
  <2>3. Leader \in Replicas
    BY LeaderIsReplica
  <2>6. PICK none : none = {}
    OBVIOUS
  <2>4. /\ \A m \in msgs' : m \in msgs \/ m \in none
        /\ \A m \in none : Says(Leader, rep[Leader], m)
    BY <2>1, <2>6
  <2>5. \A q \in Replicas : \A x \in recoveryResponseQuorum'[q] :
            \/ x \in recoveryResponseQuorum[q]
            \/ /\ q = Leader /\ x \in Received(Leader, "RecoveryResponse")
               /\ x.nonce = recoveryNonce[Leader]
    BY <2>1
  <2>. QED BY <2>1, <2>2, <2>3, <2>4, <2>5, StandingStill
<1>2. ASSUME NEW r \in Up, RecoveryStep(r)
      PROVE  RecoveryInv'
  <2>1. r \in Replicas
    BY NetworkAssumption
  <2>. QED BY <1>2, <2>1, ViewChangeStepCalm, CrashStepCalm, TalkStepCalm, ResponseStepCalm
           DEF RecoveryStep
<1>. QED BY <1>1, <1>2 DEF RecoveryNext

\* Crashes, recoveries and view changes, in any order, keep the types, those of the
\* responses that a recovering replica collects included.
THEOREM RecoveryTypeCorrect == RecoverySpec => []RecoveryTyped
<1>1. RecoveryInit => RecoveryTyped
  BY InitTyped DEF RecoveryInit, RecoveryTyped
<1>2. RecoveryTyped /\ [RecoveryNext]_everything => RecoveryTyped'
  <2>. SUFFICES ASSUME RecoveryTyped, [RecoveryNext]_everything
                PROVE  RecoveryTyped'
    OBVIOUS
  <2>1. CASE UNCHANGED everything
    <3>1. UNCHANGED <<rep, msgs, replies, issued, ballots, dur, told, acks,
                      recoveryNonce, recoveryResponseQuorum>>
      BY <2>1 DEF everything, allVars, vars, viewChangeVars, recoveryVars
    <3>. QED BY <3>1 DEF RecoveryTyped, Typed, Located
  <2>2. ASSUME NEW r \in Up, RecoveryStep(r)
        PROVE  RecoveryTyped'
    <3>1. r \in Replicas /\ Typed
      BY NetworkAssumption DEF RecoveryTyped
    <3>2. CASE /\ ViewChangeStep(r)
               /\ KeepResponses(r, recoveryResponseQuorum[r])
               /\ UNCHANGED recoveryNonce
      <4>1. Typed'
        <5>1. OthersTyped /\ (DoesHandle(r) \/ DoesChange(r) \/ UNCHANGED vars)
          BY <3>1, <3>2, StepCases
        <5>. QED BY <3>1, <5>1, StepTyped
      <4>2. PICK votes : votes = recoveryResponseQuorum[r]
        OBVIOUS
      <4>3. /\ votes \subseteq RecoveryMessages
            /\ \A x \in votes : x.type = "RecoveryResponse"
            /\ KeepResponses(r, votes)
        BY <3>1, <3>2, <4>2 DEF RecoveryTyped
      <4>4. /\ recoveryResponseQuorum' \in [Replicas -> SUBSET RecoveryMessages]
            /\ \A p \in Replicas : \A x \in recoveryResponseQuorum'[p] :
                   x.type = "RecoveryResponse"
        BY <3>1, <4>3, KeepResponsesType
      <4>. QED BY <3>2, <4>1, <4>4 DEF RecoveryTyped
    <3>. QED BY <2>2, <3>1, <3>2, CrashStep, TalkStep, ResponseStep DEF RecoveryStep
  <2>. QED BY <2>1, <2>2 DEF RecoveryNext
<1>. QED BY <1>1, <1>2, PTL DEF RecoverySpec

\* However often replicas crash and are started again, a replica that takes part has
\* in its log whatever it has ever acknowledged, in an earlier life, too: the leader
\* counts it (HandlePrepareOK), and HandleRecoveryResponse gives it back.  View 0 is
\* taken to last.
THEOREM AcknowledgedKeptHolds ==
    ASSUME MaxView = 0
    PROVE  RecoverySpec => []AcknowledgedKept
<1>1. RecoveryInv => AcknowledgedKept
  <2>. SUFFICES ASSUME RecoveryInv, NEW m \in OfType(msgs, "PrepareOK"),
                       rep[m.from].status = "NORMAL"
                PROVE  m.opnum <= Len(rep[m.from].log)
    BY DEF AcknowledgedKept
  <2>1. m \in msgs /\ m.type = "PrepareOK" /\ m \in AllMessages
    BY DEF OfType, RecoveryInv, RecoveryTyped, Typed
  <2>2. m.from \in Replicas /\ m.opnum \in Nat
    BY <2>1 DEF AllMessages, Messages, ViewChangeMessages, RecoveryMessages
  <2>3. Acked(m.from, m.opnum)
    BY <2>1 DEF Acked
  <2>. QED BY <2>2, <2>3 DEF RecoveryInv, AcksReached
<1>. QED BY <1>1, RecoveryStarts, RecoveryKept, PTL DEF RecoverySpec

\* What the leader has executed, and a client may have been told of, is held by f+1
\* replicas, those that are recovering counted, however often they crash.  View 0 is
\* taken to last.
THEOREM ExecutedOnQuorumHolds ==
    ASSUME MaxView = 0
    PROVE  RecoverySpec => []ExecutedOnQuorum
<1>1. RecoveryInv => ExecutedOnQuorum
  <2>. SUFFICES ASSUME RecoveryInv, NEW k \in 1 .. rep[Leader].lastCommitted
                PROVE  Cardinality({p \in Replicas : \/ p \in Recovering
                                                     \/ k <= Len(rep[p].log)}) >= QuorumSize
    BY DEF ExecutedOnQuorum, Leader
  <2>1. PICK s : s = rep[Leader]
    OBVIOUS
  <2>2. Leader \in Replicas /\ s \in ReplicaStates /\ CalmState(s) /\ OrderBacked(s)
    BY <2>1, LeaderIsReplica, TypedReplica DEF RecoveryInv, RecoveryTyped
  <2>3. s.lastCommitted \in Nat /\ Len(s.log) \in Nat /\ k \in Nat /\ k <= s.lastCommitted
        /\ s.lastCommitted > 0
    BY <2>1, <2>2, StateFields
  <2>4. PICK A : A = Backers(s)
    OBVIOUS
  <2>5. PICK T : T = {p \in Replicas : p \in Recovering \/ k <= Len(rep[p].log)}
    OBVIOUS
  <2>6. A \in SUBSET Replicas /\ Leader \notin A /\ T \in SUBSET Replicas
    BY <2>4, <2>5 DEF Backers
  <2>7. Cardinality(A) >= QuorumSize - 1
    <3>1. F \in Nat /\ QuorumSize - 1 = F
      BY ConfigAssumption DEF QuorumSize
    <3>2. Cardinality(A) >= F
      BY <2>2, <2>3, <2>4 DEF OrderBacked
    <3>. QED BY <3>1, <3>2
  <2>8. A \subseteq T
    <3>. SUFFICES ASSUME NEW p \in A
                  PROVE  p \in T
      OBVIOUS
    <3>1. PICK j \in Nat : p \in Replicas /\ j >= s.lastCommitted /\ <<j, p>> \in s.prepareOKs
      BY <2>4 DEF Backers
    <3>2. Acked(p, j)
      BY <2>1, <3>1 DEF Acked
    <3>3. Len(rep[p].log) \in Nat
      BY <3>1, StateFields, TypedReplica DEF RecoveryInv, RecoveryTyped
    <3>4. rep[p].status \in {"NORMAL", "RECOVERING"}
      BY <3>1 DEF RecoveryInv, CalmState
    <3>5. CASE rep[p].status = "NORMAL"
      <4>1. j <= Len(rep[p].log)
        BY <3>1, <3>2, <3>5 DEF RecoveryInv, AcksReached
      <4>2. k <= Len(rep[p].log)
        BY <2>3, <3>1, <3>3, <4>1
      <4>. QED BY <2>5, <3>1, <4>2
    <3>6. CASE rep[p].status = "RECOVERING"
      BY <2>5, <3>1, <3>6 DEF Recovering
    <3>. QED BY <3>4, <3>5, <3>6
  <2>9. Leader \in T
    <3>1. k <= Len(s.log)
      BY <2>2, <2>3 DEF CalmState
    <3>. QED BY <2>1, <2>2, <2>5, <3>1
  <2>. QED BY <2>5, <2>6, <2>7, <2>8, <2>9, AcksAndLeader
<1>. QED BY <1>1, RecoveryStarts, RecoveryKept, PTL DEF RecoverySpec
=============================================================================
