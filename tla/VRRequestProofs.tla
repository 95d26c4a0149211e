--------------------------- MODULE VRRequestProofs ---------------------------
(***************************************************************************)
(* What becomes of the requests of clients in the normal case of VRReplica,*)
(* for every configuration, trace, bound and network behaviour.            *)
(*                                                                         *)
(* First the order: the replicas implement ExecutedLog, and so order a     *)
(* request at most once and each client's requests in the order it sent    *)
(* them, whatever is resent.                                               *)
(*                                                                         *)
(* Only the leader orders requests, and only a request newer than what its *)
(* client table has of the client.  So the inductive invariant is about    *)
(* the leader: its client table is not behind its log.  The other logs are *)
(* prefixes of the leader's (VRReplicaProofs), and the one handler that    *)
(* could give the leader entries it has not ordered, HandleStateTransfer,  *)
(* never runs there (QuorumInv of VRReplicaProofs).                        *)
(*                                                                         *)
(* For the refinement, a step of a follower leaves the leader's log alone: *)
(* it stutters or executes, never beyond the leader (QuorumInv).  A        *)
(* step of the leader either keeps its log, and stutters or executes, or   *)
(* orders one request newer than those of its client, and executes nothing *)
(* in the same step.                                                       *)
(*                                                                         *)
(* Then the clients' sessions: the client table says what the log says,    *)
(* replies tell what was executed, no update is overtaken, no batch is     *)
(* stranded, and no ASSERT fails.  They hold together: a table that is     *)
(* wrong fails an ASSERT, a reply is stored in the table before it is sent *)
(* again, a timer is left running by a handler that does not fail.         *)
(* SessionInv says what a replica that has not failed looks like and which *)
(* messages cannot make it fail; LineInv where in log and queue the        *)
(* requests are that the clients have sent.                                *)
(***************************************************************************)
EXTENDS VRRefinement, VRReplicaProofs

LastId(s, c) == s.clientTable[c].lastReqId

\* The client table of s has, of each client, its newest request in the log, and
\* the requests of a client are in the log in their order.
OrderedState(s) ==
    /\ \A k \in 1 .. Len(s.log) : s.log[k].req.id <= LastId(s, s.log[k].req.client)
    /\ \A j, k \in 1 .. Len(s.log) :
           j < k /\ s.log[j].req.client = s.log[k].req.client
               => s.log[j].req.id < s.log[k].req.id

OrderInv == OrderedState(rep[Leader])

\* The client table goes forward.
TableGrows(s, t) == \A c \in Clients : LastId(s, c) <= LastId(t, c)

\* Replica s becomes t and orders nothing.
Keeps(s, t) == t.log = s.log /\ TableGrows(s, t)

\* Replica s becomes t and orders request q, newer than its table said; it
\* executes nothing in the same step.
Orders(s, t, q) ==
    /\ LastId(s, q.client) < q.id /\ q.id <= LastId(t, q.client)
    /\ t.log = Append(s.log, [view |-> s.view, req |-> q])
    /\ TableGrows(s, t)
    /\ t.lastCommitted = s.lastCommitted

\* What a step makes of the leader.
LeaderStep ==
    \/ Keeps(rep[Leader], rep'[Leader])
    \/ \E q \in Requests : Orders(rep[Leader], rep'[Leader], q)

-------------------------------------------------------------------------------
(* What the shared functions make of the log and the client table          *)

\* The entries of a log and the ids of a client table, as numbers.
LEMMA OrderTypes ==
    ASSUME NEW s \in ReplicaStates
    PROVE  /\ \A c \in Clients : LastId(s, c) \in Nat
           /\ \A k \in 1 .. Len(s.log) : /\ s.log[k] \in Entries
                                         /\ s.log[k].req.client \in Clients
                                         /\ s.log[k].req.id \in Nat
<1>1. s.log \in Seq(Entries) /\ s.clientTable \in Tables
  BY StateFields
<1>2. \A k \in 1 .. Len(s.log) : s.log[k] \in Entries
  BY <1>1, ElementOfSeq
<1>3. \A k \in 1 .. Len(s.log) : s.log[k].req \in Requests
  BY <1>2 DEF Entries
<1>. QED BY <1>1, <1>2, <1>3, RequestFields DEF LastId, Tables, TableEntries

\* The same log, and a table that has not gone back.
LEMMA OrderKept ==
    ASSUME NEW s \in ReplicaStates, NEW t \in ReplicaStates, OrderedState(s),
           t.log = s.log, TableGrows(s, t)
    PROVE  OrderedState(t)
<1>1. ASSUME NEW k \in 1 .. Len(t.log)
      PROVE  t.log[k].req.id <= LastId(t, t.log[k].req.client)
  <2>1. s.log[k].req.id <= LastId(s, s.log[k].req.client)
    BY DEF OrderedState
  <2>. QED BY <2>1, OrderTypes DEF TableGrows
<1>. QED BY <1>1 DEF OrderedState

\* A request newer than the table says is appended, and the table told of it.
LEMMA OrderAppended ==
    ASSUME NEW s \in ReplicaStates, NEW t \in ReplicaStates, OrderedState(s),
           NEW q \in Requests, LastId(s, q.client) < q.id, q.id <= LastId(t, q.client),
           NEW e \in Entries, e.req = q, t.log = Append(s.log, e), TableGrows(s, t)
    PROVE  OrderedState(t)
<1>. DEFINE n == Len(s.log)
<1>1. /\ s.log \in Seq(Entries) /\ n \in Nat /\ Len(t.log) = n + 1 /\ t.log[n + 1] = e
      /\ \A k \in 1 .. n : t.log[k] = s.log[k]
  BY StateFields
<1>2. q.client \in Clients /\ q.id \in Nat
  BY RequestFields
<1>3. \A k \in 1 .. n : s.log[k].req.client = q.client => s.log[k].req.id < q.id
  BY <1>2, OrderTypes DEF OrderedState
<1>4. ASSUME NEW k \in 1 .. Len(t.log)
      PROVE  t.log[k].req.id <= LastId(t, t.log[k].req.client)
  <2>1. CASE k = n + 1
    BY <1>1, <2>1
  <2>2. CASE k # n + 1
    <3>1. k \in 1 .. n
      BY <1>1, <2>2
    <3>2. s.log[k].req.id <= LastId(s, s.log[k].req.client)
      BY <3>1 DEF OrderedState
    <3>. QED BY <1>1, <3>1, <3>2, OrderTypes DEF TableGrows
  <2>. QED BY <2>1, <2>2
<1>5. ASSUME NEW j \in 1 .. Len(t.log), NEW k \in 1 .. Len(t.log), j < k,
             t.log[j].req.client = t.log[k].req.client
      PROVE  t.log[j].req.id < t.log[k].req.id
  <2>1. j \in 1 .. n
    BY <1>1, <1>5
  <2>2. CASE k = n + 1
    BY <1>1, <1>3, <1>5, <2>1, <2>2
  <2>3. CASE k # n + 1
    <3>1. k \in 1 .. n
      BY <1>1, <2>3
    <3>. QED BY <1>1, <1>5, <2>1, <3>1 DEF OrderedState
  <2>. QED BY <2>2, <2>3
<1>. QED BY <1>4, <1>5 DEF OrderedState

\* Most functions touch neither log nor table.
SameOrder(s, t) == t.log = s.log /\ t.clientTable = s.clientTable

LEMMA OrderSame ==
    ASSUME NEW s \in ReplicaStates, NEW t, SameOrder(s, t)
    PROVE  Keeps(s, t)
BY OrderTypes DEF Keeps, TableGrows, LastId, SameOrder

\* Closing a batch, starting a timer and dying leave log and table alone.
LEMMA SmallOrder ==
    ASSUME NEW s \in ReplicaStates, NEW r
    PROVE  /\ SameOrder(s, Abort(s))
           /\ SameOrder(s, CloseBatch(s, r))
           /\ SameOrder(s, KeepInBatch(s))
<1>1. SameOrder(s, Abort(s))
  BY DEF SameOrder, Abort, ReplicaStates
<1>2. SameOrder(s, KeepInBatch(s))
  BY DEF SameOrder, KeepInBatch, ReplicaStates
<1>3. SameOrder(s, CloseBatch(s, r))
  BY <1>1 DEF SameOrder, CloseBatch, ReplicaStates
<1>. QED BY <1>1, <1>2, <1>3

\* Storing replies moves no client back.
LEMMA StoredGrows ==
    ASSUME NEW s \in ReplicaStates, NEW n \in Nat, n <= Len(s.log),
           NEW ops, ops \subseteq 1 .. n, NEW c \in Clients
    PROVE  LastId(s, c) <= StoreReplies(s, ops)[c].lastReqId
<1>. DEFINE newer == {k \in ops : /\ s.log[k].req.client = c
                                  /\ s.clientTable[c].lastReqId <= s.log[k].req.id}
            ids   == {s.log[k].req.id : k \in newer}
<1>1. /\ s.log \in Seq(Entries) /\ Len(s.log) \in Nat /\ Len(Trace[c]) \in Nat
      /\ LastId(s, c) \in Nat
  BY StateFields, TraceAssumption, OrderTypes
<1>2. \A k \in newer : s.log[k].req \in Requests
  <2>. TAKE k \in newer
  <2>1. k \in 1 .. n
    OBVIOUS
  <2>2. k \in 1 .. Len(s.log)
    BY <1>1, <2>1
  <2>3. s.log[k] \in Entries
    BY <2>2, OrderTypes
  <2>. QED BY <2>3 DEF Entries
<1>3. CASE newer = {}
  <2>1. StoreReplies(s, ops)[c] = s.clientTable[c]
    BY <1>3 DEF StoreReplies
  <2>. QED BY <1>1, <2>1 DEF LastId
<1>4. CASE newer # {}
  <2>1. StoreReplies(s, ops)[c].lastReqId = Max(ids)
    BY <1>4 DEF StoreReplies
  <2>2. /\ ids \subseteq Nat /\ ids # {} /\ \A i \in ids : i <= Len(Trace[c])
        /\ \A i \in ids : LastId(s, c) <= i
    <3>1. \A k \in newer : /\ s.log[k].req.id \in Nat
                           /\ s.log[k].req.id <= Len(Trace[c])
                           /\ LastId(s, c) <= s.log[k].req.id
      BY <1>2, RequestFields DEF LastId
    <3>. HIDE DEF newer
    <3>. QED BY <1>4, <3>1
  <2>. HIDE DEF ids
  <2>3. Max(ids) \in ids
    BY <1>1, <2>2, MaxOfNat
  <2>. QED BY <2>1, <2>2, <2>3
<1>. QED BY <1>3, <1>4

\* Executing operations changes the replies of the table, and no log.
LEMMA CommitOrder ==
    ASSUME NEW s \in ReplicaStates, s.lastCommitted <= Len(s.log), NEW upto \in Nat
    PROVE  CommitUpTo(s, upto).log = s.log /\ TableGrows(s, CommitUpTo(s, upto))
<1>1. s.lastCommitted \in Nat /\ Len(s.log) \in Nat
  BY StateFields
<1>2. CASE upto <= s.lastCommitted
  BY <1>2, OrderTypes DEF CommitUpTo, TableGrows
<1>3. CASE ~ (upto <= s.lastCommitted)
  <2>. DEFINE n     == CommitPoint(s, upto)
              ops   == CommittedOps(s, upto)
              table == StoreReplies(s, ops)
              fail  == upto > Len(s.log)
  <2>1. n \in Nat /\ n <= Len(s.log) /\ ops \subseteq 1 .. n
    BY <1>1, MinOfTwo DEF CommitPoint, CommittedOps
  <2>2. \A c \in Clients : LastId(s, c) <= table[c].lastReqId
    <3>. HIDE DEF n, ops
    <3>. QED BY <2>1, StoredGrows
  <2>3. CommitUpTo(s, upto) = [s EXCEPT !.lastCommitted = n, !.clientTable = table,
                                        !.aborted = fail]
    BY <1>3 DEF CommitUpTo
  <2>. HIDE DEF n, ops, table, fail
  <2>4. CommitUpTo(s, upto).log = s.log /\ CommitUpTo(s, upto).clientTable = table
    BY <2>3 DEF ReplicaStates
  <2>. QED BY <2>2, <2>4 DEF TableGrows, LastId
<1>. QED BY <1>2, <1>3

\* A request that is newer than the table says is ordered.
LEMMA RequestOrder ==
    ASSUME NEW s \in ReplicaStates, NEW q \in Requests, LastId(s, q.client) < q.id
    PROVE  /\ AppendRequest(s, q) \in ReplicaStates
           /\ Keeps(s, AppendRequest(s, q)) \/ Orders(s, AppendRequest(s, q), q)
<1>. DEFINE t == AppendRequest(s, q)
            e == [view |-> s.view, req |-> q]
<1>1. t \in ReplicaStates
  BY AppendRequestType
<1>2. /\ s.clientTable \in Tables /\ e \in Entries /\ q.client \in Clients /\ q.id \in Nat
      /\ s.view \in Views
  BY StateFields, RequestFields DEF Entries, Views
<1>3. CASE s.lastOp # Len(s.log)
  <2>1. t = Abort(s)
    BY <1>3 DEF AppendRequest
  <2>. QED BY <1>1, <2>1, SmallOrder, OrderSame
<1>4. CASE s.lastOp = Len(s.log)
  <2>. DEFINE table == UpdateClientTable(s.clientTable, <<q>>)
              l     == Append(s.log, e)
              o     == s.lastOp + 1
              ts    == s.timers \cup {"nullCommit"}
  <2>1. t = [s EXCEPT !.log = l, !.lastOp = o, !.clientTable = table, !.timers = ts]
    BY <1>4 DEF AppendRequest
  <2>2. \A c \in Clients : IdsOf(c, <<q>>) = IF c = q.client THEN {q.id} ELSE {}
    <3>1. Len(<<q>>) = 1 /\ <<q>>[1] = q
      OBVIOUS
    <3>. QED BY <3>1 DEF IdsOf
  <2>3. Max({q.id}) = q.id
    BY <1>2, MaxOfTwo
  <2>4. [NewClient EXCEPT !.lastReqId = q.id].lastReqId = q.id
    BY DEF NewClient
  <2>5. \A c \in Clients : table[c] = IF c = q.client
                                      THEN [NewClient EXCEPT !.lastReqId = q.id]
                                      ELSE s.clientTable[c]
    BY <2>2, <2>3 DEF UpdateClientTable, LastId
  <2>. HIDE DEF table, l, o, ts, t
  <2>6. t.log = l /\ t.clientTable = table /\ t.lastCommitted = s.lastCommitted
    BY <2>1 DEF ReplicaStates
  <2>7. TableGrows(s, t) /\ q.id <= LastId(t, q.client)
    <3>1. LastId(t, q.client) = q.id
      BY <1>2, <2>4, <2>5, <2>6 DEF LastId
    <3>2. \A c \in Clients : c # q.client => LastId(t, c) = LastId(s, c)
      BY <2>5, <2>6 DEF LastId
    <3>3. \A c \in Clients : LastId(s, c) \in Nat
      BY OrderTypes
    <3>4. ASSUME NEW c \in Clients
          PROVE  LastId(s, c) <= LastId(t, c)
      <4>1. CASE c = q.client
        BY <1>2, <3>1, <3>3, <4>1
      <4>2. CASE c # q.client
        BY <3>2, <3>3, <4>2
      <4>. QED BY <4>1, <4>2
    <3>. QED BY <1>2, <3>1, <3>4 DEF TableGrows
  <2>. QED BY <1>1, <2>6, <2>7 DEF Orders, l, t
<1>. QED BY <1>3, <1>4

\* The outstanding batch is done, and the next one sent.
LEMMA FinishOrder ==
    ASSUME NEW s \in ReplicaStates, NEW r \in Replicas, NEW k \in Nat
    PROVE  SameOrder(s, FinishBatch(s, r, k))
<1>. DEFINE ts   == s.timers \cup {"nullCommit"}
            full == s.batchComplete \/ s.lastBatchEnd = k
            t    == [s EXCEPT !.timers = ts, !.batchComplete = full]
<1>1. ts \in SUBSET Timers /\ full \in BOOLEAN
  BY StateFields DEF Timers
<1>2. FinishBatch(s, r, k) = t \/ FinishBatch(s, r, k) = CloseBatch(t, r)
  <2>1. t = [s EXCEPT !.timers = s.timers \cup {"nullCommit"},
                      !.batchComplete = s.batchComplete \/ s.lastBatchEnd = k]
    OBVIOUS
  <2>. QED BY <2>1 DEF FinishBatch
<1>3. t = [s EXCEPT !.timers = ts, !.batchComplete = full]
  OBVIOUS
<1>. HIDE DEF ts, full, t
<1>4. t \in ReplicaStates /\ SameOrder(s, t)
  BY <1>1, <1>3 DEF SameOrder, ReplicaStates
<1>5. SameOrder(t, CloseBatch(t, r))
  BY <1>4, SmallOrder
<1>. QED BY <1>2, <1>4, <1>5 DEF SameOrder

\* A step of replica r changes no other replica.
LEMMA StepsBecome ==
    ASSUME NEW r, Step(r)
    PROVE  (\E t : Become(r, t)) \/ UNCHANGED rep
<1>1. ASSUME NEW s, NEW b, NEW gone, HandlePrepare(r, s, b, gone)
      PROVE  \E t : Become(r, t)
  BY <1>1 DEF HandlePrepare
<1>2. ReceivePrepare(r) \/ ReplayPending(r) => \E t : Become(r, t)
  BY <1>1 DEF ReceivePrepare, ReplayPending
<1>3. BgRepl(r) \/ (\E q \in Requests : AddToQueue(r, q) \/ HandleRequest(r, q))
          => \E t : Become(r, t)
  BY DEF BgRepl, AddToQueue, HandleRequest
<1>4. Timer(r) => (\E t : Become(r, t)) \/ UNCHANGED rep
  BY DEF Timer, CloseBatchTimeout, ResendPrepare, SendNullCommit, StateTransferTimeout
<1>5. ReceivePrepareOK(r) => \E t : Become(r, t)
  BY DEF ReceivePrepareOK, HandlePrepareOK
<1>6. ReceiveCommit(r) => \E t : Become(r, t)
  BY DEF ReceiveCommit, HandleCommit
<1>7. ReceiveRequestStateTransfer(r) => (\E t : Become(r, t)) \/ UNCHANGED rep
  BY DEF ReceiveRequestStateTransfer, HandleRequestStateTransfer
<1>8. ReceiveStateTransfer(r) => \E t : Become(r, t)
  BY DEF ReceiveStateTransfer, HandleStateTransfer
<1>. QED BY <1>2, <1>3, <1>4, <1>5, <1>6, <1>7, <1>8 DEF Step, Receive

-------------------------------------------------------------------------------
(* The actions of the leader                                               *)

\* The leader becomes a state that orders nothing.
LEMMA LeaderKept ==
    ASSUME Inv, NEW t, Keeps(rep[Leader], t), Become(Leader, t)
    PROVE  LeaderStep
<1>1. rep'[Leader] = t
  BY LeaderIsReplica DEF Inv, TypeOK, Become
<1>. QED BY <1>1 DEF LeaderStep

\* It orders requests that are newer than its table says.
LEMMA LeaderOrders ==
    ASSUME Inv,
           \/ \E q \in Requests : AddToQueue(Leader, q) \/ HandleRequest(Leader, q)
           \/ BgRepl(Leader)
    PROVE  LeaderStep
<1>. DEFINE r == Leader
<1>0. rep[r] \in ReplicaStates /\ r \in Replicas
  BY LeaderIsReplica, GoodNow
<1>1. ASSUME NEW s, s \in ReplicaStates, SameOrder(rep[r], s), SameCounts(rep[r], s),
             s.view = rep[r].view, NEW q \in Requests,
             \/ Become(r, s)
             \/ /\ LastId(s, q.client) < q.id
                /\ \/ Become(r, CloseBatch(AppendRequest(s, q), r))
                   \/ Become(r, KeepInBatch(AppendRequest(s, q)))
      PROVE  LeaderStep
  <2>. HIDE DEF r
  <2>1. CASE Become(r, s)
    BY <1>0, <1>1, <2>1, OrderSame, LeaderKept DEF r
  <2>2. ASSUME NEW u, LastId(s, q.client) < q.id, SameOrder(AppendRequest(s, q), u),
               SameCounts(AppendRequest(s, q), u), Become(r, u)
        PROVE  LeaderStep
    <3>. DEFINE t == AppendRequest(s, q)
    <3>1. t \in ReplicaStates /\ (Keeps(s, t) \/ Orders(s, t, q))
      BY <1>1, <2>2, RequestOrder
    <3>. HIDE DEF t
    <3>2. SameOrder(t, u) /\ SameCounts(t, u)
      BY <2>2 DEF t
    <3>3. Keeps(rep[r], u) \/ Orders(rep[r], u, q)
      BY <1>1, <3>1, <3>2
      DEF Keeps, Orders, SameOrder, SameCounts, TableGrows, LastId
    <3>4. rep'[r] = u
      BY <1>0, <2>2 DEF Inv, TypeOK, Become
    <3>. QED BY <1>1, <3>3, <3>4 DEF LeaderStep, r
  <2>3. CASE /\ LastId(s, q.client) < q.id
             /\ \/ Become(r, CloseBatch(AppendRequest(s, q), r))
                \/ Become(r, KeepInBatch(AppendRequest(s, q)))
    <3>. DEFINE t == AppendRequest(s, q)
    <3>1. t \in ReplicaStates
      BY <1>1, AppendRequestType
    <3>. HIDE DEF t
    <3>2. /\ SameOrder(t, CloseBatch(t, r)) /\ SameCounts(t, CloseBatch(t, r))
          /\ SameOrder(t, KeepInBatch(t)) /\ SameCounts(t, KeepInBatch(t))
      BY <3>1, SmallOrder, CountsKept
    <3>. QED BY <2>2, <2>3, <3>2 DEF t
  <2>. QED BY <1>1, <2>1, <2>3
<1>2. ASSUME NEW q \in Requests, AddToQueue(r, q)
      PROVE  LeaderStep
  <2>. DEFINE t == [rep[r] EXCEPT !.queue = Append(@, q)]
  <2>1. Become(r, t)
    BY <1>2 DEF AddToQueue
  <2>2. t.log = rep[r].log /\ t.clientTable = rep[r].clientTable
    BY <1>0 DEF ReplicaStates
  <2>. HIDE DEF t
  <2>3. Keeps(rep[r], t)
    BY <1>0, <2>2, OrderSame DEF SameOrder
  <2>. QED BY <2>1, <2>3, LeaderKept
<1>3. ASSUME NEW q \in Requests, HandleRequest(r, q)
      PROVE  LeaderStep
  <2>. DEFINE cs == rep[r].addresses \cup {q.client}
              ts == rep[r].timers \cup {"bgRepl"}
              s  == [rep[r] EXCEPT !.addresses = cs, !.timers = ts]
  <2>1. cs \in SUBSET Clients /\ ts \in SUBSET Timers
    BY <1>0, StateFields, RequestFields DEF Timers
  <2>2. \/ Become(r, s)
        \/ /\ LastId(s, q.client) < q.id
           /\ \/ Become(r, CloseBatch(AppendRequest(s, q), r))
              \/ Become(r, KeepInBatch(AppendRequest(s, q)))
    BY <1>3 DEF HandleRequest, LastId
  <2>3. s = [rep[r] EXCEPT !.addresses = cs, !.timers = ts]
    OBVIOUS
  <2>. HIDE DEF cs, ts, s
  <2>4. /\ s \in ReplicaStates /\ s.view = rep[r].view
        /\ SameOrder(rep[r], s) /\ SameCounts(rep[r], s)
    BY <1>0, <2>1, <2>3 DEF SameOrder, SameCounts, ReplicaStates
  <2>. QED BY <1>1, <2>2, <2>4
<1>4. CASE BgRepl(r)
  <2>. DEFINE qs == Tail(rep[r].queue)
              ts == rep[r].timers \cup {"bgRepl"}
              q  == Head(rep[r].queue)
              s  == [rep[r] EXCEPT !.queue = qs, !.timers = ts]
  <2>1. rep[r].queue \in Seq(Requests) /\ rep[r].queue # <<>>
    BY <1>0, <1>4, StateFields DEF BgRepl
  <2>2. q \in Requests /\ qs \in Seq(Requests) /\ ts \in SUBSET Timers
    BY <1>0, <2>1, HeadTailProperties, StateFields DEF Timers
  <2>3. \/ Become(r, s)
        \/ /\ q.id > LastId(s, q.client)
           /\ \/ Become(r, CloseBatch(AppendRequest(s, q), r))
              \/ Become(r, KeepInBatch(AppendRequest(s, q)))
    BY <1>4 DEF BgRepl, LastId
  <2>4. s = [rep[r] EXCEPT !.queue = qs, !.timers = ts]
    OBVIOUS
  <2>. HIDE DEF qs, ts, q, s
  <2>5. /\ s \in ReplicaStates /\ s.view = rep[r].view
        /\ SameOrder(rep[r], s) /\ SameCounts(rep[r], s)
    BY <1>0, <2>2, <2>4 DEF SameOrder, SameCounts, ReplicaStates
  <2>6. LastId(s, q.client) \in Nat /\ q.id \in Nat
    BY <2>2, <2>5, RequestFields, OrderTypes
  <2>. QED BY <1>1, <2>2, <2>3, <2>5, <2>6
<1>. QED BY <1>2, <1>3, <1>4

\* A PREPARE adds nothing to the leader's log: the replica dies, or drops it.
LEMMA LeaderPrepare ==
    ASSUME Inv, ReceivePrepare(Leader) \/ ReplayPending(Leader)
    PROVE  LeaderStep
<1>. DEFINE r == Leader
<1>1. rep[r] \in ReplicaStates /\ r \in Replicas
  BY LeaderIsReplica, GoodNow
<1>2. ASSUME NEW s, GoodState(r, s), SameOrder(rep[r], s), NEW b, BatchOf(b, LeaderLog),
             NEW gone, HandlePrepare(r, s, b, gone)
      PROVE  LeaderStep
  <2>1. s \in ReplicaStates /\ AmLeader(s, r) /\ s.view = 0 /\ s.status = "NORMAL" /\ b.view = 0
    BY <1>1, <1>2, GoodBounds DEF BatchOf
  <2>2. Become(r, s) \/ Become(r, Abort(s))
    BY <1>2, <2>1 DEF HandlePrepare
  <2>3. SameOrder(rep[r], Abort(s))
    BY <1>2, <2>1, SmallOrder DEF SameOrder
  <2>4. Keeps(rep[r], s) /\ Keeps(rep[r], Abort(s))
    BY <1>1, <1>2, <2>3, OrderSame
  <2>. QED BY <2>2, <2>4, LeaderKept
<1>3. CASE ReceivePrepare(r)
  <2>1. PICK m \in Received(r, "Prepare") : HandlePrepare(r, rep[r], m.batch, {m})
    BY <1>3 DEF ReceivePrepare
  <2>2. BatchOf(m.batch, LeaderLog)
    BY ReceivedFacts DEF CarriesLog
  <2>3. SameOrder(rep[r], rep[r]) /\ GoodState(r, rep[r])
    BY <1>1, GoodNow DEF SameOrder
  <2>. QED BY <1>2, <2>1, <2>2, <2>3
<1>4. CASE ReplayPending(r)
  <2>. DEFINE s == [rep[r] EXCEPT !.work = Tail(rep[r].work)]
              b == Head(rep[r].work)
  <2>1. rep[r].work # <<>> /\ HandlePrepare(r, s, b, {})
    BY <1>4 DEF ReplayPending
  <2>2. GoodState(r, s) /\ BatchOf(b, LeaderLog)
    BY <1>1, <2>1, GoodWorkTaken
  <2>3. SameOrder(rep[r], s)
    BY <1>1 DEF SameOrder, ReplicaStates
  <2>. HIDE DEF s, b
  <2>. QED BY <1>2, <2>1, <2>2, <2>3
<1>. QED BY <1>3, <1>4

\* Timers, acknowledgements, COMMITs and requests for a log dump order nothing.
LEMMA LeaderOthers ==
    ASSUME Inv,
           \/ Timer(Leader) \/ ReceivePrepareOK(Leader) \/ ReceiveCommit(Leader)
           \/ ReceiveRequestStateTransfer(Leader)
    PROVE  LeaderStep
<1>. DEFINE r == Leader
            s == rep[r]
<1>1. /\ s \in ReplicaStates /\ r \in Replicas /\ s.view = 0 /\ AmLeader(s, r)
      /\ s.lastCommitted <= Len(s.log) /\ GoodState(r, s)
  BY LeaderIsReplica, GoodNow, GoodBounds
<1>2. ASSUME NEW t, SameOrder(s, t), Become(r, t)
      PROVE  LeaderStep
  BY <1>1, <1>2, OrderSame, LeaderKept
<1>3. ASSUME UNCHANGED rep
      PROVE  LeaderStep
  <2>1. SameOrder(s, s)
    BY DEF SameOrder
  <2>2. Keeps(s, s)
    BY <1>1, <2>1, OrderSame
  <2>. QED BY <1>3, <2>2 DEF LeaderStep
<1>4. SameOrder(s, Abort(s)) /\ SameOrder(s, CloseBatch(s, r))
  BY <1>1, SmallOrder
<1>5. CASE Timer(r)
  <2>. DEFINE t == [s EXCEPT !.lastTransfer = <<0, 0>>]
  <2>1. \/ Become(r, CloseBatch(s, r)) \/ Become(r, Abort(s)) \/ UNCHANGED rep \/ Become(r, t)
    BY <1>5 DEF Timer, CloseBatchTimeout, ResendPrepare, SendNullCommit, StateTransferTimeout
  <2>2. SameOrder(s, t)
    BY <1>1 DEF SameOrder, ReplicaStates
  <2>. HIDE DEF s, t
  <2>. QED BY <1>2, <1>3, <1>4, <2>1, <2>2
<1>6. CASE ReceivePrepareOK(r)
  <2>1. PICK m \in Received(r, "PrepareOK") : HandlePrepareOK(r, m)
    BY <1>6 DEF ReceivePrepareOK
  <2>2. m.from \in Replicas /\ m.opnum \in Nat /\ m.view = 0
    <3>1. m \in Messages /\ m.type = "PrepareOK" /\ CarriesLog(m, LeaderLog)
      BY <2>1, ReceivedFacts
    <3>. QED BY <3>1 DEF Messages, CarriesLog
  <2>. DEFINE oks == s.prepareOKs \cup {<<m.opnum, m.from>>}
              a   == [s EXCEPT !.prepareOKs = oks]
              c   == CommitUpTo(a, m.opnum)
              f   == FinishBatch(c, r, m.opnum)
  <2>3. Become(r, a) \/ Become(r, c) \/ Become(r, f)
    <3>1. ~ (m.view > s.view)
      BY <1>1, <2>2
    <3>. QED BY <2>1, <3>1 DEF HandlePrepareOK
  <2>4. a \in ReplicaStates /\ SameOrder(s, a) /\ a.lastCommitted <= Len(a.log)
    <3>1. oks \in SUBSET (Nat \X Replicas)
      BY <1>1, <2>2, StateFields
    <3>2. a = [s EXCEPT !.prepareOKs = oks]
      OBVIOUS
    <3>. HIDE DEF a, oks
    <3>3. a \in ReplicaStates /\ SameLog(s, a)
      BY <1>1, <3>1, <3>2, AcksChange
    <3>4. SameOrder(s, a)
      BY <1>1, <3>2 DEF SameOrder, ReplicaStates
    <3>. QED BY <1>1, <3>3, <3>4 DEF SameLog
  <2>. HIDE DEF a
  <2>5. c \in ReplicaStates /\ c.log = s.log /\ TableGrows(s, c)
    <3>1. c.log = a.log /\ TableGrows(a, c)
      BY <2>2, <2>4, CommitOrder
    <3>2. c \in ReplicaStates
      BY <2>2, <2>4, CommitUpToType
    <3>. HIDE DEF c
    <3>. QED BY <2>4, <3>1, <3>2 DEF SameOrder, TableGrows, LastId
  <2>6. SameOrder(c, f)
    <3>. HIDE DEF c
    <3>. QED BY <1>1, <2>2, <2>5, FinishOrder
  <2>. HIDE DEF c, f
  <2>7. Keeps(s, c) /\ Keeps(s, f)
    BY <2>5, <2>6 DEF Keeps, SameOrder, TableGrows, LastId
  <2>. QED BY <1>2, <2>3, <2>4, <2>7, LeaderKept
<1>7. CASE ReceiveCommit(r)
  <2>1. PICK m \in Received(r, "Commit") : HandleCommit(r, m)
    BY <1>7 DEF ReceiveCommit
  <2>2. m.view = 0
    <3>1. m.type = "Commit" /\ CarriesLog(m, LeaderLog)
      BY <2>1, ReceivedFacts
    <3>. QED BY <3>1 DEF CarriesLog
  <2>3. Become(r, Abort(s))
    BY <1>1, <2>1, <2>2 DEF HandleCommit
  <2>. QED BY <1>2, <1>4, <2>3
<1>8. CASE ReceiveRequestStateTransfer(r)
  <2>1. PICK m \in Received(r, "RequestStateTransfer") : HandleRequestStateTransfer(r, m)
    BY <1>8 DEF ReceiveRequestStateTransfer
  <2>2. m.view = 0
    <3>1. m.type = "RequestStateTransfer" /\ CarriesLog(m, LeaderLog)
      BY <2>1, ReceivedFacts
    <3>. QED BY <3>1 DEF CarriesLog
  <2>3. UNCHANGED rep
    BY <1>1, <2>1, <2>2 DEF HandleRequestStateTransfer
  <2>. QED BY <1>3, <2>3
<1>. QED BY <1>5, <1>6, <1>7, <1>8

-------------------------------------------------------------------------------
(* The specification                                                       *)

\* Every step changes one replica, and the leader as above.
LEMMA OneReplicaSteps ==
    ASSUME Inv, QuorumInv, [Next]_vars
    PROVE  /\ LeaderStep
           /\ \E r \in Replicas : \A p \in Replicas \ {r} : rep'[p] = rep[p]
<1>1. rep \in [Replicas -> ReplicaStates] /\ rep[Leader] \in ReplicaStates
  BY LeaderIsReplica DEF Inv, TypeOK
<1>2. ASSUME rep'[Leader] = rep[Leader]
      PROVE  LeaderStep
  <2>1. SameOrder(rep[Leader], rep[Leader])
    BY DEF SameOrder
  <2>. QED BY <1>1, <1>2, <2>1, OrderSame DEF LeaderStep
<1>3. ASSUME NEW r \in Up, Step(r)
      PROVE  /\ LeaderStep
             /\ r \in Replicas /\ \A p \in Replicas \ {r} : rep'[p] = rep[p]
  <2>1. r \in Replicas
    BY NetworkAssumption
  <2>2. \A p \in Replicas \ {r} : rep'[p] = rep[p]
    <3>1. CASE UNCHANGED rep
      BY <3>1
    <3>2. ASSUME NEW t, Become(r, t)
          PROVE  \A p \in Replicas \ {r} : rep'[p] = rep[p]
      BY <1>1, <3>2 DEF Become
    <3>. QED BY <1>3, <3>1, <3>2, StepsBecome
  <2>3. ASSUME r # Leader
        PROVE  LeaderStep
    BY <1>2, <2>2, <2>3, LeaderIsReplica
  <2>4. ASSUME r = Leader
        PROVE  LeaderStep
    <3>1. ~ReceiveStateTransfer(Leader)
      <4>1. \A m \in Received(Leader, "StateTransfer") : FALSE
        BY DEF Received, QuorumInv, Vouches
      <4>. QED BY <4>1 DEF ReceiveStateTransfer
    <3>. QED BY <1>3, <2>4, <3>1, LeaderOrders, LeaderPrepare, LeaderOthers
             DEF Step, Receive
  <2>. QED BY <2>1, <2>2, <2>3, <2>4
<1>4. CASE UNCHANGED rep
  BY <1>2, <1>4, LeaderIsReplica
<1>5. ASSUME NEW m \in msgs, Lose(m)
      PROVE  UNCHANGED rep
  BY <1>5 DEF Lose
<1>. QED BY <1>3, <1>4, <1>5 DEF Next, vars

\* Every step keeps the order of the leader's log.
LEMMA OrderStep ==
    ASSUME Inv, QuorumInv, OrderInv, [Next]_vars
    PROVE  OrderInv'
<1>. DEFINE s == rep[Leader]
            t == rep'[Leader]
<1>1. s \in ReplicaStates /\ t \in ReplicaStates /\ OrderedState(s) /\ s.view = 0
  BY StepGood, LeaderIsReplica, GoodNow, GoodBounds DEF GoodStep, OrderInv
<1>2. LeaderStep
  BY OneReplicaSteps
<1>. HIDE DEF s, t
<1>3. ASSUME Keeps(s, t)
      PROVE  OrderedState(t)
  BY <1>1, <1>3, OrderKept DEF Keeps
<1>4. ASSUME NEW q \in Requests, Orders(s, t, q)
      PROVE  OrderedState(t)
  <2>. DEFINE e == [view |-> s.view, req |-> q]
  <2>1. e \in Entries /\ e.req = q
    BY <1>1 DEF Entries, Views
  <2>2. t.log = Append(s.log, e)
    BY <1>4 DEF Orders
  <2>. HIDE DEF e
  <2>. QED BY <1>1, <1>4, <2>1, <2>2, OrderAppended DEF Orders
<1>5. OrderedState(t)
  BY <1>2, <1>3, <1>4 DEF LeaderStep, s, t
<1>. QED BY <1>5 DEF OrderInv, Leader, t

\* At first there is nothing to order.
LEMMA InitOrder ==
    ASSUME Init
    PROVE  OrderInv
<1>1. Len(rep[Leader].log) = 0
  BY LeaderIsReplica DEF Init, NewReplica
<1>. QED BY <1>1 DEF OrderInv, OrderedState

\* A request is in a log once, and a client's requests are in their order,
\* although a request may reach the leader again, by either path.
THEOREM OrderedOnce == Spec => []ClientOrder
<1>1. Init => Inv /\ QuorumInv /\ OrderInv
  BY InitInv, InitQuorum, InitOrder
<1>2. Inv /\ QuorumInv /\ OrderInv /\ [Next]_vars => (Inv /\ QuorumInv /\ OrderInv)'
  BY QuorumStep, OrderStep
<1>3. Inv /\ OrderInv => ClientOrder
  <2>. SUFFICES ASSUME Inv, OrderInv, NEW r \in Replicas,
                       NEW j \in DOMAIN rep[r].log, NEW k \in DOMAIN rep[r].log,
                       j < k, rep[r].log[j].req.client = rep[r].log[k].req.client
                PROVE  rep[r].log[j].req.id < rep[r].log[k].req.id
    BY DEF ClientOrder
  <2>1. /\ DOMAIN rep[r].log = 1 .. Len(rep[r].log)
        /\ Len(rep[r].log) \in Nat /\ Len(LeaderLog) \in Nat
    BY GoodNow, StateFields, LeaderLogEntries
  <2>2. /\ Len(rep[r].log) <= Len(LeaderLog)
        /\ \A i \in 1 .. Len(rep[r].log) : rep[r].log[i] = LeaderLog[i]
    BY DEF Inv, LogsFollowLeader, FollowsLog, LeaderLog, Leader
  <2>3. j \in 1 .. Len(LeaderLog) /\ k \in 1 .. Len(LeaderLog)
    BY <2>1, <2>2
  <2>. QED BY <2>1, <2>2, <2>3 DEF OrderInv, OrderedState, LeaderLog
<1>. QED BY <1>1, <1>2, <1>3, PTL DEF Spec

-------------------------------------------------------------------------------
(* The refinement                                                          *)

RefinementInv == Inv /\ QuorumInv /\ OrderInv

\* The requests of the entries of a log.
RequestsOf(log) == [k \in 1 .. Len(log) |-> log[k].req]

\* An entry at the end of a log is a request at the end of its requests.
LEMMA RequestsAppended ==
    ASSUME NEW log \in Seq(Entries), NEW e \in Entries
    PROVE  RequestsOf(Append(log, e)) = Append(RequestsOf(log), e.req)
<1>. DEFINE n == Len(log)
            m == Append(log, e)
            l == RequestsOf(log)
<1>1. /\ n \in Nat /\ Len(m) = n + 1 /\ m[n + 1] = e
      /\ \A k \in 1 .. n : m[k] = log[k]
  OBVIOUS
<1>2. \A k \in 1 .. n : log[k].req \in Requests
  <2>1. \A k \in 1 .. n : log[k] \in Entries
    BY ElementOfSeq
  <2>. QED BY <2>1 DEF Entries
<1>3. l \in Seq(Requests) /\ Len(l) = n /\ \A k \in 1 .. n : l[k] = log[k].req
  BY <1>1, <1>2 DEF RequestsOf
<1>4. Append(l, e.req) = [k \in 1 .. n + 1 |-> IF k = n + 1 THEN e.req ELSE l[k]]
  <2>. HIDE DEF l, n
  <2>1. e.req \in Requests
    BY DEF Entries
  <2>2. /\ Append(l, e.req) \in Seq(Requests) /\ Len(Append(l, e.req)) = n + 1
        /\ \A k \in 1 .. n + 1 : Append(l, e.req)[k] = IF k = n + 1 THEN e.req ELSE l[k]
    BY <1>1, <1>3, <2>1
  <2>3. Append(l, e.req) = [k \in 1 .. Len(Append(l, e.req)) |-> Append(l, e.req)[k]]
    BY <2>2
  <2>. QED BY <2>2, <2>3
<1>5. RequestsOf(m) = [k \in 1 .. n + 1 |-> m[k].req]
  BY <1>1 DEF RequestsOf
<1>6. \A k \in 1 .. n + 1 : m[k].req = IF k = n + 1 THEN e.req ELSE l[k]
  BY <1>1, <1>3
<1>. HIDE DEF l, m, n
<1>7. RequestsOf(m) = Append(l, e.req)
  BY <1>4, <1>5, <1>6
<1>. QED BY <1>7 DEF l, m

\* The initial states map to the initial state.
LEMMA InitRefines ==
    ASSUME Init
    PROVE  Consensus!Init
<1>1. \A r \in Replicas : rep[r].lastCommitted = 0 /\ rep[r].log = <<>>
  BY DEF Init, NewReplica
<1>2. Decided = <<>>
  BY <1>1, LeaderIsReplica DEF Decided, Leader
<1>3. Executions = [r \in Replicas |-> 0]
  BY <1>1 DEF Executions
<1>. QED BY <1>2, <1>3 DEF Consensus!Init

\* A step that orders q maps to Decide(q).
LEMMA OrderRefines ==
    ASSUME RefinementInv, [Next]_vars, NEW q \in Requests,
           Orders(rep[Leader], rep'[Leader], q)
    PROVE  Consensus!Decide(q)
<1>. DEFINE s == rep[Leader]
            t == rep'[Leader]
            e == [view |-> s.view, req |-> q]
<1>1. /\ s \in ReplicaStates /\ s.log \in Seq(Entries) /\ Len(s.log) \in Nat /\ s.view = 0
      /\ e \in Entries /\ e.req = q
  BY LeaderIsReplica, GoodNow, GoodBounds, StateFields DEF RefinementInv, Entries, Views
<1>2. Decided = RequestsOf(s.log) /\ Decided' = RequestsOf(t.log)
  BY DEF Decided, RequestsOf, Leader
<1>3. t.log = Append(s.log, e) /\ LastId(s, q.client) < q.id /\ t.lastCommitted = s.lastCommitted
  BY DEF Orders
<1>. HIDE DEF e
<1>4. Decided' = Append(Decided, q)
  BY <1>1, <1>2, <1>3, RequestsAppended
<1>5. Consensus!Newer(q)
  <2>1. \A k \in 1 .. Len(s.log) : s.log[k].req.client = q.client => s.log[k].req.id < q.id
    <3>. TAKE k \in 1 .. Len(s.log)
    <3>1. s.log[k].req.id <= LastId(s, s.log[k].req.client)
      BY DEF RefinementInv, OrderInv, OrderedState
    <3>. QED BY <1>1, <1>3, <3>1, OrderTypes, RequestFields
  <2>2. DOMAIN Decided = 1 .. Len(s.log) /\ \A k \in 1 .. Len(s.log) : Decided[k] = s.log[k].req
    BY <1>2 DEF RequestsOf
  <2>. QED BY <2>1, <2>2 DEF Consensus!Newer
<1>6. UNCHANGED Executions
  <2>1. PICK r \in Replicas : \A p \in Replicas \ {r} : rep'[p] = rep[p]
    BY OneReplicaSteps DEF RefinementInv
  <2>2. r = Leader
    <3>1. t.log # s.log
      <4>1. Len(t.log) = Len(s.log) + 1
        BY <1>1, <1>3
      <4>. QED BY <1>1, <4>1
    <3>. QED BY <2>1, <3>1, LeaderIsReplica
  <2>3. \A p \in Replicas : rep'[p].lastCommitted = rep[p].lastCommitted
    BY <1>3, <2>1, <2>2
  <2>. QED BY <2>3 DEF Executions
<1>. QED BY <1>4, <1>5, <1>6 DEF Consensus!Decide

\* A step that orders nothing maps to Execute, or to a stutter.
LEMMA ExecutionRefines ==
    ASSUME RefinementInv, [Next]_vars, Keeps(rep[Leader], rep'[Leader])
    PROVE  (\E r \in Replicas : \E n \in 1 .. Len(Decided) : Consensus!Execute(r, n))
               \/ UNCHANGED <<Decided, Executions>>
<1>1. PICK r \in Replicas : \A p \in Replicas \ {r} : rep'[p] = rep[p]
  BY OneReplicaSteps DEF RefinementInv
<1>. DEFINE n == rep'[r].lastCommitted
            l == rep[Leader].log
<1>2. UNCHANGED Decided /\ Len(Decided) = Len(l) /\ Len(l) \in Nat
  <2>1. rep'[Leader].log = l
    BY DEF Keeps
  <2>2. l \in Seq(Entries) /\ Len(l) \in Nat
    BY LeaderIsReplica, GoodNow, StateFields DEF RefinementInv
  <2>. QED BY <2>1, <2>2 DEF Decided, Leader
<1>3. /\ rep[r].lastCommitted \in Nat /\ n \in Nat /\ rep[r].lastCommitted <= n
      /\ rep'[Leader].lastCommitted <= Len(l)
      /\ n <= rep'[Leader].lastCommitted
      /\ rep'[Leader].lastCommitted \in Nat
  <2>1. GoodStep /\ Inv' /\ QuorumInv'
    BY StepGood, QuorumStep DEF RefinementInv
  <2>2. rep[r] \in ReplicaStates /\ rep' \in [Replicas -> ReplicaStates]
        /\ rep[r].lastCommitted <= n
    BY <2>1, GoodNow DEF RefinementInv, GoodStep
  <2>3. rep'[Leader].lastCommitted <= Len(l)
    <3>1. rep'[Leader].lastOp = Len(rep'[Leader].log)
          /\ rep'[Leader].lastCommitted <= rep'[Leader].lastOp
      BY <2>1, LeaderIsReplica DEF GoodStep, LogsFollowLeader, FollowsLog
    <3>2. rep'[Leader].log = l
      BY DEF Keeps
    <3>. QED BY <3>1, <3>2
  <2>4. n <= rep'[Leader].lastCommitted
    BY <2>1 DEF QuorumInv, Backed, LeaderCommitted, Leader
  <2>. QED BY <2>2, <2>3, <2>4, LeaderIsReplica, StateFields
<1>4. Executions' = [Executions EXCEPT ![r] = n] /\ Executions[r] = rep[r].lastCommitted
  BY <1>1 DEF Executions
<1>5. CASE rep[r].lastCommitted = n
  <2>1. Executions' = Executions
    BY <1>1, <1>5 DEF Executions
  <2>. QED BY <1>2, <2>1
<1>6. CASE rep[r].lastCommitted # n
  <2>1. n \in 1 .. Len(Decided) /\ Executions[r] < n
    BY <1>2, <1>3, <1>4, <1>6
  <2>2. n <= IF r = GetLeaderIndex(0) THEN Len(Decided) ELSE Executions[GetLeaderIndex(0)]
    <3>1. CASE r = Leader
      BY <1>2, <1>3, <3>1 DEF Leader
    <3>2. CASE r # Leader
      <4>1. rep'[Leader] = rep[Leader]
        BY <1>1, <3>2, LeaderIsReplica
      <4>2. Executions[Leader] = rep[Leader].lastCommitted
        BY LeaderIsReplica DEF Executions
      <4>. QED BY <1>3, <3>2, <4>1, <4>2 DEF Leader
    <3>. QED BY <3>1, <3>2
  <2>. HIDE DEF n
  <2>3. Consensus!Execute(r, n)
    BY <1>2, <1>4, <2>1, <2>2 DEF Consensus!Execute
  <2>. QED BY <2>1, <2>3
<1>. QED BY <1>5, <1>6

\* The replicas act as one log that the leader appends each request to at most
\* once, and that each replica executes from the front, never ahead of the leader.
THEOREM Refinement == Spec => ImplementsExecutedLog
<1>1. Init => RefinementInv /\ Consensus!Init
  BY InitInv, InitQuorum, InitOrder, InitRefines DEF RefinementInv
<1>2. RefinementInv /\ [Next]_vars => RefinementInv'
  BY QuorumStep, OrderStep DEF RefinementInv
<1>3. RefinementInv /\ [Next]_vars => [Consensus!Next]_(Consensus!logVars)
  <2>. SUFFICES ASSUME RefinementInv, [Next]_vars
                PROVE  [Consensus!Next]_(Consensus!logVars)
    OBVIOUS
  <2>1. LeaderStep
    BY OneReplicaSteps DEF RefinementInv
  <2>. QED BY <2>1, OrderRefines, ExecutionRefines DEF LeaderStep, Consensus!Next, Consensus!logVars
<1>. QED BY <1>1, <1>2, <1>3, PTL DEF Spec, ImplementsExecutedLog, Consensus!Spec

-------------------------------------------------------------------------------
(* Sessions: the invariant                                                 *)

\* Operation k of log l is the last of client c among the first n.
Newest(l, n, c, k) ==
    /\ k \in 1 .. n
    /\ l[k].req.client = c
    /\ \A j \in 1 .. n : l[j].req.client = c => j <= k

\* What a client table's entry for client c says when the first n operations of
\* log l have been entered and the first "done" of them executed.
Tells(l, done, n, c, entry) ==
    /\ (\A k \in 1 .. n : l[k].req.client # c) => entry = NewClient
    /\ \A k \in 1 .. n : Newest(l, n, c, k) =>
           /\ entry.lastReqId = l[k].req.id
           /\ entry.replied <=> k <= done
           /\ k <= done => entry.opnum = k /\ entry.view = l[k].view

TableTells(l, done, n, table) == \A c \in Clients : Tells(l, done, n, c, table[c])

\* The client table of s tells its log.
TableMatches(s) == TableTells(s.log, s.lastCommitted, s.lastOp, s.clientTable)

\* Each client's requests are in log l in their order.
InClientOrder(l) ==
    \A j, k \in 1 .. Len(l) :
        j < k /\ l[j].req.client = l[k].req.client => l[j].req.id < l[k].req.id

LeaderTimers == {"nullCommit", "resendPrepare", "closeBatch"}

\* A batch, and every batch of a list, has a request.
HasRequests(b) == b.batchstart <= b.opnum

AllHaveRequests(list) == \A k \in 1 .. Len(list) : HasRequests(list[k])

\* The batches that replica s keeps.
KeptBatches(s) ==
    /\ AllHaveRequests(s.pending)
    /\ AllHaveRequests(s.work)
    /\ "resendPrepare" \in s.timers => HasRequests(s.lastPrepare)

\* The leader's batches: closeBatch waits for an open one, resendPrepare for the
\* commit of the last one closed.
LeaderBatches(s) ==
    /\ s.work = <<>>
    /\ s.lastBatchEnd <= s.lastOp
    /\ "closeBatch" \in s.timers <=> s.lastBatchEnd < s.lastOp
    /\ s.lastCommitted < s.lastBatchEnd =>
           /\ "resendPrepare" \in s.timers
           /\ s.lastPrepare.opnum = s.lastBatchEnd

\* Replica r may be in state s.
SoundState(r, s) ==
    /\ ~s.aborted
    /\ TableMatches(s)
    /\ KeptBatches(s)
    /\ r = Leader => LeaderBatches(s)
    /\ r # Leader => s.timers \cap LeaderTimers = {}

\* What message m promises the replica that receives it: the leader gets no
\* PREPARE and no COMMIT, no batch is empty, and a log dump continues what its
\* receiver has executed and holds what it says is committed.
Receivable(m) ==
    /\ m.type = "Prepare" => m.to # Leader /\ HasRequests(m.batch)
    /\ m.type = "Commit" => m.to # Leader
    /\ m.type = "RequestStateTransfer" => m.opnum <= rep[m.from].lastCommitted
    /\ m.type = "StateTransfer" => /\ m.first <= rep[m.to].lastCommitted + 1
                                   /\ m.opnum <= LastEntry(m)

\* Reply m tells of an operation that state s has executed.
TrueReply(m, s) ==
    /\ m.opnum \in 1 .. s.lastCommitted
    /\ s.log[m.opnum] = [view |-> m.view, req |-> m.req]

InLog(l, q) == \E k \in 1 .. Len(l) : l[k].req = q

\* Request q is in log l, or in the queue before place i.
Ahead(l, queue, i, q) == InLog(l, q) \/ \E j \in 1 .. i - 1 : queue[j] = q

\* Log l and the queue of the leader when the clients have issued "sent": every
\* request sent is in one of them, and behind the earlier ones of its client.
InLine(l, queue, sent) ==
    /\ \A q \in Requests : q.id <= sent[q.client] => Ahead(l, queue, Len(queue) + 1, q)
    /\ \A k \in 1 .. Len(l) : \A q \in Requests :
           q.client = l[k].req.client /\ q.id < l[k].req.id
               => \E j \in 1 .. k - 1 : l[j].req = q
    /\ \A i \in 1 .. Len(queue) : \A q \in Requests :
           q.client = queue[i].client /\ q.id < queue[i].id => Ahead(l, queue, i, q)

-------------------------------------------------------------------------------
(* What a client table tells                                               *)

\* The requests of a log, as the proofs use them.
LEMMA EntryTypes ==
    ASSUME NEW l \in Seq(Entries)
    PROVE  /\ Len(l) \in Nat
           /\ \A k \in 1 .. Len(l) : /\ l[k] \in Entries
                                     /\ l[k].req \in Requests
                                     /\ l[k].req.client \in Clients
                                     /\ l[k].req.id \in Nat
                                     /\ 1 <= l[k].req.id
                                     /\ l[k].view \in Views
<1>1. Len(l) \in Nat
  OBVIOUS
<1>2. ASSUME NEW k \in 1 .. Len(l)
      PROVE  /\ l[k] \in Entries /\ l[k].req \in Requests
             /\ l[k].req.client \in Clients /\ l[k].req.id \in Nat /\ 1 <= l[k].req.id
             /\ l[k].view \in Views
  <2>1. l[k] \in Entries
    BY <1>2, ElementOfSeq
  <2>2. l[k].req \in Requests /\ l[k].view \in Views
    BY <2>1 DEF Entries
  <2>3. /\ l[k].req.client \in Clients /\ l[k].req.id \in 1 .. Len(Trace[l[k].req.client])
        /\ Len(Trace[l[k].req.client]) \in Nat
    BY <2>2, RequestFields
  <2>. QED BY <2>1, <2>2, <2>3
<1>. QED BY <1>1, <1>2

\* A client has a newest operation among the first n, unless it has none there.
LEMMA NewestExists ==
    ASSUME NEW l, NEW n \in Nat, NEW c, NEW j \in 1 .. n, l[j].req.client = c
    PROVE  \E k \in 1 .. n : Newest(l, n, c, k) /\ j <= k
<1>. DEFINE S == {k \in 1 .. n : l[k].req.client = c}
<1>1. S \subseteq Nat /\ j \in S /\ \A k \in S : k <= n
  OBVIOUS
<1>2. Max(S) \in S /\ \A k \in S : k <= Max(S)
  <2>. HIDE DEF S
  <2>. QED BY <1>1, MaxOfNat
<1>. QED BY <1>1, <1>2 DEF Newest

\* What the entry says of operation k: no later request of its client is in the
\* first n operations if the entry's is not newer.
LEMMA TellsNewest ==
    ASSUME NEW l \in Seq(Entries), InClientOrder(l), NEW n \in Nat, n <= Len(l),
           NEW done \in Nat, NEW c, NEW entry, Tells(l, done, n, c, entry),
           NEW k \in 1 .. Len(l), l[k].req.client = c
    PROVE  /\ n < k => entry.lastReqId < l[k].req.id
           /\ k <= n => l[k].req.id <= entry.lastReqId
           /\ k <= n /\ entry.lastReqId <= l[k].req.id => Newest(l, n, c, k)
<1>1. Len(l) \in Nat /\ l[k].req.id \in Nat /\ 1 <= l[k].req.id
  BY EntryTypes
<1>2. ASSUME NEW j \in 1 .. n, Newest(l, n, c, j)
      PROVE  /\ entry.lastReqId = l[j].req.id /\ j \in 1 .. Len(l) /\ l[j].req.client = c
             /\ l[j].req.id \in Nat
  BY <1>2, EntryTypes DEF Tells, Newest
<1>3. ASSUME n < k
      PROVE  entry.lastReqId < l[k].req.id
  <2>1. CASE \A j \in 1 .. n : l[j].req.client # c
    BY <1>1, <2>1 DEF Tells, NewClient
  <2>2. CASE \E j \in 1 .. n : l[j].req.client = c
    <3>1. PICK j \in 1 .. n : Newest(l, n, c, j)
      BY <2>2, NewestExists
    <3>. QED BY <1>1, <1>2, <1>3, <3>1 DEF InClientOrder
  <2>. QED BY <2>1, <2>2
<1>4. ASSUME k <= n
      PROVE  /\ l[k].req.id <= entry.lastReqId
             /\ entry.lastReqId <= l[k].req.id => Newest(l, n, c, k)
  <2>1. k \in 1 .. n
    BY <1>1, <1>4
  <2>2. PICK j \in 1 .. n : Newest(l, n, c, j) /\ k <= j
    BY <2>1, NewestExists
  <2>3. /\ entry.lastReqId = l[j].req.id /\ j \in 1 .. Len(l) /\ l[j].req.client = c
        /\ l[j].req.id \in Nat
    BY <1>2, <2>2
  <2>4. CASE j = k
    BY <2>2, <2>3, <2>4
  <2>5. CASE j # k
    <3>1. k < j
      BY <2>2, <2>5
    <3>. QED BY <1>1, <2>3, <3>1 DEF InClientOrder
  <2>. QED BY <2>4, <2>5
<1>. QED BY <1>3, <1>4

\* If the client has nothing in between, what is told of the first n operations
\* is told of the first m.
LEMMA TellsMore ==
    ASSUME NEW l, NEW n \in Nat, NEW m \in Nat, n <= m, NEW done, NEW c, NEW entry,
           Tells(l, done, n, c, entry),
           \A k \in n + 1 .. m : l[k].req.client # c
    PROVE  Tells(l, done, m, c, entry)
<1>1. \A k \in 1 .. m : l[k].req.client = c => k \in 1 .. n
  OBVIOUS
<1>2. 1 .. n \subseteq 1 .. m
  OBVIOUS
<1>3. \A k \in 1 .. m : Newest(l, m, c, k) => k \in 1 .. n /\ Newest(l, n, c, k)
  BY <1>1, <1>2 DEF Newest
<1>. QED BY <1>1, <1>2, <1>3 DEF Tells

\* Executing operations up to p stores the replies to them: also of operations
\* that the table has not been told of yet, which a log dump brought.
LEMMA StoredTells ==
    ASSUME NEW s \in ReplicaStates, InClientOrder(s.log),
           NEW n \in Nat, s.lastCommitted <= n, n <= Len(s.log),
           NEW p \in Nat, s.lastCommitted <= p, p <= Len(s.log),
           NEW m \in Nat, n <= m, p <= m, m = n \/ m = p,
           TableTells(s.log, s.lastCommitted, n, s.clientTable)
    PROVE  TableTells(s.log, p, m, StoreReplies(s, s.lastCommitted + 1 .. p))
<1>. DEFINE l    == s.log
            done == s.lastCommitted
            ops  == done + 1 .. p
<1>. SUFFICES ASSUME NEW c \in Clients
              PROVE  Tells(l, p, m, c, StoreReplies(s, ops)[c])
  BY DEF TableTells
<1>. DEFINE entry == s.clientTable[c]
            newer == {k \in ops : l[k].req.client = c /\ entry.lastReqId <= l[k].req.id}
            ids   == {l[k].req.id : k \in newer}
            last  == {k \in newer : l[k].req.id = Max(ids)}
<1>0. /\ l \in Seq(Entries) /\ Len(l) \in Nat /\ done \in Nat
      /\ Tells(l, done, n, c, entry)
      /\ StoreReplies(s, ops)[c] =
             IF newer = {} THEN entry
             ELSE [lastReqId |-> Max(ids), replied |-> TRUE,
                   view |-> l[Max(last)].view, opnum |-> Max(last)]
  BY StateFields DEF TableTells, StoreReplies
<1>1. /\ \A k \in newer : /\ k \in 1 .. Len(l) /\ k \in Nat /\ done < k /\ k <= p
                          /\ l[k].req.client = c /\ l[k].req.id \in Nat
      /\ \A k \in 1 .. Len(l) : /\ done < k /\ k <= p /\ l[k].req.client = c
                                /\ entry.lastReqId <= l[k].req.id
                                => k \in newer
  <2>1. l \in Seq(Entries) /\ Len(l) \in Nat /\ done \in Nat /\ p <= Len(l)
    BY <1>0
  <2>. HIDE DEF l, done, entry
  <2>2. ASSUME NEW k \in ops
        PROVE  k \in 1 .. Len(l) /\ k \in Nat /\ done < k /\ k <= p
    BY <2>1, <2>2
  <2>3. \A k \in 1 .. Len(l) : l[k].req.id \in Nat
    BY <2>1, EntryTypes
  <2>4. \A k \in 1 .. Len(l) : done < k /\ k <= p => k \in ops
    BY <2>1
  <2>. HIDE DEF ops
  <2>. QED BY <2>2, <2>3, <2>4
<1>2. \A k \in 1 .. Len(l) : l[k].req.client = c =>
          /\ n < k => entry.lastReqId < l[k].req.id
          /\ k <= n => l[k].req.id <= entry.lastReqId
          /\ k <= n /\ entry.lastReqId <= l[k].req.id => Newest(l, n, c, k)
  BY <1>0, TellsNewest
<1>3. \A k \in 1 .. Len(l) : l[k].req.id \in Nat
  BY <1>0, EntryTypes
<1>4. InClientOrder(l)
  OBVIOUS
<1>. HIDE DEF ops
<1>5. CASE newer = {}
  <2>1. StoreReplies(s, ops)[c] = entry
    BY <1>0, <1>5
  <2>. HIDE DEF newer, entry
  <2>2. \A k \in 1 .. Len(l) : ~ (/\ done < k /\ k <= p /\ l[k].req.client = c
                                 /\ entry.lastReqId <= l[k].req.id)
    BY <1>1, <1>5
  <2>. HIDE DEF l, done
  <2>3. \A k \in n + 1 .. m : l[k].req.client # c
    <3>. SUFFICES ASSUME NEW k \in n + 1 .. m, l[k].req.client = c
                  PROVE  FALSE
      OBVIOUS
    <3>1. k \in 1 .. Len(l) /\ n < k /\ k <= p /\ done < k
      BY <1>0 DEF l, done
    <3>2. entry.lastReqId < l[k].req.id
      BY <1>2, <3>1
    <3>3. ~ (entry.lastReqId <= l[k].req.id)
      BY <2>2, <3>1
    <3>4. CASE \E j \in 1 .. n : l[j].req.client = c
      <4>1. PICK j \in 1 .. n : Newest(l, n, c, j)
        BY <3>4, NewestExists
      <4>2. j \in 1 .. Len(l)
        BY <1>0 DEF l, done
      <4>3. entry.lastReqId \in Nat
        BY <1>0, <1>3, <4>1, <4>2 DEF Tells
      <4>. QED BY <1>3, <3>1, <3>2, <3>3, <4>3
    <3>5. CASE \A j \in 1 .. n : l[j].req.client # c
      <4>1. entry.lastReqId \in Nat
        BY <1>0, <3>5 DEF Tells, NewClient
      <4>. QED BY <1>3, <3>1, <3>2, <3>3, <4>1
    <3>. QED BY <3>4, <3>5
  <2>4. Tells(l, p, n, c, entry)
    <3>1. ASSUME NEW k \in 1 .. n, Newest(l, n, c, k)
          PROVE  k <= done <=> k <= p
      <4>1. k \in 1 .. Len(l) /\ l[k].req.client = c /\ entry.lastReqId = l[k].req.id
        BY <1>0, <3>1 DEF Newest, Tells, l, done
      <4>2. ~ (done < k /\ k <= p)
        BY <1>3, <2>2, <4>1
      <4>. QED BY <1>0, <4>1, <4>2 DEF l, done
    <3>. QED BY <1>0, <3>1 DEF Tells
  <2>. QED BY <2>1, <2>3, <2>4, TellsMore
<1>6. CASE newer # {}
  <2>. HIDE DEF newer, entry
  <2>1. newer \subseteq Nat /\ \A k \in newer : k <= p
    BY <1>1
  <2>2. PICK K : K = Max(newer)
    OBVIOUS
  <2>3. K \in newer /\ \A k \in newer : k <= K
    BY <1>6, <2>1, <2>2, MaxOfNat
  <2>4. \A k \in newer : l[k].req.id <= l[K].req.id /\ (l[k].req.id = l[K].req.id => k = K)
    <3>. TAKE k \in newer
    <3>1. /\ k \in 1 .. Len(l) /\ K \in 1 .. Len(l) /\ l[k].req.client = c
          /\ l[K].req.client = c /\ k <= K /\ l[k].req.id \in Nat /\ l[K].req.id \in Nat
      BY <1>1, <2>3
    <3>2. k # K => l[k].req.id < l[K].req.id
      BY <1>0, <1>4, <3>1 DEF InClientOrder
    <3>. QED BY <3>1, <3>2
  <2>5. Max(ids) = l[K].req.id
    <3>1. PICK x : x = l[K].req.id
      OBVIOUS
    <3>2. x \in Nat /\ x \in ids
      BY <1>1, <2>3, <3>1
    <3>3. \A i \in ids : i \in Nat /\ i <= x
      BY <1>1, <2>4, <3>1
    <3>. HIDE DEF ids
    <3>4. ids \subseteq Nat /\ ids # {} /\ \A i \in ids : i <= x
      BY <3>2, <3>3
    <3>5. PICK y : y = Max(ids)
      OBVIOUS
    <3>6. y \in ids /\ \A i \in ids : i <= y
      BY <3>2, <3>4, <3>5, MaxOfNat
    <3>7. y \in Nat /\ y <= x /\ x <= y
      BY <3>2, <3>3, <3>6
    <3>8. y = x
      BY <3>2, <3>7
    <3>. QED BY <3>1, <3>5, <3>8
  <2>6. last = {K}
    BY <2>3, <2>4, <2>5
  <2>7. Max(last) = K
    <3>1. K \in Nat
      BY <2>1, <2>3
    <3>2. Max({K}) = K
      BY <3>1, MaxOfTwo
    <3>. QED BY <2>6, <3>2
  <2>8. PICK e : e = StoreReplies(s, ops)[c]
    OBVIOUS
  <2>9. e.lastReqId = l[K].req.id /\ e.replied = TRUE /\ e.view = l[K].view /\ e.opnum = K
    <3>1. e = [lastReqId |-> l[K].req.id, replied |-> TRUE, view |-> l[K].view, opnum |-> K]
      BY <1>0, <1>6, <2>5, <2>7, <2>8
    <3>. QED BY <3>1
  <2>10. K \in 1 .. Len(l) /\ K \in 1 .. m /\ done < K /\ K <= p /\ l[K].req.client = c
    BY <1>1, <2>3
  <2>11. ASSUME NEW k \in 1 .. m, Newest(l, m, c, k)
         PROVE  k = K
    <3>1. K <= k /\ l[k].req.client = c /\ k \in 1 .. Len(l)
      BY <2>10, <2>11 DEF Newest
    <3>2. ASSUME K < k
          PROVE  FALSE
      <4>1. l[K].req.id < l[k].req.id
        BY <1>4, <2>10, <3>1, <3>2 DEF InClientOrder
      <4>2. CASE k <= p
        <5>1. entry.lastReqId <= l[K].req.id
          BY <2>3 DEF newer
        <5>2. CASE n < k
          <6>1. entry.lastReqId < l[k].req.id
            BY <1>2, <3>1, <5>2
          <6>2. entry.lastReqId \in Nat
            BY <1>0, StateFields DEF Tables, TableEntries, entry
          <6>3. entry.lastReqId <= l[k].req.id
            <7>1. l[k].req.id \in Nat
              BY <1>3, <3>1
            <7>. HIDE DEF l
            <7>. QED BY <6>1, <6>2, <7>1
          <6>4. done < k
            <7>1. done \in Nat /\ k \in Nat /\ K \in Nat
              BY <1>0, <2>10, <3>1
            <7>. HIDE DEF done, l
            <7>. QED BY <2>10, <3>2, <7>1
          <6>5. k \in newer
            <7>. HIDE DEF done, l
            <7>. QED BY <1>1, <3>1, <4>2, <6>3, <6>4
          <6>. QED BY <2>3, <2>10, <3>1, <3>2, <6>5
        <5>3. CASE k <= n
          <6>1. Newest(l, n, c, K)
            BY <1>2, <2>10, <3>1, <3>2, <5>1, <5>3
          <6>2. k \in 1 .. n
            BY <3>1, <5>3
          <6>. QED BY <2>10, <3>1, <3>2, <6>1, <6>2 DEF Newest
        <5>. QED BY <3>1, <5>2, <5>3
      <4>3. CASE ~ (k <= p)
        <5>1. k \in 1 .. n /\ K <= n
          BY <2>10, <3>1, <4>3
        <5>2. Newest(l, n, c, K)
          <6>1. entry.lastReqId <= l[K].req.id
            BY <2>3 DEF newer
          <6>. QED BY <1>2, <2>10, <5>1, <6>1
        <5>. QED BY <2>10, <3>1, <3>2, <5>1, <5>2 DEF Newest
      <4>. QED BY <4>2, <4>3
    <3>. QED BY <2>10, <3>1, <3>2
  <2>12. Tells(l, p, m, c, e)
    BY <2>9, <2>10, <2>11 DEF Tells
  <2>. QED BY <2>8, <2>12
<1>. QED BY <1>5, <1>6

\* Telling the table of operations that it has not been told of (at most the
\* last one again) keeps its ASSERT, and it tells them too.
LEMMA UpdatedTells ==
    ASSUME NEW l \in Seq(Entries), InClientOrder(l),
           NEW done \in Nat, NEW n \in Nat, done <= n, n <= Len(l),
           NEW first \in Nat \ {0}, n <= first, first <= n + 1, done < first,
           NEW last \in Nat, n <= last, last <= Len(l),
           NEW table \in Tables, TableTells(l, done, n, table)
    PROVE  /\ InOrder(table, RequestsAt(l, first, last))
           /\ TableTells(l, done, last, UpdateClientTable(table, RequestsAt(l, first, last)))
<1>. DEFINE qs == RequestsAt(l, first, last)
            w  == last + 1 - first
<1>1. /\ Len(qs) = w /\ w \in Nat /\ Len(l) \in Nat
      /\ \A k \in 1 .. w : qs[k] = l[first + k - 1].req
  <2>1. first <= last + 1 /\ w \in Nat /\ Len(l) \in Nat
    OBVIOUS
  <2>2. Len(qs) = w /\ \A k \in 1 .. w : qs[k] = l[first + k - 1].req
    BY <2>1, RequestsAtType
  <2>. QED BY <2>1, <2>2
<1>2. /\ \A k \in 1 .. w : first + k - 1 \in first .. last
      /\ \A i \in first .. last : i \in 1 .. Len(l) /\ i + 1 - first \in 1 .. w
                                  /\ qs[i + 1 - first] = l[i].req
  BY <1>1
<1>3. \A c \in Clients : \A k \in 1 .. Len(l) : l[k].req.client = c =>
          /\ n < k => table[c].lastReqId < l[k].req.id
          /\ k <= n => l[k].req.id <= table[c].lastReqId
  BY TellsNewest DEF TableTells
<1>4. \A k \in 1 .. Len(l) : l[k].req.client \in Clients /\ l[k].req.id \in Nat
  BY EntryTypes
<1>5. \A c \in Clients : table[c].lastReqId \in Nat
  BY DEF Tables, TableEntries
<1>6. InOrder(table, qs)
  <2>. SUFFICES ASSUME NEW k \in 1 .. Len(qs)
                PROVE  /\ table[qs[k].client].lastReqId <= qs[k].id
                       /\ \A j \in 1 .. k - 1 :
                              qs[j].client = qs[k].client => qs[j].id <= qs[k].id
    BY DEF InOrder
  <2>. DEFINE i == first + k - 1
              c == l[i].req.client
  <2>1. i \in first .. last /\ i \in 1 .. Len(l) /\ qs[k] = l[i].req /\ c \in Clients
    BY <1>1, <1>2, <1>4
  <2>. HIDE DEF qs, w
  <2>2. table[c].lastReqId <= l[i].req.id
    <3>1. CASE n < i
      <4>1. i \in 1 .. Len(l) /\ c \in Clients /\ l[i].req.client = c
        BY <2>1
      <4>. HIDE DEF i, c
      <4>2. table[c].lastReqId < l[i].req.id
        BY <1>3, <3>1, <4>1
      <4>3. table[c].lastReqId \in Nat /\ l[i].req.id \in Nat
        BY <1>4, <1>5, <4>1
      <4>. QED BY <4>2, <4>3
    <3>2. CASE i = n
      <4>1. Newest(l, n, c, n)
        BY <2>1, <3>2 DEF Newest
      <4>2. n \in 1 .. n
        BY <2>1, <3>2
      <4>3. table[c].lastReqId = l[n].req.id
        BY <2>1, <4>1, <4>2 DEF TableTells, Tells
      <4>. QED BY <1>4, <2>1, <3>2, <4>3
    <3>. QED BY <2>1, <3>1, <3>2
  <2>3. ASSUME NEW j \in 1 .. k - 1, qs[j].client = qs[k].client
        PROVE  qs[j].id <= qs[k].id
    <3>1. PICK h : h = first + j - 1
      OBVIOUS
    <3>2. j \in 1 .. w /\ h \in 1 .. Len(l) /\ h < i /\ qs[j] = l[h].req
      BY <1>1, <1>2, <2>1, <2>3, <3>1
    <3>. HIDE DEF i
    <3>3. l[h].req.id < l[i].req.id
      BY <2>1, <2>3, <3>2 DEF InClientOrder
    <3>. QED BY <1>4, <2>1, <3>2, <3>3
  <2>. QED BY <2>1, <2>2, <2>3
<1>7. ASSUME NEW c \in Clients
      PROVE  /\ \A i \in IdsOf(c, qs) :
                    \E k \in first .. last : l[k].req.client = c /\ i = l[k].req.id
             /\ \A k \in first .. last : l[k].req.client = c => l[k].req.id \in IdsOf(c, qs)
  <2>1. ASSUME NEW k \in 1 .. Len(qs), qs[k].client = c
        PROVE  \E i \in first .. last : l[i].req.client = c /\ qs[k].id = l[i].req.id
    BY <1>1, <1>2, <2>1
  <2>2. ASSUME NEW i \in first .. last, l[i].req.client = c
        PROVE  \E k \in 1 .. Len(qs) : qs[k].client = c /\ qs[k].id = l[i].req.id
    BY <1>1, <1>2, <2>2
  <2>. HIDE DEF qs
  <2>3. ASSUME NEW i \in IdsOf(c, qs)
        PROVE  \E k \in 1 .. Len(qs) : qs[k].client = c /\ i = qs[k].id
    BY <2>3 DEF IdsOf
  <2>4. ASSUME NEW k \in 1 .. Len(qs), qs[k].client = c
        PROVE  qs[k].id \in IdsOf(c, qs)
    BY <2>4 DEF IdsOf
  <2>5. ASSUME NEW i \in IdsOf(c, qs)
        PROVE  \E k \in first .. last : l[k].req.client = c /\ i = l[k].req.id
    <3>1. PICK k \in 1 .. Len(qs) : qs[k].client = c /\ i = qs[k].id
      BY <2>3
    <3>. QED BY <2>1, <3>1
  <2>6. ASSUME NEW i \in first .. last, l[i].req.client = c
        PROVE  l[i].req.id \in IdsOf(c, qs)
    <3>1. PICK k \in 1 .. Len(qs) : qs[k].client = c /\ qs[k].id = l[i].req.id
      BY <2>2, <2>6
    <3>2. qs[k].id \in IdsOf(c, qs)
      BY <2>4, <3>1
    <3>. QED BY <3>1, <3>2
  <2>. QED BY <2>5, <2>6
<1>8. ASSUME NEW c \in Clients
      PROVE  Tells(l, done, last, c, UpdateClientTable(table, qs)[c])
  <2>. DEFINE ids == IdsOf(c, qs)
  <2>1. UpdateClientTable(table, qs)[c] =
            IF \E i \in ids : i > table[c].lastReqId
            THEN [NewClient EXCEPT !.lastReqId = Max(ids)] ELSE table[c]
    BY DEF UpdateClientTable
  <2>2. /\ \A i \in ids : \E k \in first .. last : l[k].req.client = c /\ i = l[k].req.id
        /\ \A k \in first .. last : l[k].req.client = c => l[k].req.id \in ids
    BY <1>7
  <2>. HIDE DEF ids, qs, w
  <2>3. Tells(l, done, n, c, table[c])
    BY DEF TableTells
  <2>4. CASE \A k \in n + 1 .. last : l[k].req.client # c
    <3>1. ~ (\E i \in ids : i > table[c].lastReqId)
      <4>. SUFFICES ASSUME NEW i \in ids, i > table[c].lastReqId
                    PROVE  FALSE
        OBVIOUS
      <4>1. PICK k \in first .. last : l[k].req.client = c /\ i = l[k].req.id
        BY <2>2
      <4>2. k \in 1 .. Len(l) /\ k <= n
        BY <1>1, <1>2, <2>4, <4>1
      <4>3. l[k].req.id <= table[c].lastReqId
        BY <1>3, <4>1, <4>2
      <4>. QED BY <1>4, <1>5, <4>1, <4>2, <4>3
    <3>2. UpdateClientTable(table, qs)[c] = table[c]
      BY <2>1, <3>1
    <3>. QED BY <2>3, <2>4, <3>2, TellsMore
  <2>5. CASE \E k \in n + 1 .. last : l[k].req.client = c
    <3>1. PICK k0 \in n + 1 .. last : l[k0].req.client = c
      BY <2>5
    <3>2. k0 \in 1 .. last
      OBVIOUS
    <3>3. PICK K \in 1 .. last : Newest(l, last, c, K) /\ k0 <= K
      BY <3>1, <3>2, NewestExists
    <3>4. K \in first .. last /\ K \in 1 .. Len(l) /\ n < K /\ l[K].req.client = c
      BY <1>1, <3>1, <3>3 DEF Newest
    <3>5. PICK x : x = l[K].req.id
      OBVIOUS
    <3>6. x \in Nat /\ x \in ids /\ table[c].lastReqId < x
      BY <1>3, <1>4, <2>2, <3>4, <3>5
    <3>7. \A i \in ids : i \in Nat /\ i <= x
      <4>. TAKE i \in ids
      <4>1. PICK k \in first .. last : l[k].req.client = c /\ i = l[k].req.id
        BY <2>2
      <4>2. k \in 1 .. Len(l) /\ k \in 1 .. last
        BY <1>2, <1>1
      <4>3. k <= K
        BY <3>3, <4>1, <4>2 DEF Newest
      <4>4. k # K => l[k].req.id < l[K].req.id
        BY <3>4, <4>1, <4>2, <4>3 DEF InClientOrder
      <4>5. l[k].req.id \in Nat
        BY <1>4, <4>2
      <4>. QED BY <3>5, <3>6, <4>1, <4>4, <4>5
    <3>8. Max(ids) = x
      <4>1. PICK y : y = Max(ids)
        OBVIOUS
      <4>2. ids \subseteq Nat /\ ids # {} /\ \A i \in ids : i <= x
        BY <3>6, <3>7
      <4>3. y \in ids /\ \A i \in ids : i <= y
        BY <3>6, <4>1, <4>2, MaxOfNat
      <4>4. y \in Nat /\ y <= x /\ x <= y
        BY <3>6, <3>7, <4>3
      <4>5. y = x
        BY <3>6, <4>4
      <4>. QED BY <4>1, <4>5
    <3>9. PICK e : e = UpdateClientTable(table, qs)[c]
      OBVIOUS
    <3>10. e.lastReqId = x /\ e.replied = FALSE
      <4>1. x > table[c].lastReqId
        BY <1>5, <3>6
      <4>2. e = [NewClient EXCEPT !.lastReqId = x]
        BY <2>1, <3>6, <3>8, <3>9, <4>1
      <4>. QED BY <4>2 DEF NewClient
    <3>11. \A k \in 1 .. last : Newest(l, last, c, k) => k = K
      BY <3>3 DEF Newest
    <3>12. ~ (K <= done)
      BY <3>4
    <3>13. Tells(l, done, last, c, e)
      BY <3>3, <3>4, <3>5, <3>10, <3>11, <3>12 DEF Tells
    <3>. QED BY <3>9, <3>13
  <2>. QED BY <2>4, <2>5
<1>. QED BY <1>6, <1>8 DEF TableTells

\* What is told of a log is told of a log with the same operations.
LEMMA TellsSame ==
    ASSUME NEW l, NEW m, NEW n \in Nat, \A k \in 1 .. n : m[k] = l[k],
           NEW done, NEW table, TableTells(l, done, n, table)
    PROVE  TableTells(m, done, n, table)
<1>1. \A c, k : Newest(m, n, c, k) => Newest(l, n, c, k)
  BY DEF Newest
<1>. QED BY <1>1 DEF TableTells, Tells

-------------------------------------------------------------------------------
(* What the shared functions make of a sound state                         *)

\* t is s, but for the client addresses, the acknowledgements, the
\* state-transfer request, the queue, and timers other than the leader's.
SameSession(s, t) ==
    /\ t.log = s.log /\ t.lastOp = s.lastOp /\ t.lastCommitted = s.lastCommitted
    /\ t.clientTable = s.clientTable /\ t.lastBatchEnd = s.lastBatchEnd
    /\ t.lastPrepare = s.lastPrepare /\ t.pending = s.pending /\ t.work = s.work
    /\ t.aborted = s.aborted
    /\ t.timers \cap LeaderTimers = s.timers \cap LeaderTimers

\* Such a change keeps a state sound.
LEMMA SoundSame ==
    ASSUME NEW r, NEW s, NEW t, SoundState(r, s), SameSession(s, t)
    PROVE  SoundState(r, t)
<1>1. /\ "resendPrepare" \in t.timers <=> "resendPrepare" \in s.timers
      /\ "closeBatch" \in t.timers <=> "closeBatch" \in s.timers
  BY DEF SameSession, LeaderTimers
<1>2. TableMatches(t) /\ ~t.aborted /\ KeptBatches(t)
  BY <1>1 DEF SoundState, SameSession, TableMatches, KeptBatches
<1>3. r = Leader => LeaderBatches(t)
  BY <1>1 DEF SoundState, SameSession, LeaderBatches
<1>4. r # Leader => t.timers \cap LeaderTimers = {}
  BY DEF SoundState, SameSession
<1>. QED BY <1>2, <1>3, <1>4 DEF SoundState

\* Hearing from the leader, asking for a state transfer, a client's address, an
\* acknowledgement and the queue are such changes.
LEMMA SessionKept ==
    ASSUME NEW s \in ReplicaStates
    PROVE  /\ SameSession(s, s)
           /\ SameSession(s, Heard(s)) /\ SameSession(s, RequestStateTransfer(s))
           /\ \A x : SameSession(s, [s EXCEPT !.lastTransfer = x])
           /\ \A oks : SameSession(s, [s EXCEPT !.prepareOKs = oks])
           /\ \A cs : SameSession(s, [s EXCEPT !.addresses = cs,
                                               !.timers = s.timers \cup {"bgRepl"}])
           /\ \A qs : /\ SameSession(s, [s EXCEPT !.queue = qs])
                     /\ SameSession(s, [s EXCEPT !.queue = qs,
                                                 !.timers = s.timers \cup {"bgRepl"}])
<1>1. SameSession(s, s) /\ SameSession(s, RequestStateTransfer(s))
  BY DEF SameSession, RequestStateTransfer, ReplicaStates
<1>2. SameSession(s, Heard(s))
  <2>. DEFINE ts == s.timers \cup {"viewChange"}
  <2>1. ts \cap LeaderTimers = s.timers \cap LeaderTimers
    BY DEF LeaderTimers
  <2>2. Heard(s) = [s EXCEPT !.timers = ts]
    BY DEF Heard, ReplicaStates
  <2>. HIDE DEF ts
  <2>. QED BY <2>1, <2>2 DEF SameSession, ReplicaStates
<1>3. ASSUME NEW x
      PROVE  SameSession(s, [s EXCEPT !.lastTransfer = x])
  BY DEF SameSession, ReplicaStates
<1>4. ASSUME NEW x
      PROVE  SameSession(s, [s EXCEPT !.prepareOKs = x])
  BY DEF SameSession, ReplicaStates
<1>5. ASSUME NEW cs
      PROVE  SameSession(s, [s EXCEPT !.addresses = cs, !.timers = s.timers \cup {"bgRepl"}])
  <2>. DEFINE ts == s.timers \cup {"bgRepl"}
  <2>1. ts \cap LeaderTimers = s.timers \cap LeaderTimers
    BY DEF LeaderTimers
  <2>. HIDE DEF ts
  <2>2. SameSession(s, [s EXCEPT !.addresses = cs, !.timers = ts])
    BY <2>1 DEF SameSession, ReplicaStates
  <2>. QED BY <2>2 DEF ts
<1>6. ASSUME NEW qs
      PROVE  SameSession(s, [s EXCEPT !.queue = qs])
  BY DEF SameSession, ReplicaStates
<1>7. ASSUME NEW qs
      PROVE  SameSession(s, [s EXCEPT !.queue = qs, !.timers = s.timers \cup {"bgRepl"}])
  <2>. DEFINE ts == s.timers \cup {"bgRepl"}
  <2>1. ts \cap LeaderTimers = s.timers \cap LeaderTimers
    BY DEF LeaderTimers
  <2>. HIDE DEF ts
  <2>2. SameSession(s, [s EXCEPT !.queue = qs, !.timers = ts])
    BY <2>1 DEF SameSession, ReplicaStates
  <2>. QED BY <2>2 DEF ts
<1>. QED BY <1>1, <1>2, <1>3, <1>4, <1>5, <1>6, <1>7

\* OrderedState speaks of the client order of the log.
LEMMA OrderedLog ==
    ASSUME NEW s, OrderedState(s)
    PROVE  InClientOrder(s.log)
BY DEF OrderedState, InClientOrder

\* A log that another one continues is in client order if that one is.
LEMMA OrderedPrefix ==
    ASSUME NEW l \in Seq(Entries), NEW m \in Seq(Entries), Grows(l, m), InClientOrder(m)
    PROVE  InClientOrder(l)
<1>1. Len(l) \in Nat /\ Len(m) \in Nat /\ \A k \in 1 .. Len(l) : k \in 1 .. Len(m)
  BY DEF Grows
<1>. QED BY <1>1 DEF Grows, InClientOrder

\* The leader orders a request that is newer than its table says: the request is
\* in log and table, and everything else is as it was.
LEMMA AppendSound ==
    ASSUME NEW s \in ReplicaStates, s.lastOp = Len(s.log), s.lastCommitted <= s.lastOp,
           OrderedState(s), TableMatches(s),
           NEW q \in Requests, LastId(s, q.client) < q.id
    PROVE  LET t == AppendRequest(s, q)
           IN  /\ t \in ReplicaStates /\ SameButAppended(s, t) /\ TableMatches(t)
               /\ t.log = Append(s.log, [view |-> s.view, req |-> q])
               /\ t.lastOp = s.lastOp + 1 /\ t.lastOp = Len(t.log)
               /\ t.timers = s.timers \cup {"nullCommit"} /\ t.aborted = s.aborted
<1>. DEFINE e     == [view |-> s.view, req |-> q]
            l     == Append(s.log, e)
            n     == s.lastOp
            o     == s.lastOp + 1
            table == UpdateClientTable(s.clientTable, <<q>>)
            ts    == s.timers \cup {"nullCommit"}
            t     == AppendRequest(s, q)
<1>1. /\ s.log \in Seq(Entries) /\ s.clientTable \in Tables /\ n \in Nat
      /\ s.lastCommitted \in Nat /\ s.view \in Views
  BY StateFields DEF Views
<1>2. t \in ReplicaStates /\ SameButAppended(s, t)
  BY AppendRequestType
<1>3. e \in Entries
  BY <1>1 DEF Entries
<1>4. t = [s EXCEPT !.log = l, !.lastOp = o, !.clientTable = table, !.timers = ts]
  BY DEF AppendRequest
<1>. HIDE DEF t, ts, table, e
<1>5. /\ l \in Seq(Entries) /\ Len(l) = n + 1 /\ l[n + 1] = e
      /\ \A k \in 1 .. n : l[k] = s.log[k]
  BY <1>1, <1>3
<1>. HIDE DEF l
<1>6. /\ t.log = l /\ t.lastOp = o /\ t.clientTable = table /\ t.timers = ts
      /\ t.aborted = s.aborted /\ t.lastCommitted = s.lastCommitted
  BY <1>4 DEF ReplicaStates
<1>7. TableMatches(t)
  <2>1. InClientOrder(l)
    <3>1. Keeps(s, t) \/ Orders(s, t, q)
      BY RequestOrder DEF t
    <3>2. t.log # s.log
      BY <1>1, <1>5, <1>6
    <3>3. Orders(s, t, q)
      BY <3>1, <3>2 DEF Keeps
    <3>4. TableGrows(s, t) /\ q.id <= LastId(t, q.client) /\ e.req = q
      BY <3>3 DEF Orders, e
    <3>5. t.log = Append(s.log, e)
      BY <1>6 DEF l
    <3>6. OrderedState(t)
      BY <1>2, <1>3, <3>4, <3>5, OrderAppended
    <3>. QED BY <1>6, <3>6, OrderedLog
  <2>2. RequestsAt(l, n + 1, n + 1) = <<q>>
    <3>1. RequestsAt(l, n + 1, n + 1) = [k \in 1 .. 1 |-> q]
      <4>1. (n + 1) + 1 - (n + 1) = 1
        BY <1>1
      <4>2. \A k \in 1 .. 1 : l[(n + 1) + k - 1].req = q
        BY <1>1, <1>5 DEF e
      <4>. QED BY <4>1, <4>2 DEF RequestsAt
    <3>. QED BY <3>1
  <2>3. TableTells(l, s.lastCommitted, n, s.clientTable)
    <3>1. TableTells(s.log, s.lastCommitted, n, s.clientTable)
      BY DEF TableMatches
    <3>. QED BY <1>1, <1>5, <3>1, TellsSame
  <2>4. TableTells(l, s.lastCommitted, n + 1, UpdateClientTable(s.clientTable, <<q>>))
    <3>1. /\ n + 1 \in Nat \ {0} /\ n <= n + 1 /\ n + 1 <= n + 1 /\ s.lastCommitted < n + 1
          /\ n + 1 <= Len(l) /\ n <= Len(l) /\ s.lastCommitted <= n
      BY <1>1, <1>5
    <3>2. PICK h : h = n + 1
      OBVIOUS
    <3>3. TableTells(l, s.lastCommitted, h,
                     UpdateClientTable(s.clientTable, RequestsAt(l, h, h)))
      BY <1>1, <1>5, <2>1, <2>3, <3>1, <3>2, UpdatedTells
    <3>. QED BY <2>2, <3>2, <3>3
  <2>. QED BY <1>6, <2>4 DEF TableMatches, table
<1>. QED BY <1>2, <1>5, <1>6, <1>7 DEF t, ts, l, e

\* CommitUpTo, within the log, stores the replies; the table may lag behind the
\* log, by what a log dump brought.
LEMMA CommitSound ==
    ASSUME NEW s \in ReplicaStates, InClientOrder(s.log), NEW n \in Nat,
           s.lastCommitted <= n, n <= Len(s.log), ~s.aborted,
           TableTells(s.log, s.lastCommitted, n, s.clientTable),
           NEW upto \in Nat, upto <= Len(s.log)
    PROVE  LET t == CommitUpTo(s, upto)
               p == IF upto <= s.lastCommitted THEN s.lastCommitted ELSE upto
           IN  /\ t \in ReplicaStates /\ SameButCommitted(s, t) /\ ~t.aborted
               /\ t.lastCommitted = p
               /\ TableTells(t.log, p, IF p <= n THEN n ELSE p, t.clientTable)
<1>. DEFINE t == CommitUpTo(s, upto)
<1>1. /\ s.lastCommitted \in Nat /\ Len(s.log) \in Nat /\ s.lastCommitted <= Len(s.log)
      /\ s.log \in Seq(Entries)
  <2>1. s.lastCommitted \in Nat /\ Len(s.log) \in Nat /\ s.log \in Seq(Entries)
    BY StateFields
  <2>. QED BY <2>1
<1>2. t \in ReplicaStates /\ SameButCommitted(s, t)
  BY <1>1, CommitUpToType
<1>3. CASE upto <= s.lastCommitted
  BY <1>2, <1>3 DEF CommitUpTo
<1>4. CASE ~ (upto <= s.lastCommitted)
  <2>. DEFINE table == StoreReplies(s, CommittedOps(s, upto))
              point == CommitPoint(s, upto)
              fail  == upto > Len(s.log)
  <2>1. point = upto /\ fail = FALSE
    BY <1>1, MinOfTwo DEF CommitPoint
  <2>2. t = [s EXCEPT !.lastCommitted = point, !.clientTable = table, !.aborted = fail]
    BY <1>4 DEF CommitUpTo
  <2>3. table = StoreReplies(s, s.lastCommitted + 1 .. upto)
    BY <2>1 DEF CommittedOps, CommitPoint
  <2>4. PICK m \in Nat : m = IF upto <= n THEN n ELSE upto
    OBVIOUS
  <2>5. TableTells(s.log, upto, m, StoreReplies(s, s.lastCommitted + 1 .. upto))
    BY <1>1, <1>4, <2>4, StoredTells
  <2>. HIDE DEF table, point, fail, t
  <2>6. t.lastCommitted = upto /\ t.clientTable = table /\ t.aborted = FALSE /\ t.log = s.log
    BY <2>1, <2>2 DEF ReplicaStates
  <2>. QED BY <1>2, <1>4, <2>3, <2>4, <2>5, <2>6 DEF t
<1>. QED BY <1>3, <1>4

\* CloseBatch of an open batch of a leader.
LEMMA CloseSound ==
    ASSUME NEW s \in ReplicaStates, NEW r, CanCloseBatch(s, r)
    PROVE  LET t == CloseBatch(s, r)
           IN  /\ t.log = s.log /\ t.lastOp = s.lastOp /\ t.lastCommitted = s.lastCommitted
               /\ t.clientTable = s.clientTable /\ t.lastBatchEnd = s.lastOp
               /\ t.lastPrepare = OpenBatch(s) /\ t.pending = s.pending
               /\ t.work = s.work /\ t.queue = s.queue /\ t.aborted = s.aborted
               /\ t.timers = (s.timers \cup {"resendPrepare"}) \ {"closeBatch"}
<1>. DEFINE b    == OpenBatch(s)
            done == FALSE
            ts   == (s.timers \cup {"resendPrepare"}) \ {"closeBatch"}
<1>1. CloseBatch(s, r) = [s EXCEPT !.lastPrepare = b, !.lastBatchEnd = s.lastOp,
                                   !.batchComplete = done, !.timers = ts]
  BY DEF CloseBatch
<1>. HIDE DEF b, done, ts
<1>2. /\ CloseBatch(s, r).log = s.log /\ CloseBatch(s, r).lastOp = s.lastOp
      /\ CloseBatch(s, r).lastCommitted = s.lastCommitted
      /\ CloseBatch(s, r).clientTable = s.clientTable
      /\ CloseBatch(s, r).lastBatchEnd = s.lastOp /\ CloseBatch(s, r).lastPrepare = b
      /\ CloseBatch(s, r).pending = s.pending /\ CloseBatch(s, r).work = s.work
      /\ CloseBatch(s, r).queue = s.queue /\ CloseBatch(s, r).aborted = s.aborted
      /\ CloseBatch(s, r).timers = ts
  BY <1>1 DEF ReplicaStates
<1>. QED BY <1>2 DEF b, ts

-------------------------------------------------------------------------------
(* One step                                                                *)

\* Every replica is sound, every message can be received, every reply is true.
SessionInv ==
    /\ \A r \in Replicas : SoundState(r, rep[r])
    /\ \A m \in msgs : Receivable(m)
    /\ \A m \in replies : TrueReply(m, rep[m.from])

\* What replica r may send when it becomes t.
SentFit(m, r, t) ==
    /\ m.type = "Prepare" => m.to # Leader /\ HasRequests(m.batch)
    /\ m.type = "Commit" => m.to # Leader
    /\ m.type = "RequestStateTransfer" => m.from = r /\ m.opnum <= t.lastCommitted
    /\ m.type = "StateTransfer" => /\ m.first <= rep[m.to].lastCommitted + 1
                                   /\ m.opnum <= LastEntry(m)

\* A replica that becomes a sound state, sends what it may and gives true replies
\* keeps the invariant.
LEMMA SessionChange ==
    ASSUME Inv, SessionInv, GoodStep, NEW r \in Replicas, NEW t,
           Become(r, t), SoundState(r, t),
           NEW sent, msgs' \subseteq msgs \cup sent, \A m \in sent : SentFit(m, r, t),
           NEW told, replies' \subseteq replies \cup told,
           \A m \in told : m.from = r /\ TrueReply(m, t)
    PROVE  SessionInv'
<1>1. /\ rep \in [Replicas -> ReplicaStates] /\ rep' \in [Replicas -> ReplicaStates]
      /\ msgs \subseteq Messages /\ msgs' \subseteq Messages /\ replies \subseteq ReplyMessages
  BY DEF Inv, TypeOK, GoodStep
<1>2. rep'[r] = t /\ \A p \in Replicas \ {r} : rep'[p] = rep[p]
  BY <1>1 DEF Become
<1>3. \A p \in Replicas : /\ rep[p].lastCommitted \in Nat /\ rep'[p].lastCommitted \in Nat
                          /\ rep[p].lastCommitted <= rep'[p].lastCommitted
                          /\ rep[p].lastCommitted <= Len(rep[p].log)
                          /\ Len(rep[p].log) \in Nat
                          /\ Grows(rep[p].log, rep'[p].log)
  <2>. TAKE p \in Replicas
  <2>1. rep[p] \in ReplicaStates /\ rep'[p] \in ReplicaStates
    BY <1>1
  <2>2. rep[p].lastCommitted \in Nat /\ rep'[p].lastCommitted \in Nat /\ Len(rep[p].log) \in Nat
    BY <2>1, StateFields
  <2>. QED BY <2>2, GoodNow, GoodBounds DEF GoodStep
<1>4. \A p \in Replicas : SoundState(p, rep[p])'
  <2>1. SoundState(r, t) /\ \A p \in Replicas \ {r} : SoundState(p, rep[p])
    BY DEF SessionInv
  <2>2. \A p \in Replicas : SoundState(p, rep'[p])
    BY <1>2, <2>1
  <2>. QED BY <2>2 DEF SoundState, Leader, LeaderBatches, KeptBatches
<1>5. ASSUME NEW m \in msgs'
      PROVE  Receivable(m)'
  <2>1. m \in Messages /\ (m \in msgs \/ m \in sent)
    BY <1>1
  <2>2. CASE m \in msgs
    <3>1. Receivable(m)
      BY <2>2 DEF SessionInv
    <3>2. /\ m.type = "RequestStateTransfer" => m.from \in Replicas /\ m.opnum \in Nat
          /\ m.type = "StateTransfer" => m.to \in Replicas /\ m.first \in Nat
      BY <2>1 DEF Messages
    <3>3. m.type = "RequestStateTransfer" => m.opnum <= rep'[m.from].lastCommitted
      <4>. SUFFICES ASSUME m.type = "RequestStateTransfer"
                    PROVE  m.opnum <= rep'[m.from].lastCommitted
        OBVIOUS
      <4>. QED BY <1>3, <3>1, <3>2 DEF Receivable
    <3>4. m.type = "StateTransfer" => m.first <= rep'[m.to].lastCommitted + 1
      <4>. SUFFICES ASSUME m.type = "StateTransfer"
                    PROVE  m.first <= rep'[m.to].lastCommitted + 1
        OBVIOUS
      <4>. QED BY <1>3, <3>1, <3>2 DEF Receivable
    <3>. QED BY <3>1, <3>3, <3>4 DEF Receivable, Leader
  <2>3. CASE m \in sent
    <3>1. SentFit(m, r, t)
      BY <2>3
    <3>2. m.type = "StateTransfer" => m.to \in Replicas /\ m.first \in Nat
      BY <2>1 DEF Messages
    <3>3. m.type = "StateTransfer" => m.first <= rep'[m.to].lastCommitted + 1
      <4>. SUFFICES ASSUME m.type = "StateTransfer"
                    PROVE  m.first <= rep'[m.to].lastCommitted + 1
        OBVIOUS
      <4>. QED BY <1>3, <3>1, <3>2 DEF SentFit
    <3>. QED BY <1>2, <3>1, <3>3 DEF SentFit, Receivable, Leader
  <2>. QED BY <2>1, <2>2, <2>3
<1>6. ASSUME NEW m \in replies'
      PROVE  TrueReply(m, rep[m.from])'
  <2>1. CASE m \in replies
    <3>1. m.from \in Replicas /\ TrueReply(m, rep[m.from])
      BY <1>1, <2>1 DEF SessionInv, ReplyMessages
    <3>2. PICK p \in Replicas : p = m.from
      BY <3>1
    <3>3. /\ m.opnum \in 1 .. rep[p].lastCommitted
          /\ rep[p].log[m.opnum] = [view |-> m.view, req |-> m.req]
      BY <3>1, <3>2 DEF TrueReply
    <3>4. m.opnum \in 1 .. Len(rep[p].log) /\ m.opnum \in 1 .. rep'[p].lastCommitted
      BY <1>3, <3>3
    <3>5. rep'[p].log[m.opnum] = rep[p].log[m.opnum]
      BY <1>3, <3>4 DEF Grows
    <3>6. TrueReply(m, rep'[p])
      BY <3>3, <3>4, <3>5 DEF TrueReply
    <3>. QED BY <3>2, <3>6 DEF TrueReply
  <2>2. CASE m \in told
    <3>1. m.from = r /\ TrueReply(m, t)
      BY <2>2
    <3>. QED BY <1>2, <3>1 DEF TrueReply
  <2>. QED BY <2>1, <2>2
<1>. QED BY <1>4, <1>5, <1>6 DEF SessionInv

\* A step that gives no reply.
LEMMA SessionQuiet ==
    ASSUME Inv, SessionInv, GoodStep, NEW r \in Replicas, NEW t,
           Become(r, t), SoundState(r, t), UNCHANGED replies,
           NEW gone, NEW sent, Network(gone, sent), \A m \in sent : SentFit(m, r, t)
    PROVE  SessionInv'
<1>1. PICK told : told = {}
  OBVIOUS
<1>2. /\ msgs' \subseteq msgs \cup sent /\ replies' \subseteq replies \cup told
      /\ \A m \in told : m.from = r /\ TrueReply(m, t)
  BY <1>1 DEF Network
<1>. QED BY <1>2, SessionChange

\* A step that gives no reply and sends nothing.
LEMMA SessionSilent ==
    ASSUME Inv, SessionInv, GoodStep, NEW r \in Replicas, NEW t,
           Become(r, t), SoundState(r, t), UNCHANGED replies, msgs' \subseteq msgs
    PROVE  SessionInv'
<1>1. PICK none : none = {}
  OBVIOUS
<1>2. /\ msgs' \subseteq msgs \cup none /\ replies' \subseteq replies \cup none
      /\ \A m \in none : SentFit(m, r, t) /\ m.from = r /\ TrueReply(m, t)
  BY <1>1
<1>. QED BY <1>2, SessionChange

\* A step that only sends.
LEMMA SessionSend ==
    ASSUME Inv, SessionInv, GoodStep, NEW r \in Replicas, UNCHANGED <<rep, replies>>,
           NEW gone, NEW sent, Network(gone, sent), \A m \in sent : SentFit(m, r, rep[r])
    PROVE  SessionInv'
<1>1. Become(r, rep[r]) /\ SoundState(r, rep[r])
  BY DEF Inv, TypeOK, Become, SessionInv
<1>. QED BY <1>1, SessionQuiet

\* A replica's own state, and the messages it may always send.
LEMMA SessionNow ==
    ASSUME Inv, SessionInv, NEW r \in Replicas
    PROVE  /\ rep[r] \in ReplicaStates /\ SoundState(r, rep[r])
           /\ r = Leader => /\ \A t : \A m \in CommitMessages(rep[r], r) : SentFit(m, r, t)
                            /\ \A b : HasRequests(b) =>
                                   \A t : \A m \in PrepareMessages(r, b) : SentFit(m, r, t)
           /\ \A s, t : /\ s.lastCommitted \in Nat /\ t.lastCommitted = s.lastCommitted
                        => \A m \in StateTransferRequests(s, r) : SentFit(m, r, t)
           /\ \A s, k, t : SentFit(PrepareOK(s, r, k), r, t)
<1>1. rep[r] \in ReplicaStates /\ SoundState(r, rep[r])
  BY GoodNow DEF SessionInv
<1>2. ASSUME r = Leader, NEW s, NEW t
      PROVE  \A m \in CommitMessages(s, r) : SentFit(m, r, t)
  BY <1>2 DEF CommitMessages, SentFit
<1>3. ASSUME r = Leader, NEW b, HasRequests(b), NEW t
      PROVE  \A m \in PrepareMessages(r, b) : SentFit(m, r, t)
  BY <1>3 DEF PrepareMessages, SentFit
<1>4. ASSUME NEW s, NEW t, s.lastCommitted \in Nat, t.lastCommitted = s.lastCommitted
      PROVE  \A m \in StateTransferRequests(s, r) : SentFit(m, r, t)
  BY <1>4 DEF StateTransferRequests, SentFit
<1>5. \A s, k, t : SentFit(PrepareOK(s, r, k), r, t)
  BY DEF PrepareOK, SentFit
<1>. QED BY <1>1, <1>2, <1>3, <1>4, <1>5

-------------------------------------------------------------------------------
(* The actions of the leader                                               *)

\* The leader can close a batch that has requests, and its ASSERTs hold.
LEMMA ClosedSound ==
    ASSUME NEW s, GoodState(Leader, s), ~s.aborted, TableMatches(s), KeptBatches(s),
           s.work = <<>>, s.lastBatchEnd < s.lastOp
    PROVE  /\ SoundState(Leader, CloseBatch(s, Leader))
           /\ \A t : \A m \in ClosedBatch(s, Leader) : SentFit(m, Leader, t)
<1>. DEFINE t == CloseBatch(s, Leader)
            b == OpenBatch(s)
<1>1. /\ s \in ReplicaStates /\ s.lastBatchEnd \in Nat /\ s.lastOp \in Nat
      /\ s.lastCommitted \in Nat /\ s.lastOp = Len(s.log) /\ s.view = 0
      /\ AmLeader(s, Leader)
      /\ \A k \in 1 .. Len(s.log) : s.log[k].view = 0
  <2>1. FollowsLog(s, s.log) /\ s \in ReplicaStates
    BY DEF GoodState, NewLog
  <2>. QED BY <2>1, LeaderIsReplica, GoodBounds, StateFields DEF FollowsLog
<1>2. CanCloseBatch(s, Leader)
  <2>1. \A k \in s.lastBatchEnd + 1 .. s.lastOp : k \in 1 .. Len(s.log)
    BY <1>1
  <2>2. s.lastOp <= Len(s.log)
    BY <1>1
  <2>. QED BY <1>1, <2>1, <2>2 DEF CanCloseBatch
<1>3. /\ t.log = s.log /\ t.lastOp = s.lastOp /\ t.lastCommitted = s.lastCommitted
      /\ t.clientTable = s.clientTable /\ t.lastBatchEnd = s.lastOp
      /\ t.lastPrepare = b /\ t.pending = s.pending
      /\ t.work = s.work /\ t.aborted = s.aborted
      /\ t.timers = (s.timers \cup {"resendPrepare"}) \ {"closeBatch"}
  BY <1>1, <1>2, CloseSound
<1>4. HasRequests(b) /\ b.opnum = s.lastOp
  BY <1>1 DEF OpenBatch, HasRequests
<1>5. ClosedBatch(s, Leader) = PrepareMessages(Leader, b)
  BY <1>2 DEF ClosedBatch
<1>. HIDE DEF t, b
<1>6. SoundState(Leader, t)
  <2>1. TableMatches(t) /\ KeptBatches(t)
    BY <1>3, <1>4 DEF TableMatches, KeptBatches
  <2>2. LeaderBatches(t)
    <3>1. t.lastBatchEnd <= t.lastOp /\ ~ (t.lastBatchEnd < t.lastOp)
      BY <1>1, <1>3
    <3>2. "closeBatch" \notin t.timers /\ "resendPrepare" \in t.timers
      BY <1>3
    <3>. QED BY <1>3, <1>4, <3>1, <3>2 DEF LeaderBatches
  <2>. QED BY <1>3, <2>1, <2>2 DEF SoundState
<1>7. ASSUME NEW u, NEW m \in ClosedBatch(s, Leader)
      PROVE  SentFit(m, Leader, u)
  BY <1>4, <1>5 DEF PrepareMessages, SentFit
<1>. QED BY <1>6, <1>7 DEF t

\* A request is ordered, and its batch closed or left open.
LEMMA OrderedSound ==
    ASSUME Inv, NEW s, GoodState(Leader, s), SoundState(Leader, s), OrderedState(s),
           NEW q \in Requests, LastId(s, q.client) < q.id
    PROVE  LET t == AppendRequest(s, q)
           IN  /\ SoundState(Leader, CloseBatch(t, Leader))
               /\ \A u : \A m \in ClosedBatch(t, Leader) : SentFit(m, Leader, u)
               /\ SoundState(Leader, KeepInBatch(t))
<1>. DEFINE t == AppendRequest(s, q)
            k == KeepInBatch(t)
<1>1. /\ s \in ReplicaStates /\ s.lastOp = Len(s.log) /\ s.lastCommitted <= s.lastOp
      /\ s.lastBatchEnd \in Nat /\ s.lastOp \in Nat
  BY LeaderIsReplica, GoodBounds, StateFields
<1>2. TableMatches(s) /\ KeptBatches(s) /\ LeaderBatches(s) /\ ~s.aborted
  BY DEF SoundState
<1>3. /\ t \in ReplicaStates /\ SameButAppended(s, t) /\ TableMatches(t)
      /\ t.lastOp = s.lastOp + 1
      /\ t.timers = s.timers \cup {"nullCommit"} /\ t.aborted = s.aborted
  BY <1>1, <1>2, AppendSound
<1>4. GoodState(Leader, t)
  BY LeaderIsReplica, GoodAppendRequest
<1>. HIDE DEF t
<1>5. ~t.aborted /\ KeptBatches(t) /\ t.work = <<>> /\ t.lastBatchEnd < t.lastOp
  <2>1. s.lastBatchEnd <= s.lastOp /\ s.work = <<>>
    BY <1>2 DEF LeaderBatches
  <2>2. t.lastBatchEnd < t.lastOp
    BY <1>1, <1>3, <2>1 DEF SameButAppended
  <2>. QED BY <1>2, <1>3, <2>1, <2>2 DEF SameButAppended, KeptBatches
<1>6. SoundState(Leader, k)
  <2>. DEFINE ts == t.timers \cup {"closeBatch"}
  <2>1. k = [t EXCEPT !.timers = ts]
    BY <1>3 DEF KeepInBatch, ReplicaStates
  <2>2. /\ "closeBatch" \in ts /\ ("resendPrepare" \in ts <=> "resendPrepare" \in s.timers)
        /\ "resendPrepare" \in t.timers <=> "resendPrepare" \in s.timers
    BY <1>3
  <2>. HIDE DEF k, ts
  <2>3. /\ k.log = t.log /\ k.lastOp = t.lastOp /\ k.lastCommitted = t.lastCommitted
        /\ k.clientTable = t.clientTable /\ k.lastBatchEnd = t.lastBatchEnd
        /\ k.lastPrepare = t.lastPrepare /\ k.pending = t.pending /\ k.work = t.work
        /\ k.aborted = t.aborted /\ k.timers = ts
    BY <1>3, <2>1 DEF ReplicaStates
  <2>4. TableMatches(k) /\ KeptBatches(k) /\ ~k.aborted
    BY <1>3, <1>5, <2>2, <2>3 DEF TableMatches, KeptBatches
  <2>5. s.lastCommitted < s.lastBatchEnd => /\ "resendPrepare" \in s.timers
                                            /\ s.lastPrepare.opnum = s.lastBatchEnd
    BY <1>2 DEF LeaderBatches
  <2>6. k.lastBatchEnd <= k.lastOp /\ k.lastBatchEnd < k.lastOp
    BY <1>1, <1>3, <1>5, <2>3 DEF SameButAppended
  <2>7. LeaderBatches(k)
    BY <1>3, <1>5, <2>2, <2>3, <2>5, <2>6 DEF LeaderBatches, SameButAppended
  <2>. QED BY <2>4, <2>7 DEF SoundState
<1>. HIDE DEF k
<1>7. /\ SoundState(Leader, CloseBatch(t, Leader))
      /\ \A u : \A m \in ClosedBatch(t, Leader) : SentFit(m, Leader, u)
  BY <1>3, <1>4, <1>5, ClosedSound
<1>. QED BY <1>6, <1>7 DEF t, k

\* A client and a position in its trace name one request.
LEMMA SameRequest ==
    ASSUME NEW p \in Requests, NEW q \in Requests, p.client = q.client, p.id = q.id
    PROVE  p = q
BY DEF Requests

\* The reply stored for a client's newest request tells of its operation.
LEMMA StoredReplyTrue ==
    ASSUME NEW s \in ReplicaStates, s.lastOp = Len(s.log), TableMatches(s),
           NEW q \in Requests, q.id = LastId(s, q.client), s.clientTable[q.client].replied
    PROVE  LET seen == s.clientTable[q.client]
           IN  /\ seen.opnum \in 1 .. s.lastCommitted
               /\ s.log[seen.opnum] = [view |-> seen.view, req |-> q]
<1>. DEFINE c    == q.client
            l    == s.log
            n    == s.lastOp
            done == s.lastCommitted
            seen == s.clientTable[c]
<1>1. l \in Seq(Entries) /\ n = Len(l) /\ n \in Nat /\ done \in Nat /\ c \in Clients
  BY StateFields, RequestFields
<1>2. Tells(l, done, n, c, seen)
  BY <1>1 DEF TableMatches, TableTells
<1>3. seen.replied /\ seen.lastReqId = q.id
  BY DEF LastId
<1>4. NewClient.replied = FALSE
  BY DEF NewClient
<1>. HIDE DEF l, n, done, seen
<1>5. PICK j \in 1 .. n : l[j].req.client = c
  BY <1>2, <1>3, <1>4 DEF Tells
<1>6. PICK k \in 1 .. n : Newest(l, n, c, k)
  BY <1>1, <1>5, NewestExists
<1>7. seen.lastReqId = l[k].req.id /\ k <= done /\ seen.opnum = k /\ seen.view = l[k].view
  BY <1>2, <1>3, <1>6 DEF Tells
<1>8. l[k] \in Entries /\ l[k].req \in Requests /\ l[k].req.client = c
  BY <1>1, <1>6, EntryTypes DEF Newest
<1>9. l[k].req = q
  BY <1>3, <1>7, <1>8, SameRequest
<1>10. l[k] = [view |-> l[k].view, req |-> l[k].req]
  BY <1>8 DEF Entries
<1>11. k \in 1 .. done
  BY <1>1, <1>7
<1>. QED BY <1>7, <1>9, <1>10, <1>11 DEF l, done, seen

\* Requests wait in the queue, are dropped, are answered again or are ordered.
LEMMA SessionOrder ==
    ASSUME Inv, OrderInv, SessionInv, GoodStep, NEW r \in Replicas,
           \/ \E q \in Requests : AddToQueue(r, q) \/ HandleRequest(r, q)
           \/ BgRepl(r)
    PROVE  SessionInv'
<1>1. /\ rep[r] \in ReplicaStates /\ SoundState(r, rep[r]) /\ GoodState(r, rep[r])
      /\ AmLeader(rep[r], r) <=> r = Leader
  BY GoodNow, GoodBounds DEF SessionInv
<1>2. ASSUME NEW s, SameLog(rep[r], s), SameSession(rep[r], s), s \in ReplicaStates,
             s.timers = rep[r].timers \cup {"bgRepl"}
      PROVE  /\ GoodState(r, s) /\ SoundState(r, s) /\ (r = Leader => OrderedState(s))
  <2>1. "resendPrepare" \in s.timers => "resendPrepare" \in rep[r].timers
    BY <1>2
  <2>2. GoodState(r, s)
    BY <1>1, <1>2, <2>1, GoodSmall
  <2>3. SoundState(r, s)
    BY <1>1, <1>2, SoundSame
  <2>4. r = Leader => OrderedState(s)
    BY <1>2 DEF OrderInv, OrderedState, LastId, SameSession
  <2>. QED BY <2>2, <2>3, <2>4
<1>3. ASSUME r = Leader, NEW s, GoodState(r, s), SoundState(r, s), OrderedState(s),
             NEW q \in Requests, LastId(s, q.client) < q.id, UNCHANGED replies,
             \/ /\ Become(r, CloseBatch(AppendRequest(s, q), r))
                /\ Network({}, ClosedBatch(AppendRequest(s, q), r))
             \/ Become(r, KeepInBatch(AppendRequest(s, q))) /\ UNCHANGED msgs
      PROVE  SessionInv'
  <2>. DEFINE t == AppendRequest(s, q)
  <2>1. /\ SoundState(r, CloseBatch(t, r))
        /\ \A m \in ClosedBatch(t, r) : SentFit(m, r, CloseBatch(t, r))
        /\ SoundState(r, KeepInBatch(t))
    BY <1>3, OrderedSound
  <2>. HIDE DEF t
  <2>2. CASE Become(r, CloseBatch(t, r)) /\ Network({}, ClosedBatch(t, r))
    BY <1>3, <2>1, <2>2, SessionQuiet
  <2>3. CASE Become(r, KeepInBatch(t)) /\ UNCHANGED msgs
    BY <1>3, <2>1, <2>3, SessionSilent
  <2>. QED BY <1>3, <2>2, <2>3 DEF t
<1>4. ASSUME NEW q \in Requests, AddToQueue(r, q)
      PROVE  SessionInv'
  <2>. DEFINE qs == Append(rep[r].queue, q)
              s  == [rep[r] EXCEPT !.queue = qs]
  <2>1. Become(r, s) /\ UNCHANGED <<msgs, replies>>
    BY <1>4 DEF AddToQueue
  <2>2. SameSession(rep[r], s)
    BY <1>1, SessionKept
  <2>. HIDE DEF qs, s
  <2>3. SoundState(r, s)
    BY <1>1, <2>2, SoundSame
  <2>. QED BY <2>1, <2>3, SessionSilent
<1>5. ASSUME NEW q \in Requests, HandleRequest(r, q)
      PROVE  SessionInv'
  <2>. DEFINE cs    == rep[r].addresses \cup {q.client}
              ts    == rep[r].timers \cup {"bgRepl"}
              s     == [rep[r] EXCEPT !.addresses = cs, !.timers = ts]
              seen  == s.clientTable[q.client]
              reply == [to |-> IF q.kind = "read" THEN "durabilityServer" ELSE "client",
                        from |-> r, req |-> q, view |-> seen.view, opnum |-> seen.opnum]
  <2>1. r = Leader
    BY <1>1, <1>5 DEF HandleRequest
  <2>2. \/ Become(r, s) /\ UNCHANGED <<msgs, replies>>
        \/ /\ q.id = LastId(s, q.client) /\ seen.replied
           /\ Become(r, s) /\ UNCHANGED msgs /\ replies' = replies \cup {reply}
        \/ /\ LastId(s, q.client) < q.id /\ UNCHANGED replies
           /\ \/ /\ Become(r, CloseBatch(AppendRequest(s, q), r))
                 /\ Network({}, ClosedBatch(AppendRequest(s, q), r))
              \/ Become(r, KeepInBatch(AppendRequest(s, q))) /\ UNCHANGED msgs
    BY <1>5 DEF HandleRequest, LastId
  <2>3. SameSession(rep[r], s)
    BY <1>1, SessionKept
  <2>4. cs \in SUBSET Clients /\ ts \in SUBSET Timers
    BY <1>1, StateFields, RequestFields DEF Timers
  <2>5. s = [rep[r] EXCEPT !.addresses = cs, !.timers = ts]
    OBVIOUS
  <2>. HIDE DEF cs, ts, s
  <2>6. s \in ReplicaStates /\ SameLog(rep[r], s) /\ s.timers = ts
    BY <1>1, <2>4, <2>5 DEF SameLog, ReplicaStates
  <2>7. GoodState(r, s) /\ SoundState(r, s) /\ OrderedState(s)
    BY <1>2, <2>1, <2>3, <2>6 DEF ts
  <2>8. CASE Become(r, s) /\ UNCHANGED <<msgs, replies>>
    BY <2>7, <2>8, SessionSilent
  <2>9. CASE /\ q.id = LastId(s, q.client) /\ seen.replied
             /\ Become(r, s) /\ UNCHANGED msgs /\ replies' = replies \cup {reply}
    <3>1. /\ seen.opnum \in 1 .. s.lastCommitted
          /\ s.log[seen.opnum] = [view |-> seen.view, req |-> q]
      BY <2>6, <2>7, <2>9, GoodBounds, StoredReplyTrue DEF SoundState
    <3>. HIDE DEF seen
    <3>2. \A m \in {reply} : m.from = r /\ TrueReply(m, s)
      BY <3>1 DEF TrueReply
    <3>. HIDE DEF reply
    <3>3. PICK none, told : none = {} /\ told = {reply}
      OBVIOUS
    <3>4. /\ msgs' \subseteq msgs \cup none /\ replies' \subseteq replies \cup told
          /\ \A m \in none : SentFit(m, r, s)
          /\ \A m \in told : m.from = r /\ TrueReply(m, s)
      BY <2>9, <3>2, <3>3
    <3>. QED BY <2>7, <2>9, <3>4, SessionChange
  <2>10. CASE /\ LastId(s, q.client) < q.id /\ UNCHANGED replies
              /\ \/ /\ Become(r, CloseBatch(AppendRequest(s, q), r))
                    /\ Network({}, ClosedBatch(AppendRequest(s, q), r))
                 \/ Become(r, KeepInBatch(AppendRequest(s, q))) /\ UNCHANGED msgs
    BY <1>3, <2>1, <2>7, <2>10
  <2>. QED BY <2>2, <2>8, <2>9, <2>10
<1>6. CASE BgRepl(r)
  <2>. DEFINE qs == Tail(rep[r].queue)
              ts == rep[r].timers \cup {"bgRepl"}
              q  == Head(rep[r].queue)
              s  == [rep[r] EXCEPT !.queue = qs, !.timers = ts]
  <2>1. rep[r].queue \in Seq(Requests) /\ rep[r].queue # <<>>
    BY <1>1, <1>6, StateFields DEF BgRepl
  <2>2. q \in Requests /\ qs \in Seq(Requests) /\ ts \in SUBSET Timers
    BY <1>1, <2>1, HeadTailProperties, StateFields DEF Timers
  <2>3. /\ UNCHANGED replies
        /\ \/ Become(r, s) /\ UNCHANGED msgs
           \/ /\ AmLeader(s, r) /\ q.id > LastId(s, q.client)
              /\ \/ /\ Become(r, CloseBatch(AppendRequest(s, q), r))
                    /\ Network({}, ClosedBatch(AppendRequest(s, q), r))
                 \/ Become(r, KeepInBatch(AppendRequest(s, q))) /\ UNCHANGED msgs
    BY <1>6 DEF BgRepl, LastId
  <2>4. SameSession(rep[r], s)
    BY <1>1, SessionKept
  <2>5. s = [rep[r] EXCEPT !.queue = qs, !.timers = ts]
    OBVIOUS
  <2>. HIDE DEF qs, ts, s, q
  <2>6. s \in ReplicaStates /\ SameLog(rep[r], s) /\ s.timers = ts
    BY <1>1, <2>2, <2>5 DEF SameLog, ReplicaStates
  <2>7. GoodState(r, s) /\ SoundState(r, s) /\ (r = Leader => OrderedState(s))
    BY <1>2, <2>4, <2>6 DEF ts
  <2>8. CASE Become(r, s) /\ UNCHANGED msgs
    BY <2>3, <2>7, <2>8, SessionSilent
  <2>9. CASE /\ AmLeader(s, r) /\ q.id > LastId(s, q.client)
             /\ \/ /\ Become(r, CloseBatch(AppendRequest(s, q), r))
                   /\ Network({}, ClosedBatch(AppendRequest(s, q), r))
                \/ Become(r, KeepInBatch(AppendRequest(s, q))) /\ UNCHANGED msgs
    <3>1. r = Leader
      BY <2>7, <2>9, GoodBounds
    <3>2. q.id \in Nat /\ LastId(s, q.client) \in Nat
      BY <2>2, <2>6, RequestFields, OrderTypes
    <3>3. LastId(s, q.client) < q.id
      BY <2>9, <3>2
    <3>. QED BY <1>3, <2>2, <2>3, <2>7, <2>9, <3>1, <3>3
  <2>. QED BY <2>3, <2>8, <2>9
<1>. QED BY <1>4, <1>5, <1>6

\* The leader's timers are the leader's: they close its open batch, resend its
\* last one and send a null commit.
LEMMA SessionTimer ==
    ASSUME Inv, SessionInv, GoodStep, NEW r \in Replicas, Timer(r)
    PROVE  SessionInv'
<1>. DEFINE s == rep[r]
<1>1. /\ s \in ReplicaStates /\ SoundState(r, s) /\ GoodState(r, s)
      /\ AmLeader(s, r) <=> r = Leader
  BY GoodNow, GoodBounds DEF SessionInv
<1>2. s.timers \cap LeaderTimers # {} => r = Leader /\ AmLeader(s, r)
  BY <1>1 DEF SoundState
<1>3. CASE CloseBatchTimeout(r)
  <2>1. /\ "closeBatch" \in s.timers /\ UNCHANGED replies
        /\ Become(r, CloseBatch(s, r)) /\ Network({}, ClosedBatch(s, r))
    BY <1>3 DEF CloseBatchTimeout
  <2>2. r = Leader
    BY <1>2, <2>1 DEF LeaderTimers
  <2>3. /\ ~s.aborted /\ TableMatches(s) /\ KeptBatches(s) /\ s.work = <<>>
        /\ s.lastBatchEnd < s.lastOp
    BY <1>1, <2>1, <2>2 DEF SoundState, LeaderBatches
  <2>4. /\ SoundState(r, CloseBatch(s, r))
        /\ \A t : \A m \in ClosedBatch(s, r) : SentFit(m, r, t)
    BY <1>1, <2>2, <2>3, ClosedSound
  <2>. QED BY <2>1, <2>4, SessionQuiet
<1>4. CASE ResendPrepare(r)
  <2>1. "resendPrepare" \in s.timers
    BY <1>4 DEF ResendPrepare
  <2>2. r = Leader /\ AmLeader(s, r)
    BY <1>2, <2>1 DEF LeaderTimers
  <2>3. Network({}, PrepareMessages(r, s.lastPrepare)) /\ UNCHANGED <<rep, replies>>
    BY <1>4, <2>2 DEF ResendPrepare
  <2>4. HasRequests(s.lastPrepare)
    BY <1>1, <2>1 DEF SoundState, KeptBatches
  <2>5. \A m \in PrepareMessages(r, s.lastPrepare) : SentFit(m, r, s)
    BY <2>2, <2>4, SessionNow
  <2>. QED BY <2>3, <2>5, SessionSend
<1>5. CASE SendNullCommit(r)
  <2>1. "nullCommit" \in s.timers
    BY <1>5 DEF SendNullCommit
  <2>2. r = Leader /\ AmLeader(s, r)
    BY <1>2, <2>1 DEF LeaderTimers
  <2>3. Network({}, CommitMessages(s, r)) /\ UNCHANGED <<rep, replies>>
    BY <1>5, <2>2 DEF SendNullCommit
  <2>4. \A m \in CommitMessages(s, r) : SentFit(m, r, s)
    BY <2>2, SessionNow
  <2>. QED BY <2>3, <2>4, SessionSend
<1>6. CASE StateTransferTimeout(r)
  <2>. DEFINE t == [s EXCEPT !.lastTransfer = <<0, 0>>]
  <2>1. Become(r, t) /\ UNCHANGED <<msgs, replies>>
    BY <1>6 DEF StateTransferTimeout
  <2>2. SameSession(s, t)
    BY <1>1, SessionKept
  <2>. HIDE DEF t
  <2>3. SoundState(r, t)
    BY <1>1, <2>2, SoundSame
  <2>. QED BY <2>1, <2>3, SessionSilent
<1>. QED BY <1>3, <1>4, <1>5, <1>6 DEF Timer

\* Every log is in the order of the leader's.
LEMMA FollowerOrder ==
    ASSUME Inv, OrderInv, NEW r \in Replicas, NEW s, GoodState(r, s), NewLog(r, s) = LeaderLog
    PROVE  InClientOrder(s.log)
<1>1. FollowsLog(s, LeaderLog) /\ s.log \in Seq(Entries) /\ LeaderLog \in Seq(Entries)
  BY GoodBounds, StateFields, LeaderLogEntries DEF GoodState
<1>2. Grows(s.log, LeaderLog)
  BY <1>1 DEF FollowsLog, Grows
<1>3. InClientOrder(LeaderLog)
  BY OrderedLog DEF OrderInv, LeaderLog
<1>. QED BY <1>1, <1>2, <1>3, OrderedPrefix

\* The replies of CommitUpTo tell of what it executes.
LEMMA RepliesTrue ==
    ASSUME NEW s \in ReplicaStates, NEW r, NEW upto \in Nat, upto <= Len(s.log),
           NEW t, t.log = s.log,
           t.lastCommitted = IF upto <= s.lastCommitted THEN s.lastCommitted ELSE upto,
           NEW m \in RepliesTo(s, r, upto)
    PROVE  m.from = r /\ TrueReply(m, t)
<1>1. s.log \in Seq(Entries) /\ Len(s.log) \in Nat /\ s.lastCommitted \in Nat
  BY StateFields
<1>2. CommitPoint(s, upto) = upto
  BY <1>1, MinOfTwo DEF CommitPoint
<1>3. PICK k \in s.lastCommitted + 1 .. upto :
          m = [to |-> "client", from |-> r, req |-> s.log[k].req, view |-> s.log[k].view,
               opnum |-> k]
  BY <1>2 DEF RepliesTo, CommittedOps
<1>4. k \in 1 .. Len(s.log) /\ k \in 1 .. t.lastCommitted
  BY <1>1, <1>3
<1>5. s.log[k] \in Entries
  BY <1>1, <1>4, EntryTypes
<1>6. s.log[k] = [view |-> s.log[k].view, req |-> s.log[k].req]
  BY <1>5 DEF Entries
<1>7. /\ m.from = r /\ m.req = s.log[k].req /\ m.view = s.log[k].view /\ m.opnum = k
  BY <1>3
<1>. QED BY <1>4, <1>6, <1>7 DEF TrueReply

\* CommitUpTo, within the log, keeps a sound state sound, and its replies are true.
LEMMA CommittedSound ==
    ASSUME Inv, OrderInv, NEW r \in Replicas, NEW s, GoodState(r, s), SoundState(r, s),
           NewLog(r, s) = LeaderLog, NEW upto \in Nat, upto <= Len(s.log)
    PROVE  LET c == CommitUpTo(s, upto)
           IN  /\ SoundState(r, c) /\ c.lastBatchEnd = s.lastBatchEnd /\ c.lastOp = s.lastOp
               /\ \A m \in RepliesTo(s, r, upto) : m.from = r /\ TrueReply(m, c)
<1>. DEFINE c == CommitUpTo(s, upto)
            p == IF upto <= s.lastCommitted THEN s.lastCommitted ELSE upto
            n == s.lastOp
<1>1. /\ s \in ReplicaStates /\ n \in Nat /\ n = Len(s.log) /\ s.lastCommitted <= n
      /\ s.lastCommitted \in Nat /\ s.lastBatchEnd \in Nat
  BY GoodBounds, StateFields
<1>2. ~s.aborted /\ TableTells(s.log, s.lastCommitted, n, s.clientTable)
  BY DEF SoundState, TableMatches
<1>3. InClientOrder(s.log)
  BY FollowerOrder
<1>4. /\ c \in ReplicaStates /\ SameButCommitted(s, c) /\ ~c.aborted
      /\ c.lastCommitted = p
      /\ TableTells(c.log, p, IF p <= n THEN n ELSE p, c.clientTable)
  <2>. HIDE DEF n, p, c
  <2>. QED BY <1>1, <1>2, <1>3, CommitSound DEF n, p, c
<1>5. p <= n /\ p \in Nat /\ s.lastCommitted <= p
  BY <1>1
<1>. HIDE DEF c
<1>6. TableMatches(c) /\ KeptBatches(c)
  <2>1. KeptBatches(s)
    BY DEF SoundState
  <2>. HIDE DEF p
  <2>. QED BY <1>1, <1>4, <1>5, <2>1 DEF TableMatches, KeptBatches, SameButCommitted
<1>7. r = Leader => LeaderBatches(c)
  <2>1. r = Leader => LeaderBatches(s)
    BY DEF SoundState
  <2>2. c.lastCommitted < s.lastBatchEnd => s.lastCommitted < s.lastBatchEnd
    BY <1>1, <1>4, <1>5
  <2>. QED BY <1>4, <2>1, <2>2 DEF LeaderBatches, SameButCommitted
<1>8. SoundState(r, c)
  BY <1>4, <1>6, <1>7 DEF SoundState, SameButCommitted
<1>9. \A m \in RepliesTo(s, r, upto) : m.from = r /\ TrueReply(m, c)
  <2>1. c.log = s.log
    BY <1>4 DEF SameButCommitted
  <2>. QED BY <1>1, <1>4, <2>1, RepliesTrue
<1>10. c.lastBatchEnd = s.lastBatchEnd /\ c.lastOp = s.lastOp
  BY <1>4 DEF SameButCommitted
<1>. QED BY <1>8, <1>9, <1>10 DEF c

\* The outstanding batch is done, and the next one is closed if it has requests.
LEMMA FinishSound ==
    ASSUME Inv, NEW s, GoodState(Leader, s), SoundState(Leader, s), NEW k \in Nat
    PROVE  SoundState(Leader, FinishBatch(s, Leader, k))
<1>. DEFINE ts   == s.timers \cup {"nullCommit"}
            full == s.batchComplete \/ s.lastBatchEnd = k
            t    == [s EXCEPT !.timers = ts, !.batchComplete = full]
<1>1. s \in ReplicaStates /\ Leader \in Replicas
  BY LeaderIsReplica, GoodBounds
<1>2. ts \in SUBSET Timers /\ full \in BOOLEAN
  BY <1>1, StateFields DEF Timers
<1>3. FinishBatch(s, Leader, k) = IF s.lastBatchEnd = k /\ s.lastOp > k
                                  THEN CloseBatch(t, Leader) ELSE t
  <2>1. t = [s EXCEPT !.timers = s.timers \cup {"nullCommit"},
                      !.batchComplete = s.batchComplete \/ s.lastBatchEnd = k]
    OBVIOUS
  <2>. QED BY <2>1 DEF FinishBatch
<1>4. /\ "closeBatch" \in ts <=> "closeBatch" \in s.timers
      /\ "resendPrepare" \in ts <=> "resendPrepare" \in s.timers
  OBVIOUS
<1>5. t = [s EXCEPT !.timers = ts, !.batchComplete = full]
  OBVIOUS
<1>. HIDE DEF ts, full, t
<1>6. /\ t \in ReplicaStates /\ SameLog(s, t) /\ t.timers = ts
      /\ t.lastBatchEnd = s.lastBatchEnd /\ t.clientTable = s.clientTable
      /\ t.aborted = s.aborted
  BY <1>1, <1>2, <1>5 DEF SameLog, ReplicaStates
<1>7. GoodState(Leader, t)
  BY <1>1, <1>4, <1>6, GoodSmall
<1>8. SoundState(Leader, t)
  <2>1. ~t.aborted /\ TableMatches(t) /\ KeptBatches(t)
    BY <1>4, <1>6 DEF SoundState, SameLog, TableMatches, KeptBatches
  <2>2. LeaderBatches(t)
    BY <1>4, <1>6 DEF SoundState, SameLog, LeaderBatches
  <2>. QED BY <2>1, <2>2 DEF SoundState
<1>9. CASE s.lastBatchEnd = k /\ s.lastOp > k
  <2>1. t.lastBatchEnd < t.lastOp
    BY <1>1, <1>6, <1>9, StateFields DEF SameLog
  <2>2. ~t.aborted /\ TableMatches(t) /\ KeptBatches(t) /\ t.work = <<>>
    BY <1>8 DEF SoundState, LeaderBatches
  <2>. QED BY <1>3, <1>7, <1>9, <2>1, <2>2, ClosedSound
<1>10. CASE ~ (s.lastBatchEnd = k /\ s.lastOp > k)
  BY <1>3, <1>8, <1>10
<1>. QED BY <1>9, <1>10

\* A PREPAREOK is of an operation in the leader's log; the commit and the next
\* batch follow.
LEMMA SessionPrepareOK ==
    ASSUME Inv, QuorumInv, OrderInv, SessionInv, GoodStep, NEW r \in Replicas,
           ReceivePrepareOK(r)
    PROVE  SessionInv'
<1>1. PICK m \in Received(r, "PrepareOK") : HandlePrepareOK(r, m)
  BY DEF ReceivePrepareOK
<1>2. m.opnum \in Nat /\ m.from \in Replicas /\ m.view = 0 /\ m.opnum <= Len(rep[m.from].log)
  <2>1. m \in Messages /\ m.type = "PrepareOK" /\ CarriesLog(m, LeaderLog) /\ m \in msgs
    BY ReceivedFacts DEF Received
  <2>2. Vouches(m)
    BY <2>1 DEF QuorumInv
  <2>. QED BY <2>1, <2>2 DEF Messages, CarriesLog, Vouches
<1>3. /\ rep[r] \in ReplicaStates /\ SoundState(r, rep[r]) /\ GoodState(r, rep[r])
      /\ rep[r].view = 0 /\ (AmLeader(rep[r], r) <=> r = Leader)
  BY GoodNow, GoodBounds DEF SessionInv
<1>. DEFINE oks == rep[r].prepareOKs \cup {<<m.opnum, m.from>>}
            s   == [rep[r] EXCEPT !.prepareOKs = oks]
            c   == CommitUpTo(s, m.opnum)
            f   == FinishBatch(c, r, m.opnum)
            out == CommitMessages(c, r) \cup
                       IF c.lastBatchEnd = m.opnum /\ c.lastOp > m.opnum
                       THEN ClosedBatch(c, r) ELSE {}
<1>4. /\ r = Leader
      /\ \/ Become(r, s) /\ Network({m}, {}) /\ UNCHANGED replies
         \/ /\ Become(r, c) /\ Network({m}, {})
            /\ replies' = replies \cup RepliesTo(s, r, m.opnum)
         \/ /\ Become(r, f) /\ Network({m}, out)
            /\ replies' = replies \cup RepliesTo(s, r, m.opnum)
  <2>1. ~ (m.view > rep[r].view)
    BY <1>2, <1>3
  <2>. QED BY <1>1, <1>3, <2>1 DEF HandlePrepareOK
<1>5. GoodState(r, s) /\ SoundState(r, s) /\ m.opnum <= Len(s.log) /\ NewLog(r, s) = LeaderLog
  <2>1. oks \in SUBSET (Nat \X Replicas)
    BY <1>2, <1>3, StateFields
  <2>2. SameSession(rep[r], s)
    BY <1>3, SessionKept
  <2>3. s = [rep[r] EXCEPT !.prepareOKs = oks]
    OBVIOUS
  <2>. HIDE DEF s, oks
  <2>4. s \in ReplicaStates /\ SameLog(rep[r], s) /\ s.timers = rep[r].timers
    BY <1>3, <2>1, <2>3, AcksChange
  <2>5. GoodState(r, s) /\ NewLog(r, s) = LeaderLog
    BY <1>3, <2>4, GoodNow, GoodSmall
  <2>6. m.opnum <= Len(LeaderLog)
    <3>1. Len(rep[m.from].log) <= Len(LeaderLog) /\ Len(rep[m.from].log) \in Nat
      BY <1>2, GoodNow, StateFields DEF GoodState, FollowsLog
    <3>. QED BY <1>2, <3>1, LeaderLogEntries
  <2>7. s.log = LeaderLog
    BY <1>4, <2>5 DEF NewLog
  <2>. QED BY <1>3, <2>2, <2>5, <2>6, <2>7, SoundSame
<1>. HIDE DEF s
<1>6. CASE Become(r, s) /\ Network({m}, {}) /\ UNCHANGED replies
  BY <1>5, <1>6, SessionQuiet
<1>7. /\ GoodState(r, c) /\ SoundState(r, c)
      /\ \A x \in RepliesTo(s, r, m.opnum) : x.from = r /\ TrueReply(x, c)
  BY <1>2, <1>5, CommittedSound, GoodCommitUpTo
<1>8. CASE /\ Become(r, c) /\ Network({m}, {})
           /\ replies' = replies \cup RepliesTo(s, r, m.opnum)
  <2>. HIDE DEF c
  <2>1. PICK none : none = {}
    OBVIOUS
  <2>2. msgs' \subseteq msgs \cup none /\ \A x \in none : SentFit(x, r, c)
    BY <1>8, <2>1 DEF Network
  <2>3. PICK told : told = RepliesTo(s, r, m.opnum)
    OBVIOUS
  <2>4. /\ replies' \subseteq replies \cup told
        /\ \A x \in told : x.from = r /\ TrueReply(x, c)
    BY <1>7, <1>8, <2>3
  <2>. QED BY <1>7, <1>8, <2>2, <2>4, SessionChange
<1>9. CASE /\ Become(r, f) /\ Network({m}, out)
           /\ replies' = replies \cup RepliesTo(s, r, m.opnum)
  <2>. HIDE DEF c
  <2>1. SoundState(r, f) /\ GoodState(r, f)
    BY <1>2, <1>4, <1>7, FinishSound, GoodFinishBatch
  <2>2. /\ f.log = c.log /\ f.lastCommitted = c.lastCommitted
    BY <1>2, <1>7, GoodBounds, FinishOrder, CountsFinished DEF SameOrder, SameCounts
  <2>. HIDE DEF f
  <2>3. \A x \in out : SentFit(x, r, f)
    <3>1. \A x \in CommitMessages(c, r) : SentFit(x, r, f)
      BY <1>4 DEF CommitMessages, SentFit
    <3>2. ASSUME c.lastBatchEnd = m.opnum, c.lastOp > m.opnum
          PROVE  \A x \in ClosedBatch(c, r) : SentFit(x, r, f)
      <4>1. ~c.aborted /\ TableMatches(c) /\ KeptBatches(c) /\ c.work = <<>>
        BY <1>4, <1>7 DEF SoundState, LeaderBatches
      <4>2. c.lastBatchEnd < c.lastOp
        BY <1>2, <1>7, <3>2, GoodBounds, StateFields
      <4>. QED BY <1>4, <1>7, <4>1, <4>2, ClosedSound
    <3>. QED BY <3>1, <3>2
  <2>4. PICK told, sent : told = RepliesTo(s, r, m.opnum) /\ sent = out
    OBVIOUS
  <2>5. \A x \in told : x.from = r /\ TrueReply(x, f)
    BY <1>7, <2>2, <2>4 DEF TrueReply
  <2>6. /\ msgs' \subseteq msgs \cup sent /\ \A x \in sent : SentFit(x, r, f)
        /\ replies' \subseteq replies \cup told
    <3>. HIDE DEF out
    <3>. QED BY <1>9, <2>3, <2>4 DEF Network
  <2>. HIDE DEF out
  <2>. QED BY <1>9, <2>1, <2>5, <2>6, SessionChange
<1>. QED BY <1>4, <1>6, <1>8, <1>9

-------------------------------------------------------------------------------
(* The actions of the followers                                            *)

\* What a batch adds to the log is in the leader's log after it.
LEMMA NewRequestsAt ==
    ASSUME NEW s \in ReplicaStates, NEW b \in Batches, NEW l \in Seq(Entries), BatchOf(b, l),
           s.lastOp = Len(s.log), b.batchstart <= s.lastOp + 1, s.lastOp < b.opnum
    PROVE  NewRequests(s, b) = RequestsAt(l, s.lastOp + 1, b.opnum)
<1>. DEFINE qs == NewRequests(s, b)
            n  == s.lastOp
            o  == b.opnum
            at == RequestsAt(l, n + 1, o)
<1>1. n \in Nat /\ o \in Nat
  BY StateFields DEF Batches
<1>2. /\ qs \in Seq(Requests) /\ Len(qs) = o - n
      /\ \A k \in 1 .. o - n : qs[k] = l[n + k].req
  BY NewRequestsFacts
<1>3. at = [k \in 1 .. o + 1 - (n + 1) |-> l[(n + 1) + k - 1].req]
  BY DEF RequestsAt
<1>. HIDE DEF qs, n, o, at
<1>4. o + 1 - (n + 1) = o - n /\ \A k \in 1 .. o - n : (n + 1) + k - 1 = n + k
  BY <1>1
<1>5. at = [k \in 1 .. o - n |-> l[n + k].req]
  BY <1>3, <1>4
<1>6. qs = [k \in 1 .. o - n |-> qs[k]]
  BY <1>2
<1>7. qs = at
  BY <1>2, <1>5, <1>6
<1>. QED BY <1>7 DEF qs, at, n, o

\* A follower that continues its log with a batch can tell its client table of
\* it, and then the table tells the log.
LEMMA AppendedSound ==
    ASSUME Inv, OrderInv, NEW r \in Replicas, r # Leader, NEW s, GoodState(r, s),
           NewLog(r, s) = LeaderLog, SoundState(r, s), NEW b \in Batches,
           BatchOf(b, LeaderLog), b.batchstart <= s.lastOp + 1, s.lastOp < b.opnum
    PROVE  /\ InOrder(s.clientTable, NewRequests(s, b))
           /\ SoundState(r, AppendBatch(s, b))
<1>. DEFINE l     == LeaderLog
            n     == s.lastOp
            o     == b.opnum
            done  == s.lastCommitted
            fresh == NewRequests(s, b)
            added == [k \in 1 .. Len(fresh) |-> [view |-> b.view, req |-> fresh[k]]]
            log   == s.log \o added
            table == UpdateClientTable(s.clientTable, fresh)
            t     == AppendBatch(s, b)
<1>1. /\ s \in ReplicaStates /\ n = Len(s.log) /\ n \in Nat /\ o \in Nat /\ done \in Nat
      /\ done <= n /\ s.clientTable \in Tables
  BY GoodBounds, StateFields DEF Batches
<1>2. /\ l \in Seq(Entries) /\ o <= Len(l) /\ n <= Len(l) /\ InClientOrder(l)
      /\ \A k \in 1 .. n : s.log[k] = l[k]
  <2>1. FollowsLog(s, l)
    BY DEF GoodState
  <2>. QED BY <1>1, <2>1, LeaderLogEntries, OrderedLog
           DEF FollowsLog, BatchOf, OrderInv, LeaderLog
<1>3. fresh = RequestsAt(l, n + 1, o)
  BY <1>1, <1>2, NewRequestsAt
<1>4. TableTells(l, done, n, s.clientTable)
  <2>1. TableTells(s.log, done, n, s.clientTable)
    BY DEF SoundState, TableMatches
  <2>. QED BY <1>1, <1>2, <2>1, TellsSame
<1>5. InOrder(s.clientTable, fresh) /\ TableTells(l, done, o, table)
  <2>. DEFINE tab == s.clientTable
              f   == n + 1
  <2>1. /\ f \in Nat \ {0} /\ n <= f /\ f <= n + 1 /\ done < f /\ n <= o
    BY <1>1
  <2>2. tab \in Tables /\ TableTells(l, done, n, tab) /\ n <= Len(l) /\ o <= Len(l)
    BY <1>1, <1>2, <1>4
  <2>. HIDE DEF tab, f, n, o, done, l
  <2>3. /\ InOrder(tab, RequestsAt(l, f, o))
        /\ TableTells(l, done, o, UpdateClientTable(tab, RequestsAt(l, f, o)))
    BY <1>1, <1>2, <2>1, <2>2, UpdatedTells
  <2>. QED BY <1>3, <2>3 DEF tab, f
<1>6. t = [s EXCEPT !.log = log, !.lastOp = o, !.clientTable = table]
  BY DEF AppendBatch
<1>7. GoodState(r, t) /\ NewLog(r, t) = LeaderLog
  BY GoodAppendBatch
<1>. HIDE DEF t, log, table
<1>8. /\ t.lastOp = o /\ t.clientTable = table /\ t.lastCommitted = done
      /\ t.pending = s.pending /\ t.work = s.work /\ t.lastPrepare = s.lastPrepare
      /\ t.timers = s.timers /\ t.aborted = s.aborted
  BY <1>1, <1>6 DEF ReplicaStates
<1>9. \A k \in 1 .. o : l[k] = t.log[k]
  <2>1. FollowsLog(t, l) /\ t.lastOp = Len(t.log)
    BY <1>7, GoodBounds DEF GoodState
  <2>. QED BY <1>8, <2>1 DEF FollowsLog
<1>10. TableMatches(t)
  <2>1. TableTells(t.log, done, o, table)
    BY <1>1, <1>5, <1>9, TellsSame
  <2>. QED BY <1>8, <2>1 DEF TableMatches
<1>11. SoundState(r, t)
  BY <1>8, <1>10 DEF SoundState, KeptBatches
<1>. QED BY <1>5, <1>11 DEF t

\* A PREPARE that has requests can be set aside.
LEMMA DeferSound ==
    ASSUME NEW r, r # Leader, NEW s \in ReplicaStates, SoundState(r, s),
           NEW b \in Batches, HasRequests(b)
    PROVE  /\ SoundState(r, Defer(s, b))
           /\ Defer(s, b).lastCommitted = s.lastCommitted
<1>. DEFINE u    == RequestStateTransfer(s)
            list == SetAside(s.pending, b)
            x    == <<s.view, s.lastCommitted>>
            t    == Defer(s, b)
<1>1. s.pending \in Seq(Batches) /\ Len(s.pending) \in Nat
  BY StateFields
<1>2. AllHaveRequests(list)
  <2>1. AllHaveRequests(s.pending)
    BY DEF SoundState, KeptBatches
  <2>2. PICK p \in Seq(Batches) : p = s.pending
    BY <1>1
  <2>3. \A k \in 1 .. Len(Append(p, b)) :
            Append(p, b)[k] = IF k <= Len(p) THEN p[k] ELSE b
    OBVIOUS
  <2>4. AllHaveRequests(Append(p, b))
    <3>1. \A k \in 1 .. Len(Append(p, b)) : k <= Len(p) => k \in 1 .. Len(p)
      BY <2>2
    <3>. QED BY <2>1, <2>2, <2>3, <3>1 DEF AllHaveRequests
  <2>. QED BY <2>1, <2>2, <2>4 DEF SetAside
<1>3. t = [s EXCEPT !.lastTransfer = x, !.pending = list]
  BY DEF Defer, RequestStateTransfer, ReplicaStates
<1>. HIDE DEF t, list, x
<1>4. /\ t.log = s.log /\ t.lastOp = s.lastOp /\ t.lastCommitted = s.lastCommitted
      /\ t.clientTable = s.clientTable /\ t.pending = list /\ t.work = s.work
      /\ t.lastPrepare = s.lastPrepare /\ t.timers = s.timers /\ t.aborted = s.aborted
  BY <1>3 DEF ReplicaStates
<1>5. SoundState(r, t)
  BY <1>2, <1>4 DEF SoundState, TableMatches, KeptBatches
<1>. QED BY <1>4, <1>5 DEF t

\* A PREPARE is set aside, acknowledged again, or continues the log.
LEMMA SessionHandlePrepare ==
    ASSUME Inv, OrderInv, SessionInv, GoodStep, NEW r \in Replicas, r # Leader,
           NEW s, GoodState(r, s), NewLog(r, s) = LeaderLog, SoundState(r, s),
           NEW b \in Batches, BatchOf(b, LeaderLog), HasRequests(b),
           NEW gone, HandlePrepare(r, s, b, gone), UNCHANGED replies
    PROVE  SessionInv'
<1>. DEFINE h  == Heard(s)
            ok == {PrepareOK(s, r, b.opnum)}
<1>1. /\ s \in ReplicaStates /\ s.view = 0 /\ b.view = 0 /\ s.lastCommitted \in Nat
      /\ ~AmLeader(s, r) /\ OpnumsFit(b) /\ s.lastOp = Len(s.log)
  <2>1. b.batchstart \in Nat /\ b.opnum \in Nat /\ Len(b.requests) \in Nat
    BY DEF Batches
  <2>2. OpnumsFit(b)
    BY <2>1 DEF OpnumsFit, HasRequests, BatchOf
  <2>. QED BY <2>2, GoodBounds, StateFields DEF BatchOf
<1>2. /\ h \in ReplicaStates /\ SameSession(s, h) /\ GoodState(r, h) /\ SoundState(r, h)
      /\ NewLog(r, h) = LeaderLog /\ h.lastOp = s.lastOp /\ h.clientTable = s.clientTable
      /\ h.lastCommitted = s.lastCommitted
  <2>1. SameSession(s, h)
    BY <1>1, SessionKept
  <2>2. GoodState(r, h) /\ NewLog(r, h) = LeaderLog
    BY GoodHeard
  <2>. QED BY <2>1, <2>2, SoundSame, GoodBounds DEF SameSession
<1>3. NewRequests(h, b) = NewRequests(s, b)
  BY <1>2 DEF NewRequests
<1>. HIDE DEF h
<1>4. \A t : \A m \in ok : SentFit(m, r, t)
  BY SessionNow
<1>. HIDE DEF ok
<1>5. \/ Become(r, s) /\ Network(gone, {})
      \/ Become(r, Defer(h, b)) /\ Network(gone, StateTransferRequests(s, r))
      \/ Become(r, h) /\ Network(gone, ok)
      \/ /\ b.batchstart <= s.lastOp + 1 /\ s.lastOp < b.opnum
         /\ \/ Become(r, AppendBatch(h, b)) /\ Network(gone, ok)
            \/ ~InOrder(s.clientTable, NewRequests(s, b))
  <2>1. ~ (b.view > s.view)
    BY <1>1
  <2>. QED BY <1>1, <2>1 DEF HandlePrepare, h, ok
<1>6. CASE Become(r, s) /\ Network(gone, {})
  BY <1>6, SessionQuiet
<1>7. CASE Become(r, Defer(h, b)) /\ Network(gone, StateTransferRequests(s, r))
  <2>. DEFINE d == Defer(h, b)
  <2>1. SoundState(r, d) /\ d.lastCommitted = s.lastCommitted
    BY <1>2, DeferSound
  <2>. HIDE DEF d
  <2>2. \A m \in StateTransferRequests(s, r) : SentFit(m, r, d)
    BY <1>1, <2>1, SessionNow
  <2>. QED BY <1>7, <2>1, <2>2, SessionQuiet DEF d
<1>8. CASE Become(r, h) /\ Network(gone, ok)
  BY <1>2, <1>4, <1>8, SessionQuiet
<1>9. CASE /\ b.batchstart <= s.lastOp + 1 /\ s.lastOp < b.opnum
           /\ \/ Become(r, AppendBatch(h, b)) /\ Network(gone, ok)
              \/ ~InOrder(s.clientTable, NewRequests(s, b))
  <2>1. InOrder(h.clientTable, NewRequests(h, b)) /\ SoundState(r, AppendBatch(h, b))
    BY <1>2, <1>9, AppendedSound
  <2>2. Become(r, AppendBatch(h, b)) /\ Network(gone, ok)
    BY <1>2, <1>3, <1>9, <2>1
  <2>. QED BY <1>4, <2>1, <2>2, SessionQuiet
<1>. QED BY <1>5, <1>6, <1>7, <1>8, <1>9

\* The PREPARE comes from the network, or had been set aside.
LEMMA SessionPrepare ==
    ASSUME Inv, OrderInv, SessionInv, GoodStep, NEW r \in Replicas,
           ReceivePrepare(r) \/ ReplayPending(r)
    PROVE  SessionInv'
<1>1. rep[r] \in ReplicaStates /\ SoundState(r, rep[r])
  BY GoodNow DEF SessionInv
<1>2. CASE ReceivePrepare(r)
  <2>1. PICK m \in Received(r, "Prepare") : HandlePrepare(r, rep[r], m.batch, {m})
    BY <1>2 DEF ReceivePrepare
  <2>2. /\ m \in Messages /\ m.type = "Prepare" /\ CarriesLog(m, LeaderLog)
        /\ m \in msgs /\ m.to = r
    BY ReceivedFacts DEF Received
  <2>3. m.batch \in Batches /\ BatchOf(m.batch, LeaderLog)
    BY <2>2 DEF Messages, CarriesLog
  <2>4. r # Leader /\ HasRequests(m.batch)
    BY <2>2 DEF SessionInv, Receivable
  <2>5. UNCHANGED replies
    BY <1>2 DEF ReceivePrepare
  <2>. QED BY <1>1, <2>1, <2>3, <2>4, <2>5, GoodNow, SessionHandlePrepare
<1>3. CASE ReplayPending(r)
  <2>. DEFINE w == rep[r].work
              v == Tail(w)
              s == [rep[r] EXCEPT !.work = v]
              b == Head(w)
  <2>1. w # <<>> /\ HandlePrepare(r, s, b, {}) /\ UNCHANGED replies
    BY <1>3 DEF ReplayPending
  <2>2. GoodState(r, s) /\ NewLog(r, s) = LeaderLog /\ b \in Batches /\ BatchOf(b, LeaderLog)
    BY <2>1, GoodWorkTaken
  <2>3. r # Leader
    BY <1>1, <2>1 DEF SoundState, LeaderBatches
  <2>4. w \in Seq(Batches) /\ AllHaveRequests(w)
    BY <1>1, StateFields DEF SoundState, KeptBatches
  <2>5. HasRequests(b) /\ AllHaveRequests(v)
    <3>. HIDE DEF w
    <3>1. /\ Len(v) = Len(w) - 1 /\ \A k \in 1 .. Len(v) : v[k] = w[k + 1]
      BY <2>1, <2>4, HeadTailProperties
    <3>2. PICK n \in Nat : n = Len(w)
      BY <2>4
    <3>3. n # 0 /\ b = w[1]
      BY <2>1, <2>4, <3>2
    <3>4. 1 \in 1 .. n /\ \A k \in 1 .. n - 1 : k + 1 \in 1 .. n
      BY <3>2, <3>3
    <3>. HIDE DEF v, b
    <3>. QED BY <2>4, <3>1, <3>2, <3>3, <3>4 DEF AllHaveRequests
  <2>6. s = [rep[r] EXCEPT !.work = v]
    OBVIOUS
  <2>. HIDE DEF s, b, v, w
  <2>7. /\ s.log = rep[r].log /\ s.lastOp = rep[r].lastOp
        /\ s.lastCommitted = rep[r].lastCommitted /\ s.clientTable = rep[r].clientTable
        /\ s.pending = rep[r].pending /\ s.work = v /\ s.lastPrepare = rep[r].lastPrepare
        /\ s.timers = rep[r].timers /\ s.aborted = rep[r].aborted
    BY <1>1, <2>6 DEF ReplicaStates
  <2>8. SoundState(r, s)
    BY <1>1, <2>3, <2>5, <2>7 DEF SoundState, TableMatches, KeptBatches
  <2>. QED BY <2>1, <2>2, <2>3, <2>5, <2>8, SessionHandlePrepare
<1>. QED BY <1>2, <1>3

\* A COMMIT executes operations of a follower's log, or tells it to ask for them.
LEMMA SessionCommit ==
    ASSUME Inv, OrderInv, SessionInv, GoodStep, NEW r \in Replicas, ReceiveCommit(r)
    PROVE  SessionInv'
<1>. DEFINE s == rep[r]
            h == Heard(s)
            q == RequestStateTransfer(h)
<1>1. PICK m \in Received(r, "Commit") : HandleCommit(r, m)
  BY DEF ReceiveCommit
<1>2. m.opnum \in Nat /\ m.view = 0 /\ r # Leader
  <2>1. /\ m \in Messages /\ m.type = "Commit" /\ CarriesLog(m, LeaderLog)
        /\ m \in msgs /\ m.to = r
    BY ReceivedFacts DEF Received
  <2>2. Receivable(m)
    BY <2>1 DEF SessionInv
  <2>. QED BY <2>1, <2>2 DEF Messages, CarriesLog, Receivable
<1>3. /\ s \in ReplicaStates /\ SoundState(r, s) /\ s.view = 0 /\ ~AmLeader(s, r)
      /\ s.lastOp = Len(s.log) /\ s.lastCommitted \in Nat
  BY <1>2, GoodNow, GoodBounds, StateFields DEF SessionInv
<1>4. /\ h \in ReplicaStates /\ GoodState(r, h) /\ SoundState(r, h) /\ NewLog(r, h) = LeaderLog
      /\ SameSession(s, h) /\ h.addresses = s.addresses
  <2>1. SameSession(s, h)
    BY <1>3, SessionKept
  <2>2. GoodState(r, h) /\ NewLog(r, h) = LeaderLog
    BY GoodNow, GoodHeard
  <2>3. h.addresses = s.addresses
    BY <1>3 DEF Heard, ReplicaStates
  <2>. QED BY <1>3, <2>1, <2>2, <2>3, SoundSame, GoodBounds
<1>. HIDE DEF h
<1>5. SoundState(r, q) /\ q.lastCommitted = s.lastCommitted
  <2>1. SameSession(h, q)
    BY <1>4, SessionKept
  <2>. QED BY <1>4, <2>1, SoundSame DEF SameSession
<1>6. \/ Become(r, h) /\ Network({m}, {}) /\ UNCHANGED replies
      \/ Become(r, q) /\ Network({m}, StateTransferRequests(s, r)) /\ UNCHANGED replies
      \/ /\ m.opnum <= s.lastOp /\ Become(r, CommitUpTo(h, m.opnum)) /\ Network({m}, {})
         /\ replies' = replies \cup RepliesTo(s, r, m.opnum)
  <2>1. ~ (m.view > s.view)
    BY <1>2, <1>3
  <2>. QED BY <1>1, <1>3, <2>1 DEF HandleCommit, h
<1>7. CASE Become(r, h) /\ Network({m}, {}) /\ UNCHANGED replies
  BY <1>4, <1>7, SessionQuiet
<1>8. CASE Become(r, q) /\ Network({m}, StateTransferRequests(s, r)) /\ UNCHANGED replies
  <2>. HIDE DEF q
  <2>1. \A x \in StateTransferRequests(s, r) : SentFit(x, r, q)
    BY <1>3, <1>5, SessionNow
  <2>. QED BY <1>5, <1>8, <2>1, SessionQuiet
<1>9. CASE /\ m.opnum <= s.lastOp /\ Become(r, CommitUpTo(h, m.opnum)) /\ Network({m}, {})
           /\ replies' = replies \cup RepliesTo(s, r, m.opnum)
  <2>. DEFINE c == CommitUpTo(h, m.opnum)
  <2>1. m.opnum <= Len(h.log)
    BY <1>3, <1>4, <1>9 DEF SameSession
  <2>2. /\ SoundState(r, c)
        /\ \A x \in RepliesTo(h, r, m.opnum) : x.from = r /\ TrueReply(x, c)
    BY <1>2, <1>4, <2>1, CommittedSound
  <2>3. RepliesTo(h, r, m.opnum) = RepliesTo(s, r, m.opnum)
    BY <1>4 DEF RepliesTo, CommittedOps, CommitPoint, SameSession
  <2>. HIDE DEF c
  <2>4. PICK told, none : told = RepliesTo(s, r, m.opnum) /\ none = {}
    OBVIOUS
  <2>5. /\ msgs' \subseteq msgs \cup none /\ \A x \in none : SentFit(x, r, c)
        /\ replies' \subseteq replies \cup told
        /\ \A x \in told : x.from = r /\ TrueReply(x, c)
    BY <1>9, <2>2, <2>3, <2>4 DEF Network
  <2>6. Become(r, c)
    BY <1>9 DEF c
  <2>. QED BY <2>2, <2>5, <2>6, SessionChange
<1>. QED BY <1>6, <1>7, <1>8, <1>9

\* A log dump starts where its receiver asked for, at most after what that has
\* executed since, and reaches what its sender has executed.
LEMMA SessionRequestStateTransfer ==
    ASSUME Inv, SessionInv, GoodStep, NEW r \in Replicas, ReceiveRequestStateTransfer(r)
    PROVE  SessionInv'
<1>. DEFINE s == rep[r]
<1>1. PICK m \in Received(r, "RequestStateTransfer") : HandleRequestStateTransfer(r, m)
  BY DEF ReceiveRequestStateTransfer
<1>2. /\ m.opnum \in Nat /\ m.from \in Replicas /\ m.view = 0
      /\ m.opnum <= rep[m.from].lastCommitted
  <2>1. /\ m \in Messages /\ m.type = "RequestStateTransfer" /\ CarriesLog(m, LeaderLog)
        /\ m \in msgs
    BY ReceivedFacts DEF Received
  <2>2. Receivable(m)
    BY <2>1 DEF SessionInv
  <2>. QED BY <2>1, <2>2 DEF Messages, CarriesLog, Receivable
<1>3. /\ s.view = 0 /\ s.log \in Seq(Entries) /\ Len(s.log) \in Nat
      /\ s.lastCommitted \in Nat /\ s.lastCommitted <= Len(s.log)
      /\ rep[m.from].lastCommitted \in Nat
  BY <1>2, GoodNow, GoodBounds, StateFields
<1>. DEFINE x == LogDump(s, m)
<1>4. UNCHANGED rep /\ UNCHANGED replies /\ Network({m}, {x})
  BY <1>1, <1>2, <1>3 DEF HandleRequestStateTransfer, ReceiveRequestStateTransfer
<1>5. /\ x.type = "StateTransfer" /\ x.to = m.from /\ x.opnum = s.lastCommitted
      /\ x.first = m.opnum + 1 /\ x.entries = SubSeq(s.log, m.opnum + 1, Len(s.log))
  BY DEF LogDump
<1>. HIDE DEF x
<1>6. x.first <= rep[m.from].lastCommitted + 1
  BY <1>2, <1>3, <1>5
<1>7. x.opnum <= LastEntry(x)
  <2>1. PICK a \in Nat, n \in Nat : a = m.opnum + 1 /\ n = Len(s.log)
    BY <1>2, <1>3
  <2>2. \A k \in a .. n : s.log[k] \in Entries
    BY <1>2, <1>3, <2>1, ElementOfSeq
  <2>3. Len(SubSeq(s.log, a, n)) = IF a <= n THEN n - a + 1 ELSE 0
    BY <2>2, SubSeqProperties
  <2>4. LastEntry(x) = a + Len(SubSeq(s.log, a, n)) - 1
    BY <1>5, <2>1 DEF LastEntry
  <2>5. /\ x.opnum \in Nat /\ x.opnum <= n /\ x.opnum + 1 >= 1
        /\ x.opnum = s.lastCommitted /\ a = x.first
    BY <1>3, <1>5, <2>1
  <2>6. CASE a <= n
    BY <2>3, <2>4, <2>5, <2>6
  <2>7. CASE ~(a <= n)
    <3>1. LastEntry(x) = a - 1
      BY <2>1, <2>3, <2>4, <2>7
    <3>2. n < a
      BY <2>1, <2>7
    <3>. QED BY <2>1, <2>5, <3>1, <3>2
  <2>. QED BY <2>6, <2>7
<1>8. \A y \in {x} : SentFit(y, r, s)
  BY <1>5, <1>6, <1>7 DEF SentFit
<1>. QED BY <1>4, <1>8, SessionSend

\* The entries of a log dump leave a follower's state as it is, but for operations
\* added behind the log, up to the one the dump says is committed.
LEMMA InstalledFacts ==
    ASSUME Inv, NEW r \in Replicas, NEW s, GoodState(r, s), NewLog(r, s) = LeaderLog,
           ~s.aborted, NEW m \in Messages, m.type = "StateTransfer",
           CarriesLog(m, LeaderLog), m.first <= s.lastCommitted + 1, m.opnum <= LastEntry(m)
    PROVE  LET i == InstallEntries(s, m)
           IN  /\ ~i.aborted /\ s.lastOp <= i.lastOp /\ m.opnum <= i.lastOp
               /\ i.lastCommitted = s.lastCommitted /\ i.clientTable = s.clientTable
               /\ i.pending = s.pending /\ i.work = s.work /\ i.timers = s.timers
               /\ i.lastPrepare = s.lastPrepare
<1>. DEFINE i == InstallEntries(s, m)
            n == s.lastOp
            o == LastEntry(m)
<1>1. /\ s \in ReplicaStates /\ n = Len(s.log) /\ n \in Nat /\ s.log \in Seq(Entries)
      /\ s.lastCommitted \in Nat /\ s.lastCommitted <= n
  BY GoodBounds, StateFields
<1>2. /\ m.first \in Nat /\ m.opnum \in Nat /\ Len(m.entries) \in Nat
      /\ o = m.first + Len(m.entries) - 1 /\ m.entries \in Seq(Entries)
  BY DEF Messages, LastEntry
<1>3. Replaced(s, m) = {}
  BY NothingReplaced
<1>4. m.first <= n + 1
  BY <1>1, <1>2
<1>5. m.entries = <<>> => o <= n
  BY <1>1, <1>2
<1>6. \/ i = s /\ o <= n
      \/ i = Spliced(s, m, n + 1) /\ n < o
  BY <1>1, <1>2, <1>3, <1>4, <1>5 DEF InstallEntries
<1>. HIDE DEF i
<1>7. CASE i = s /\ o <= n
  <2>. HIDE DEF n, o
  <2>1. s.lastOp <= s.lastOp /\ m.opnum <= s.lastOp
    BY <1>1, <1>2, <1>7 DEF n, o
  <2>. QED BY <1>7, <2>1 DEF i
<1>8. CASE i = Spliced(s, m, n + 1) /\ n < o
  <2>1. PICK l : i = [s EXCEPT !.log = l, !.lastOp = o]
    BY <1>8 DEF Spliced
  <2>. HIDE DEF n, o
  <2>2. /\ i.aborted = s.aborted /\ i.lastOp = o
        /\ i.lastCommitted = s.lastCommitted /\ i.clientTable = s.clientTable
        /\ i.pending = s.pending /\ i.work = s.work /\ i.timers = s.timers
        /\ i.lastPrepare = s.lastPrepare
    BY <1>1, <2>1 DEF ReplicaStates
  <2>3. s.lastOp <= o /\ m.opnum <= o
    BY <1>1, <1>2, <1>8 DEF n, o
  <2>. QED BY <2>2, <2>3 DEF i
<1>. QED BY <1>6, <1>7, <1>8

\* Telling the client table of what a log dump brought, from the operation after
\* those it knows, completes it.
LEMMA PreparedSound ==
    ASSUME NEW c \in ReplicaStates, InClientOrder(c.log), c.lastOp = Len(c.log),
           c.lastCommitted <= c.lastOp, ~c.aborted, NEW n \in Nat, n <= c.lastOp,
           NEW k \in Nat, k = (IF c.lastCommitted <= n THEN n ELSE c.lastCommitted),
           TableTells(c.log, c.lastCommitted, k, c.clientTable)
    PROVE  LET p == SendPrepareOKs(c, n)
           IN  ~p.aborted /\ TableMatches(p)
<1>. DEFINE first == Max({n, c.lastCommitted + 1})
            p     == SendPrepareOKs(c, n)
            last  == c.lastOp
            done  == c.lastCommitted
            table == UpdateClientTable(c.clientTable, RequestsAt(c.log, first, last))
<1>1. /\ last \in Nat /\ done \in Nat /\ c.log \in Seq(Entries) /\ c.clientTable \in Tables
      /\ Len(c.log) \in Nat
  BY StateFields
<1>2. first = IF n >= done + 1 THEN n ELSE done + 1
  BY <1>1, MaxOfTwo
<1>. HIDE DEF first
<1>3. first \in Nat \ {0} /\ k <= first /\ first <= k + 1 /\ done < first
  BY <1>1, <1>2
<1>4. done <= k /\ k <= last /\ last <= Len(c.log) /\ k <= Len(c.log)
  BY <1>1
<1>5. /\ InOrder(c.clientTable, RequestsAt(c.log, first, last))
      /\ TableTells(c.log, done, last, table)
  <2>. HIDE DEF last, done
  <2>1. TableTells(c.log, done, k, c.clientTable)
    BY DEF done
  <2>. QED BY <1>1, <1>3, <1>4, <2>1, UpdatedTells
<1>6. CanPrepare(c, first, last)
  BY <1>4, <1>5 DEF CanPrepare
<1>7. p = [c EXCEPT !.clientTable = table]
  BY <1>6 DEF SendPrepareOKs, first
<1>. HIDE DEF p, table
<1>8. /\ p.aborted = c.aborted /\ p.log = c.log /\ p.lastOp = c.lastOp
      /\ p.lastCommitted = c.lastCommitted /\ p.clientTable = table
  BY <1>7 DEF ReplicaStates
<1>9. ~p.aborted /\ TableMatches(p)
  BY <1>5, <1>8 DEF TableMatches
<1>. QED BY <1>9 DEF p

\* A log dump continues the log, executes what it says is committed and completes
\* the client table.
LEMMA DumpSound ==
    ASSUME Inv, OrderInv, NEW r \in Replicas, r # Leader,
           NEW s, GoodState(r, s), NewLog(r, s) = LeaderLog, SoundState(r, s),
           NEW m \in Messages, m.type = "StateTransfer",
           CarriesLog(m, LeaderLog), m.first <= s.lastCommitted + 1, m.opnum <= LastEntry(m)
    PROVE  LET i == InstallEntries(s, m)
               c == CommitUpTo(i, m.opnum)
               p == SendPrepareOKs(c, s.lastOp)
               t == [p EXCEPT !.work = c.pending, !.pending = <<>>]
           IN  /\ ~i.aborted /\ m.opnum <= i.lastOp
               /\ SoundState(r, t)
               /\ \A x \in RepliesTo(i, r, m.opnum) : x.from = r /\ TrueReply(x, t)
<1>. DEFINE i    == InstallEntries(s, m)
            c    == CommitUpTo(i, m.opnum)
            p    == SendPrepareOKs(c, s.lastOp)
            w    == c.pending
            none == <<>>
            t    == [p EXCEPT !.work = w, !.pending = none]
            n    == s.lastOp
            upto == m.opnum
            to   == IF upto <= i.lastCommitted THEN i.lastCommitted ELSE upto
<1>1. ~s.aborted /\ TableMatches(s) /\ KeptBatches(s) /\ s.timers \cap LeaderTimers = {}
  BY DEF SoundState
<1>2. /\ ~i.aborted /\ n <= i.lastOp /\ upto <= i.lastOp
      /\ i.lastCommitted = s.lastCommitted /\ i.clientTable = s.clientTable
      /\ i.pending = s.pending /\ i.work = s.work /\ i.timers = s.timers
      /\ i.lastPrepare = s.lastPrepare
  BY <1>1, InstalledFacts
<1>3. GoodState(r, i) /\ NewLog(r, i) = LeaderLog
  BY GoodInstall
<1>. HIDE DEF i
<1>4. /\ i \in ReplicaStates /\ i.lastOp = Len(i.log) /\ Len(i.log) \in Nat /\ i.lastOp \in Nat
      /\ i.lastCommitted \in Nat
  BY <1>3, GoodBounds, StateFields
<1>5. /\ s \in ReplicaStates /\ n \in Nat /\ n = Len(s.log) /\ s.lastCommitted <= n
      /\ upto \in Nat
  BY GoodBounds, StateFields DEF Messages
<1>6. InClientOrder(i.log)
  BY <1>3, FollowerOrder
<1>7. TableTells(i.log, i.lastCommitted, n, i.clientTable)
  <2>1. \A k \in 1 .. n : i.log[k] = s.log[k]
    <3>1. /\ \A k \in 1 .. Len(s.log) : s.log[k] = LeaderLog[k]
          /\ \A k \in 1 .. Len(i.log) : i.log[k] = LeaderLog[k]
      BY <1>3 DEF GoodState, FollowsLog
    <3>. HIDE DEF n
    <3>. QED BY <1>2, <1>4, <1>5, <3>1
  <2>2. TableTells(s.log, s.lastCommitted, n, s.clientTable)
    BY <1>1 DEF TableMatches
  <2>. HIDE DEF n
  <2>. QED BY <1>2, <1>5, <2>1, <2>2, TellsSame
<1>8. /\ c \in ReplicaStates /\ SameButCommitted(i, c) /\ ~c.aborted
      /\ c.lastCommitted = to
      /\ TableTells(c.log, to, IF to <= n THEN n ELSE to, c.clientTable)
  <2>1. i.lastCommitted <= n /\ n <= Len(i.log) /\ upto <= Len(i.log)
    BY <1>2, <1>4, <1>5
  <2>. HIDE DEF n, upto, to, c
  <2>. QED BY <1>2, <1>4, <1>5, <1>6, <1>7, <2>1, CommitSound DEF to, c, upto
<1>9. to \in Nat /\ to <= i.lastOp
  BY <1>2, <1>4, <1>5
<1>. HIDE DEF c, n, to, upto
<1>10. /\ c.log = i.log /\ c.lastOp = i.lastOp /\ c.pending = i.pending
       /\ c.timers = i.timers /\ c.lastPrepare = i.lastPrepare
  BY <1>8 DEF SameButCommitted
<1>11. ~p.aborted /\ TableMatches(p)
  <2>1. PICK k \in Nat : k = IF to <= n THEN n ELSE to
    BY <1>5, <1>9
  <2>. QED BY <1>2, <1>4, <1>5, <1>6, <1>8, <1>9, <1>10, <2>1, PreparedSound DEF n
<1>12. p \in ReplicaStates /\ SameButCommitted(c, p) /\ p.lastCommitted = c.lastCommitted
  BY <1>5, <1>8, SendPrepareOKsType DEF n
<1>13. t = [p EXCEPT !.work = w, !.pending = none]
  OBVIOUS
<1>14. w = s.pending /\ AllHaveRequests(w) /\ AllHaveRequests(none)
  <2>1. \A k \in 1 .. Len(none) : HasRequests(none[k])
    OBVIOUS
  <2>2. w = s.pending
    BY <1>2, <1>10
  <2>. HIDE DEF w, none
  <2>. QED BY <1>1, <2>1, <2>2 DEF KeptBatches, AllHaveRequests
<1>. HIDE DEF t, w, none
<1>. HIDE DEF p
<1>15. /\ t.log = p.log /\ t.lastOp = p.lastOp /\ t.lastCommitted = p.lastCommitted
       /\ t.clientTable = p.clientTable /\ t.work = w /\ t.pending = none
       /\ t.lastPrepare = p.lastPrepare /\ t.timers = p.timers /\ t.aborted = p.aborted
  BY <1>12, <1>13 DEF ReplicaStates
<1>16. t.timers = s.timers
  BY <1>2, <1>10, <1>12, <1>15 DEF SameButCommitted
<1>17. "resendPrepare" \notin t.timers
  BY <1>1, <1>16 DEF LeaderTimers
<1>18. SoundState(r, t)
  BY <1>1, <1>11, <1>14, <1>15, <1>16, <1>17 DEF SoundState, TableMatches, KeptBatches
<1>19. \A x \in RepliesTo(i, r, upto) : x.from = r /\ TrueReply(x, t)
  <2>1. upto <= Len(i.log)
    BY <1>2, <1>4
  <2>2. t.log = i.log /\ t.lastCommitted = to
    BY <1>8, <1>10, <1>12, <1>15 DEF SameButCommitted
  <2>. QED BY <1>4, <1>5, <2>1, <2>2, RepliesTrue DEF to
<1>. QED BY <1>2, <1>18, <1>19 DEF i, c, p, t, w, none, upto

\* The dump comes to a follower that asked for it.
LEMMA SessionStateTransfer ==
    ASSUME Inv, QuorumInv, OrderInv, SessionInv, GoodStep, NEW r \in Replicas,
           ReceiveStateTransfer(r)
    PROVE  SessionInv'
<1>. DEFINE s   == rep[r]
            old == s.lastOp
<1>1. PICK m \in Received(r, "StateTransfer") : HandleStateTransfer(r, m)
  BY DEF ReceiveStateTransfer
<1>2. /\ m \in Messages /\ m.type = "StateTransfer" /\ CarriesLog(m, LeaderLog)
      /\ m \in msgs /\ m.to = r
  BY ReceivedFacts DEF Received
<1>3. r # Leader /\ m.first <= s.lastCommitted + 1 /\ m.opnum <= LastEntry(m)
  <2>1. Vouches(m) /\ Receivable(m)
    BY <1>2 DEF QuorumInv, SessionInv
  <2>. QED BY <1>2, <2>1 DEF Vouches, Receivable
<1>4. GoodState(r, s) /\ NewLog(r, s) = LeaderLog /\ SoundState(r, s)
  BY GoodNow DEF SessionInv
<1>5. m.opnum \in Nat /\ m.view = 0 /\ s.view = 0 /\ ~(m.view > s.view)
  BY <1>2, <1>4, GoodBounds DEF Messages, CarriesLog
<1>. DEFINE i == InstallEntries(s, m)
            c == CommitUpTo(i, m.opnum)
            p == SendPrepareOKs(c, old)
            t == [p EXCEPT !.work = c.pending, !.pending = <<>>]
<1>6. OldLastOp(s, m) = old /\ GoodState(r, i)
  BY <1>2, <1>4, GoodInstall
<1>7. /\ ~i.aborted /\ m.opnum <= i.lastOp /\ SoundState(r, t)
      /\ \A x \in RepliesTo(i, r, m.opnum) : x.from = r /\ TrueReply(x, t)
  BY <1>2, <1>3, <1>4, DumpSound
<1>8. ~(m.opnum > i.lastOp)
  BY <1>5, <1>6, <1>7, GoodBounds, StateFields
<1>9. /\ Become(r, t) /\ Network({m}, PrepareOKsFor(c, r, old))
      /\ replies' = replies \cup RepliesTo(i, r, m.opnum)
  BY <1>1, <1>5, <1>6, <1>7, <1>8 DEF HandleStateTransfer
<1>. HIDE DEF i, c, p, t, old
<1>10. \A x \in PrepareOKsFor(c, r, old) : SentFit(x, r, t)
  BY DEF PrepareOKsFor, PrepareOK, SentFit
<1>11. /\ msgs' \subseteq msgs \cup PrepareOKsFor(c, r, old)
       /\ replies' \subseteq replies \cup RepliesTo(i, r, m.opnum)
  BY <1>9 DEF Network
<1>. QED BY <1>7, <1>9, <1>10, <1>11, SessionChange

-------------------------------------------------------------------------------
(* The specification                                                       *)

\* Every step keeps the invariant.
LEMMA SessionStep ==
    ASSUME Inv, QuorumInv, OrderInv, SessionInv, [Next]_vars
    PROVE  SessionInv'
<1>1. GoodStep
  BY StepGood
<1>2. ASSUME NEW r \in Up, Step(r)
      PROVE  SessionInv'
  <2>1. r \in Replicas
    BY NetworkAssumption
  <2>2. CASE (\E q \in Requests : AddToQueue(r, q) \/ HandleRequest(r, q)) \/ BgRepl(r)
    BY <1>1, <2>1, <2>2, SessionOrder
  <2>3. CASE ReplayPending(r) \/ Receive(r) \/ Timer(r)
    BY <1>1, <2>1, <2>3, SessionTimer, SessionPrepare, SessionPrepareOK, SessionCommit,
       SessionRequestStateTransfer, SessionStateTransfer DEF Receive
  <2>. QED BY <1>2, <2>2, <2>3 DEF Step
<1>3. CASE UNCHANGED <<rep, replies>> /\ msgs' \subseteq msgs
  <2>1. Become(Leader, rep[Leader])
    <3>1. rep \in [Replicas -> ReplicaStates]
      BY DEF Inv, TypeOK
    <3>. QED BY <1>3, <3>1, LeaderIsReplica DEF Become
  <2>2. SoundState(Leader, rep[Leader])
    BY LeaderIsReplica DEF SessionInv
  <2>. QED BY <1>1, <1>3, <2>1, <2>2, LeaderIsReplica, SessionSilent
<1>4. ASSUME NEW m \in msgs, Lose(m)
      PROVE  UNCHANGED <<rep, replies>> /\ msgs' \subseteq msgs
  BY <1>4 DEF Lose
<1>. QED BY <1>2, <1>3, <1>4 DEF Next, vars

\* At first there are no operations, no batches, no messages and no replies.
LEMMA InitSession == Init => SessionInv
<1>. SUFFICES ASSUME Init
              PROVE  SessionInv
  OBVIOUS
<1>1. ASSUME NEW r \in Replicas
      PROVE  SoundState(r, rep[r])
  <2>. DEFINE ts == IF GetLeaderIndex(0) = r THEN {"nullCommit", "bgRepl"} ELSE {"viewChange"}
  <2>1. rep[r] = NewReplica(r)
    BY DEF Init
  <2>2. /\ rep[r].aborted = FALSE /\ rep[r].lastOp = 0 /\ rep[r].lastCommitted = 0
        /\ rep[r].lastBatchEnd = 0 /\ rep[r].work = <<>> /\ rep[r].pending = <<>>
        /\ rep[r].timers = ts /\ \A c \in Clients : rep[r].clientTable[c] = NewClient
    BY <2>1 DEF NewReplica
  <2>3. "resendPrepare" \notin ts /\ "closeBatch" \notin ts
    OBVIOUS
  <2>4. r # Leader => ts \cap LeaderTimers = {}
    BY DEF Leader, LeaderTimers
  <2>. HIDE DEF ts
  <2>5. TableMatches(rep[r])
    <3>1. \A k \in 1 .. 0 : FALSE
      OBVIOUS
    <3>. QED BY <2>2, <3>1 DEF TableMatches, TableTells, Tells
  <2>6. KeptBatches(rep[r])
    <3>. DEFINE none == <<>>
    <3>1. \A k \in 1 .. Len(none) : FALSE
      OBVIOUS
    <3>2. rep[r].work = none /\ rep[r].pending = none
      BY <2>2
    <3>. HIDE DEF none
    <3>. QED BY <2>2, <2>3, <3>1, <3>2 DEF KeptBatches, AllHaveRequests
  <2>7. LeaderBatches(rep[r])
    <3>1. 0 <= 0 /\ ~(0 < 0)
      OBVIOUS
    <3>. QED BY <2>2, <2>3, <3>1 DEF LeaderBatches
  <2>. QED BY <2>2, <2>4, <2>5, <2>6, <2>7 DEF SoundState
<1>2. msgs = {} /\ replies = {}
  BY DEF Init
<1>. QED BY <1>1, <1>2 DEF SessionInv

\* What every reachable state satisfies.
ClientInv == Inv /\ QuorumInv /\ OrderInv /\ SessionInv

LEMMA ClientInductive == Spec => []ClientInv
<1>1. Init => ClientInv
  BY InitInv, InitQuorum, InitOrder, InitSession DEF ClientInv
<1>2. ClientInv /\ [Next]_vars => ClientInv'
  BY QuorumStep, OrderStep, SessionStep DEF ClientInv
<1>. QED BY <1>1, <1>2, PTL DEF Spec

\* No ASSERT of replica.cc fails and no RPanic is reached in view 0.
THEOREM NeverAborts == Spec => []NoAbort
<1>1. ClientInv => NoAbort
  BY DEF ClientInv, SessionInv, SoundState, NoAbort
<1>. QED BY <1>1, ClientInductive, PTL

\* A request that waits for its batch has the closeBatch timer, a batch that was
\* sent and is not committed the resendPrepare timer.
THEOREM NothingIsStranded == Spec => []NothingStranded
<1>1. ClientInv => NothingStranded
  <2>. SUFFICES ASSUME ClientInv, NEW r \in Replicas, AmLeader(rep[r], r)
                PROVE  /\ rep[r].lastBatchEnd < rep[r].lastOp => "closeBatch" \in rep[r].timers
                       /\ rep[r].lastCommitted < rep[r].lastBatchEnd =>
                              /\ "resendPrepare" \in rep[r].timers
                              /\ rep[r].lastPrepare.opnum = rep[r].lastBatchEnd
    BY DEF NothingStranded
  <2>1. r = Leader
    BY GoodNow, GoodBounds DEF ClientInv
  <2>. QED BY <2>1 DEF ClientInv, SessionInv, SoundState, LeaderBatches
<1>. QED BY <1>1, ClientInductive, PTL

\* The client table says of each client what the log says, whichever way the log
\* came: the newest request, and the reply to it once it is executed.
THEOREM TableMatchesLog == Spec => []ClientTableMatchesLog
<1>1. ClientInv => ClientTableMatchesLog
  <2>. SUFFICES ASSUME ClientInv, NEW r \in Replicas, NEW c \in Clients
                PROVE  LET mine  == {k \in DOMAIN rep[r].log : rep[r].log[k].req.client = c}
                           entry == rep[r].clientTable[c]
                       IN  IF mine = {} THEN entry = NewClient
                           ELSE /\ entry.lastReqId = rep[r].log[Max(mine)].req.id
                                /\ entry.replied <=> Max(mine) <= rep[r].lastCommitted
                                /\ entry.replied => entry.opnum = Max(mine)
    BY DEF ClientTableMatchesLog
  <2>. DEFINE l     == rep[r].log
              n     == rep[r].lastOp
              mine  == {k \in DOMAIN l : l[k].req.client = c}
              entry == rep[r].clientTable[c]
  <2>1. /\ l \in Seq(Entries) /\ n = Len(l) /\ n \in Nat /\ rep[r].lastCommitted \in Nat
    BY GoodNow, GoodBounds, StateFields DEF ClientInv
  <2>2. Tells(l, rep[r].lastCommitted, n, c, entry)
    BY DEF ClientInv, SessionInv, SoundState, TableMatches, TableTells
  <2>3. DOMAIN l = 1 .. n
    BY <2>1
  <2>4. CASE mine = {}
    <3>1. \A k \in 1 .. n : l[k].req.client # c
      BY <2>3, <2>4
    <3>. HIDE DEF l, n, mine, entry
    <3>2. entry = NewClient
      BY <2>2, <3>1 DEF Tells
    <3>. QED BY <2>4, <3>2 DEF l, mine, entry
  <2>5. CASE mine # {}
    <3>. DEFINE x == Max(mine)
    <3>. HIDE DEF n
    <3>1. x \in mine /\ \A k \in mine : k <= x
      <4>1. mine \subseteq Nat /\ \A k \in mine : k <= n
        BY <2>1, <2>3
      <4>. HIDE DEF mine
      <4>. QED BY <2>1, <2>5, <4>1, MaxOfNat
    <3>2. Newest(l, n, c, x) /\ x \in 1 .. n
      <4>. HIDE DEF x
      <4>. QED BY <2>3, <3>1 DEF Newest
    <3>. HIDE DEF l, mine, entry, x
    <3>3. /\ entry.lastReqId = l[x].req.id
          /\ entry.replied <=> x <= rep[r].lastCommitted
          /\ x <= rep[r].lastCommitted => entry.opnum = x
      BY <2>2, <3>2 DEF Tells
    <3>. QED BY <2>5, <3>3 DEF l, mine, entry, x
  <2>. QED BY <2>4, <2>5
<1>. QED BY <1>1, ClientInductive, PTL

\* A reply, stored ones included, tells of an operation that its sender has
\* executed, and all replies to a request name the same viewstamp.
THEOREM RepliesAreTrue == Spec => []RepliesExecuted
<1>1. ClientInv => RepliesExecuted
  <2>. SUFFICES ASSUME ClientInv
                PROVE  RepliesExecuted
    OBVIOUS
  <2>. DEFINE l == LeaderLog
  <2>1. ASSUME NEW m \in replies
        PROVE  /\ m.opnum \in 1 .. rep[m.from].lastCommitted
               /\ rep[m.from].log[m.opnum] = [view |-> m.view, req |-> m.req]
    BY <2>1 DEF ClientInv, SessionInv, TrueReply
  <2>2. l \in Seq(Entries) /\ Len(l) \in Nat
    BY LeaderLogEntries DEF ClientInv
  <2>3. ASSUME NEW m \in replies
        PROVE  /\ m.opnum \in 1 .. Len(l) /\ l[m.opnum] = [view |-> m.view, req |-> m.req]
               /\ m.view = 0
    <3>1. m.from \in Replicas
      BY <2>3 DEF ClientInv, Inv, TypeOK, ReplyMessages
    <3>2. /\ rep[m.from].lastCommitted <= Len(rep[m.from].log)
          /\ Len(rep[m.from].log) \in Nat /\ rep[m.from].lastCommitted \in Nat
      BY <3>1, GoodNow, GoodBounds, StateFields DEF ClientInv
    <3>3. /\ Len(rep[m.from].log) <= Len(l)
          /\ \A k \in 1 .. Len(rep[m.from].log) :
                 rep[m.from].log[k] = l[k] /\ rep[m.from].log[k].view = 0
      BY <3>1 DEF ClientInv, Inv, LogsFollowLeader, FollowsLog, LeaderLog, Leader
    <3>. HIDE DEF l
    <3>4. m.opnum \in 1 .. Len(rep[m.from].log) /\ m.opnum \in 1 .. Len(l)
      <4>. DEFINE d == rep[m.from].lastCommitted
                  o == Len(rep[m.from].log)
                  a == m.opnum
                  b == Len(l)
      <4>1. a \in 1 .. d /\ d <= o /\ o <= b /\ d \in Nat /\ o \in Nat /\ b \in Nat
        BY <2>1, <2>2, <2>3, <3>2, <3>3
      <4>. HIDE DEF d, o, a, b
      <4>2. a \in 1 .. o /\ a \in 1 .. b
        BY <4>1
      <4>. QED BY <4>2 DEF a, o, b
    <3>5. /\ l[m.opnum] = [view |-> m.view, req |-> m.req]
          /\ [view |-> m.view, req |-> m.req].view = 0
      BY <2>1, <2>3, <3>3, <3>4
    <3>. QED BY <3>4, <3>5
  <2>4. InClientOrder(l)
    BY OrderedLog DEF ClientInv, OrderInv, LeaderLog
  <2>. HIDE DEF l
  <2>5. ASSUME NEW m \in replies, NEW n \in replies, m.req = n.req
        PROVE  m.opnum = n.opnum /\ m.view = n.view
    <3>1. /\ l[m.opnum].req = m.req /\ l[n.opnum].req = m.req
          /\ m.opnum \in 1 .. Len(l) /\ n.opnum \in 1 .. Len(l)
      <4>1. /\ l[m.opnum] = [view |-> m.view, req |-> m.req]
            /\ l[n.opnum] = [view |-> n.view, req |-> n.req]
        BY <2>3, <2>5
      <4>. QED BY <2>3, <2>5, <4>1
    <3>2. m.req.id \in Nat
      BY <2>2, <3>1, EntryTypes
    <3>3. ~(m.opnum < n.opnum) /\ ~(n.opnum < m.opnum)
      <4>1. \A a, b \in 1 .. Len(l) :
                a < b /\ l[a].req = m.req /\ l[b].req = m.req => m.req.id < m.req.id
        BY <2>4 DEF InClientOrder
      <4>2. ~(m.req.id < m.req.id)
        BY <3>2
      <4>3. l[m.opnum].req = m.req /\ l[n.opnum].req = m.req
        BY <2>5, <3>1
      <4>. QED BY <3>1, <4>1, <4>2, <4>3
    <3>4. m.opnum = n.opnum
      <4>1. m.opnum \in Nat /\ n.opnum \in Nat
        BY <2>2, <3>1
      <4>. QED BY <3>3, <4>1
    <3>. QED BY <2>3, <2>5, <3>4
  <2>. QED BY <2>1, <2>5 DEF RepliesExecuted
<1>. QED BY <1>1, ClientInductive, PTL

-------------------------------------------------------------------------------
(* Updates in line                                                         *)

\* An operation whose client's earlier requests are in the log is added to it.
LEMMA LineAppended ==
    ASSUME NEW l \in Seq(Entries), NEW queue \in Seq(Requests), NEW sent,
           InLine(l, queue, sent), NEW e \in Entries,
           \A p \in Requests : p.client = e.req.client /\ p.id < e.req.id => InLog(l, p)
    PROVE  InLine(Append(l, e), queue, sent) /\ InLog(Append(l, e), e.req)
<1>. DEFINE m == Append(l, e)
            n == Len(l)
<1>1. /\ n \in Nat /\ Len(m) = n + 1 /\ m[n + 1] = e /\ \A k \in 1 .. n : m[k] = l[k]
  OBVIOUS
<1>. HIDE DEF m
<1>2. \A p : InLog(l, p) => InLog(m, p)
  BY <1>1 DEF InLog
<1>3. \A i, p : Ahead(l, queue, i, p) => Ahead(m, queue, i, p)
  BY <1>2 DEF Ahead
<1>4. InLog(m, e.req)
  BY <1>1 DEF InLog
<1>5. ASSUME NEW k \in 1 .. Len(m), NEW p \in Requests,
             p.client = m[k].req.client, p.id < m[k].req.id
      PROVE  \E j \in 1 .. k - 1 : m[j].req = p
  <2>1. CASE k \in 1 .. n
    <3>1. PICK j \in 1 .. k - 1 : l[j].req = p
      BY <1>1, <1>5, <2>1 DEF InLine
    <3>2. j \in 1 .. n
      BY <1>1, <2>1
    <3>. QED BY <1>1, <3>1, <3>2
  <2>2. CASE k = n + 1
    <3>1. InLog(l, p)
      BY <1>1, <1>5, <2>2
    <3>2. k - 1 = n
      BY <1>1, <2>2
    <3>. QED BY <1>1, <3>1, <3>2 DEF InLog
  <2>. QED BY <1>1, <2>1, <2>2
<1>6. InLine(m, queue, sent)
  BY <1>3, <1>5 DEF InLine
<1>. QED BY <1>4, <1>6 DEF m

\* A request whose client's earlier requests are in log or queue is queued.
LEMMA LineQueued ==
    ASSUME NEW l, NEW queue \in Seq(Requests), NEW sent,
           InLine(l, queue, sent), NEW q \in Requests,
           \A p \in Requests : p.client = q.client /\ p.id < q.id
               => Ahead(l, queue, Len(queue) + 1, p)
    PROVE  LET more == Append(queue, q)
           IN  InLine(l, more, sent) /\ Ahead(l, more, Len(more) + 1, q)
<1>. DEFINE m == Append(queue, q)
            n == Len(queue)
<1>1. /\ n \in Nat /\ Len(m) = n + 1 /\ m[n + 1] = q /\ \A k \in 1 .. n : m[k] = queue[k]
  OBVIOUS
<1>. HIDE DEF m
<1>2. ASSUME NEW i \in 1 .. n + 1, NEW p, Ahead(l, queue, i, p)
      PROVE  Ahead(l, m, i, p)
  <2>1. \A j \in 1 .. i - 1 : m[j] = queue[j]
    BY <1>1
  <2>. QED BY <1>2, <2>1 DEF Ahead
<1>3. (n + 1) - 1 = n /\ (n + 1) + 1 - 1 = n + 1
  BY <1>1
<1>4. Ahead(l, m, Len(m) + 1, q)
  BY <1>1, <1>3 DEF Ahead
<1>5. ASSUME NEW p, Ahead(l, m, n + 1, p)
      PROVE  Ahead(l, m, Len(m) + 1, p)
  <2>1. \A j \in 1 .. (n + 1) - 1 : j \in 1 .. (Len(m) + 1) - 1
    BY <1>1
  <2>. QED BY <1>5, <2>1 DEF Ahead
<1>6. \A p \in Requests : p.id <= sent[p.client] => Ahead(l, m, Len(m) + 1, p)
  <2>1. n + 1 \in 1 .. n + 1
    BY <1>1
  <2>. QED BY <1>2, <1>5, <2>1 DEF InLine
<1>7. ASSUME NEW i \in 1 .. Len(m), NEW p \in Requests, p.client = m[i].client, p.id < m[i].id
      PROVE  Ahead(l, m, i, p)
  <2>1. i \in 1 .. n + 1
    BY <1>1
  <2>2. Ahead(l, queue, i, p)
    <3>1. CASE i \in 1 .. n
      BY <1>1, <1>7, <3>1 DEF InLine
    <3>2. CASE i = n + 1
      BY <1>1, <1>7, <3>2
    <3>. QED BY <1>1, <2>1, <3>1, <3>2
  <2>. QED BY <1>2, <2>1, <2>2
<1>8. InLine(l, m, sent)
  <2>1. \A k \in 1 .. Len(l) : \A p \in Requests :
            p.client = l[k].req.client /\ p.id < l[k].req.id => \E j \in 1 .. k - 1 : l[j].req = p
    BY DEF InLine
  <2>. QED BY <1>6, <1>7, <2>1 DEF InLine
<1>. QED BY <1>4, <1>8 DEF m

\* A request that is in log or queue may have been sent.
LEMMA LineSent ==
    ASSUME NEW l, NEW queue, NEW sent \in [Clients -> Nat],
           InLine(l, queue, sent), NEW q \in Requests,
           Ahead(l, queue, Len(queue) + 1, q), q.id <= sent[q.client] + 1,
           NEW more, more = [sent EXCEPT ![q.client] = Max({@, q.id})]
    PROVE  InLine(l, queue, more)
<1>1. q.client \in Clients /\ q.id \in Nat /\ sent[q.client] \in Nat
  BY RequestFields
<1>2. more = [sent EXCEPT ![q.client] = IF sent[q.client] >= q.id THEN sent[q.client] ELSE q.id]
  <2>1. PICK n : n = Max({sent[q.client], q.id})
    OBVIOUS
  <2>2. n = IF sent[q.client] >= q.id THEN sent[q.client] ELSE q.id
    BY <1>1, <2>1, MaxOfTwo
  <2>3. more = [sent EXCEPT ![q.client] = n]
    BY <2>1
  <2>. QED BY <2>2, <2>3
<1>3. ASSUME NEW p \in Requests, p.id <= more[p.client]
      PROVE  Ahead(l, queue, Len(queue) + 1, p)
  <2>1. p.client \in Clients /\ p.id \in Nat /\ sent[p.client] \in Nat
    BY RequestFields
  <2>2. CASE p.id <= sent[p.client]
    BY <2>2 DEF InLine
  <2>3. CASE ~(p.id <= sent[p.client])
    <3>1. p.client = q.client
      BY <1>1, <1>2, <1>3, <2>1, <2>3
    <3>2. more[p.client] = IF sent[q.client] >= q.id THEN sent[q.client] ELSE q.id
      BY <1>1, <1>2, <3>1
    <3>3. p.id = q.id
      BY <1>1, <1>3, <2>1, <2>3, <3>1, <3>2
    <3>4. p = q
      BY <3>1, <3>3, SameRequest
    <3>. QED BY <3>4
  <2>. QED BY <2>2, <2>3
<1>. QED BY <1>3 DEF InLine

\* The head of the queue is taken when it is in the log.
LEMMA LineTaken ==
    ASSUME NEW l, NEW queue \in Seq(Requests), NEW sent, InLine(l, queue, sent),
           queue # <<>>, InLog(l, Head(queue))
    PROVE  InLine(l, Tail(queue), sent)
<1>. DEFINE m == Tail(queue)
            n == Len(queue)
<1>1. /\ n \in Nat /\ 1 <= n /\ Len(m) = n - 1 /\ queue[1] = Head(queue)
      /\ \A k \in 1 .. n - 1 : m[k] = queue[k + 1]
  OBVIOUS
<1>. HIDE DEF m
<1>2. ASSUME NEW i \in 1 .. n, NEW p, Ahead(l, queue, i + 1, p)
      PROVE  Ahead(l, m, i, p)
  <2>1. CASE InLog(l, p)
    BY <2>1 DEF Ahead
  <2>2. CASE \E j \in 1 .. (i + 1) - 1 : queue[j] = p
    <3>1. PICK j \in 1 .. i : queue[j] = p
      BY <1>1, <2>2
    <3>2. CASE j = 1
      BY <1>1, <3>1, <3>2 DEF Ahead
    <3>3. CASE j # 1
      <4>1. j - 1 \in 1 .. i - 1 /\ j - 1 \in 1 .. n - 1 /\ (j - 1) + 1 = j
        BY <1>1, <3>1, <3>3
      <4>2. m[j - 1] = p
        BY <1>1, <3>1, <4>1
      <4>. QED BY <4>1, <4>2 DEF Ahead
    <3>. QED BY <3>2, <3>3
  <2>. QED BY <1>2, <2>1, <2>2 DEF Ahead
<1>3. ASSUME NEW p \in Requests, p.id <= sent[p.client]
      PROVE  Ahead(l, m, Len(m) + 1, p)
  <2>1. Ahead(l, queue, n + 1, p)
    BY <1>3 DEF InLine
  <2>2. n \in 1 .. n /\ Len(m) + 1 = n
    BY <1>1
  <2>. QED BY <1>2, <2>1, <2>2
<1>4. ASSUME NEW i \in 1 .. Len(m), NEW p \in Requests, p.client = m[i].client, p.id < m[i].id
      PROVE  Ahead(l, m, i, p)
  <2>1. i \in 1 .. n /\ i + 1 \in 1 .. n /\ m[i] = queue[i + 1]
    BY <1>1
  <2>2. Ahead(l, queue, i + 1, p)
    BY <1>4, <2>1 DEF InLine
  <2>. QED BY <1>2, <2>1, <2>2
<1>5. \A k \in 1 .. Len(l) : \A p \in Requests :
          p.client = l[k].req.client /\ p.id < l[k].req.id => \E j \in 1 .. k - 1 : l[j].req = p
  BY DEF InLine
<1>6. InLine(l, m, sent)
  BY <1>3, <1>4, <1>5 DEF InLine
<1>. QED BY <1>6 DEF m

\* A request that is not newer than the client table says is in the log.
LEMMA StaleInLog ==
    ASSUME NEW s \in ReplicaStates, s.lastOp = Len(s.log), TableMatches(s),
           NEW queue, NEW sent, InLine(s.log, queue, sent),
           NEW q \in Requests, ~(LastId(s, q.client) < q.id)
    PROVE  InLog(s.log, q)
<1>. DEFINE l == s.log
            n == s.lastOp
            c == q.client
            entry == s.clientTable[c]
<1>1. /\ l \in Seq(Entries) /\ n = Len(l) /\ n \in Nat /\ c \in Clients
      /\ q.id \in Nat /\ 1 <= q.id /\ LastId(s, c) \in Nat
  BY StateFields, RequestFields, OrderTypes
<1>2. Tells(l, s.lastCommitted, n, c, entry) /\ LastId(s, c) = entry.lastReqId
  BY <1>1 DEF TableMatches, TableTells, LastId
<1>3. entry.lastReqId \in Nat /\ q.id <= entry.lastReqId
  BY <1>1, <1>2
<1>. HIDE DEF l, n, c, entry
<1>4. PICK j \in 1 .. n : l[j].req.client = c
  <2>1. NewClient.lastReqId = 0
    BY DEF NewClient
  <2>. QED BY <1>1, <1>2, <1>3, <2>1 DEF Tells
<1>5. PICK k \in 1 .. n : Newest(l, n, c, k)
  BY <1>1, <1>4, NewestExists
<1>6. /\ entry.lastReqId = l[k].req.id /\ l[k].req.client = c /\ k \in 1 .. Len(l)
      /\ l[k].req \in Requests /\ l[k].req.id \in Nat
  BY <1>1, <1>2, <1>5, EntryTypes DEF Tells, Newest
<1>7. CASE l[k].req.id = q.id
  <2>1. l[k].req = q
    BY <1>6, <1>7, SameRequest DEF c
  <2>. QED BY <1>6, <2>1 DEF InLog, l
<1>8. CASE q.id < l[k].req.id
  <2>1. PICK i \in 1 .. k - 1 : l[i].req = q
    BY <1>6, <1>8 DEF InLine, l, c
  <2>2. i \in 1 .. Len(l)
    BY <1>1, <1>6
  <2>. QED BY <2>1, <2>2 DEF InLog, l
<1>. QED BY <1>1, <1>3, <1>6, <1>7, <1>8

\* Closing a batch, executing operations and keeping a timer leave the queue alone.
LEMMA QueueKept ==
    ASSUME NEW s \in ReplicaStates, NEW r
    PROVE  /\ CloseBatch(s, r).queue = s.queue
           /\ KeepInBatch(s).queue = s.queue
           /\ \A k : FinishBatch(s, r, k).queue = s.queue
<1>1. ASSUME NEW t \in ReplicaStates
      PROVE  CloseBatch(t, r).queue = t.queue
  BY <1>1 DEF CloseBatch, Abort, ReplicaStates
<1>2. KeepInBatch(s).queue = s.queue
  BY DEF KeepInBatch, ReplicaStates
<1>3. ASSUME NEW k
      PROVE  FinishBatch(s, r, k).queue = s.queue
  <2>. DEFINE ts   == s.timers \cup {"nullCommit"}
              full == s.batchComplete \/ s.lastBatchEnd = k
              t    == [s EXCEPT !.timers = ts, !.batchComplete = full]
  <2>1. ts \in SUBSET Timers /\ full \in BOOLEAN
    BY StateFields DEF Timers
  <2>2. FinishBatch(s, r, k) = IF s.lastBatchEnd = k /\ s.lastOp > k THEN CloseBatch(t, r) ELSE t
    <3>1. t = [s EXCEPT !.timers = s.timers \cup {"nullCommit"},
                        !.batchComplete = s.batchComplete \/ s.lastBatchEnd = k]
      OBVIOUS
    <3>. QED BY <3>1 DEF FinishBatch
  <2>3. t = [s EXCEPT !.timers = ts, !.batchComplete = full]
    OBVIOUS
  <2>. HIDE DEF t, ts, full
  <2>4. t \in ReplicaStates /\ t.queue = s.queue
    BY <2>1, <2>3 DEF ReplicaStates
  <2>. QED BY <1>1, <2>2, <2>4
<1>. QED BY <1>1, <1>2, <1>3

\* The requests that the clients have sent are in line.
LineInv == InLine(LeaderLog, rep[Leader].queue, issued)

\* The leader's log, its queue and what the clients have sent do not change.
SameLine ==
    /\ rep'[Leader].log = rep[Leader].log /\ rep'[Leader].queue = rep[Leader].queue
    /\ issued' = issued

LEMMA LineSame ==
    ASSUME LineInv, SameLine
    PROVE  LineInv'
<1>1. rep'[Leader].log = LeaderLog
  BY DEF SameLine, LeaderLog, Leader
<1>2. InLine(rep'[Leader].log, rep'[Leader].queue, issued')
  BY <1>1 DEF LineInv, SameLine
<1>. QED BY <1>2 DEF LineInv, LeaderLog, Leader

\* A request that arrives comes after the earlier ones of its client.
LEMMA ArrivesInLine ==
    ASSUME Inv, LineInv, NEW q \in Requests, Arrives(q)
    PROVE  /\ \A p \in Requests : p.client = q.client /\ p.id < q.id
                  => Ahead(LeaderLog, rep[Leader].queue, Len(rep[Leader].queue) + 1, p)
           /\ q.id <= issued[q.client] + 1
           /\ issued \in [Clients -> Nat]
           /\ issued' = [issued EXCEPT ![q.client] = Max({@, q.id})]
<1>1. issued \in [Clients -> Nat] /\ q.client \in Clients /\ q.id \in Nat
  BY RequestFields DEF Inv, TypeOK
<1>2. q.id <= issued[q.client] + 1 /\ issued' = [issued EXCEPT ![q.client] = Max({@, q.id})]
  BY <1>1 DEF Arrives
<1>3. ASSUME NEW p \in Requests, p.client = q.client, p.id < q.id
      PROVE  p.id <= issued[p.client]
  BY <1>1, <1>2, <1>3, RequestFields
<1>. QED BY <1>1, <1>2, <1>3 DEF LineInv, InLine

\* Requests are queued, taken from the queue and ordered in line.
LEMMA LineOrder ==
    ASSUME Inv, OrderInv, SessionInv, LineInv,
           \/ \E q \in Requests : AddToQueue(Leader, q) \/ HandleRequest(Leader, q)
           \/ BgRepl(Leader)
    PROVE  LineInv'
<1>. DEFINE r     == Leader
            l     == rep[r].log
            queue == rep[r].queue
            after == rep'[r]
<1>1. /\ r \in Replicas /\ rep[r] \in ReplicaStates /\ GoodState(r, rep[r])
      /\ TableMatches(rep[r]) /\ OrderedState(rep[r]) /\ l \in Seq(Entries)
      /\ queue \in Seq(Requests) /\ rep[r].view = 0
  BY LeaderIsReplica, GoodNow, GoodBounds, StateFields DEF SessionInv, SoundState, OrderInv
<1>2. l = LeaderLog /\ InLine(l, queue, issued)
  BY DEF LineInv, LeaderLog, Leader
<1>3. ASSUME NEW t, Become(r, t)
      PROVE  after = t
  BY <1>1, <1>3 DEF Inv, TypeOK, Become
<1>4. ASSUME InLine(after.log, after.queue, issued')
      PROVE  LineInv'
  BY <1>4 DEF LineInv, LeaderLog, Leader
<1>. DEFINE t(s, q) == AppendRequest(s, q)
<1>5. ASSUME NEW s \in ReplicaStates, s.log = l, s.lastOp = rep[r].lastOp, s.view = 0,
             s.clientTable = rep[r].clientTable, s.lastCommitted = rep[r].lastCommitted,
             NEW q \in Requests
      PROVE  /\ ~(LastId(s, q.client) < q.id) => InLog(l, q)
             /\ LastId(s, q.client) < q.id =>
                    /\ t(s, q) \in ReplicaStates
                    /\ t(s, q).log = Append(l, [view |-> 0, req |-> q])
                    /\ t(s, q).queue = s.queue
  <2>1. s.lastOp = Len(s.log) /\ s.lastCommitted <= s.lastOp
    BY <1>1, <1>5, GoodBounds
  <2>2. OrderedState(s) /\ TableMatches(s)
    BY <1>1, <1>5 DEF OrderedState, TableMatches, LastId
  <2>3. ~(LastId(s, q.client) < q.id) => InLog(l, q)
    <3>. HIDE DEF l, queue
    <3>. QED BY <1>2, <1>5, <2>1, <2>2, StaleInLog
  <2>4. ASSUME LastId(s, q.client) < q.id
        PROVE  /\ t(s, q) \in ReplicaStates /\ SameButAppended(s, t(s, q))
               /\ t(s, q).log = Append(s.log, [view |-> s.view, req |-> q])
    BY <2>1, <2>2, <2>4, AppendSound
  <2>. QED BY <1>5, <2>3, <2>4 DEF SameButAppended
<1>6. ASSUME NEW s \in ReplicaStates, s.log = l, s.lastOp = rep[r].lastOp, s.view = 0,
             s.clientTable = rep[r].clientTable, s.lastCommitted = rep[r].lastCommitted,
             NEW q \in Requests, LastId(s, q.client) < q.id,
             \/ Become(r, CloseBatch(t(s, q), r))
             \/ Become(r, KeepInBatch(t(s, q)))
      PROVE  after.log = Append(l, [view |-> 0, req |-> q]) /\ after.queue = s.queue
  <2>. DEFINE u == t(s, q)
  <2>1. /\ u \in ReplicaStates /\ u.log = Append(l, [view |-> 0, req |-> q])
        /\ u.queue = s.queue
    BY <1>5, <1>6
  <2>. HIDE DEF u
  <2>2. /\ CloseBatch(u, r).log = u.log /\ KeepInBatch(u).log = u.log
        /\ CloseBatch(u, r).queue = u.queue /\ KeepInBatch(u).queue = u.queue
    BY <2>1, QueueKept, SmallOrder DEF SameOrder
  <2>3. after = CloseBatch(u, r) \/ after = KeepInBatch(u)
    BY <1>3, <1>6 DEF u
  <2>. HIDE DEF l, after, r
  <2>. QED BY <2>1, <2>2, <2>3
<1>7. ASSUME NEW q \in Requests, AddToQueue(r, q)
      PROVE  LineInv'
  <2>. DEFINE more == Append(queue, q)
              s    == [rep[r] EXCEPT !.queue = more]
  <2>1. after = s /\ Arrives(q)
    BY <1>3, <1>7 DEF AddToQueue
  <2>2. more \in Seq(Requests)
    BY <1>1
  <2>. HIDE DEF more
  <2>3. after.log = l /\ after.queue = more
    BY <1>1, <2>1, <2>2 DEF ReplicaStates
  <2>4. InLine(l, more, issued) /\ Ahead(l, more, Len(more) + 1, q)
    <3>1. \A p \in Requests : p.client = q.client /\ p.id < q.id
              => Ahead(l, queue, Len(queue) + 1, p)
      BY <1>2, <2>1, ArrivesInLine
    <3>. HIDE DEF l, queue
    <3>. QED BY <1>1, <1>2, <3>1, LineQueued DEF more
  <2>5. InLine(l, more, issued')
    <3>. HIDE DEF l, queue
    <3>. QED BY <2>1, <2>4, ArrivesInLine, LineSent
  <2>. QED BY <1>4, <2>3, <2>5
<1>8. ASSUME NEW q \in Requests, HandleRequest(r, q)
      PROVE  LineInv'
  <2>. DEFINE cs == rep[r].addresses \cup {q.client}
              ts == rep[r].timers \cup {"bgRepl"}
              s  == [rep[r] EXCEPT !.addresses = cs, !.timers = ts]
              e  == [view |-> 0, req |-> q]
  <2>1. cs \in SUBSET Clients /\ ts \in SUBSET Timers
    BY <1>1, StateFields, RequestFields DEF Timers
  <2>2. /\ Arrives(q) /\ queue = <<>>
        /\ \/ Become(r, s) /\ ~(LastId(s, q.client) < q.id)
           \/ /\ LastId(s, q.client) < q.id
              /\ \/ Become(r, CloseBatch(t(s, q), r))
                 \/ Become(r, KeepInBatch(t(s, q)))
    <3>. DEFINE last == s.clientTable[q.client].lastReqId
    <3>1. last \in Nat /\ q.id \in Nat /\ last = LastId(s, q.client)
      <4>1. last = rep[r].clientTable[q.client].lastReqId
        BY <1>1 DEF ReplicaStates
      <4>. QED BY <1>1, <4>1, OrderTypes, RequestFields DEF LastId
    <3>2. \/ Become(r, s) /\ (q.id < last \/ q.id = last)
          \/ /\ q.id > last
             /\ \/ Become(r, CloseBatch(t(s, q), r))
                \/ Become(r, KeepInBatch(t(s, q)))
      BY <1>8 DEF HandleRequest
    <3>3. Arrives(q) /\ queue = <<>>
      BY <1>8 DEF HandleRequest, Drained
    <3>. HIDE DEF s, t, last
    <3>. QED BY <3>1, <3>2, <3>3
  <2>3. s = [rep[r] EXCEPT !.addresses = cs, !.timers = ts]
    OBVIOUS
  <2>. HIDE DEF cs, ts, s
  <2>4. /\ s \in ReplicaStates /\ s.log = l /\ s.lastOp = rep[r].lastOp /\ s.view = 0
        /\ s.clientTable = rep[r].clientTable /\ s.lastCommitted = rep[r].lastCommitted
        /\ s.queue = queue
    BY <1>1, <2>1, <2>3 DEF ReplicaStates
  <2>5. ASSUME InLine(after.log, queue, issued), after.queue = queue, InLog(after.log, q)
        PROVE  LineInv'
    <3>1. Ahead(after.log, queue, Len(queue) + 1, q)
      BY <2>5 DEF Ahead
    <3>2. InLine(after.log, queue, issued')
      <4>. HIDE DEF after, queue
      <4>. QED BY <2>2, <2>5, <3>1, ArrivesInLine, LineSent
    <3>. QED BY <1>4, <2>5, <3>2
  <2>6. CASE Become(r, s) /\ ~(LastId(s, q.client) < q.id)
    <3>1. after.log = l /\ after.queue = queue /\ InLog(l, q)
      BY <1>3, <1>5, <2>4, <2>6
    <3>. QED BY <1>2, <2>5, <3>1
  <2>7. CASE /\ LastId(s, q.client) < q.id
             /\ \/ Become(r, CloseBatch(t(s, q), r))
                \/ Become(r, KeepInBatch(t(s, q)))
    <3>1. after.log = Append(l, e) /\ after.queue = queue
      BY <1>6, <2>4, <2>7
    <3>2. e \in Entries /\ e.req = q
      BY DEF Entries, Views
    <3>3. \A p \in Requests : p.client = q.client /\ p.id < q.id => InLog(l, p)
      <4>1. \A j \in 1 .. (Len(<<>>) + 1) - 1 : FALSE
        OBVIOUS
      <4>. HIDE DEF l
      <4>. QED BY <1>2, <2>2, <4>1, ArrivesInLine DEF Ahead
    <3>. HIDE DEF e
    <3>4. InLine(Append(l, e), queue, issued) /\ InLog(Append(l, e), q)
      <4>. HIDE DEF l, queue
      <4>. QED BY <1>1, <1>2, <3>2, <3>3, LineAppended
    <3>. QED BY <2>5, <3>1, <3>4
  <2>. QED BY <2>2, <2>6, <2>7
<1>9. CASE BgRepl(r)
  <2>. DEFINE rest == Tail(queue)
              ts   == rep[r].timers \cup {"bgRepl"}
              q    == Head(queue)
              s    == [rep[r] EXCEPT !.queue = rest, !.timers = ts]
              e    == [view |-> 0, req |-> q]
  <2>1. queue # <<>> /\ issued' = issued
    BY <1>9 DEF BgRepl
  <2>2. q \in Requests /\ rest \in Seq(Requests) /\ ts \in SUBSET Timers
    BY <1>1, <2>1, HeadTailProperties, StateFields DEF Timers
  <2>3. \/ Become(r, s) /\ ~(LastId(s, q.client) < q.id)
        \/ /\ LastId(s, q.client) < q.id
           /\ \/ Become(r, CloseBatch(t(s, q), r))
              \/ Become(r, KeepInBatch(t(s, q)))
    <3>. DEFINE last == s.clientTable[q.client].lastReqId
    <3>. HIDE DEF q, rest
    <3>1. /\ last \in Nat /\ q.id \in Nat /\ last = LastId(s, q.client)
          /\ s.status = "NORMAL" /\ AmLeader(s, r)
      <4>1. /\ last = rep[r].clientTable[q.client].lastReqId /\ s.status = rep[r].status
            /\ s.view = rep[r].view
        BY <1>1 DEF ReplicaStates
      <4>2. rep[r].status = "NORMAL" /\ AmLeader(rep[r], r)
        BY <1>1, GoodBounds
      <4>. QED BY <1>1, <2>2, <4>1, <4>2, OrderTypes, RequestFields DEF LastId, AmLeader
    <3>2. \/ Become(r, s) /\ (s.status # "NORMAL" \/ ~AmLeader(s, r) \/ q.id <= last)
          \/ /\ q.id > last
             /\ \/ Become(r, CloseBatch(t(s, q), r))
                \/ Become(r, KeepInBatch(t(s, q)))
      BY <1>9 DEF BgRepl, q, rest
    <3>. HIDE DEF s, t, last
    <3>. QED BY <3>1, <3>2
  <2>4. s = [rep[r] EXCEPT !.queue = rest, !.timers = ts]
    OBVIOUS
  <2>. HIDE DEF rest, ts, q, s
  <2>5. /\ s \in ReplicaStates /\ s.log = l /\ s.lastOp = rep[r].lastOp /\ s.view = 0
        /\ s.clientTable = rep[r].clientTable /\ s.lastCommitted = rep[r].lastCommitted
        /\ s.queue = rest
    BY <1>1, <2>2, <2>4 DEF ReplicaStates
  <2>6. CASE Become(r, s) /\ ~(LastId(s, q.client) < q.id)
    <3>1. after.log = l /\ after.queue = rest /\ InLog(l, q)
      BY <1>3, <1>5, <2>2, <2>5, <2>6
    <3>2. InLine(l, rest, issued)
      <4>. HIDE DEF l, queue
      <4>. QED BY <1>1, <1>2, <2>1, <3>1, LineTaken DEF q, rest
    <3>. QED BY <1>4, <2>1, <3>1, <3>2
  <2>7. CASE /\ LastId(s, q.client) < q.id
             /\ \/ Become(r, CloseBatch(t(s, q), r))
                \/ Become(r, KeepInBatch(t(s, q)))
    <3>1. after.log = Append(l, e) /\ after.queue = rest
      BY <1>6, <2>2, <2>5, <2>7
    <3>2. e \in Entries /\ e.req = q
      BY <2>2 DEF Entries, Views
    <3>. HIDE DEF l, queue, e
    <3>3. \A p \in Requests : p.client = q.client /\ p.id < q.id => InLog(l, p)
      <4>1. 1 \in 1 .. Len(queue) /\ queue[1] = q /\ \A j \in 1 .. 1 - 1 : FALSE
        BY <1>1, <2>1 DEF q
      <4>. QED BY <1>2, <4>1 DEF InLine, Ahead
    <3>4. InLine(Append(l, e), queue, issued) /\ InLog(Append(l, e), q)
      BY <1>1, <1>2, <3>2, <3>3, LineAppended
    <3>5. InLine(Append(l, e), rest, issued)
      BY <1>1, <2>1, <3>4, LineTaken DEF q, rest
    <3>. QED BY <1>4, <2>1, <3>1, <3>5
  <2>. QED BY <2>3, <2>6, <2>7
<1>. QED BY <1>7, <1>8, <1>9

\* Timers, acknowledgements and requests for a log dump leave the line alone.
LEMMA LineOthers ==
    ASSUME Inv, LineInv,
           Timer(Leader) \/ ReceivePrepareOK(Leader) \/ ReceiveRequestStateTransfer(Leader)
    PROVE  SameLine
<1>. DEFINE r == Leader
            s == rep[r]
<1>1. /\ s \in ReplicaStates /\ r \in Replicas /\ s.view = 0 /\ AmLeader(s, r)
      /\ s.lastCommitted <= Len(s.log) /\ GoodState(r, s)
  BY LeaderIsReplica, GoodNow, GoodBounds
<1>2. ASSUME NEW t, t.log = s.log, t.queue = s.queue, Become(r, t), issued' = issued
      PROVE  SameLine
  <2>1. rep'[r] = t
    BY <1>1, <1>2 DEF Inv, TypeOK, Become
  <2>. QED BY <1>2, <2>1 DEF SameLine
<1>3. CASE Timer(r)
  <2>. DEFINE none == <<0, 0>>
              t    == [s EXCEPT !.lastTransfer = none]
  <2>1. /\ Become(r, CloseBatch(s, r)) \/ UNCHANGED rep \/ Become(r, t)
        /\ issued' = issued
    BY <1>1, <1>3 DEF Timer, CloseBatchTimeout, ResendPrepare, SendNullCommit,
                      StateTransferTimeout
  <2>2. t.log = s.log /\ t.queue = s.queue
    BY <1>1 DEF ReplicaStates
  <2>3. CloseBatch(s, r).log = s.log /\ CloseBatch(s, r).queue = s.queue
    BY <1>1, SmallOrder, QueueKept DEF SameOrder
  <2>4. CASE UNCHANGED rep
    BY <2>1, <2>4 DEF SameLine
  <2>. HIDE DEF t, s
  <2>. QED BY <1>2, <2>1, <2>2, <2>3, <2>4
<1>4. CASE ReceivePrepareOK(r)
  <2>1. /\ issued' = issued
        /\ \E m \in Received(r, "PrepareOK") : HandlePrepareOK(r, m)
    BY <1>4 DEF ReceivePrepareOK
  <2>2. PICK m \in Received(r, "PrepareOK") : HandlePrepareOK(r, m)
    BY <2>1
  <2>3. m.from \in Replicas /\ m.opnum \in Nat /\ m.view = 0
    <3>1. m \in Messages /\ m.type = "PrepareOK" /\ CarriesLog(m, LeaderLog)
      BY <2>2, ReceivedFacts
    <3>. QED BY <3>1 DEF Messages, CarriesLog
  <2>. DEFINE oks == s.prepareOKs \cup {<<m.opnum, m.from>>}
              a   == [s EXCEPT !.prepareOKs = oks]
              c   == CommitUpTo(a, m.opnum)
              f   == FinishBatch(c, r, m.opnum)
  <2>4. Become(r, a) \/ Become(r, c) \/ Become(r, f)
    <3>1. ~ (m.view > s.view)
      BY <1>1, <2>3
    <3>. QED BY <2>2, <3>1 DEF HandlePrepareOK
  <2>5. /\ a \in ReplicaStates /\ a.log = s.log /\ a.queue = s.queue
        /\ a.lastCommitted = s.lastCommitted
    <3>1. oks \in SUBSET (Nat \X Replicas)
      BY <1>1, <2>3, StateFields
    <3>2. a = [s EXCEPT !.prepareOKs = oks]
      OBVIOUS
    <3>. HIDE DEF a, oks
    <3>. QED BY <1>1, <3>1, <3>2 DEF ReplicaStates
  <2>. HIDE DEF a
  <2>6. c \in ReplicaStates /\ SameButCommitted(a, c)
    BY <1>1, <2>3, <2>5, CommitUpToType
  <2>. HIDE DEF c
  <2>7. f.log = c.log /\ f.queue = c.queue
    <3>1. SameOrder(c, f)
      BY <1>1, <2>3, <2>6, FinishOrder
    <3>2. f.queue = c.queue
      BY <2>6, QueueKept
    <3>. QED BY <3>1, <3>2 DEF SameOrder
  <2>. HIDE DEF f, s
  <2>. QED BY <1>2, <2>1, <2>4, <2>5, <2>6, <2>7 DEF SameButCommitted
<1>5. CASE ReceiveRequestStateTransfer(r)
  <2>1. PICK m \in Received(r, "RequestStateTransfer") : HandleRequestStateTransfer(r, m)
    BY <1>5 DEF ReceiveRequestStateTransfer
  <2>2. m.view = 0
    <3>1. m.type = "RequestStateTransfer" /\ CarriesLog(m, LeaderLog)
      BY <2>1, ReceivedFacts
    <3>. QED BY <3>1 DEF CarriesLog
  <2>3. UNCHANGED rep
    BY <1>1, <2>1, <2>2 DEF HandleRequestStateTransfer
  <2>. QED BY <1>5, <2>3 DEF SameLine, ReceiveRequestStateTransfer
<1>. QED BY <1>3, <1>4, <1>5

\* Every step keeps the requests in line.
LEMMA LineStep ==
    ASSUME ClientInv, LineInv, [Next]_vars
    PROVE  LineInv'
<1>1. rep \in [Replicas -> ReplicaStates]
  BY DEF ClientInv, Inv, TypeOK
<1>2. ASSUME NEW r \in Up, Step(r)
      PROVE  LineInv'
  <2>1. r \in Replicas
    BY NetworkAssumption
  <2>2. CASE r = Leader
    <3>1. SoundState(Leader, rep[Leader])
      BY LeaderIsReplica DEF ClientInv, SessionInv
    <3>2. ~ReplayPending(Leader)
      BY <3>1 DEF SoundState, LeaderBatches, ReplayPending
    <3>3. ASSUME NEW m \in msgs, m.to = Leader
          PROVE  m.type \notin {"Prepare", "Commit", "StateTransfer"}
      BY <3>3 DEF ClientInv, SessionInv, QuorumInv, Receivable, Vouches
    <3>4. ~ReceivePrepare(Leader) /\ ~ReceiveCommit(Leader) /\ ~ReceiveStateTransfer(Leader)
      BY <3>3 DEF ReceivePrepare, ReceiveCommit, ReceiveStateTransfer, Received
    <3>. QED BY <1>2, <2>2, <3>2, <3>4, LineOrder, LineOthers, LineSame
             DEF ClientInv, Step, Receive
  <2>3. CASE r # Leader
    <3>1. ~AmLeader(rep[r], r)
      BY <2>1, <2>3, GoodNow, GoodBounds DEF ClientInv
    <3>2. \A q \in Requests : ~AddToQueue(r, q) /\ ~HandleRequest(r, q)
      BY <3>1 DEF AddToQueue, HandleRequest
    <3>3. issued' = issued
      BY <1>2, <3>2 DEF Step, BgRepl, ReplayPending, Receive, ReceivePrepare, ReceivePrepareOK,
         ReceiveCommit, ReceiveRequestStateTransfer, ReceiveStateTransfer, Timer,
         CloseBatchTimeout, ResendPrepare, SendNullCommit, StateTransferTimeout
    <3>4. rep'[Leader] = rep[Leader]
      <4>1. ASSUME NEW t, Become(r, t)
            PROVE  rep'[Leader] = rep[Leader]
        BY <1>1, <2>3, <4>1, LeaderIsReplica DEF Become
      <4>. QED BY <1>2, <4>1, StepsBecome
    <3>. QED BY <3>3, <3>4, LineSame DEF SameLine
  <2>. QED BY <2>2, <2>3
<1>3. CASE UNCHANGED <<rep, issued>>
  BY <1>3, LineSame DEF SameLine
<1>4. ASSUME NEW m \in msgs, Lose(m)
      PROVE  UNCHANGED <<rep, issued>>
  BY <1>4 DEF Lose
<1>. QED BY <1>2, <1>3, <1>4 DEF Next, vars

\* At first nothing has been sent.
LEMMA InitLine == Init => LineInv
<1>. SUFFICES ASSUME Init
              PROVE  LineInv
  OBVIOUS
<1>1. LeaderLog = <<>> /\ rep[Leader].queue = <<>>
  BY LeaderIsReplica DEF Init, NewReplica, LeaderLog, Leader
<1>2. \A q \in Requests : ~(q.id <= issued[q.client])
  BY RequestFields DEF Init
<1>. DEFINE none == <<>>
<1>3. \A k \in 1 .. Len(none) : FALSE
  OBVIOUS
<1>4. LeaderLog = none /\ rep[Leader].queue = none
  BY <1>1
<1>. HIDE DEF none
<1>. QED BY <1>2, <1>3, <1>4 DEF LineInv, InLine

\* A client's background update is ordered before any later operation of that
\* client, in the log of every replica.
THEOREM UpdatesGoFirst == Spec => []NoUpdateOvertaken
<1>1. Init => ClientInv /\ LineInv
  BY InitInv, InitQuorum, InitOrder, InitSession, InitLine DEF ClientInv
<1>2. ClientInv /\ LineInv /\ [Next]_vars => (ClientInv /\ LineInv)'
  BY QuorumStep, OrderStep, SessionStep, LineStep DEF ClientInv
<1>3. ClientInv /\ LineInv => NoUpdateOvertaken
  <2>. SUFFICES ASSUME ClientInv, LineInv, NEW r \in Replicas, NEW k \in DOMAIN rep[r].log,
                       NEW q \in Requests, q.client = rep[r].log[k].req.client,
                       q.id < rep[r].log[k].req.id
                PROVE  \E j \in 1 .. k - 1 : rep[r].log[j].req = q
    BY DEF NoUpdateOvertaken
  <2>. DEFINE s == rep[r].log
              l == LeaderLog
  <2>1. /\ s \in Seq(Entries) /\ Len(s) \in Nat /\ l \in Seq(Entries) /\ Len(l) \in Nat
    BY GoodNow, GoodBounds, StateFields, LeaderLogEntries DEF ClientInv
  <2>2. Len(s) <= Len(l) /\ \A i \in 1 .. Len(s) : s[i] = l[i]
    BY DEF ClientInv, Inv, LogsFollowLeader, FollowsLog, LeaderLog, Leader
  <2>3. q.client = s[k].req.client /\ q.id < s[k].req.id
    OBVIOUS
  <2>4. \A n \in 1 .. Len(l) : \A p \in Requests :
            p.client = l[n].req.client /\ p.id < l[n].req.id => \E j \in 1 .. n - 1 : l[j].req = p
    BY DEF LineInv, InLine
  <2>. HIDE DEF s, l
  <2>5. k \in 1 .. Len(s) /\ k \in 1 .. Len(l) /\ s[k] = l[k]
    BY <2>1, <2>2 DEF s
  <2>6. PICK j \in 1 .. k - 1 : l[j].req = q
    BY <2>3, <2>4, <2>5
  <2>7. j \in 1 .. Len(s)
    BY <2>1, <2>5
  <2>8. s[j].req = q
    BY <2>2, <2>6, <2>7
  <2>. QED BY <2>8 DEF s
<1>. QED BY <1>1, <1>2, <1>3, PTL DEF Spec

==============================================================================
