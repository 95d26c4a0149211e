------------------------------ MODULE VRReplica ------------------------------
(***************************************************************************)
(* The consensus replica of Skyros, skyros/vr/replica.cc, in its normal    *)
(* case: ordering requests, PREPARE / PREPAREOK / COMMIT, batching, the    *)
(* retransmission timers and state transfer.                               *)
(*                                                                         *)
(* Every replica is single threaded: libevent runs one handler at a time,  *)
(* and a handler touches its own fields and sends messages.  A handler is  *)
(* therefore one action, except for its loops over queued work:            *)
(*  - BgRepl drains the queue filled by the durability server; each        *)
(*    iteration is one BgRepl step, and HandleRequest, which drains the    *)
(*    queue first, waits for it to be empty;                               *)
(*  - HandleStateTransfer ends by handling the PREPAREs it had set aside;  *)
(*    they become "work", one step each, and a replica with work takes no  *)
(*    other step.                                                          *)
(***************************************************************************)
EXTENDS VRState

VARIABLES
    rep,      \* rep[r]: the fields of the VRReplica object of replica r
    msgs,     \* messages between the replicas
    replies,  \* ReplyMessages sent to clients and to durability servers
    issued    \* issued[c]: how far client c is in its trace

vars == <<rep, msgs, replies, issued>>

-------------------------------------------------------------------------------
(* The environment                                                         *)

\* The network after the messages of "gone" were received and "sent" were sent.
Network(gone, sent) ==
    msgs' = (IF Persistent THEN msgs ELSE msgs \ gone) \cup {m \in sent : m.to \in Up}

Become(r, s) == rep' = [rep EXCEPT ![r] = s]

Running(r) == ~rep[r].aborted

\* Replica r is between two handlers.
Idle(r) == Running(r) /\ rep[r].work = <<>>

\* Whether the client library has called back for request q, as far as the
\* replicas can tell: a write waits for the reply of a replica, the completion of
\* the others is decided by the durability servers.
Completed(q) == q.kind = "write" => \E m \in replies : m.to = "client" /\ m.req = q

\* Request q reaches a replica: for the first time, once its client has
\* completed the requests before it, or as a retransmission.
Arrives(q) ==
    /\ \/ Resend /\ q.id <= issued[q.client]
       \/ /\ q.id = issued[q.client] + 1
          /\ \A p \in Requests : p.client = q.client /\ p.id < q.id => Completed(p)
    /\ issued' = [issued EXCEPT ![q.client] = Max({@, q.id})]

-------------------------------------------------------------------------------
(* Requests                                                                *)

\* AppReplica::AddToQueue, by the thread of the durability server of leader r.
AddToQueue(r, q) ==
    /\ Running(r)
    /\ AmLeader(rep[r], r)
    /\ q.kind = "nilext"
    /\ Len(rep[r].queue) < QueueBound
    /\ Arrives(q)
    /\ Become(r, [rep[r] EXCEPT !.queue = Append(@, q)])
    /\ UNCHANGED <<msgs, replies>>

\* One iteration of BgRepl: HandleRequestBg of the oldest queued request.
BgRepl(r) ==
    /\ Idle(r)
    /\ rep[r].queue # <<>>
    /\ LET q == Head(rep[r].queue)
           s == [rep[r] EXCEPT !.queue = Tail(@), !.timers = @ \cup {"bgRepl"}]
           t == AppendRequest(s, q)
       IN \/ /\ \/ s.status # "NORMAL"
                \/ ~AmLeader(s, r)
                \/ q.id <= s.clientTable[q.client].lastReqId
             /\ Become(r, s)
             /\ UNCHANGED msgs
          \/ /\ s.status = "NORMAL"
             /\ AmLeader(s, r)
             /\ q.id > s.clientTable[q.client].lastReqId
             /\ BatchReady(t)
             /\ Become(r, CloseBatch(t, r))
             /\ Network({}, ClosedBatch(t, r))
          \/ /\ s.status = "NORMAL"
             /\ AmLeader(s, r)
             /\ q.id > s.clientTable[q.client].lastReqId
             /\ ~BatchReady(t)
             /\ Become(r, KeepInBatch(t))
             /\ UNCHANGED msgs
    /\ UNCHANGED <<replies, issued>>

\* Broken on purpose: HandleRequest does not call BgRepl first.
NeverDrained(r) == TRUE

\* HandleRequest calls BgRepl first: what is queued goes before the request.
Drained(r) == rep[r].queue = <<>>

\* HandleRequest.  A read closes the batch; for a write the code closes it or
\* follows BatchReady, depending on the mix of requests it has seen.
HandleRequest(r, q) ==
    /\ Idle(r)
    /\ rep[r].status = "NORMAL"
    /\ AmLeader(rep[r], r)
    /\ Drained(r)
    /\ q.kind # "nilext"
    /\ Arrives(q)
    /\ LET s    == [rep[r] EXCEPT !.addresses = @ \cup {q.client},
                                  !.timers = @ \cup {"bgRepl"}]
           seen == s.clientTable[q.client]
           t    == AppendRequest(s, q)
       IN \/ /\ \/ q.id < seen.lastReqId
                \/ q.id = seen.lastReqId /\ ~seen.replied
             /\ Become(r, s)
             /\ UNCHANGED <<msgs, replies>>
          \/ /\ q.id = seen.lastReqId /\ seen.replied
             /\ Become(r, s)
             /\ replies' = replies \cup
                    {[to |-> IF q.kind = "read" THEN "durabilityServer" ELSE "client",
                      from |-> r, req |-> q, view |-> seen.view, opnum |-> seen.opnum]}
             /\ UNCHANGED msgs
          \/ /\ q.id > seen.lastReqId
             /\ Become(r, CloseBatch(t, r))
             /\ Network({}, ClosedBatch(t, r))
             /\ UNCHANGED replies
          \/ /\ q.id > seen.lastReqId
             /\ q.kind = "write"
             /\ ~BatchReady(t)
             /\ Become(r, KeepInBatch(t))
             /\ UNCHANGED <<msgs, replies>>

-------------------------------------------------------------------------------
(* Timers                                                                  *)

CloseBatchTimeout(r) ==
    /\ Idle(r)
    /\ "closeBatch" \in rep[r].timers
    /\ Become(r, CloseBatch(rep[r], r))
    /\ Network({}, ClosedBatch(rep[r], r))
    /\ UNCHANGED <<replies, issued>>

ResendPrepare(r) ==
    /\ Idle(r)
    /\ "resendPrepare" \in rep[r].timers
    /\ IF AmLeader(rep[r], r)
       THEN /\ rep[r].lastOp # rep[r].lastCommitted
            /\ Network({}, PrepareMessages(r, rep[r].lastPrepare))
            /\ UNCHANGED rep
       ELSE /\ Become(r, Abort(rep[r]))
            /\ UNCHANGED msgs
    /\ UNCHANGED <<replies, issued>>

SendNullCommit(r) ==
    /\ Idle(r)
    /\ "nullCommit" \in rep[r].timers
    /\ IF AmLeader(rep[r], r)
       THEN Network({}, CommitMessages(rep[r], r)) /\ UNCHANGED rep
       ELSE Become(r, Abort(rep[r])) /\ UNCHANGED msgs
    /\ UNCHANGED <<replies, issued>>

\* stateTransferTimeout: the same state transfer may be requested again.
StateTransferTimeout(r) ==
    /\ Idle(r)
    /\ rep[r].lastTransfer # <<0, 0>>
    /\ Become(r, [rep[r] EXCEPT !.lastTransfer = <<0, 0>>])
    /\ UNCHANGED <<msgs, replies, issued>>

-------------------------------------------------------------------------------
(* Replication                                                             *)

\* pendingPrepares with one more PREPARE.  The list of the code may hold the same
\* PREPARE again, which only acknowledges the same operations again.
SetAside(list, b) ==
    IF \E k \in DOMAIN list : list[k] = b THEN list ELSE Append(list, b)

\* The requests of batch b that are not in the log of s.
NewRequests(s, b) == SubSeq(b.requests, s.lastOp + 2 - b.batchstart, Len(b.requests))

\* A PREPARE or COMMIT of the leader resets viewChangeTimeout.
Heard(s) == [s EXCEPT !.timers = @ \cup {"viewChange"}]

\* The PREPARE waits for a state transfer.
Defer(s, b) == [RequestStateTransfer(s) EXCEPT !.pending = SetAside(@, b)]

AppendBatch(s, b) ==
    LET fresh == NewRequests(s, b)
    IN  [s EXCEPT !.log = @ \o [k \in 1 .. Len(fresh) |-> [view |-> b.view, req |-> fresh[k]]],
                  !.lastOp = b.opnum,
                  !.clientTable = UpdateClientTable(@, fresh)]

\* The ASSERTs on the opnums of a PREPARE.
OpnumsFit(b) == b.batchstart <= b.opnum /\ Len(b.requests) = b.opnum + 1 - b.batchstart

\* HandlePrepare of batch b by replica r in state s; "gone" is the message that
\* brought it, if any.
HandlePrepare(r, s, b, gone) ==
    LET current == s.status = "NORMAL" /\ b.view = s.view
        sound   == current /\ ~AmLeader(s, r) /\ OpnumsFit(b)
    IN
    \* an abnormal status, or an older view
    \/ /\ s.status # "NORMAL" \/ b.view < s.view
       /\ Become(r, s)
       /\ Network(gone, {})
    \* another view has started, or operations are missing before the batch
    \/ /\ s.status = "NORMAL"
       /\ \/ b.view > s.view
          \/ sound /\ b.batchstart > s.lastOp + 1
       /\ Become(r, Defer(IF b.view > s.view THEN s ELSE Heard(s), b))
       /\ Network(gone, StateTransferRequests(s, r))
    \* the whole batch is in the log: acknowledge it again
    \/ /\ sound
       /\ b.opnum <= s.lastOp
       /\ Become(r, Heard(s))
       /\ Network(gone, {PrepareOK(s, r, b.opnum)})
    \* append what is new
    \/ /\ sound
       /\ b.batchstart <= s.lastOp + 1 /\ s.lastOp < b.opnum
       /\ IF s.lastOp = Len(s.log) /\ InOrder(s.clientTable, NewRequests(s, b))
          THEN /\ Become(r, AppendBatch(Heard(s), b))
               /\ Network(gone, {PrepareOK(s, r, b.opnum)})
          ELSE Become(r, Abort(s)) /\ Network(gone, {})
    \* "Unexpected PREPARE: I'm the leader of this view", or a bad batch
    \/ /\ current /\ (AmLeader(s, r) \/ ~OpnumsFit(b))
       /\ Become(r, Abort(s))
       /\ Network(gone, {})

Received(r, type) == {m \in msgs : m.type = type /\ m.to = r}

\* Broken on purpose: a PREPARE is taken for one of the replica's view.
ReceivePrepareAnyView(r) ==
    /\ Idle(r)
    /\ \E m \in Received(r, "Prepare") :
           HandlePrepare(r, rep[r], [m.batch EXCEPT !.view = rep[r].view], {m})
    /\ UNCHANGED <<replies, issued>>

ReceivePrepare(r) ==
    /\ Idle(r)
    /\ \E m \in Received(r, "Prepare") : HandlePrepare(r, rep[r], m.batch, {m})
    /\ UNCHANGED <<replies, issued>>

\* The loop at the end of HandleStateTransfer.
ReplayPending(r) ==
    /\ Running(r)
    /\ rep[r].work # <<>>
    /\ HandlePrepare(r, [rep[r] EXCEPT !.work = Tail(@)], Head(rep[r].work), {})
    /\ UNCHANGED <<replies, issued>>

\* Broken on purpose: a PREPAREOK counts for every operation.
AcksOfAny(s, k) == {p \in Replicas : \E j \in 0 .. s.lastOp : <<j, p>> \in s.prepareOKs}

\* Broken on purpose: only the acknowledgements of the next operation count.
AcksInOrder(s, k) == {p \in Replicas : <<k, p>> \in s.prepareOKs /\ k = s.lastCommitted + 1}

\* The replicas whose PREPAREOK for operation k a leader has recorded.
Acks(s, k) == {p \in Replicas : <<k, p>> \in s.prepareOKs}

\* Broken on purpose: the next batch is sent even if it is empty.
FinishBatchAlways(s, r, k) ==
    LET t == [s EXCEPT !.timers = @ \cup {"nullCommit"},
                       !.batchComplete = @ \/ s.lastBatchEnd = k]
    IN  IF s.lastBatchEnd = k THEN CloseBatch(t, r) ELSE t

\* HandlePrepareOK after CommitUpTo, when the quorum has just been reached.
FinishBatch(s, r, k) ==
    LET t == [s EXCEPT !.timers = @ \cup {"nullCommit"},
                       !.batchComplete = @ \/ s.lastBatchEnd = k]
    IN  IF s.lastBatchEnd = k /\ s.lastOp > k THEN CloseBatch(t, r) ELSE t

HandlePrepareOK(r, m) ==
    LET s == [rep[r] EXCEPT !.prepareOKs = @ \cup {<<m.opnum, m.from>>}]
        c == CommitUpTo(s, m.opnum)
        n == Cardinality(Acks(s, m.opnum))
    IN
    /\ rep[r].status = "NORMAL"
    /\ \/ /\ m.view > rep[r].view
          /\ Become(r, RequestStateTransfer(rep[r]))
          /\ Network({m}, StateTransferRequests(rep[r], r))
          /\ UNCHANGED replies
       \/ /\ m.view = rep[r].view /\ AmLeader(rep[r], r)
          /\ n < QuorumSize - 1
          /\ Become(r, s)
          /\ Network({m}, {})
          /\ UNCHANGED replies
       \/ /\ m.view = rep[r].view /\ AmLeader(rep[r], r)
          /\ n >= QuorumSize - 1
          /\ replies' = replies \cup RepliesTo(s, r, m.opnum)
          /\ IF n >= QuorumSize \/ c.aborted
             THEN /\ Become(r, c)
                  /\ Network({m}, {})
             ELSE /\ Become(r, FinishBatch(c, r, m.opnum))
                  /\ Network({m}, CommitMessages(c, r) \cup
                         IF c.lastBatchEnd = m.opnum /\ c.lastOp > m.opnum
                         THEN ClosedBatch(c, r) ELSE {})

ReceivePrepareOK(r) ==
    /\ Idle(r)
    /\ \E m \in Received(r, "PrepareOK") : HandlePrepareOK(r, m)
    /\ UNCHANGED issued

HandleCommit(r, m) ==
    LET s == rep[r] IN
    /\ s.status = "NORMAL"
    /\ \/ /\ m.view > s.view
          /\ Become(r, RequestStateTransfer(s))
          /\ Network({m}, StateTransferRequests(s, r))
          /\ UNCHANGED replies
       \/ /\ m.view = s.view
          /\ IF AmLeader(s, r) THEN Become(r, Abort(s)) ELSE Become(r, Heard(s))
          /\ AmLeader(s, r) \/ m.opnum <= s.lastCommitted
          /\ Network({m}, {})
          /\ UNCHANGED replies
       \/ /\ m.view = s.view /\ ~AmLeader(s, r)
          /\ m.opnum > s.lastOp
          /\ Become(r, RequestStateTransfer(Heard(s)))
          /\ Network({m}, StateTransferRequests(s, r))
          /\ UNCHANGED replies
       \/ /\ m.view = s.view /\ ~AmLeader(s, r)
          /\ s.lastCommitted < m.opnum /\ m.opnum <= s.lastOp
          /\ Become(r, CommitUpTo(Heard(s), m.opnum))
          /\ Network({m}, {})
          /\ replies' = replies \cup RepliesTo(s, r, m.opnum)

ReceiveCommit(r) ==
    /\ Idle(r)
    /\ \E m \in Received(r, "Commit") : HandleCommit(r, m)
    /\ UNCHANGED issued

-------------------------------------------------------------------------------
(* State transfer                                                          *)

\* Broken on purpose: everything in the log is said to be committed.
LogDumpAllCommitted(s, m) ==
    [type |-> "StateTransfer", to |-> m.from, view |-> s.view, opnum |-> s.lastOp,
     first |-> m.opnum + 1, entries |-> SubSeq(s.log, m.opnum + 1, Len(s.log))]

\* The STATETRANSFER that answers request m.
LogDump(s, m) ==
    [type |-> "StateTransfer", to |-> m.from, view |-> s.view, opnum |-> s.lastCommitted,
     first |-> m.opnum + 1, entries |-> SubSeq(s.log, m.opnum + 1, Len(s.log))]

HandleRequestStateTransfer(r, m) ==
    LET s == rep[r] IN
    /\ s.status = "NORMAL"
    /\ \/ /\ m.view > s.view
          /\ Become(r, RequestStateTransfer(s))
          /\ Network({m}, StateTransferRequests(s, r))
       \/ /\ m.view <= s.view
          /\ Cardinality({x \in msgs : x.type = "StateTransfer"}) < TransferBound
          /\ Network({m}, {LogDump(s, m)})
          /\ UNCHANGED rep

ReceiveRequestStateTransfer(r) ==
    /\ Idle(r)
    /\ \E m \in Received(r, "RequestStateTransfer") : HandleRequestStateTransfer(r, m)
    /\ UNCHANGED <<replies, issued>>

LastEntry(m) == m.first + Len(m.entries) - 1

\* Uncommitted operations of s that the transferred log has from another view.
Replaced(s, m) ==
    {k \in m.first .. LastEntry(m) :
        /\ s.lastCommitted < k /\ k <= s.lastOp /\ k <= Len(s.log)
        /\ s.log[k].view # m.entries[k - m.first + 1].view}

\* Broken on purpose: entries that the log holds already are added again.
SplicedWhole(s, m, k) ==
    [s EXCEPT !.log = SubSeq(@, 1, k - 1) \o m.entries, !.lastOp = LastEntry(m)]

\* The log cut before operation k, followed by the transferred entries.
Spliced(s, m, k) ==
    [s EXCEPT !.log = SubSeq(@, 1, k - 1) \o SubSeq(m.entries, k - m.first + 1, Len(m.entries)),
              !.lastOp = LastEntry(m)]

\* The loop of HandleStateTransfer over the entries, with its ASSERTs, and that of
\* Log::Append.  It dies of an operation up to lastOp that is not in the log.
InstallEntries(s, m) ==
    LET k == Min(Replaced(s, m)) IN
    IF Replaced(s, m) # {}
    THEN IF s.log[k].view < m.entries[k - m.first + 1].view THEN Spliced(s, m, k)
                                                           ELSE Abort(s)
    ELSE IF \/ m.entries = <<>> \/ LastEntry(m) <= s.lastCommitted
            \/ LastEntry(m) <= s.lastOp /\ LastEntry(m) <= Len(s.log) THEN s
    ELSE IF m.first <= s.lastOp + 1 /\ s.lastOp = Len(s.log) /\ s.lastCommitted <= s.lastOp
         THEN Spliced(s, m, s.lastOp + 1)
         ELSE Abort(s)

\* The operation HandleStateTransfer acknowledges from.
OldLastOp(s, m) == IF Replaced(s, m) # {} THEN Min(Replaced(s, m)) ELSE s.lastOp

\* (The states i and c are the elements of singletons: TLC evaluates them once.)
HandleStateTransfer(r, m) ==
    LET s   == rep[r]
        old == OldLastOp(s, m)
    IN
    /\ m.view >= s.view
    /\ \E i \in {InstallEntries(s, m)} :
       LET e == IF m.view > s.view THEN EnterView(i, r, m.view) ELSE i
       IN
       \/ /\ i.aborted \/ m.opnum > i.lastOp
          /\ Become(r, Abort(i))
          /\ Network({m}, {})
          /\ UNCHANGED replies
       \/ /\ ~i.aborted /\ m.opnum <= i.lastOp
          /\ \E c \in {CommitUpTo(e, m.opnum)} :
                /\ Become(r, [SendPrepareOKs(c, old) EXCEPT !.work = c.pending,
                                                           !.pending = <<>>])
                /\ Network({m}, PrepareOKsFor(c, r, old))
          /\ replies' = replies \cup RepliesTo(e, r, m.opnum)

ReceiveStateTransfer(r) ==
    /\ Idle(r)
    /\ \E m \in Received(r, "StateTransfer") : HandleStateTransfer(r, m)
    /\ UNCHANGED issued

\* The network drops a message, or a handler ignores it.
Lose(m) ==
    /\ ~Persistent
    /\ m \in msgs
    /\ msgs' = msgs \ {m}
    /\ UNCHANGED <<rep, replies, issued>>

-------------------------------------------------------------------------------

Init ==
    /\ rep = [r \in Replicas |-> NewReplica(r)]
    /\ msgs = {}
    /\ replies = {}
    /\ issued = [c \in Clients |-> 0]

Receive(r) ==
    \/ ReceivePrepare(r)
    \/ ReceivePrepareOK(r)
    \/ ReceiveCommit(r)
    \/ ReceiveRequestStateTransfer(r)
    \/ ReceiveStateTransfer(r)

Timer(r) ==
    \/ CloseBatchTimeout(r)
    \/ ResendPrepare(r)
    \/ SendNullCommit(r)
    \/ StateTransferTimeout(r)

Step(r) ==
    \/ \E q \in Requests : AddToQueue(r, q) \/ HandleRequest(r, q)
    \/ BgRepl(r)
    \/ ReplayPending(r)
    \/ Receive(r)
    \/ Timer(r)

\* The normal case: no replica's viewChangeTimeout fires, so view 0 never ends.
Next == (\E r \in Up : Step(r)) \/ (\E m \in msgs : Lose(m))

Spec == Init /\ [][Next]_vars

\* Timers are periodic (Timeout::Reset arms the timer again before the callback)
\* and libevent runs every ready handler.  A message may be lost, but one that is
\* sent again and again is received: SF of each kind of message.
Fairness ==
    \A r \in Up :
        IF r = GetLeaderIndex(0)
        THEN /\ WF_vars(BgRepl(r)) /\ WF_vars(CloseBatchTimeout(r))
             /\ WF_vars(ResendPrepare(r)) /\ WF_vars(SendNullCommit(r))
             /\ SF_vars(ReceivePrepareOK(r)) /\ SF_vars(ReceiveRequestStateTransfer(r))
        ELSE /\ WF_vars(ReplayPending(r)) /\ WF_vars(StateTransferTimeout(r))
             /\ SF_vars(ReceivePrepare(r)) /\ SF_vars(ReceiveCommit(r))
             /\ SF_vars(ReceiveStateTransfer(r))

FairSpec == Spec /\ Fairness

-------------------------------------------------------------------------------
(* Properties                                                              *)

\* Every field of every replica, and every message, has the type of its
\* declaration in replica.h and vr-proto.proto.
TypeOK ==
    /\ rep \in [Replicas -> ReplicaStates]
    /\ msgs \subseteq Messages
    /\ replies \subseteq ReplyMessages
    /\ issued \in [Clients -> Nat]

\* No ASSERT fails and no RPanic is reached: every "this cannot happen" of
\* replica.cc (a PREPARE to the leader, an operation missing from the log, a
\* client table that runs backwards, an empty batch) really cannot.
NoAbort == \A r \in Replicas : ~rep[r].aborted

SameUpTo(s, t, n) == \A k \in 1 .. n : s.log[k] = t.log[k]

\* b is a piece of log l: its opnums fit its requests, which are those of l.
BatchOf(b, l) ==
    /\ b.view = 0
    /\ 1 <= b.batchstart
    /\ b.opnum = b.batchstart + Len(b.requests) - 1
    /\ b.opnum <= Len(l)
    /\ \A k \in 1 .. Len(b.requests) : b.requests[k] = l[b.batchstart + k - 1].req

\* A replica in view 0 whose leader has log l.
FollowsLog(s, l) ==
    /\ s.view = 0 /\ s.status = "NORMAL"
    /\ s.lastOp = Len(s.log) /\ s.lastCommitted <= s.lastOp
    /\ Len(s.log) <= Len(l)
    /\ \A k \in 1 .. Len(s.log) : s.log[k] = l[k] /\ s.log[k].view = 0
    /\ \A k \in 1 .. Len(s.pending) : BatchOf(s.pending[k], l)
    /\ \A k \in 1 .. Len(s.work) : BatchOf(s.work[k], l)
    /\ "resendPrepare" \in s.timers => BatchOf(s.lastPrepare, l)

\* A message sent in view 0 whose leader has log l.
CarriesLog(m, l) ==
    IF m.type = "Prepare" THEN BatchOf(m.batch, l)
    ELSE /\ m.view = 0
         /\ m.type = "StateTransfer" =>
                \A k \in 1 .. Len(m.entries) :
                    /\ 1 <= m.first /\ m.first + k - 1 <= Len(l)
                    /\ m.entries[k] = l[m.first + k - 1]

\* The leader's log is the only history: whatever is resent, set aside, replayed
\* or transferred, every log is a prefix of it and every batch and log dump, in
\* the network or kept, is a piece of it, under the same opnums.
LogsFollowLeader ==
    LET l == rep[GetLeaderIndex(0)].log
    IN  /\ \A r \in Replicas : FollowsLog(rep[r], l)
        /\ \A m \in msgs : CarriesLog(m, l)

\* Replicas that executed operation k executed the same request, the claim of
\* the ASSERT_EQs over per-replica operation lists in vr-test.cc.
ExecutionAgreement ==
    \A p, r \in Replicas :
        SameUpTo(rep[p], rep[r], Min({rep[p].lastCommitted, rep[r].lastCommitted}))

\* An executed operation is in the logs of f+1 replicas, so that it survives the
\* loss of f of them, whichever way they got it: PREPARE or state transfer.
CommittedOnQuorum ==
    \A r \in Replicas : \A k \in 1 .. rep[r].lastCommitted :
        Cardinality({p \in Replicas : /\ k <= Len(rep[p].log)
                                      /\ rep[p].log[k] = rep[r].log[k]}) >= QuorumSize

\* A request is ordered at most once and each client's requests in the order it
\* sent them, although it may reach the leader again, and by two paths.
ClientOrder ==
    \A r \in Replicas : \A j, k \in DOMAIN rep[r].log :
        j < k /\ rep[r].log[j].req.client = rep[r].log[k].req.client
            => rep[r].log[j].req.id < rep[r].log[k].req.id

\* A client's background update is ordered before any later operation of that
\* client: the read that finds it pending returns it, and it is never dropped as
\* stale (HandleRequest drains the queue before it orders anything).
NoUpdateOvertaken ==
    \A r \in Replicas : \A k \in DOMAIN rep[r].log : \A q \in Requests :
        q.client = rep[r].log[k].req.client /\ q.id < rep[r].log[k].req.id
            => \E j \in 1 .. k - 1 : rep[r].log[j].req = q

\* A reply, stored ones included, tells of an operation its sender executed, and
\* all replies to a request name the same viewstamp.
RepliesExecuted ==
    /\ \A m \in replies : /\ m.opnum \in 1 .. rep[m.from].lastCommitted
                          /\ rep[m.from].log[m.opnum] = [view |-> m.view, req |-> m.req]
    /\ \A m, n \in replies : m.req = n.req => m.opnum = n.opnum /\ m.view = n.view

\* The client table, which alone rejects duplicates, says of each client what
\* the log says, whether the log came by HandleRequest, PREPARE or state
\* transfer: its newest request, and the reply to it once it is executed.
ClientTableMatchesLog ==
    \A r \in Replicas : \A c \in Clients :
        LET mine  == {k \in DOMAIN rep[r].log : rep[r].log[k].req.client = c}
            entry == rep[r].clientTable[c]
        IN  IF mine = {} THEN entry = NewClient
            ELSE /\ entry.lastReqId = rep[r].log[Max(mine)].req.id
                 /\ entry.replied <=> Max(mine) <= rep[r].lastCommitted
                 /\ entry.replied => entry.opnum = Max(mine)

\* Something will always push an uncommitted operation on: a request waiting for
\* its batch has the closeBatch timer, a batch sent and not committed the
\* resendPrepare timer, which sends exactly the last batch.
NothingStranded ==
    \A r \in Replicas : AmLeader(rep[r], r) /\ rep[r].status = "NORMAL" =>
        /\ rep[r].lastBatchEnd < rep[r].lastOp => "closeBatch" \in rep[r].timers
        /\ rep[r].lastCommitted < rep[r].lastBatchEnd =>
               /\ "resendPrepare" \in rep[r].timers
               /\ rep[r].lastPrepare.opnum = rep[r].lastBatchEnd

\* No step takes back an executed operation: lastCommitted never decreases and
\* the log below it never changes (the PARANOID check of Log::RemoveAfter).
ExecutedForever ==
    [][\A r \in Replicas : /\ rep[r].lastCommitted <= rep[r]'.lastCommitted
                           /\ SameUpTo(rep[r], rep[r]', rep[r].lastCommitted)]_vars

Executed(r, q) == \E k \in 1 .. rep[r].lastCommitted : rep[r].log[k].req = q

\* Whatever the network loses, every request that has reached the leader is
\* executed by every running replica, if f+1 of them run: the last PREPARE is
\* resent, a replica that misses an earlier one asks for a state transfer, asks
\* again after the stateTransfer timeout, and learns of commits from null commits.
EveryRequestExecuted ==
    []<>(\A q \in Requests :
            issued[q.client] >= q.id => \A r \in Up : Executed(r, q))

===============================================================================
