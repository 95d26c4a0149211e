------------------------------- MODULE VRState -------------------------------
(***************************************************************************)
(* The state of a consensus replica of Skyros (class VRReplica of          *)
(* skyros/vr/replica.h), its messages, and the functions its handlers      *)
(* share.  A function of replica.cc that changes fields and sends messages *)
(* is a pair of operators: the replica state it leaves, and what it sends. *)
(*                                                                         *)
(* A failed ASSERT or an RPanic kills the process: the replica is aborted. *)
(***************************************************************************)
EXTENDS SkyrosConfig, Sequences, FiniteSetsExt

CONSTANTS
    Clients,       \* client identifiers
    Trace,         \* Trace[c] is the sequence of kinds of requests c sends
    BatchSize,     \* the -b option of bench/replica.cc
    QueueBound,    \* bound: requests waiting in the durability server's queue
    TransferBound, \* bound: state transfers in the network
    Resend,        \* bound: FALSE if clients are taken not to retransmit requests
    Up,            \* the replicas that run; the others have crashed for good
    Persistent     \* TRUE: a sent message may be received again at any time
                   \* FALSE: a message is received at most once, or lost

Kinds == {"nilext", "write", "read"}

ASSUME TraceAssumption == Trace \in [Clients -> Seq(Kinds)]
ASSUME BoundAssumption ==
    BatchSize \in Nat /\ QueueBound \in Nat /\ TransferBound \in Nat /\ Resend \in BOOLEAN
ASSUME NetworkAssumption == Persistent \in BOOLEAN /\ Up \subseteq Replicas

-------------------------------------------------------------------------------
(* Requests, log entries and client table                                  *)

Requests ==
    UNION {{[client |-> c, id |-> i, kind |-> Trace[c][i]] : i \in DOMAIN Trace[c]}
           : c \in Clients}

\* A log entry; its opnum is its index, and it is LOG_STATE_COMMITTED exactly
\* when that index is at most lastCommitted.
Entries == [view : Views, req : Requests]

\* Only a request that HandleRequest ordered has needreply set.
NeedReply(q) == q.kind # "nilext"

\* ClientTableEntry; view and opnum are those of the stored reply.
TableEntries == [lastReqId : Nat, replied : BOOLEAN, view : Views, opnum : Nat]

NewClient == [lastReqId |-> 0, replied |-> FALSE, view |-> 0, opnum |-> 0]

-------------------------------------------------------------------------------
(* Messages                                                                *)

Batches == [view : Views, batchstart : Nat, opnum : Nat, requests : Seq(Requests)]

NoBatch == [view |-> 0, batchstart |-> 0, opnum |-> 0, requests |-> <<>>]

Messages ==
         [type : {"Prepare"}, to : Replicas, batch : Batches]
    \cup [type : {"PrepareOK"}, to : Replicas, from : Replicas, view : Views, opnum : Nat]
    \cup [type : {"Commit"}, to : Replicas, view : Views, opnum : Nat]
    \cup [type : {"RequestStateTransfer"}, to : Replicas, from : Replicas,
          view : Views, opnum : Nat]
         \* the opnum of entry k of a log dump is first + k - 1
    \cup [type : {"StateTransfer"}, to : Replicas, view : Views, opnum : Nat,
          first : Nat, entries : Seq(Entries)]

ReplyMessages ==
    [to : {"client", "durabilityServer"}, from : Replicas, req : Requests,
     view : Views, opnum : Nat]

-------------------------------------------------------------------------------
(* The fields of a replica                                                 *)

Timers == {"viewChange", "nullCommit", "resendPrepare", "closeBatch", "bgRepl",
           "recovery"}

Statuses == {"NORMAL", "VIEW_CHANGE", "RECOVERING"}

ReplicaStates ==
    [view : Views, status : Statuses,
     log : Seq(Entries), lastOp : Nat, lastCommitted : Nat,
     lastBatchEnd : Nat, batchComplete : BOOLEAN, lastPrepare : Batches,
     clientTable : [Clients -> TableEntries],
     addresses : SUBSET Clients,           \* clientAddresses, both maps
     prepareOKs : SUBSET (Nat \X Replicas), \* prepareOKQuorum of this view
     pending : Seq(Batches),               \* pendingPrepares
     work : Seq(Batches),                  \* rest of HandleStateTransfer's loop
     lastTransfer : Views \X Nat,          \* lastRequestStateTransferView, -Opnum
     queue : Seq(Requests),                \* AppReplica::queue
     timers : SUBSET Timers,               \* the Timeouts that are active
     aborted : BOOLEAN]

AmLeader(s, r) == GetLeaderIndex(s.view) = r

\* The constructor, with initialize = true.
NewReplica(r) ==
    [view |-> 0, status |-> "NORMAL",
     log |-> <<>>, lastOp |-> 0, lastCommitted |-> 0,
     lastBatchEnd |-> 0, batchComplete |-> TRUE, lastPrepare |-> NoBatch,
     clientTable |-> [c \in Clients |-> NewClient],
     addresses |-> {}, prepareOKs |-> {}, pending |-> <<>>, work |-> <<>>,
     lastTransfer |-> <<0, 0>>, queue |-> <<>>,
     timers |-> IF GetLeaderIndex(0) = r THEN {"nullCommit", "bgRepl"}
                                         ELSE {"viewChange"},
     aborted |-> FALSE]

\* Panic: the process is gone.
Abort(s) == [s EXCEPT !.aborted = TRUE]

-------------------------------------------------------------------------------
(* Functions the handlers share, as the state they leave and what they send *)

\* UpdateClientTable, called for the requests of qs in turn, keeps its ASSERT.
InOrder(table, qs) ==
    \A k \in 1 .. Len(qs) :
        /\ table[qs[k].client].lastReqId <= qs[k].id
        /\ \A j \in 1 .. k - 1 :
               qs[j].client = qs[k].client => qs[j].id <= qs[k].id

IdsOf(c, qs) == {qs[k].id : k \in {j \in 1 .. Len(qs) : qs[j].client = c}}

\* Broken on purpose: the stored reply to the client's last request is kept.
UpdateClientTableKeepsReply(table, qs) ==
    [c \in Clients |->
        IF \E i \in IdsOf(c, qs) : i > table[c].lastReqId
        THEN [table[c] EXCEPT !.lastReqId = Max(IdsOf(c, qs))]
        ELSE table[c]]

\* UpdateClientTable for the requests of qs in turn, when they are InOrder.
UpdateClientTable(table, qs) ==
    [c \in Clients |->
        IF \E i \in IdsOf(c, qs) : i > table[c].lastReqId
        THEN [NewClient EXCEPT !.lastReqId = Max(IdsOf(c, qs))]
        ELSE table[c]]

RequestsAt(log, first, last) == [k \in 1 .. last + 1 - first |-> log[first + k - 1].req]

\* The last opnum CommitUpTo reaches: it panics at the end of the log.
CommitPoint(s, upto) == Min({upto, Len(s.log)})

CommittedOps(s, upto) == s.lastCommitted + 1 .. CommitPoint(s, upto)

\* The table after the replies to operations ops have been stored: a client's
\* entry takes its newest executed request unless it has prepared a newer one.
StoreReplies(s, ops) ==
    [c \in Clients |->
        LET newer == {k \in ops : /\ s.log[k].req.client = c
                                  /\ s.clientTable[c].lastReqId <= s.log[k].req.id}
            id    == Max({s.log[k].req.id : k \in newer})
            last  == Max({k \in newer : s.log[k].req.id = id})
        IN  IF newer = {} THEN s.clientTable[c]
            ELSE [lastReqId |-> id, replied |-> TRUE,
                  view |-> s.log[last].view, opnum |-> last]]

\* Broken on purpose: lastCommitted is set even if it is beyond upto.
CommitUpToBackwards(s, upto) ==
    [s EXCEPT !.lastCommitted = CommitPoint(s, upto),
              !.clientTable = StoreReplies(s, CommittedOps(s, upto)),
              !.aborted = upto > Len(s.log)]

CommitUpTo(s, upto) ==
    IF upto <= s.lastCommitted THEN s
    ELSE [s EXCEPT !.lastCommitted = CommitPoint(s, upto),
                   !.clientTable = StoreReplies(s, CommittedOps(s, upto)),
                   !.aborted = upto > Len(s.log)]

\* The replies CommitUpTo sends, to the clients whose address is known.
RepliesTo(s, r, upto) ==
    {[to |-> "client", from |-> r, req |-> s.log[k].req, view |-> s.log[k].view,
      opnum |-> k]
     : k \in {j \in CommittedOps(s, upto) :
                  NeedReply(s.log[j].req) /\ s.log[j].req.client \in s.addresses}}

PrepareOK(s, r, opnum) ==
    [type |-> "PrepareOK", to |-> GetLeaderIndex(s.view), from |-> r,
     view |-> s.view, opnum |-> opnum]

\* SendPrepareOKs: acknowledge every uncommitted operation from oldLastOp on.
NewUncommitted(s, oldLastOp) == Max({oldLastOp, s.lastCommitted + 1}) .. s.lastOp

CanPrepare(s, first, last) ==
    /\ last <= Len(s.log)
    /\ InOrder(s.clientTable, RequestsAt(s.log, first, last))

\* Broken on purpose: the client table is not told of the operations.
SendPrepareOKsUnrecorded(s, oldLastOp) ==
    IF CanPrepare(s, Max({oldLastOp, s.lastCommitted + 1}), s.lastOp) THEN s ELSE Abort(s)

SendPrepareOKs(s, oldLastOp) ==
    LET ops   == NewUncommitted(s, oldLastOp)
        first == Max({oldLastOp, s.lastCommitted + 1})
    IN  IF CanPrepare(s, first, s.lastOp)
        THEN [s EXCEPT !.clientTable =
                  UpdateClientTable(@, RequestsAt(s.log, first, s.lastOp))]
        ELSE Abort(s)

PrepareOKsFor(s, r, oldLastOp) ==
    LET first == Max({oldLastOp, s.lastCommitted + 1})
    IN  {PrepareOK(s, r, k) : k \in {j \in NewUncommitted(s, oldLastOp) :
                                         CanPrepare(s, first, j)}}

\* RequestStateTransfer: asks all others, unless it already asked for the same.
AlreadyAsked(s) ==
    s.lastTransfer[2] # 0 /\ s.lastTransfer = <<s.view, s.lastCommitted>>

RequestStateTransfer(s) == [s EXCEPT !.lastTransfer = <<s.view, s.lastCommitted>>]

\* Broken on purpose: asks from the last committed operation, itself included.
StateTransferRequestsInclusive(s, r) ==
    IF AlreadyAsked(s) THEN {}
    ELSE {[type |-> "RequestStateTransfer", to |-> p, from |-> r, view |-> s.view,
           opnum |-> s.lastCommitted - 1] : p \in Replicas \ {r}}

StateTransferRequests(s, r) ==
    IF AlreadyAsked(s) THEN {}
    ELSE {[type |-> "RequestStateTransfer", to |-> p, from |-> r, view |-> s.view,
           opnum |-> s.lastCommitted] : p \in Replicas \ {r}}

CommitMessages(s, r) ==
    {[type |-> "Commit", to |-> p, view |-> s.view, opnum |-> s.lastCommitted]
     : p \in Replicas \ {r}}

PrepareMessages(r, batch) ==
    {[type |-> "Prepare", to |-> p, batch |-> batch] : p \in Replicas \ {r}}

\* CloseBatch sends everything after lastBatchEnd as one PREPARE.
OpenBatch(s) ==
    [view |-> s.view, batchstart |-> s.lastBatchEnd + 1, opnum |-> s.lastOp,
     requests |-> RequestsAt(s.log, s.lastBatchEnd + 1, s.lastOp)]

\* The ASSERTs of CloseBatch, reached by a handler that has not failed before.
CanCloseBatch(s, r) ==
    /\ ~s.aborted
    /\ AmLeader(s, r)
    /\ s.lastBatchEnd < s.lastOp
    /\ s.lastOp <= Len(s.log)
    /\ \A k \in s.lastBatchEnd + 1 .. s.lastOp : s.log[k].view = s.view

\* Broken on purpose: resendPrepareTimeout is not reset.
CloseBatchUntimed(s, r) ==
    IF CanCloseBatch(s, r)
    THEN [s EXCEPT !.lastPrepare = OpenBatch(s), !.lastBatchEnd = s.lastOp,
                   !.batchComplete = FALSE, !.timers = @ \ {"closeBatch"}]
    ELSE Abort(s)

CloseBatch(s, r) ==
    IF CanCloseBatch(s, r)
    THEN [s EXCEPT !.lastPrepare = OpenBatch(s), !.lastBatchEnd = s.lastOp,
                   !.batchComplete = FALSE,
                   !.timers = (@ \cup {"resendPrepare"}) \ {"closeBatch"}]
    ELSE Abort(s)

ClosedBatch(s, r) == IF CanCloseBatch(s, r) THEN PrepareMessages(r, OpenBatch(s)) ELSE {}

\* EnterView.  The queue keeps only what a leader still has to order.
EnterView(s, r, newview) ==
    LET t == [s EXCEPT !.view = newview, !.status = "NORMAL",
                       !.lastBatchEnd = s.lastOp, !.batchComplete = TRUE,
                       !.prepareOKs = {}]
    IN  IF GetLeaderIndex(newview) = r
        THEN [t EXCEPT !.timers = (@ \cup {"nullCommit", "bgRepl"})
                                      \ {"viewChange", "recovery"}]
        ELSE [t EXCEPT !.timers = (@ \cup {"viewChange"})
                                      \ {"nullCommit", "resendPrepare", "closeBatch", "recovery"},
                       !.queue = <<>>]

\* Broken on purpose: the client table is not told of the request.
AppendRequestUnrecorded(s, q) ==
    IF s.lastOp = Len(s.log)
    THEN [s EXCEPT !.log = Append(@, [view |-> s.view, req |-> q]), !.lastOp = @ + 1,
                   !.timers = @ \cup {"nullCommit"}]
    ELSE Abort(s)

\* A request gets the next opnum and is added to the log, whose Append insists
\* that this is the opnum after its last one.
AppendRequest(s, q) ==
    IF s.lastOp = Len(s.log)
    THEN [s EXCEPT !.log = Append(@, [view |-> s.view, req |-> q]), !.lastOp = @ + 1,
                   !.clientTable = UpdateClientTable(@, <<q>>),
                   !.timers = @ \cup {"nullCommit"}]
    ELSE Abort(s)

\* The batch is sent when none is outstanding, or when it has BatchSize requests.
BatchReady(s) == s.batchComplete \/ s.lastOp - s.lastBatchEnd + 1 > BatchSize

\* Broken on purpose: closeBatchTimeout is not started.
KeepInBatchUntimed(s) == s

KeepInBatch(s) == [s EXCEPT !.timers = @ \cup {"closeBatch"}]

===============================================================================
