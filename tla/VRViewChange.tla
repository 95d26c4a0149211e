----------------------------- MODULE VRViewChange -----------------------------
(***************************************************************************)
(* View changes of the consensus replica of Skyros, skyros/vr/replica.cc,  *)
(* on top of its normal case (VRReplica): the viewChangeTimeout,           *)
(* STARTVIEWCHANGE, DOVIEWCHANGE and STARTVIEW, and with them the parts of *)
(* a replica they read: the durability log of the application and what its *)
(* durability server has been told of the view (vr/durabilityreplica.cc).  *)
(*                                                                         *)
(* A replica that crashes takes no further step, so any number of replicas *)
(* may stop at any time in a run without fairness; with fairness the ones  *)
(* outside Up have stopped.                                                *)
(***************************************************************************)
EXTENDS VRReplica, DurabilityOrder

CONSTANTS
    MaxView,       \* bound: no viewChangeTimeout fires in this view
    StatusDelay    \* bound: FALSE if a STATUSUPDATE is taken to arrive at once

ASSUME ViewChangeAssumption == MaxView \in Nat /\ StatusDelay \in BOOLEAN

VARIABLES
    ballots,       \* ballots[r]: startViewChangeQuorum and doViewChangeQuorum, for
                   \* the view of r; what they hold of older views is never read
    dur,           \* dur[r]: the durability log, in order
    told,          \* told[r]: view and status in the durability server of r
    acks           \* replies of durability servers to updates

viewChangeVars == <<ballots, dur, told, acks>>

allVars == <<vars, viewChangeVars>>

ViewChangeMessages ==
         [type : {"StartViewChange"}, to : Replicas, from : Replicas, view : Views,
          lastCommitted : Nat]
    \cup [type : {"DoViewChange"}, to : Replicas, from : Replicas, view : Views,
          lastNormalView : Views, lastOp : Nat, lastCommitted : Nat,
          first : Nat, entries : Seq(Entries), durlog : Seq(Requests)]
    \cup [type : {"StartView"}, to : Replicas, view : Views, lastOp : Nat,
          lastCommitted : Nat, first : Nat, entries : Seq(Entries)]

-------------------------------------------------------------------------------
(* The durability log                                                      *)

\* The elements of sequence s that are in set S, in their order.
Keep(s, S) ==
    LET kept == {k \in 1 .. Len(s) : s[k] \in S}
    IN  [i \in 1 .. Cardinality(kept) |->
            s[CHOOSE k \in kept : Cardinality({j \in kept : j < k}) = i - 1]]

ExecutedNow(r) ==
    {rep'[r].log[k].req : k \in rep[r].lastCommitted + 1 .. rep'[r].lastCommitted}

\* ReplicaUpcall erases an update from the durability log when it is executed.
EraseExecuted(log, r) == Keep(log, Requests \ ExecutedNow(r))

\* EnterView and StartViewChange send the durability server a STATUSUPDATE that
\* nobody waits for; with StatusDelay it may arrive later, or never.
Inform(r) ==
    told' = IF StatusDelay THEN told
            ELSE [told EXCEPT ![r] = [view |-> rep'[r].view, status |-> rep'[r].status]]

StatusUpdateArrives(r) ==
    /\ StatusDelay
    /\ told[r] # [view |-> rep[r].view, status |-> rep[r].status]
    /\ told' = [told EXCEPT ![r] = [view |-> rep[r].view, status |-> rep[r].status]]
    /\ UNCHANGED <<vars, ballots, dur, acks>>

\* What a handler of replica r leaves of its ballots and its durability log, and
\* the update of its server's status.  EnterView clears the ballots.
Settle(r, votes, log) ==
    /\ ballots' = [ballots EXCEPT ![r] =
                      IF rep'[r].status = "VIEW_CHANGE" THEN {m \in votes : m.view = rep'[r].view}
                      ELSE {}]
    /\ dur' = [dur EXCEPT ![r] = EraseExecuted(log, r)]
    /\ Inform(r)
    /\ UNCHANGED acks

\* The servers that have told the client that update q is durable.
AckedBy(q) == {m.from : m \in {x \in acks : x.req = q}}

\* The client has a supermajority of the servers, that of the leader included.
UpdateCompleted(q) ==
    /\ Cardinality(AckedBy(q)) >= FastQuorumSize
    /\ \E m \in acks : m.req = q /\ m.from = GetLeaderIndex(m.view)

\* The client sends a request when its updates before it are completed.
UpdatesBefore(q) ==
    \A p \in Requests : p.kind = "nilext" /\ p.client = q.client /\ p.id < q.id
                            => UpdateCompleted(p)

\* VRDurabilityReplica::HandleRequest of an update, which also reaches a server
\* again when the client resends it.
HandleUpdate(r, q) ==
    /\ Running(r)
    /\ q.kind = "nilext"
    /\ UpdatesBefore(q)
    /\ told[r].status = "NORMAL"
    /\ Arrives(q)
    /\ dur' = [dur EXCEPT ![r] = Append(Keep(@, Requests \ {q}), q)]
    /\ acks' = acks \cup {[req |-> q, from |-> r, view |-> told[r].view]}
    /\ IF GetLeaderIndex(told[r].view) = r
       THEN /\ Len(rep[r].queue) < QueueBound
            /\ Become(r, [rep[r] EXCEPT !.queue = Append(@, q)])
       ELSE UNCHANGED rep
    /\ UNCHANGED <<msgs, replies, ballots, told>>

-------------------------------------------------------------------------------
(* STARTVIEWCHANGE                                                         *)

StartViewChange(s, newview) ==
    [s EXCEPT !.view = newview, !.status = "VIEW_CHANGE",
              !.timers = (@ \cup {"viewChange"})
                             \ {"nullCommit", "resendPrepare", "closeBatch", "bgRepl"}]

StartViewChangeMessages(s, r) ==
    {[type |-> "StartViewChange", to |-> p, from |-> r, view |-> s.view,
      lastCommitted |-> s.lastCommitted] : p \in Replicas \ {r}}

ViewChangeTimeout(r) ==
    /\ Idle(r)
    /\ "viewChange" \in rep[r].timers
    /\ rep[r].view < MaxView
    /\ LET s == StartViewChange(rep[r], rep[r].view + 1)
       IN  Become(r, s) /\ Network({}, StartViewChangeMessages(s, r))
    /\ Settle(r, {}, dur[r])
    /\ UNCHANGED <<replies, issued>>

\* Broken on purpose: a replica that has entered the view takes them, too.
ConcernsAnyStatus(m, s) == m.view >= s.view

\* A message of a view change that is not ignored: of a newer view, or of the view
\* that the replica is changing to.
Concerns(m, s) == m.view > s.view \/ (m.view = s.view /\ s.status = "VIEW_CHANGE")

Joined(s, m) == IF m.view > s.view THEN StartViewChange(s, m.view) ELSE s

JoiningMessages(s, r, m) ==
    IF m.view > s.view THEN StartViewChangeMessages(Joined(s, m), r) ELSE {}

\* A replica's newer message of the same kind replaces its older one.
Ballots(r, m) ==
    {x \in ballots[r] : x.view = m.view /\ (x.type # m.type \/ x.from # m.from)} \cup {m}

OfType(votes, type) == {m \in votes : m.type = type}

\* Broken on purpose: the view of an empty log is none.
LastEntryViewOfNone(log) == IF log = <<>> THEN -1 ELSE log[Len(log)].view

\* Log::LastViewstamp.
LastEntryView(log) == IF log = <<>> THEN 0 ELSE log[Len(log)].view

\* Log::Dump starts with the first entry at the earliest.
DumpFrom(opnum) == Max({opnum, 1})

LeastCommitted(votes) == Min({m.lastCommitted : m \in votes})

DoViewChange(s, r, votes) ==
    LET first == DumpFrom(Min({LeastCommitted(votes), s.lastCommitted}))
    IN  [type |-> "DoViewChange", to |-> GetLeaderIndex(s.view), from |-> r,
         view |-> s.view, lastNormalView |-> LastEntryView(s.log), lastOp |-> s.lastOp,
         lastCommitted |-> s.lastCommitted, first |-> first,
         entries |-> SubSeq(s.log, first, Len(s.log)), durlog |-> dur[r]]

\* Broken on purpose: the STARTVIEWCHANGE of the replica itself is not counted.
SendsDoViewChangeLater(s, r, svcs) == Cardinality(svcs) >= QuorumSize /\ ~AmLeader(s, r)

\* A quorum, itself included, changes to the view that another replica leads.
SendsDoViewChange(s, r, svcs) == Cardinality(svcs) >= QuorumSize - 1 /\ ~AmLeader(s, r)

HandleStartViewChange(r, m) ==
    LET s     == Joined(rep[r], m)
        votes == Ballots(r, m)
        svcs  == OfType(votes, "StartViewChange")
    IN
    /\ Concerns(m, rep[r])
    /\ Become(r, s)
    /\ Network({m}, JoiningMessages(rep[r], r, m) \cup
           IF SendsDoViewChange(s, r, svcs)
           THEN {DoViewChange(s, r, svcs)} ELSE {})
    /\ Settle(r, votes, dur[r])

ReceiveStartViewChange(r) ==
    /\ Idle(r)
    /\ \E m \in Received(r, "StartViewChange") : HandleStartViewChange(r, m)
    /\ UNCHANGED <<replies, issued>>

-------------------------------------------------------------------------------
(* DOVIEWCHANGE                                                            *)

\* Log::RemoveAfter(lastop + 1) and Log::Install: what the entries do not agree
\* with, by the view of the entry, gives way to them.
Install(log, lastop, first, entries) ==
    LET kept  == SubSeq(log, 1, Min({lastop, Len(log)}))
        parts == {k \in 1 .. Len(entries) : \/ first + k - 1 > Len(kept)
                                            \/ kept[first + k - 1].view # entries[k].view}
    IN  IF parts = {} THEN kept
        ELSE SubSeq(kept, 1, first + Min(parts) - 2)
                 \o SubSeq(entries, Min(parts), Len(entries))

\* "Didn't include enough entries to install it".
TooFewEntries(s, m) == m.first > s.lastCommitted + 1

\* The ASSERT of Log::Append: the first entry comes right behind the log that
\* RemoveAfter leaves.
LeavesGap(s, m) == m.first > Min({m.lastOp, Len(s.log)}) + 1

Viewstamp(m) == <<m.lastNormalView, m.lastOp>>

Newer(p, q) == p[1] > q[1] \/ (p[1] = q[1] /\ p[2] > q[2])

\* Broken on purpose: of logs that end in the same view, the own one is taken.
LatestMsgOfLaterView(log, votes) ==
    {m \in votes : /\ m.lastNormalView > LastEntryView(log)
                   /\ \A x \in votes : x.lastNormalView <= m.lastNormalView}

\* The DOVIEWCHANGE with the newest log, if it is newer than the replica's own:
\* of several such, that of the first replica.
LatestMsg(log, votes) ==
    LET own    == <<LastEntryView(log), Len(log)>>
        newest == {m \in votes : /\ Newer(Viewstamp(m), own)
                                 /\ \A x \in votes : ~Newer(Viewstamp(x), Viewstamp(m))}
    IN  {m \in newest : \A x \in newest : m.from <= x.from}

\* latestMsg points to a copy that its loop has destroyed: what is read from it is
\* still the message, or another one that the loop has copied to the same place.
ReadFrom(latest, votes) == {m \in votes : \E x \in latest : m.from >= x.from}

\* The log of message x is installed.  If it has no entries nothing is, and the
\* ASSERTs are about message m.
Installed(s, x, m) ==
    IF x.entries = <<>>
    THEN IF s.lastCommitted = m.lastCommitted /\ m.lastOp = m.lastCommitted THEN s ELSE Abort(s)
    ELSE IF TooFewEntries(s, x) \/ LeavesGap(s, x) THEN Abort(s)
         ELSE [s EXCEPT !.log = Install(@, x.lastOp, x.first, x.entries)]

\* The requests of the merged log that the client table does not know.
Unordered(table, merged) ==
    Keep(merged, {q \in Requests :
        /\ q.id > table[q.client].lastReqId
        /\ \A j \in 1 .. Position(merged, q) - 1 :
               merged[j].client = q.client => merged[j].id < q.id})

\* The merged durability log becomes the end of the log; nothing else is queued.
AddDurable(s, qs) ==
    IF qs # <<>> /\ s.lastOp # Len(s.log) THEN Abort(s)
    ELSE [s EXCEPT !.log = @ \o [k \in 1 .. Len(qs) |-> [view |-> s.view, req |-> qs[k]]],
                   !.lastOp = @ + Len(qs),
                   !.clientTable = UpdateClientTable(@, qs),
                   !.queue = <<>>]


\* The logs that are merged: the replica's own and those of the messages whose log
\* is as new as the one chosen.
MergeLogs(r, votes) ==
    [p \in Replicas |-> IF \E m \in votes : m.from = p
                        THEN (CHOOSE m \in votes : m.from = p).durlog ELSE dur[r]]

\* min_element of no STARTVIEWCHANGE at all reads whatever lies behind the map.
LeastSVC(svcs, most) == IF svcs = {} THEN 0 .. most ELSE {LeastCommitted(svcs)}

StartViewMessages(s, r, least) ==
    LET first == DumpFrom(least)
    IN  {[type |-> "StartView", to |-> p, view |-> s.view, lastOp |-> s.lastOp,
          lastCommitted |-> s.lastCommitted, first |-> first,
          entries |-> SubSeq(s.log, first, Len(s.log))] : p \in Replicas \ {r}}

\* A quorum of DOVIEWCHANGEs: the replica becomes the leader of the view.
BecomeLeader(r, s, m, votes, joining) ==
    LET dvcs   == OfType(votes, "DoViewChange")
        svcs   == OfType(votes, "StartViewChange")
        latest == LatestMsg(s.log, dvcs)
        newest == IF latest = {} THEN <<LastEntryView(s.log), Len(s.log)>>
                  ELSE Viewstamp(CHOOSE x \in latest : TRUE)
        equals == {x \in dvcs : x.lastNormalView = newest[1]}
        logs   == MergeLogs(r, equals)
        voting == {r} \cup {x.from : x \in equals}
        upto   == Min({s.lastCommitted, LeastCommitted(dvcs)})
    IN
    \/ \E x \in IF latest = {} THEN {m} ELSE ReadFrom(latest, dvcs) :
       \E merged \in MergedLogs(logs, voting) :
       \E least \in LeastSVC(svcs, upto) :
       LET t == [(IF latest = {} THEN s ELSE Installed(s, x, m)) EXCEPT !.lastOp = newest[2]]
           u == AddDurable(t, Unordered(t.clientTable, merged))
           e == EnterView(u, r, s.view)
           c == IF latest = {} THEN e ELSE CommitUpTo(e, x.lastCommitted)
       IN
       IF t.aborted \/ u.aborted
       THEN /\ Become(r, Abort(s))
            /\ Network({m}, joining)
            /\ Settle(r, votes, dur[r])
            /\ UNCHANGED replies
       ELSE /\ Become(r, c)
            /\ Network({m}, joining \cup
                   IF c.aborted THEN {} ELSE StartViewMessages(c, r, Min({least, upto})))
            /\ replies' = replies \cup
                   IF latest = {} THEN {} ELSE RepliesTo(e, r, x.lastCommitted)
            /\ Settle(r, {}, merged)
    \* the process dies of what it reads from latestMsg, or the order of the
    \* durability log has a cycle
    \/ /\ latest # {} \/ MergedLogs(logs, voting) = {}
       /\ Become(r, Abort(s))
       /\ Network({m}, joining)
       /\ Settle(r, votes, dur[r])
       /\ UNCHANGED replies

HandleDoViewChange(r, m) ==
    LET s       == Joined(rep[r], m)
        votes   == Ballots(r, m)
        joining == JoiningMessages(rep[r], r, m)
    IN
    /\ Concerns(m, rep[r])
    /\ IF Cardinality(OfType(votes, "DoViewChange")) < QuorumSize - 1
       THEN /\ Become(r, s)
            /\ Network({m}, joining)
            /\ Settle(r, votes, dur[r])
            /\ UNCHANGED replies
       ELSE BecomeLeader(r, s, m, votes, joining)

ReceiveDoViewChange(r) ==
    /\ Idle(r)
    /\ \E m \in Received(r, "DoViewChange") : HandleDoViewChange(r, m)
    /\ UNCHANGED issued

-------------------------------------------------------------------------------
(* STARTVIEW                                                               *)

\* The new log, the view, and only then the lastop of the leader.
HandleStartView(r, m) ==
    LET s == rep[r]
        i == Installed(s, m, m)
        e == [EnterView(i, r, m.view) EXCEPT !.lastOp = m.lastOp]
        c == CommitUpTo(e, m.lastCommitted)
    IN
    /\ Concerns(m, s)
    /\ IF i.aborted
       THEN /\ Become(r, i)
            /\ Network({m}, {})
            /\ UNCHANGED replies
       ELSE /\ Become(r, IF c.aborted THEN c ELSE SendPrepareOKs(c, s.lastOp))
            /\ Network({m}, IF c.aborted THEN {} ELSE PrepareOKsFor(c, r, s.lastOp))
            /\ replies' = replies \cup RepliesTo(e, r, m.lastCommitted)
    /\ Settle(r, {}, dur[r])

ReceiveStartView(r) ==
    /\ Idle(r)
    /\ \E m \in Received(r, "StartView") : HandleStartView(r, m)
    /\ UNCHANGED issued

-------------------------------------------------------------------------------

ViewChangeInit ==
    /\ Init
    /\ ballots = [r \in Replicas |-> {}]
    /\ dur = [r \in Replicas |-> <<>>]
    /\ told = [r \in Replicas |-> [view |-> 0, status |-> "NORMAL"]]
    /\ acks = {}

\* The rest of a handler that VRReplica models.
Settled(r) == Settle(r, ballots[r], dur[r])

\* The handlers of VRReplica; updates reach it by HandleUpdate.
NormalStep(r) ==
    /\ \/ \E q \in Requests : UpdatesBefore(q) /\ HandleRequest(r, q)
       \/ BgRepl(r)
       \/ ReplayPending(r)
       \/ Receive(r)
       \/ Timer(r)
    /\ Settled(r)

ViewChangeStep(r) ==
    \/ NormalStep(r)
    \/ \E q \in Requests : HandleUpdate(r, q)
    \/ StatusUpdateArrives(r)
    \/ ViewChangeTimeout(r)
    \/ ReceiveStartViewChange(r)
    \/ ReceiveDoViewChange(r)
    \/ ReceiveStartView(r)

\* A message that is lost is one that nobody receives.
ViewChangeNext == \E r \in Up : ViewChangeStep(r)

ViewChangeSpec == ViewChangeInit /\ [][ViewChangeNext]_allVars

\* The timers of VRReplica, and messages that are sent again and again: SF.  The
\* messages of a view change are sent once; they are taken to be received: WF.
\* Nothing is assumed of viewChangeTimeout: a leader that is heard resets it.
ViewChangeFairness ==
    \A r \in Up :
        /\ WF_allVars(BgRepl(r) /\ Settled(r))
        /\ WF_allVars(ReplayPending(r) /\ Settled(r))
        /\ WF_allVars(CloseBatchTimeout(r) /\ Settled(r))
        /\ WF_allVars(ResendPrepare(r) /\ Settled(r))
        /\ WF_allVars(SendNullCommit(r) /\ Settled(r))
        /\ SF_allVars(ReceivePrepare(r) /\ Settled(r))
        /\ SF_allVars(ReceivePrepareOK(r) /\ Settled(r))
        /\ SF_allVars(ReceiveCommit(r) /\ Settled(r))
        /\ WF_allVars(StateTransferTimeout(r) /\ Settled(r))
        /\ SF_allVars(ReceiveRequestStateTransfer(r) /\ Settled(r))
        /\ SF_allVars(ReceiveStateTransfer(r) /\ Settled(r))
        /\ WF_allVars(ReceiveStartViewChange(r))
        /\ WF_allVars(ReceiveDoViewChange(r))
        /\ WF_allVars(ReceiveStartView(r))

FairViewChangeSpec == ViewChangeSpec /\ ViewChangeFairness

-------------------------------------------------------------------------------
(* Properties                                                              *)

\* Every variable has the type of its declarations.
ViewChangeTypeOK ==
    /\ rep \in [Replicas -> ReplicaStates]
    /\ msgs \subseteq Messages \cup ViewChangeMessages
    /\ replies \subseteq ReplyMessages
    /\ issued \in [Clients -> Nat]
    /\ ballots \in [Replicas -> SUBSET ViewChangeMessages]
    /\ dur \in [Replicas -> Seq(Requests)]
    /\ told \in [Replicas -> [view : Views, status : Statuses]]
    /\ acks \subseteq [req : Requests, from : Replicas, view : Views]

\* The entries of a piece of a log whose first opnum is first, with their opnums.
Numbered(entries, first) == {<<first + k - 1, entries[k]>> : k \in DOMAIN entries}

\* The log entries anywhere, with their opnums: in logs and in messages.
EntriesAnywhere ==
    LET carriers == {m \in msgs : m.type \in {"StateTransfer", "DoViewChange", "StartView"}}
    IN  (UNION {Numbered(rep[r].log, 1) : r \in Replicas})
            \cup (UNION {Numbered(m.entries, m.first) : m \in carriers})

\* A viewstamp names one request: entries with the same view and opnum are the
\* same, wherever they are, which Install and HandleStateTransfer take for
\* granted when they compare views only.
ViewstampsUnique ==
    \A x, y \in EntriesAnywhere : x[1] = y[1] /\ x[2].view = y[2].view => x[2] = y[2]

Leads(r) == Running(r) /\ rep[r].status = "NORMAL" /\ AmLeader(rep[r], r)

\* What any replica has executed is in the log of whoever leads its view or a later
\* one.
LeaderComplete ==
    \A p, r \in Replicas :
        Leads(r) /\ rep[p].view <= rep[r].view
            => /\ rep[p].lastCommitted <= Len(rep[r].log)
               /\ SameUpTo(rep[p], rep[r], rep[p].lastCommitted)

\* The logs that HandleDoViewChange takes for the newest of those of replicas V.
NewestLogs(V) ==
    {rep[p].log : p \in {r \in V : \A x \in V :
        ~Newer(<<LastEntryView(rep[x].log), Len(rep[x].log)>>,
               <<LastEntryView(rep[r].log), Len(rep[r].log)>>)}}

\* Whichever f+1 replicas take part in the next view change, the log that it
\* chooses holds every operation that any replica has executed.
ExecutedSurvive ==
    \A V \in SUBSET Replicas : Cardinality(V) = QuorumSize =>
        \A log \in NewestLogs(V) : \A r \in Replicas :
            /\ rep[r].lastCommitted <= Len(log)
            /\ \A k \in 1 .. rep[r].lastCommitted : rep[r].log[k] = log[k]

\* "We'd better not be removing any committed entries" (Log::RemoveAfter): whatever
\* log a view change or a state transfer installs, the operations that the replica
\* has executed stay in it.
CommittedKept ==
    [][\A r \in Replicas : \A k \in 1 .. rep[r].lastCommitted :
           k <= Len(rep'[r].log) /\ rep'[r].log[k] = rep[r].log[k]]_allVars


\* A quorum has entered the view of leader r.
InViewWith(r) == {p \in Up : Running(p) /\ rep[p].status = "NORMAL" /\ rep[p].view = rep[r].view}

Established(r) == Leads(r) /\ Cardinality(InViewWith(r)) >= QuorumSize

\* A leader whose view a quorum has entered and which has ordered a request in it
\* executes its whole log, what it has taken over from older views included: the
\* PREPARE of the new request is resent, and its acknowledgement is one of all.
OrderedInViewExecuted ==
    \A r \in Up : []<>(Established(r) /\ LastEntryView(rep[r].log) = rep[r].view
                            => rep[r].lastCommitted = rep[r].lastOp)

\* A view change ends: every replica that runs is back in a normal view, or a
\* process has died.
ViewChangeEnds ==
    []<>(\/ \A r \in Up : rep[r].status = "NORMAL"
         \/ \E r \in Up : rep[r].aborted)

-------------------------------------------------------------------------------
(* What the repository says and the code does not do                       *)

\* "TODO: fix this race, we have to wait for ack from dr server" (replica.cc): an
\* update that its client has been told is durable is not forgotten by a view
\* change.  Whoever leads the latest view has ordered it or will.
UpdatesSurvive ==
    \A r \in Replicas : \A q \in Requests :
        /\ Leads(r)
        /\ q.kind = "nilext" /\ UpdateCompleted(q)
        /\ \A m \in acks : m.view <= rep[r].view
        => \/ Contains(rep[r].queue, q)
           \/ \E k \in DOMAIN rep[r].log : rep[r].log[k].req = q

\* "Each replica should have executed only one request", when a client that sent
\* one has resent it to the next leader (vr-test.cc).
ExecutedOnce ==
    \A r \in Replicas : \A j, k \in 1 .. rep[r].lastCommitted :
        j # k => rep[r].log[j].req # rep[r].log[k].req

\* The ASSERT of Log::Append: an operation that gets the opnum after lastOp is
\* added right behind the last entry.
LogEndsAtLastOp == \A r \in Replicas : rep[r].lastOp = Len(rep[r].log)

\* "Not enough entries in STARTVIEW message to install new log" is not reached.
StartViewReaches ==
    \A m \in OfType(msgs, "StartView") :
        Running(m.to) /\ Concerns(m, rep[m.to]) /\ m.entries # <<>>
            => ~TooFewEntries(rep[m.to], m)

\* The assert of VRClient::HandleReply: a reply is of view 0.
RepliesOfFirstView == \A m \in replies : m.to = "client" => m.view = 0

\* A request that is in the log of a leader, whose view a quorum has entered, is
\* executed: "we're waiting for the other replicas" (replica.cc), so a request that
\* the client resends is discarded.
CarriedOverExecuted ==
    \A r \in Up : []<>(Established(r) => rep[r].lastCommitted = rep[r].lastOp)

\* "Reads only require one response from the leader" (code-organization.md): its
\* store has every write that a client has been told of.
CompletedVisible ==
    \A m \in replies : \A r \in Replicas :
        m.to = "client" /\ Leads(r) /\ rep[m.from].view <= rep[r].view => Executed(r, m.req)

===============================================================================
