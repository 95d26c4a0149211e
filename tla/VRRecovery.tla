------------------------------ MODULE VRRecovery ------------------------------
(***************************************************************************)
(* Crash and recovery of the consensus replica of Skyros: a replica loses  *)
(* all it has in memory, is started again with option -R                   *)
(* (skyros/bench/replica.cc) and asks the others for what it has lost,     *)
(* with RECOVERY and RECOVERYRESPONSE (skyros/vr/replica.cc).              *)
(*                                                                         *)
(* It has its old address: what was sent to it before is still received.   *)
(***************************************************************************)
EXTENDS VRViewChange

CONSTANTS
    Crashing,      \* the replicas that may crash and are started again
    MaxCrashes     \* bound: how often replicas are started again

ASSUME RecoveryAssumption == Crashing \subseteq Up /\ MaxCrashes \in Nat

VARIABLES
    recoveryNonce,          \* recoveryNonce[r]: 0 if r has never been started again
    recoveryResponseQuorum  \* the RECOVERYRESPONSEs to the nonce of r

recoveryVars == <<recoveryNonce, recoveryResponseQuorum>>

everything == <<allVars, recoveryVars>>

\* lastOp, lastCommitted, entries and durlog are set by a leader only.
RecoveryMessages ==
         [type : {"Recovery"}, to : Replicas, from : Replicas, nonce : Nat]
    \cup [type : {"RecoveryResponse"}, to : Replicas, from : Replicas, view : Views,
          nonce : Nat, lastOp : Nat, lastCommitted : Nat, entries : Seq(Entries),
          durlog : Seq(Requests)]

-------------------------------------------------------------------------------
(* Starting again                                                          *)

RecoveryTimers == {"recovery"}

\* The constructor, with initialize = false.
RecoveringReplica(r) ==
    [NewReplica(r) EXCEPT !.status = "RECOVERING", !.timers = RecoveryTimers]

RequestRecovery(r, nonce) ==
    {[type |-> "Recovery", to |-> p, from |-> r, nonce |-> nonce] : p \in Replicas \ {r}}

Recovering == {r \in Replicas : rep[r].status = "RECOVERING"}

\* The process ends anywhere in its work and is started again.  At most f replicas
\* fail at a time, and one that recovers has failed.  Its durability server is new,
\* too: it takes its replica for NORMAL, in view 0, until it is told otherwise.
Crash(r) ==
    /\ r \in Crashing
    /\ FoldSet(LAMBDA p, n : n + recoveryNonce[p], 0, Replicas) < MaxCrashes
    /\ Cardinality(Recovering \cup {r}) <= F
    /\ LET nonce == recoveryNonce[r] + 1
       IN  /\ recoveryNonce' = [recoveryNonce EXCEPT ![r] = nonce]
           /\ Network({}, RequestRecovery(r, nonce))
    /\ Become(r, RecoveringReplica(r))
    /\ recoveryResponseQuorum' = [recoveryResponseQuorum EXCEPT ![r] = {}]
    /\ ballots' = [ballots EXCEPT ![r] = {}]
    /\ dur' = [dur EXCEPT ![r] = <<>>]
    /\ told' = [told EXCEPT ![r] = [view |-> 0, status |-> IF StatusDelay THEN "NORMAL"
                                                           ELSE "RECOVERING"]]
    /\ UNCHANGED <<replies, issued, acks>>

\* recoveryTimeout.
SendRecoveryMessages(r) ==
    /\ Idle(r)
    /\ "recovery" \in rep[r].timers
    /\ Network({}, RequestRecovery(r, recoveryNonce[r]))
    /\ UNCHANGED <<rep, replies, issued, viewChangeVars, recoveryVars>>

-------------------------------------------------------------------------------
(* RECOVERY                                                                *)

\* A leader adds what it has, its whole log.
RecoveryResponse(r, m) ==
    LET s == rep[r]
        leads == AmLeader(s, r)
    IN  [type |-> "RecoveryResponse", to |-> m.from, from |-> r, view |-> s.view,
         nonce |-> m.nonce,
         lastOp |-> IF leads THEN s.lastOp ELSE 0,
         lastCommitted |-> IF leads THEN s.lastCommitted ELSE 0,
         entries |-> IF leads THEN s.log ELSE <<>>,
         durlog |-> IF leads THEN dur[r] ELSE <<>>]

HandleRecovery(r) ==
    /\ Idle(r)
    /\ \E m \in Received(r, "Recovery") :
           Network({m}, IF rep[r].status = "NORMAL" THEN {RecoveryResponse(r, m)} ELSE {})
    /\ UNCHANGED <<rep, replies, issued, viewChangeVars, recoveryVars>>

-------------------------------------------------------------------------------
(* RECOVERYRESPONSE                                                        *)

\* Broken on purpose: a response to an earlier life of the replica counts.
AwaitedAnyNonce(r, m) == rep[r].status = "RECOVERING"

\* A response to what replica r has asked for since it was started.
Awaited(r, m) == rep[r].status = "RECOVERING" /\ m.nonce = recoveryNonce[r]

Responses(r, m) == {x \in recoveryResponseQuorum[r] : x.from # m.from} \cup {m}

\* Broken on purpose: any response of the latest view will do.
LeaderResponseOfAny(votes, highest) == {x \in votes : x.view = highest}

\* The response of the leader of the latest view, if it leads it already.
LeaderResponse(votes, highest) ==
    {x \in votes : x.from = GetLeaderIndex(highest) /\ x.view = highest}

\* The leader's log, without RemoveAfter, then the view, and only then its lastop.
Recovered(r, x) ==
    LET i == [rep[r] EXCEPT !.log = Install(@, Len(@), 1, x.entries)]
    IN  [EnterView(i, r, x.view) EXCEPT !.lastOp = x.lastOp]

\* Broken on purpose: a response of the replica itself is waited for.
EnoughResponsesOfAll(votes) == Cardinality(votes) > QuorumSize

\* recoveryResponseQuorum(QuorumSize()): the replica itself is not one of them.
EnoughResponses(votes) == Cardinality(votes) >= QuorumSize

\* EnterView forgets the responses.
KeepResponses(r, votes) ==
    recoveryResponseQuorum' =
        [recoveryResponseQuorum EXCEPT ![r] = IF rep'[r].status = "NORMAL" THEN {} ELSE votes]

HandleRecoveryResponse(r, m) ==
    LET votes   == Responses(r, m)
        highest == Max({x.view : x \in votes})
    IN
    /\ Network({m}, {})
    \* ignored, or no quorum yet, or one without the leader
    /\ \/ /\ \/ ~Awaited(r, m)
             \/ ~EnoughResponses(votes)
             \/ GetLeaderIndex(highest) # r /\ LeaderResponse(votes, highest) = {}
          /\ UNCHANGED <<rep, replies, viewChangeVars>>
       \* ASSERT(leader != replicaIdx)
       \/ /\ Awaited(r, m)
          /\ EnoughResponses(votes)
          /\ GetLeaderIndex(highest) = r
          /\ Become(r, Abort(rep[r]))
          /\ UNCHANGED <<replies, viewChangeVars>>
       \/ /\ Awaited(r, m)
          /\ EnoughResponses(votes)
          /\ GetLeaderIndex(highest) # r
          /\ \E x \in LeaderResponse(votes, highest) :
                 /\ Become(r, CommitUpTo(Recovered(r, x), x.lastCommitted))
                 /\ replies' = replies \cup RepliesTo(Recovered(r, x), r, x.lastCommitted)
                 /\ Settle(r, {}, x.durlog)
    /\ KeepResponses(r, IF Awaited(r, m) THEN votes ELSE recoveryResponseQuorum[r])

ReceiveRecoveryResponse(r, p) ==
    /\ Idle(r)
    /\ \E m \in Received(r, "RecoveryResponse") : m.from = p /\ HandleRecoveryResponse(r, m)
    /\ UNCHANGED <<issued, recoveryNonce>>

-------------------------------------------------------------------------------

RecoveryInit ==
    /\ ViewChangeInit
    /\ recoveryNonce = [r \in Replicas |-> 0]
    /\ recoveryResponseQuorum = [r \in Replicas |-> {}]

RecoveryStep(r) ==
    \/ /\ ViewChangeStep(r)
       /\ KeepResponses(r, recoveryResponseQuorum[r])
       /\ UNCHANGED recoveryNonce
    \/ Crash(r)
    \/ SendRecoveryMessages(r)
    \/ HandleRecovery(r)
    \/ \E p \in Replicas : ReceiveRecoveryResponse(r, p)

\* A message that is lost is one that nobody receives.
RecoveryNext == \E r \in Up : RecoveryStep(r)

RecoverySpec == RecoveryInit /\ [][RecoveryNext]_everything

\* recoveryTimeout is periodic, and messages that are sent again and again are
\* received.  Nothing is assumed of the rest.
RecoveryFairness ==
    /\ \A r \in Up : /\ WF_everything(ReplayPending(r) /\ Settled(r) /\ UNCHANGED recoveryVars)
                     /\ SF_everything(HandleRecovery(r))
    /\ \A r \in Crashing :
           /\ WF_everything(SendRecoveryMessages(r))
           /\ \A p \in Up \ {r} : SF_everything(ReceiveRecoveryResponse(r, p))

FairRecoverySpec == RecoverySpec /\ RecoveryFairness

-------------------------------------------------------------------------------
(* Properties                                                              *)

\* The log of a replica that takes part reaches every operation that it has ever
\* told the leader it has, in an earlier life, too: the leader counts on it.
AcknowledgedKept ==
    \A m \in OfType(msgs, "PrepareOK") :
        /\ rep[m.from].status = "NORMAL" /\ rep[m.from].view = m.view
        => m.opnum <= Len(rep[m.from].log)

\* What the leader has executed is in the logs of f+1 replicas, those that recover
\* counted: they do not take part before they have it back.
ExecutedOnQuorum ==
    \A k \in 1 .. rep[GetLeaderIndex(0)].lastCommitted :
        Cardinality({p \in Replicas : \/ p \in Recovering
                                      \/ k <= Len(rep[p].log)}) >= QuorumSize

\* A replica that was started again takes part again, or has died.
RecoveryEnds ==
    \A r \in Up : []<>(rep[r].status # "RECOVERING" \/ rep[r].aborted)

===============================================================================
