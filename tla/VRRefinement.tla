----------------------------- MODULE VRRefinement -----------------------------
(* The normal case of VRReplica implements ExecutedLog. *)
EXTENDS VRReplica

\* The list that is decided is the log of the leader of view 0.
Decided ==
    LET log == rep[GetLeaderIndex(0)].log
    IN  [k \in 1 .. Len(log) |-> log[k].req]

Executions == [r \in Replicas |-> rep[r].lastCommitted]

Consensus ==
    INSTANCE ExecutedLog WITH Leader <- GetLeaderIndex(0),
                              decided <- Decided, executed <- Executions

\* Whatever the replicas do in view 0, with messages lost, repeated and late, they
\* act as one log that the leader appends each request to at most once, in its
\* client's order, and that each replica executes from the front, never ahead of
\* the leader.
ImplementsExecutedLog == Consensus!Spec

===============================================================================
