----------------------------- MODULE SkyrosConfig -----------------------------
(***************************************************************************)
(* The replica group: lib/configuration.cc.  A configuration file names n  *)
(* replicas and the number f of failures they tolerate; every quorum size  *)
(* and the leader of a view are computed from these two numbers.           *)
(***************************************************************************)
EXTENDS Integers, FiniteSets

CONSTANTS
    N,      \* number of "replica" lines of the configuration file
    F       \* the "f" line

\* An assumption on the groups modelled: the code does not check it, it only wants
\* both numbers to be present.  A quorum is f+1 replicas, so that two quorums meet
\* only in a group of at most 2f+1; sample/config has just that, as has an odd group
\* of experiments/vr.py, where f is the floor of n/2.  (One fixture of
\* configuration-test.cc, for the sizes alone, has n = 5 and f = 1.)
ASSUME ConfigAssumption == F \in Nat \ {0} /\ N = 2 * F + 1

Replicas == 0 .. N - 1

Views == Nat

\* Replicas that must hold an operation before it is committed.
QuorumSize == F + 1

\* Durability acknowledgements a client waits for (the supermajority).
FastQuorumSize == F + (F + 1) \div 2 + 1

\* The replica that leads view v.
GetLeaderIndex(v) == v % N

\* Durability logs that must agree on an order before the new leader keeps it
\* (requiredVotes in ConstructOrderedDurabilityLog).
RequiredVotes == FastQuorumSize - F

===============================================================================
