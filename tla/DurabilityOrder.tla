--------------------------- MODULE DurabilityOrder ---------------------------
(***************************************************************************)
(* ConstructOrderedDurabilityLog of vr/replica.cc: on a view change, the   *)
(* new leader merges the durability logs of f+1 replicas.  Every log votes *)
(* on the order of every pair of requests; pairs with enough votes become  *)
(* the edges of a graph, which is sorted topologically.                    *)
(*                                                                         *)
(* logs[r] is the durability log of replica r, a sequence of requests, and *)
(* V the set of replicas whose logs are merged.                            *)
(***************************************************************************)
EXTENDS SkyrosConfig, Sequences, SequencesExt

\* The index of request q in a log; 0 stands for the -1 of a log without q.
Position(log, q) ==
    IF Contains(log, q) THEN CHOOSE k \in 1 .. Len(log) : log[k] = q ELSE 0

\* The log votes for p before q.
Supports(log, p, q) ==
    \/ Position(log, p) < Position(log, q)
    \/ Position(log, p) # 0 /\ Position(log, q) = 0

Votes(logs, V, p, q) == Cardinality({r \in V : Supports(logs[r], p, q)})

\* The graph has an edge from p to q.
Edge(logs, V, p, q) == p # q /\ Votes(logs, V, p, q) >= RequiredVotes

\* The requests of all the logs.
DurabilitySet(logs, V) == UNION {ToSet(logs[r]) : r \in V}

\* The results topological_sort may return: none if the graph has a cycle, and
\* then it throws not_a_dag, which nothing catches.
MergedLogs(logs, V) ==
    {s \in SetToSeqs(DurabilitySet(logs, V)) :
        \A i, j \in DOMAIN s : i < j => ~Edge(logs, V, s[j], s[i])}

===============================================================================
