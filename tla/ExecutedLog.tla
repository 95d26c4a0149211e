----------------------------- MODULE ExecutedLog -----------------------------
(***************************************************************************)
(* What the consensus group promises the rest of Skyros within a view: one *)
(* list of requests, ordered once by the leader, which every replica       *)
(* executes from the front, the leader first.  VRReplica implements it     *)
(* (VRRefinement); the durability layer (Durability) is built on it.       *)
(***************************************************************************)
EXTENDS Integers, Sequences

CONSTANTS
    Replicas,
    Leader,      \* the leader of the view, a replica
    Requests     \* records with, at least, the fields client and id

VARIABLES
    decided,     \* the log of the leader
    executed     \* executed[r]: how many operations replica r has executed

logVars == <<decided, executed>>

Init ==
    /\ decided = <<>>
    /\ executed = [r \in Replicas |-> 0]

\* The newest request of a client in the log, as the client table tells.
Newer(q) == \A k \in DOMAIN decided : decided[k].client = q.client => decided[k].id < q.id

\* The leader orders a request that is newer than those of its client.
Decide(q) ==
    /\ Newer(q)
    /\ decided' = Append(decided, q)
    /\ UNCHANGED executed

\* Replica r executes the operations up to n; others follow the leader's commits.
Execute(r, n) ==
    /\ executed[r] < n
    /\ n <= IF r = Leader THEN Len(decided) ELSE executed[Leader]
    /\ executed' = [executed EXCEPT ![r] = n]
    /\ UNCHANGED decided

Next ==
    \/ \E q \in Requests : Decide(q)
    \/ \E r \in Replicas : \E n \in 1 .. Len(decided) : Execute(r, n)

Spec == Init /\ [][Next]_logVars

===============================================================================
