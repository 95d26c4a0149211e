----------------------------- MODULE MCVRReplica -----------------------------
(* Small instances of VRReplica for TLC. *)
EXTENDS VRRefinement, TLC

CONSTANTS a, b    \* clients

\* A durability client's update is queued in the background while the write of a
\* consensus client is ordered at once.
TwoWrites == (a :> <<"nilext">>) @@ (b :> <<"write">>)

\* A durability client updates a key twice and reads it while the updates are
\* pending.
UpdatesThenRead == (a :> <<"nilext", "nilext", "read">>)

\* Background updates that share a batch or not.
TwoUpdates == (a :> <<"nilext", "nilext">>)

===============================================================================
