----------------------------- MODULE MCVRRecovery -----------------------------
(* Small instances of VRRecovery for TLC. *)
EXTENDS VRRecovery

CONSTANTS a, b    \* clients

OneWrite == (a :> <<"write">>)

TwoWrites == (a :> <<"write">>) @@ (b :> <<"write">>)

OneUpdate == (a :> <<"nilext">>)

\* Replica 1 is started again when its server has the first update and the others have
\* not, and recovers in view 0, of which the leader orders nothing.
RecoversAtFirst ==
    /\ \A m \in acks : m.view = 0 /\ (m.from # 1 => recoveryNonce[1] = 1)
    /\ rep[0].view = 0 /\ rep[0].log = <<>>
    /\ 1 \in Recovering => rep[1].view = 0 /\ rep[2].view = 0

ClientSymmetry == Permutations({a, b})

===============================================================================
