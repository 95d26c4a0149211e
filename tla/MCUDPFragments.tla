---------------------------- MODULE MCUDPFragments ----------------------------
(* A small instance of UDPFragments for TLC. *)
EXTENDS UDPFragments, TLC

CONSTANTS r1, r2    \* receivers

\* What was sent to the other receiver matters only for the msgIds.
OneReceives == received[r2] = {}

\* Bound: five packets, or three messages of two packets.
FewPackets == OneReceives /\ (Cardinality(network) <= 5 \/ \A m \in network : m.total = 2)

===============================================================================
