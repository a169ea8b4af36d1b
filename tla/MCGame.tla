------------------------------- MODULE MCGame ------------------------------
(* Values of the constants for TLC, and the symmetry of the clients.       *)
EXTENDS GameProperties

MCPenalty == [u \in Upgrades |-> 1]

MCSymmetry == Permutations(Clients)
=============================================================================
