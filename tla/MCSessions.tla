----------------------------- MODULE MCSessions -----------------------------
(* Constants for the model checking of the sessions.                       *)
EXTENDS SessionProperties

Symmetry == Permutations(Clients)
=============================================================================
