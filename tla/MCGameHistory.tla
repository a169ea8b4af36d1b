--------------------------- MODULE MCGameHistory ---------------------------
(* Values of the constants for TLC, for the game with its history.         *)
EXTENDS GameHistory

MCPenalty == [u \in Upgrades |-> 1]
=============================================================================
