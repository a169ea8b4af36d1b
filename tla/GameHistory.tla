---------------------------- MODULE GameHistory ----------------------------
(***************************************************************************)
(* One game with a history variable, for what a comment of the code says   *)
(* of the game as a whole and not of its last race.                        *)
(***************************************************************************)
EXTENDS GameProperties

VARIABLE penalties    \* all the upgrade penalties each client's car ever took

hvars == <<vars, penalties>>

(* The penalty an upgrade adds in this step, if it adds one.               *)
AddedPenalty(c) ==
  IF c \in Drivers /\ playerCars'[c] # None
  THEN Max({0, playerCars'[c].upgradePenalty - playerCars[c].upgradePenalty})
  ELSE 0

HistoryInit == GameInit /\ penalties = [c \in Clients |-> 0]

HistoryNext ==
  /\ Next
  /\ penalties' = [c \in Clients |->
       IF playerCars'[c] = None THEN 0 ELSE penalties[c] + AddedPenalty(c)]

HistorySpec == HistoryInit /\ [][HistoryNext]_hvars

(* "le sumo la penalidad TOTAL que acumulo el auto en toda la partida"     *)
(* (computeGlobalRanking): the step that ranks a player adds to its time   *)
(* every penalty that its car took in the game.                            *)
TotalPenaltyAdded ==
  [][GameOver /\ ~stopping => \A c \in Drivers \cap Ranked :
       globalStats'[c].totalTime = globalStats[c].totalTime + penalties[c]]_hvars
=============================================================================
