------------------------ MODULE WorldEventHandlers -------------------------
(***************************************************************************)
(* WorldEventHandlers (server_src/game_logic/world_event_handlers.cpp):    *)
(* what a checkpoint, a building or another car does to a car, and how a   *)
(* race is finished or lost.                                               *)
(*                                                                         *)
(* The impact of a hit is physics: a soft hit changes nothing, any other   *)
(* deals a damage chosen from Damages, multipliers and shield included.    *)
(* Broadcasts of health and checkpoint messages are left out.              *)
(***************************************************************************)
EXTENDS GameState

finishVars == <<finishedCarsCount, raceEnded, resultVars>>

(* markFinished and onPlayerFinishedRace, and the entry in the ranking.    *)
RecordFinish(c, car, place) ==
  /\ playerCars' = [playerCars EXCEPT ![c] = MarkFinished(car, raceTime, place)]
  /\ lastRaceResults' =
       Append(lastRaceResults, [playerId |-> c, raceTime |-> raceTime,
                                position |-> place, finished |-> TRUE])
  /\ raceRanking' = Append(raceRanking, c)

(* A variant that records the place before it counts the finisher.         *)
CarFinishRaceLatePlace(c, car) ==
  /\ finishedCarsCount' = (finishedCarsCount + 1) % 256
  /\ RecordFinish(c, car, finishedCarsCount)
  /\ raceEnded' = (raceEnded \/ finishedCarsCount' = totalCars)

(* A variant that ends the race one finisher too early.                    *)
CarFinishRaceEarlyEnd(c, car) ==
  /\ finishedCarsCount' = (finishedCarsCount + 1) % 256
  /\ RecordFinish(c, car, finishedCarsCount')
  /\ raceEnded' = (raceEnded \/ finishedCarsCount' + 1 >= totalCars)

(* CarFinishRace, on a car already moved to its last checkpoint.  The      *)
(* counters are uint8_t; the race ends when they meet.                     *)
CarFinishRace(c, car) ==
  /\ finishedCarsCount' = (finishedCarsCount + 1) % 256
  /\ RecordFinish(c, car, finishedCarsCount')
  /\ raceEnded' = (raceEnded \/ finishedCarsCount' = totalCars)

(* A variant that lets any later checkpoint count.                         *)
CarHitAnyCheckpoint(c, id) ==
  LET car == [playerCars[c] EXCEPT !.actualCheckpoint = id] IN
  IF c \notin Drivers \/ playerCars[c].actualCheckpoint >= id
  THEN UNCHANGED <<playerCars, finishVars>>
  ELSE IF id = NumCheckpoints /\ ~car.finished
       THEN CarFinishRace(c, car)
       ELSE /\ playerCars' = [playerCars EXCEPT ![c] = car]
            /\ UNCHANGED finishVars

(* CarHitCheckpointHandler: only the checkpoint after the last one counts. *)
CarHitCheckpoint(c, id) ==
  LET car == [playerCars[c] EXCEPT !.actualCheckpoint = id] IN
  IF c \notin Drivers \/ playerCars[c].actualCheckpoint + 1 # id
  THEN UNCHANGED <<playerCars, finishVars>>
  ELSE IF id = NumCheckpoints /\ ~car.finished
       THEN CarFinishRace(c, car)
       ELSE /\ playerCars' = [playerCars EXCEPT ![c] = car]
            /\ UNCHANGED finishVars

(* n calls of setKillCar: each takes one off the uint8_t totalCars.        *)
CountKills(n) ==
  /\ totalCars' = (totalCars + 256 - n) % 256
  /\ wrecked' = (wrecked \/ n > 0)

(* Damage the cars struck; the handler then calls setKillCar the given     *)
(* number of times on every one of them left without health.               *)
Strike(struck, damage, times) ==
  LET hurt(c) == ApplyDamage(playerCars[c], damage[c])
  IN  /\ playerCars' = [c \in Clients |-> IF c \in struck THEN hurt(c) ELSE playerCars[c]]
      /\ CountKills(times * Cardinality({c \in struck : IsCarDestroy(hurt(c))}))

SoftHit == UNCHANGED <<playerCars, totalCars, wrecked>>

(* CarHitBuildingHandler: one building hit per car and frame.              *)
CarHitBuilding(c) ==
  /\ hitBuilding' = hitBuilding \cup {c}
  /\ \/ SoftHit
     \/ /\ c \notin hitBuilding /\ c \in Drivers
        /\ \E damage \in [{c} -> Damages] : Strike({c}, damage, 1)

(* CarHitCarHandler: one hit per pair and frame.  Only one of the two may  *)
(* be moving along the normal, and then the other deals no damage.  A car  *)
(* that hits an orphan body of its own is both cars of the handler.        *)
CarHitCar(pair) ==
  /\ hitPairs' = hitPairs \cup {pair}
  /\ \/ SoftHit
     \/ /\ pair \notin hitPairs /\ pair \subseteq Drivers
        /\ \E damage \in [pair -> Damages \cup {0}] :
             Strike(pair, damage, IF Cardinality(pair) = 1 THEN 2 ELSE 1)
=============================================================================
