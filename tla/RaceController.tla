--------------------------- MODULE RaceController --------------------------
(***************************************************************************)
(* RaceController::runRace (server_src/game_logic/race_controller.cpp):    *)
(* one frame drops the cars of clients that left, serves the commands,     *)
(* steps the world, reads the clock and handles the world events; the race *)
(* ends when a handler or the clock says so, and whoever did not finish    *)
(* gets a DNF result.  Snapshots and CURRENT_INFO messages are left out.   *)
(*                                                                         *)
(* One frame is one unit of race time.  The world step is box2d: it may    *)
(* report any touches among enabled bodies, hits before sensors (the order *)
(* of WorldContactHandler::checkContactEvents).                            *)
(***************************************************************************)
EXTENDS LobbyController, WorldEventHandlers

(* A variant that takes every departed car off totalCars, finished or not. *)
CheckPlayersStatusAll ==
  LET gone == Drivers \ registry
      left == IF Cardinality(gone) >= totalCars THEN 0 ELSE totalCars - Cardinality(gone)
  IN  /\ pc = "race" /\ ~stopping
      /\ totalCars' = left
      /\ raceEnded' = (raceEnded \/ (gone # {} /\ (left = 0 \/ finishedCarsCount >= left)))
      /\ DisconnectPlayers(gone)
      /\ GoTo("raceDrain")
      /\ UNCHANGED <<envVars, cmdVars, phaseVars, finishedCarsCount, resultVars, statVars,
                     eventVars, raceTime, wrecked>>

(* A variant that does not compare the finishers with the cars left.       *)
CheckPlayersStatusUncompared ==
  LET gone    == Drivers \ registry
      dropped == gone \cap Unfinished
      left    == IF Cardinality(dropped) >= totalCars
                 THEN 0 ELSE totalCars - Cardinality(dropped)
  IN  /\ pc = "race" /\ ~stopping
      /\ totalCars' = left
      /\ raceEnded' = (raceEnded \/ (dropped # {} /\ left = 0))
      /\ DisconnectPlayers(gone)
      /\ GoTo("raceDrain")
      /\ UNCHANGED <<envVars, cmdVars, phaseVars, finishedCarsCount, resultVars, statVars,
                     eventVars, raceTime, wrecked>>

(* checkPlayersStatus and disconnectHandler: the cars whose clients are    *)
(* not in the registry go; those that had not finished are taken off       *)
(* totalCars, down to 0, and the race ends if that settles it.  Handling   *)
(* them one at a time gives the same, as the test only gets weaker.        *)
CheckPlayersStatus ==
  LET gone    == Drivers \ registry
      dropped == gone \cap Unfinished
      left    == IF Cardinality(dropped) >= totalCars
                 THEN 0 ELSE totalCars - Cardinality(dropped)
  IN  /\ pc = "race" /\ ~stopping
      /\ totalCars' = left
      /\ raceEnded' = (raceEnded \/ (dropped # {} /\ (left = 0 \/ finishedCarsCount >= left)))
      /\ DisconnectPlayers(gone)
      /\ GoTo("raceDrain")
      /\ UNCHANGED <<envVars, cmdVars, phaseVars, finishedCarsCount, resultVars, statVars,
                     eventVars, raceTime, wrecked>>

RaceDrain ==
  /\ pc = "raceDrain"
  /\ Drain
  /\ GoTo("raceCmds")
  /\ UNCHANGED <<envVars, phaseVars, countVars, resultVars, statVars, playerVars, eventVars,
                 raceTime, wrecked>>

(* A variant that leaves the car at the checkpoint where it was.           *)
ForcePlayerWinInPlace(c) ==
  /\ IF c \in Unfinished
     THEN CarFinishRace(c, playerCars[c])
     ELSE UNCHANGED <<playerCars, finishVars>>
  /\ UNCHANGED <<totalCars, wrecked>>

(* forcePlayerWin: straight to the last checkpoint, whatever the health.   *)
ForcePlayerWin(c) ==
  /\ IF c \in Unfinished
     THEN CarFinishRace(c, [playerCars[c] EXCEPT !.actualCheckpoint = NumCheckpoints])
     ELSE UNCHANGED <<playerCars, finishVars>>
  /\ UNCHANGED <<totalCars, wrecked>>

(* forcePlayerLose: the car is killed, even if it already was.             *)
ForcePlayerLose(c) ==
  /\ IF c \in Unfinished
     THEN playerCars' = [playerCars EXCEPT ![c] = Kill(@)] /\ CountKills(1)
     ELSE UNCHANGED <<playerCars, totalCars, wrecked>>
  /\ UNCHANGED finishVars

RaceCheats == Cheats \cap {"WIN_RACE_CHEAT", "LOST_RACE_CHEAT"}

(* One iteration of processCmds.  A late INIT_PLAYER goes to PlayerManager *)
(* as in the lobby; START_GAME and upgrades are unknown commands here.     *)
RaceCmd ==
  /\ pc = "raceCmds" /\ cmds # <<>>
  /\ LET cmd == Head(cmds) IN
       \/ /\ Served(cmd) /\ cmd.op \in RaceCheats
          /\ IF cmd.op = "WIN_RACE_CHEAT" THEN ForcePlayerWin(cmd.client)
                                          ELSE ForcePlayerLose(cmd.client)
          /\ UNCHANGED <<spawnVars, ghosts>>
       \/ /\ Served(cmd) /\ cmd.op \in Cheats \ RaceCheats
          /\ CheatHandler(cmd.client, cmd.op)
          /\ UNCHANGED <<spawnVars, ghosts, finishVars, totalCars, wrecked>>
       \/ /\ Served(cmd) /\ cmd.op = "INIT_PLAYER"
          /\ InitPlayer(cmd.client)
          /\ UNCHANGED <<finishVars, totalCars, wrecked>>
       \/ /\ ~Served(cmd) \/ cmd.op \in {"START_GAME"} \cup Upgrades
          /\ UNCHANGED <<playerVars, finishVars, totalCars, wrecked>>
  /\ cmds' = Tail(cmds)
  /\ UNCHANGED <<envVars, queue, pc, phaseVars, statVars, eventVars, raceTime>>

(* What may touch: buildings and other bodies, and the checkpoint sensors. *)
Hits ==
  [type : {"CarHitBuilding"}, cars : {{c} : c \in Bodies}, checkpoint : {0}] \cup
  [type : {"CarHitCar"},
   cars : {pair \in SUBSET Bodies : Cardinality(pair) = 2} \cup {{c} : c \in ghosts},
   checkpoint : {0}]

Touches ==
  [type : {"CarHitCheckpoint"}, cars : {{c} : c \in Bodies}, checkpoint : 1..NumCheckpoints]

(* A variant without the time limit.                                       *)
WorldStepNoLimit ==
  /\ pc = "raceCmds" /\ cmds = <<>>
  /\ \E hits \in SeqOf(Hits, MaxEvents), touches \in SeqOf(Touches, MaxEvents) :
       /\ Len(hits) + Len(touches) <= MaxEvents
       /\ worldEvents' = hits \o touches
  /\ raceTime' = IF raceEnded \/ raceTime >= MaxRaceTime THEN raceTime ELSE raceTime + 1
  /\ GoTo("events")
  /\ UNCHANGED <<envVars, cmdVars, phaseVars, countVars, resultVars, statVars, playerVars,
                 hitBuilding, hitPairs, wrecked>>

(* The world is stepped and its contacts queued; the clock is read unless  *)
(* the race is already over, and ends it at the limit.                     *)
WorldStep ==
  /\ pc = "raceCmds" /\ cmds = <<>>
  /\ \E hits \in SeqOf(Hits, MaxEvents), touches \in SeqOf(Touches, MaxEvents) :
       /\ Len(hits) + Len(touches) <= MaxEvents
       /\ worldEvents' = hits \o touches
  /\ raceTime' = IF raceEnded THEN raceTime ELSE raceTime + 1
  /\ raceEnded' = (raceEnded \/ raceTime' >= MaxRaceTime)
  /\ GoTo("events")
  /\ UNCHANGED <<envVars, cmdVars, phaseVars, totalCars, finishedCarsCount, resultVars,
                 statVars, playerVars, hitBuilding, hitPairs, wrecked>>

(* One iteration of processWorldEvents.                                    *)
HandleWorldEvent ==
  /\ pc = "events" /\ worldEvents # <<>>
  /\ LET ev == Head(worldEvents) IN
       \/ /\ ev.type = "CarHitCheckpoint"
          /\ \E c \in ev.cars : CarHitCheckpoint(c, ev.checkpoint)
          /\ UNCHANGED <<hitBuilding, hitPairs, totalCars, wrecked>>
       \/ /\ ev.type = "CarHitBuilding"
          /\ \E c \in ev.cars : CarHitBuilding(c)
          /\ UNCHANGED <<hitPairs, finishVars>>
       \/ /\ ev.type = "CarHitCar"
          /\ CarHitCar(ev.cars)
          /\ UNCHANGED <<hitBuilding, finishVars>>
  /\ worldEvents' = Tail(worldEvents)
  /\ UNCHANGED <<envVars, cmdVars, pc, phaseVars, statVars, spawnVars, ghosts, raceTime>>

(* The end of a frame, and of processWorldEvents' local sets: break if the *)
(* race is over, else sleep.                                               *)
EndFrame ==
  /\ pc = "events" /\ worldEvents = <<>>
  /\ hitBuilding' = {} /\ hitPairs' = {}
  /\ GoTo(IF raceEnded THEN "dnf" ELSE "race")
  /\ UNCHANGED <<envVars, cmdVars, phaseVars, countVars, resultVars, statVars, playerVars,
                 worldEvents, raceTime, wrecked>>

(* A variant that leaves the time of a DNF at zero.                        *)
DNFUntimed(c) == [playerId |-> c, raceTime |-> 0, position |-> 0, finished |-> FALSE]

DNF(c) == [playerId |-> c, raceTime |-> raceTime, position |-> 0, finished |-> FALSE]

(* A variant that gives every car a DNF result.                         *)
FinalizeEveryCar ==
  /\ pc = "dnf" \/ (pc = "race" /\ stopping)
  /\ \E order \in Bijection(1..Cardinality(Drivers), Drivers) :
       lastRaceResults' = lastRaceResults \o [i \in DOMAIN order |-> DNF(order[i])]
  /\ GoTo("accumulate")
  /\ UNCHANGED <<envVars, cmdVars, phaseVars, countVars, raceRanking, statVars, playerVars,
                 eventVars, raceTime, wrecked>>

Survivors == {c \in Unfinished : ~IsCarDestroy(playerCars[c])}

(* A variant that gives only cars with health left a DNF result.        *)
FinalizeSurvivors ==
  /\ pc = "dnf" \/ (pc = "race" /\ stopping)
  /\ \E order \in Bijection(1..Cardinality(Survivors), Survivors) :
       lastRaceResults' = lastRaceResults \o [i \in DOMAIN order |-> DNF(order[i])]
  /\ GoTo("accumulate")
  /\ UNCHANGED <<envVars, cmdVars, phaseVars, countVars, raceRanking, statVars, playerVars,
                 eventVars, raceTime, wrecked>>

(* finalizeDNFs, after the break or when the loop was stopped.             *)
FinalizeDNFs ==
  /\ pc = "dnf" \/ (pc = "race" /\ stopping)
  /\ \E order \in Bijection(1..Cardinality(Unfinished), Unfinished) :
       lastRaceResults' = lastRaceResults \o [i \in DOMAIN order |-> DNF(order[i])]
  /\ GoTo("accumulate")
  /\ UNCHANGED <<envVars, cmdVars, phaseVars, countVars, raceRanking, statVars, playerVars,
                 eventVars, raceTime, wrecked>>
=============================================================================
