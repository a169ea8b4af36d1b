--------------------------- MODULE GameProperties --------------------------
(***************************************************************************)
(* What one game promises: properties of the specification of GameLoop.    *)
(***************************************************************************)
EXTENDS GameLoop

Steps == {"outer", "lobby", "lobbyCmds", "race", "raceDrain", "raceCmds", "events", "dnf",
          "accumulate", "done"}

InRace == pc \in {"race", "raceDrain", "raceCmds", "events", "dnf"}

InLobby == pc \in {"lobby", "lobbyCmds"}

(* Every variable holds a value its C++ type can hold.                     *)
TypeOK ==
  /\ joining \subseteq Clients /\ registry \subseteq Clients
  /\ listed \in BOOLEAN /\ stopping \in BOOLEAN
  /\ queue \in Seq(Cmd) /\ cmds \in Seq(Cmd)
  /\ pc \in Steps
  /\ raceIndex \in 0..NumRaces /\ resultIdx \in Nat \ {0}
  /\ startRequested \in BOOLEAN /\ raceStarted \in BOOLEAN /\ raceEnded \in BOOLEAN
  /\ deadlinePassed \in BOOLEAN
  /\ raceTime \in Nat /\ totalCars \in 0..255 /\ finishedCarsCount \in 0..255
  /\ raceRanking \in Seq(Clients) /\ lastRaceResults \in Seq(RaceResult)
  /\ globalStats \in [Clients -> PlayerGlobalStats \cup {None}]
  /\ worldEvents \in Seq(WorldEvent)
  /\ hitBuilding \subseteq Clients /\ hitPairs \subseteq SUBSET Clients
  /\ playerCars \in [Clients -> CarState \cup {None}]
  /\ usedSpawnIds \subseteq 1..NumSpawns /\ carToSpawnId \in [Clients -> 0..NumSpawns]
  /\ ghosts \subseteq Clients /\ wrecked \in BOOLEAN

(* Where the flags and the race index stand at each step of the loop.      *)
PhaseOK ==
  /\ pc \notin {"outer", "done"} => raceIndex < NumRaces
  /\ InLobby => ~raceStarted
  /\ InRace => raceStarted

-----------------------------------------------------------------------------
(* The results of a race.                                                  *)

(* No player gets two results of one race: neither two finishes, nor a     *)
(* finish and a DNF, nor a result from before it left and one after.       *)
OneResultPerPlayer ==
  \A i, j \in DOMAIN lastRaceResults :
    lastRaceResults[i].playerId = lastRaceResults[j].playerId => i = j

(* When the race is over, everybody who still has a car, wrecked or not,   *)
(* is in its results, and as finished exactly if the car says so.          *)
NobodyForgotten ==
  pc = "accumulate" =>
    \A c \in Drivers : \E i \in DOMAIN lastRaceResults :
      /\ lastRaceResults[i].playerId = c
      /\ lastRaceResults[i].finished = playerCars[c].finished

(* The finishers of the results are the ranking, numbered from 1 without a *)
(* gap, and a car that is still there shows the same place and time.       *)
FinishOrder ==
  /\ Len(raceRanking) <= Len(lastRaceResults)
  /\ finishedCarsCount = Len(raceRanking) % 256
  /\ \A i \in DOMAIN lastRaceResults :
       LET r == lastRaceResults[i] IN
         /\ r.finished <=> i <= Len(raceRanking)
         /\ r.finished => r.playerId = raceRanking[i] /\ r.position = i % 256
         /\ r.finished /\ r.playerId \in Drivers =>
              LET car == playerCars[r.playerId] IN
                car.finished /\ car.ranking = r.position /\ car.finishTime = r.raceTime

(* Nobody is given a better time than whoever finished before, and a DNF   *)
(* is never better than a finish: the order global times are added in.     *)
TimesFollowResults ==
  \A i, j \in DOMAIN lastRaceResults :
    i <= j => lastRaceResults[i].raceTime <= lastRaceResults[j].raceTime

(* A car has finished exactly when it stands at the last checkpoint,       *)
(* whether it drove there or the WIN cheat took it.                        *)
FinishedAtTheLine ==
  \A c \in Drivers : playerCars[c].finished <=> playerCars[c].actualCheckpoint = NumCheckpoints

-----------------------------------------------------------------------------
(* The end of a race, while no car was killed: setKillCar takes the car    *)
(* off totalCars and leaves it in playerCars, and the counts go apart.     *)

(* totalCars is the number of cars that can still finish plus those that   *)
(* did, also if some of these have left since.                             *)
CountsAddUp ==
  ~wrecked => totalCars = (Cardinality(Unfinished) + Len(raceRanking)) % 256

(* A race that ends before its time limit leaves nobody on the road.       *)
NoEarlyEnd ==
  InRace /\ ~wrecked /\ raceEnded /\ raceTime < MaxRaceTime => Unfinished = {}

(* A race that someone finished goes on only for those still on the road,  *)
(* also if the last of them leaves instead of finishing.                   *)
NoLateEnd ==
  InRace /\ ~wrecked /\ raceRanking # <<>> /\ Unfinished = {} => raceEnded

-----------------------------------------------------------------------------
(* Cars and spawn points.                                                  *)

(* Exactly the clients with a car own a spawn point, each its own, and it  *)
(* is marked as used, through duplicate INIT_PLAYERs and departures.       *)
SpawnsOwned ==
  /\ \A c \in Clients : carToSpawnId[c] # 0 <=> c \in Drivers
  /\ \A c \in Drivers : carToSpawnId[c] \in usedSpawnIds
  /\ \A c, d \in Drivers : carToSpawnId[c] = carToSpawnId[d] => c = d

(* In the first race no two cars are placed on one spawn point.            *)
FirstGridDistinct ==
  raceIndex = 0 => \A c, d \in Drivers : playerCars[c].spot = playerCars[d].spot => c = d

(* "spawnId ocupados" (player_manager.h, of usedSpawnIds): a spawn point   *)
(* at which the server placed a car is one of the occupied ones.           *)
SpotsOccupied == \A c \in Drivers : playerCars[c].spot \in usedSpawnIds

(* Whoever is in the lobby of a race starts it unhurt, at checkpoint 0,    *)
(* without a result of the race before, and is counted.                    *)
LobbyIsClean ==
  InLobby =>
    /\ lastRaceResults = <<>> /\ raceRanking = <<>> /\ worldEvents = <<>>
    /\ finishedCarsCount = 0 /\ ~raceEnded /\ totalCars = Cardinality(Drivers) % 256
    /\ \A c \in Drivers : LET car == playerCars[c] IN
         car.enabled /\ ~IsCarDestroy(car) /\ ~car.finished /\ car.actualCheckpoint = 0

(* The cars of a race are those of its lobby: nobody gets one between the  *)
(* start of a race and the next lobby, whenever it joined or asked.        *)
NoLateDrivers == [][raceStarted => {c \in Clients : playerCars'[c] # None} \subseteq Drivers]_vars

(* A car passes the checkpoints one by one; only the WIN cheat skips some, *)
(* and only a new race starts them again.                                  *)
CheckpointsInOrder ==
  [][\A c \in Drivers : playerCars'[c] # None =>
       LET before == playerCars[c].actualCheckpoint
           after  == playerCars'[c].actualCheckpoint
       IN  \/ after \in {before, before + 1}
           \/ raceIndex' = raceIndex + 1 /\ after = 0
           \/ cmds # <<>> /\ Head(cmds) = [client |-> c, op |-> "WIN_RACE_CHEAT"]]_vars

(* Upgrades are bought only between races, and last for one: the next      *)
(* lobby starts without any, whoever left or came back in the meantime.    *)
UpgradesLastOneRace ==
  [][\A c \in Drivers : playerCars'[c] # None =>
       LET before == playerCars[c].upgrades
           after  == playerCars'[c].upgrades
       IN  IF raceIndex' # raceIndex /\ raceIndex' < NumRaces
           THEN after = {}
           ELSE after = before \/ (~raceStarted /\ before \subseteq after)]_vars

-----------------------------------------------------------------------------
(* The final ranking.                                                      *)

Computed == pc = "done" /\ \E c \in Ranked : globalStats[c].globalPosition # 0

(* Once it is computed, everybody with a car in the last race is in it,    *)
(* the places are 1, 2, ... without a gap, and go by total time.           *)
FinalRanking ==
  Computed =>
    /\ Drivers \subseteq Ranked
    /\ {globalStats[c].globalPosition : c \in Ranked} = 1..Cardinality(Ranked)
    /\ \A c, d \in Ranked : globalStats[c].totalTime < globalStats[d].totalTime =>
         globalStats[c].globalPosition < globalStats[d].globalPosition

-----------------------------------------------------------------------------
(* Progress.                                                               *)

(* The time limit ends every race, even one that nobody can finish: with   *)
(* all the cars killed, or with no car at all.                             *)
RaceEnds == pc = "race" ~> pc = "accumulate"

(* After the first race the game runs to its end with no player's help.    *)
GameRunsOn == raceIndex # 0 ~> pc = "done"

(* A game that its last client has left ends, whatever it was doing.       *)
AbandonedGameEnds == ~listed ~> pc = "done"

-----------------------------------------------------------------------------
(* The results as the players are promised them.                           *)
Stage ==
  CASE InRace -> "race"
    [] pc = "accumulate" -> "closed"
    [] pc = "done" \/ (pc = "outer" /\ raceIndex = NumRaces) -> "over"
    [] OTHER -> "lobby"

Board == INSTANCE RaceBoard
  WITH Players <- Clients, Races <- NumRaces, TimeLimit <- MaxRaceTime,
       stage <- Stage, race <- raceIndex, drivers <- Drivers, clock <- raceTime,
       board <- lastRaceResults

(* The game implements the board: whatever cars, commands, departures and  *)
(* the clock do to the counters, rankings and cars, each step is one of    *)
(* the board or leaves it as it is.                                        *)
BoardKept == Board!BoardSpec
=============================================================================
