----------------------------- MODULE GameState -----------------------------
(***************************************************************************)
(* The state of one game: what GameLoop owns and hands by reference to its *)
(* PlayerManager, LobbyController, RaceController and WorldEventHandlers   *)
(* (server_gameloop.h), the game's command queue and client registry, and  *)
(* the part of GameManager that acts on this game.                         *)
(*                                                                         *)
(* One thread, the game loop, runs all the game logic.  The receiver       *)
(* threads of the clients share with it only the command queue, the        *)
(* registry (both behind a mutex) and the keep-running flag.               *)
(***************************************************************************)
EXTENDS Car, Sequences, SequencesExt

CONSTANTS Clients,      \* the connections that may ever join this game
          MaxPlayers,   \* the limit ClientsRegistry::AddClient enforces
          NumRaces,     \* routes of the map
          MaxRaceTime,  \* config.lobby.maxRaceTimeSec, in frames
          Damages,      \* damages a hit may deal
          Cheats,       \* the cheats that the configuration allows
          MaxQueue,     \* bound of the model: commands waiting in the queue
          MaxEvents,    \* bound of the model: world events of one frame
          None          \* the absent entry of a map

ASSUME GameAssumption ==
  /\ IsFiniteSet(Clients)
  /\ MaxPlayers \in Nat \ {0}
  /\ NumRaces \in Nat \ {0}
  /\ MaxRaceTime \in Nat \ {0}
  /\ Damages \subseteq Nat \ {0}
  /\ MaxQueue \in Nat /\ MaxEvents \in Nat
  /\ Upgrades \cap Cheats = {} /\ (Upgrades \cup Cheats) \cap {"START_GAME", "INIT_PLAYER"} = {}
  /\ None \notin CarState

Ops == {"START_GAME", "INIT_PLAYER"} \cup Upgrades \cup Cheats

Cmd == [client : Clients, op : Ops]

(* A checkpoint or building event names one car.  A hit between two cars   *)
(* names both, or one if a car hits an orphan body of its own client.      *)
WorldEvent ==
  [ type       : {"CarHitCheckpoint", "CarHitBuilding", "CarHitCar"},
    cars       : SUBSET Clients,
    checkpoint : 0..NumCheckpoints ]

RaceResult ==
  [ playerId : Clients, raceTime : Nat, position : 0..255, finished : BOOLEAN ]

PlayerGlobalStats == [ totalTime : Nat, globalPosition : 0..255 ]

ASSUME StatsAssumption == None \notin PlayerGlobalStats

VARIABLES
  (* GameManager and the receivers *)
  joining,            \* clients that passed isStarted but are not yet added
  listed,             \* the game is in GameManager::games
  registry,           \* ClientsRegistry::clients
  queue,              \* the command queue
  stopping,           \* stop() was called: not should_keep_running()
  (* the game thread's own control *)
  pc,                 \* the step of the loop it is about to take
  cmds,               \* commands drained and not yet processed
  deadlinePassed,     \* Clock::now() >= deadline of the lobby
  resultIdx,          \* next entry updateGlobalStatsFromLastRace reads
  (* GameLoop's fields *)
  raceIndex, startRequested, raceStarted, raceEnded, raceTime,
  totalCars, finishedCarsCount, raceRanking, lastRaceResults, globalStats,
  worldEvents,
  playerCars,         \* a car for each client that has one
  usedSpawnIds, carToSpawnId,
  (* processWorldEvents' sets of the current frame *)
  hitBuilding, hitPairs,
  ghosts,             \* clients for which the world holds an orphan body
  (* history, not in the code *)
  wrecked             \* some car was killed in the current race

envVars    == <<joining, listed, registry, stopping>>
cmdVars    == <<queue, cmds>>
phaseVars  == <<raceIndex, startRequested, raceStarted, deadlinePassed>>
countVars  == <<totalCars, finishedCarsCount, raceEnded>>
resultVars == <<raceRanking, lastRaceResults>>
statVars   == <<globalStats, resultIdx>>
spawnVars  == <<usedSpawnIds, carToSpawnId>>
eventVars  == <<worldEvents, hitBuilding, hitPairs>>

vars == <<envVars, cmdVars, phaseVars, countVars, resultVars, statVars,
          spawnVars, eventVars, pc, raceTime, playerCars, ghosts, wrecked>>

(* The clients that have an entry in playerCars.                           *)
Drivers == {c \in Clients : playerCars[c] # None}

(* The clients with a body that can still touch something.                 *)
Bodies == {c \in Drivers : playerCars[c].enabled} \cup ghosts

Unfinished == {c \in Drivers : ~playerCars[c].finished}

GoTo(step) == pc' = step

GameInit ==
  /\ \E creator \in Clients : registry = {creator}
  /\ joining = {} /\ listed = TRUE /\ stopping = FALSE
  /\ queue = <<>> /\ cmds = <<>>
  /\ pc = "outer" /\ raceIndex = 0 /\ resultIdx = 1
  /\ startRequested = FALSE /\ raceStarted = FALSE /\ raceEnded = FALSE
  /\ deadlinePassed = FALSE
  /\ raceTime = 0 /\ totalCars = 0 /\ finishedCarsCount = 0
  /\ raceRanking = <<>> /\ lastRaceResults = <<>>
  /\ globalStats = [c \in Clients |-> None]
  /\ worldEvents = <<>> /\ hitBuilding = {} /\ hitPairs = {}
  /\ playerCars = [c \in Clients |-> None]
  /\ usedSpawnIds = {} /\ carToSpawnId = [c \in Clients |-> 0]
  /\ ghosts = {} /\ wrecked = FALSE
=============================================================================
