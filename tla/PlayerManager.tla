--------------------------- MODULE PlayerManager ---------------------------
(***************************************************************************)
(* PlayerManager (server_src/game_logic/player_manager.cpp): who has a     *)
(* car, which spawn points are taken, upgrades and the cheats that only    *)
(* touch the car.  Each definition is the effect of one member function on *)
(* the shared state; the controllers say when it is called.                *)
(*                                                                         *)
(* The messages the functions send are left out, and so are handleMovement *)
(* and the position half of NEXT_CHECKPOINT_CHEAT: they only move bodies,  *)
(* and which bodies touch what is chosen freely in RaceController.         *)
(***************************************************************************)
EXTENDS GameState

playerVars == <<spawnVars, playerCars, ghosts>>

FreeSpawns == {s \in 1..NumSpawns : s \notin usedSpawnIds}

(* A variant that looks at no usedSpawnIds.                                *)
FirstSpawn == 1

(* findFreeSpawnIndex: the first spawn point of the route not in use.      *)
FirstFreeSpawn == CHOOSE s \in FreeSpawns : \A t \in FreeSpawns : s <= t

(* A variant that takes the spawn without marking it as used.              *)
CreateCarUnmarked(c, s) ==
  /\ carToSpawnId' = [carToSpawnId EXCEPT ![c] = s]
  /\ playerCars' = [playerCars EXCEPT ![c] = NewCar(s)]
  /\ UNCHANGED <<usedSpawnIds, ghosts>>

(* createCarForClient.  The spawn is marked and mapped first; emplace then *)
(* keeps the car of a client that already had one, but the Car built for   *)
(* the call has put a second body of that client into the world.           *)
CreateCarForClient(c, s) ==
  /\ usedSpawnIds' = usedSpawnIds \cup {s}
  /\ carToSpawnId' = [carToSpawnId EXCEPT ![c] = s]
  /\ IF c \in Drivers
     THEN ghosts' = ghosts \cup {c} /\ UNCHANGED playerCars
     ELSE playerCars' = [playerCars EXCEPT ![c] = NewCar(s)] /\ UNCHANGED ghosts

(* initPlayer returns true exactly when this holds.                        *)
CanInitPlayer == ~raceStarted /\ FreeSpawns # {}

(* A variant that also accepts players once the race has started.          *)
InitPlayerAnytime(c) ==
  IF FreeSpawns # {} THEN CreateCarForClient(c, FirstFreeSpawn)
                     ELSE UNCHANGED playerVars

InitPlayer(c) ==
  IF CanInitPlayer THEN CreateCarForClient(c, FirstFreeSpawn)
                   ELSE UNCHANGED playerVars

(* disconnectPlayer, for each client in gone: the spawn it is mapped to is *)
(* freed, its body destroyed and its car erased.                           *)
DisconnectPlayers(gone) ==
  /\ usedSpawnIds' = usedSpawnIds \ {carToSpawnId[c] : c \in gone}
  /\ carToSpawnId' = [c \in Clients |-> IF c \in gone THEN 0 ELSE carToSpawnId[c]]
  /\ playerCars' = [c \in Clients |-> IF c \in gone THEN None ELSE playerCars[c]]
  /\ UNCHANGED ghosts

(* u is one of the configured upgrades, which are all the clients are told *)
(* of (UPGRADE_LOGIC): for another, findUpgradeDef throws out of the game's *)
(* thread.                                                                 *)
HandleRequestUpgrade(c, u) ==
  IF c \in Drivers /\ ~HasMaxUpgrade(playerCars[c]) /\ CanApplyUpgrade(playerCars[c], u)
  THEN playerCars' = [playerCars EXCEPT ![c] = ApplyUpgrade(@, u)]
  ELSE UNCHANGED playerCars

CheatHandler(c, cheat) ==
  IF c \in Drivers
  THEN playerCars' = [playerCars EXCEPT ![c] = ApplyCheat(@, cheat)]
  ELSE UNCHANGED playerCars
=============================================================================
