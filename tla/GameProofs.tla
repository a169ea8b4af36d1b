----------------------------- MODULE GameProofs ---------------------------
(***************************************************************************)
(* Type correctness of a game, for every number of clients, races, spawn   *)
(* points and checkpoints.  The lemmas go the way of the modules: the      *)
(* operators on cars, PlayerManager, WorldEventHandlers, the controllers,  *)
(* the loop and its environment.  TypeOK is inductive together with        *)
(* PhaseOK, which bounds raceIndex where the loop is about to raise it.    *)
(*                                                                         *)
(* Then who has a car, and where: the spawn points are owned one to one,   *)
(* the cars of the first race stand on distinct ones, and nobody gets a    *)
(* car while a race is run.  Every step of the game is of one of four kinds*)
(* (GridSteps): it leaves the grid alone, gives one client a car, takes    *)
(* some away, or is the step to the next race; each property is then an    *)
(* induction over four cases.                                              *)
(***************************************************************************)
EXTENDS GameProperties, FiniteSetTheorems, WellFoundedInduction, TLAPS

(* A nonempty set of naturals has a least element.                         *)
LEMMA LeastNatural ==
  ASSUME NEW S \in SUBSET Nat, S # {}
  PROVE  \E s \in S : \A t \in S : s <= t
<1> DEFINE T == {0..t : t \in S}
<1>1. T \subseteq FiniteSubsetsOf(Nat) /\ T # {}
  <2>1. ASSUME NEW t \in Nat PROVE 0..t \in FiniteSubsetsOf(Nat)
    <3>1. IsFiniteSet(0..t)
      BY FS_Interval
    <3>2. 0..t \in SUBSET Nat
      OBVIOUS
    <3> QED
      BY <3>1, <3>2 DEF FiniteSubsetsOf
  <2> QED
    BY <2>1
<1>2. PICK x \in T : \A y \in T : <<y, x>> \notin StrictSubsetOrdering(Nat)
  BY <1>1, FS_StrictSubsetOrderingWellFounded, WFMin
<1>3. PICK s \in S : x = 0..s
  OBVIOUS
<1>4. \A t \in S : s <= t
  <2> SUFFICES ASSUME NEW t \in S, t < s
               PROVE  FALSE
    OBVIOUS
  <2>1. 0..t \subseteq 0..s /\ 0..t # 0..s
    OBVIOUS
  <2>2. 0..t \in SUBSET Nat /\ 0..s \in SUBSET Nat /\ 0..t \in T
    OBVIOUS
  <2>3. <<0..t, 0..s>> \in StrictSubsetOrdering(Nat)
    BY <2>1, <2>2 DEF StrictSubsetOrdering
  <2> QED
    BY <1>2, <1>3, <2>2, <2>3
<1> QED
  BY <1>4

(* findFreeSpawnIndex returns a spawn point that is free.                  *)
LEMMA FirstFreeSpawnIsFree ==
  ASSUME FreeSpawns # {}
  PROVE  FirstFreeSpawn \in FreeSpawns
<1>1. FreeSpawns \subseteq Nat
  BY CarAssumption DEF FreeSpawns
<1>2. \E s \in FreeSpawns : \A t \in FreeSpawns : s <= t
  BY <1>1, LeastNatural
<1> QED
  BY <1>2 DEF FirstFreeSpawn

(* The sets of clients of the model are finite.                            *)
LEMMA ClientsFinite ==
  ASSUME NEW S \in SUBSET Clients
  PROVE  IsFiniteSet(S) /\ Cardinality(S) \in Nat
<1>1. IsFiniteSet(S)
  BY GameAssumption, FS_Subset
<1> QED
  BY <1>1, FS_CardinalityType

(* The place modulo the spawn points is one of the spawn points.           *)
LEMMA SpotInRange ==
  ASSUME NEW i \in Nat \ {0}
  PROVE  SpotOf(i) \in 1..NumSpawns
  BY CarAssumption DEF SpotOf

(* A sequence of at most MaxEvents events is a sequence of events.         *)
LEMMA SequencesOfBoundedLength ==
  ASSUME NEW S, NEW s \in SeqOf(S, MaxEvents)
  PROVE  s \in Seq(S)
<1>1. PICK m \in 0..MaxEvents : s \in [1..m -> S]
  BY DEF SeqOf
<1>2. m \in Nat
  BY <1>1, GameAssumption
<1> QED
  BY <1>1, <1>2
-----------------------------------------------------------------------------
(* Types of the operators on cars.                                         *)

(* A new car at a spawn point of the route is a car.                       *)
LEMMA NewCarType ==
  ASSUME NEW s \in 1..NumSpawns
  PROVE  NewCar(s) \in CarState
  BY CarAssumption DEF NewCar, CarState

(* The member functions of Car give cars again.                            *)
LEMMA CarTypes ==
  ASSUME NEW car \in CarState
  PROVE  /\ Kill(car) \in CarState
         /\ \A damage \in Nat : ApplyDamage(car, damage) \in CarState
         /\ \A id \in 0..NumCheckpoints : [car EXCEPT !.actualCheckpoint = id] \in CarState
         /\ \A time \in Nat, n \in 0..255 : MarkFinished(car, time, n) \in CarState
         /\ \A u \in Upgrades : ApplyUpgrade(car, u) \in CarState
         /\ \A cheat \in Cheats : ApplyCheat(car, cheat) \in CarState
<1>1. Kill(car) \in CarState
  BY DEF Kill, CarState
<1>2. ASSUME NEW damage \in Nat PROVE ApplyDamage(car, damage) \in CarState
  BY <1>1 DEF ApplyDamage, CarState
<1>3. ASSUME NEW id \in 0..NumCheckpoints
      PROVE  [car EXCEPT !.actualCheckpoint = id] \in CarState
  BY DEF CarState
<1>4. ASSUME NEW time \in Nat, NEW n \in 0..255
      PROVE  MarkFinished(car, time, n) \in CarState
  BY DEF MarkFinished, CarState
<1>5. ASSUME NEW u \in Upgrades PROVE ApplyUpgrade(car, u) \in CarState
  <2>1. Penalty[u] \in Nat
    BY CarAssumption
  <2>2. BoostedHealth(car, u) \in Nat
    BY DEF BoostedHealth, CarState
  <2>3. car.upgradePenalty + Penalty[u] \in Nat /\ car.upgrades \cup {u} \in SUBSET Upgrades
    BY <2>1 DEF CarState
  <2> QED
    BY <2>2, <2>3 DEF ApplyUpgrade, CarState
<1>6. ASSUME NEW cheat \in Cheats PROVE ApplyCheat(car, cheat) \in CarState
  BY CarAssumption DEF ApplyCheat, CarState
<1> QED
  BY <1>1, <1>2, <1>3, <1>4, <1>5, <1>6
-----------------------------------------------------------------------------
(* Types of what PlayerManager does to the cars and the spawn points.      *)

Cars == [Clients -> CarState \cup {None}]

CarsTypeOK ==
  /\ playerCars \in Cars
  /\ usedSpawnIds \subseteq 1..NumSpawns /\ carToSpawnId \in [Clients -> 0..NumSpawns]
  /\ ghosts \subseteq Clients

(* initPlayer keeps the types of the cars and of the spawn points.         *)
LEMMA InitPlayerTypes ==
  ASSUME CarsTypeOK, NEW c \in Clients, InitPlayer(c)
  PROVE  CarsTypeOK'
<1>1. CASE CanInitPlayer
  <2>1. FirstFreeSpawn \in 1..NumSpawns
    BY <1>1, FirstFreeSpawnIsFree DEF CanInitPlayer, FreeSpawns
  <2>2. CreateCarForClient(c, FirstFreeSpawn)
    BY <1>1 DEF InitPlayer
  <2>3. NewCar(FirstFreeSpawn) \in CarState
    BY <2>1, NewCarType
  <2> QED
    BY <2>1, <2>2, <2>3 DEF CreateCarForClient, CarsTypeOK, Cars
<1>2. CASE ~CanInitPlayer
  BY <1>2 DEF InitPlayer, CarsTypeOK, playerVars, spawnVars
<1> QED
  BY <1>1, <1>2

(* handleRequestUpgrade keeps the type of the cars.                        *)
LEMMA UpgradeTypes ==
  ASSUME playerCars \in Cars, NEW c \in Clients, NEW u \in Upgrades,
         HandleRequestUpgrade(c, u)
  PROVE  playerCars' \in Cars
<1>1. c \in Drivers => playerCars[c] \in CarState
  BY DEF Drivers, Cars
<1> QED
  BY <1>1, CarTypes DEF HandleRequestUpgrade, Cars

(* cheatHandler keeps the type of the cars.                                *)
LEMMA CheatTypes ==
  ASSUME playerCars \in Cars, NEW c \in Clients, NEW cheat \in Cheats,
         CheatHandler(c, cheat)
  PROVE  playerCars' \in Cars
<1>1. c \in Drivers => playerCars[c] \in CarState
  BY DEF Drivers, Cars
<1> QED
  BY <1>1, CarTypes DEF CheatHandler, Cars

(* disconnectPlayer keeps the types of the cars and of the spawn points.   *)
LEMMA DisconnectTypes ==
  ASSUME CarsTypeOK, NEW gone \in SUBSET Clients, DisconnectPlayers(gone)
  PROVE  CarsTypeOK'
<1>1. playerCars' \in Cars
  BY DEF DisconnectPlayers, CarsTypeOK, Cars
<1>2. usedSpawnIds' \subseteq 1..NumSpawns
  BY DEF DisconnectPlayers, CarsTypeOK
<1>3. 0 \in 0..NumSpawns
  BY CarAssumption
<1>4. carToSpawnId' \in [Clients -> 0..NumSpawns]
  BY <1>3 DEF DisconnectPlayers, CarsTypeOK
<1> QED
  BY <1>1, <1>2, <1>4 DEF DisconnectPlayers, CarsTypeOK

-----------------------------------------------------------------------------
(* Types of what WorldEventHandlers does to the cars, counts and results.  *)

RaceTypeOK ==
  /\ playerCars \in Cars /\ raceTime \in Nat
  /\ totalCars \in 0..255 /\ finishedCarsCount \in 0..255 /\ raceEnded \in BOOLEAN
  /\ raceRanking \in Seq(Clients) /\ lastRaceResults \in Seq(RaceResult)
  /\ wrecked \in BOOLEAN

(* A finish keeps the types of the cars, the counts and the results.       *)
LEMMA FinishTypes ==
  ASSUME RaceTypeOK, NEW c \in Clients, NEW car \in CarState, CarFinishRace(c, car),
         UNCHANGED <<totalCars, wrecked, raceTime>>
  PROVE  RaceTypeOK'
<1>1. finishedCarsCount' \in 0..255
  BY DEF CarFinishRace, RaceTypeOK
<1>2. MarkFinished(car, raceTime, finishedCarsCount') \in CarState
  BY <1>1, CarTypes DEF RaceTypeOK
<1>3. playerCars' \in Cars
  BY <1>2 DEF CarFinishRace, RecordFinish, RaceTypeOK, Cars
<1>4. raceRanking' \in Seq(Clients)
  BY DEF CarFinishRace, RecordFinish, RaceTypeOK
<1>5. [playerId |-> c, raceTime |-> raceTime, position |-> finishedCarsCount', finished |-> TRUE]
        \in RaceResult
  BY <1>1 DEF RaceTypeOK, RaceResult
<1>6. lastRaceResults' \in Seq(RaceResult)
  BY <1>5 DEF CarFinishRace, RecordFinish, RaceTypeOK
<1>7. raceEnded' \in BOOLEAN
  BY DEF CarFinishRace, RaceTypeOK
<1> QED
  BY <1>1, <1>3, <1>4, <1>6, <1>7 DEF RaceTypeOK

(* So does a checkpoint event.                                             *)
LEMMA CheckpointTypes ==
  ASSUME RaceTypeOK, NEW c \in Clients, NEW id \in 0..NumCheckpoints, CarHitCheckpoint(c, id),
         UNCHANGED <<totalCars, wrecked, raceTime>>
  PROVE  RaceTypeOK'
<1> DEFINE car == [playerCars[c] EXCEPT !.actualCheckpoint = id]
<1>1. CASE UNCHANGED <<playerCars, finishVars>>
  BY <1>1 DEF RaceTypeOK, finishVars, resultVars
<1>2. CASE c \in Drivers /\ CarFinishRace(c, car)
  <2>1. playerCars[c] \in CarState
    BY <1>2 DEF RaceTypeOK, Cars, Drivers
  <2> QED
    BY <1>2, <2>1, CarTypes, FinishTypes
<1>3. CASE c \in Drivers /\ playerCars' = [playerCars EXCEPT ![c] = car] /\ UNCHANGED finishVars
  <2>1. car \in CarState
    BY <1>3, CarTypes DEF RaceTypeOK, Cars, Drivers
  <2> QED
    BY <1>3, <2>1 DEF RaceTypeOK, Cars, finishVars, resultVars
<1> QED
  BY <1>1, <1>2, <1>3 DEF CarHitCheckpoint

(* The uint8_t counter of setKillCar stays one, wherever it wraps.         *)
LEMMA KillTypes ==
  ASSUME totalCars \in 0..255, wrecked \in BOOLEAN, NEW n \in Nat, CountKills(n)
  PROVE  totalCars' \in 0..255 /\ wrecked' \in BOOLEAN
<1>1. (totalCars + 256 - n) % 256 \in 0..255
  OBVIOUS
<1> QED
  BY <1>1 DEF CountKills

(* A hit keeps the types of the cars and the counts.                       *)
LEMMA StrikeTypes ==
  ASSUME RaceTypeOK, NEW struck \in SUBSET Drivers, NEW damage \in [struck -> Nat],
         NEW times \in Nat, Strike(struck, damage, times),
         UNCHANGED <<finishVars, raceTime>>
  PROVE  RaceTypeOK'
<1> DEFINE hurt(c) == ApplyDamage(playerCars[c], damage[c])
           dead == {c \in struck : IsCarDestroy(hurt(c))}
<1>1. playerCars' \in Cars
  <2>1. ASSUME NEW c \in struck PROVE hurt(c) \in CarState
    BY CarTypes DEF RaceTypeOK, Cars, Drivers
  <2> QED
    BY <2>1 DEF Strike, RaceTypeOK, Cars
<1>2. times * Cardinality(dead) \in Nat
  <2>1. Cardinality(dead) \in Nat
    BY ClientsFinite DEF Drivers
  <2> QED
    BY <2>1
<1>3. CountKills(times * Cardinality(dead))
  BY DEF Strike
<1>4. totalCars' \in 0..255 /\ wrecked' \in BOOLEAN
  BY <1>2, <1>3, KillTypes DEF RaceTypeOK
<1> QED
  BY <1>1, <1>4 DEF RaceTypeOK, finishVars, resultVars

-----------------------------------------------------------------------------
(* Every action keeps the types.                                           *)

(* Every step of the lobby keeps the types.                                *)
LEMMA LobbyTypes ==
  ASSUME TypeOK, PhaseOK
  PROVE  /\ EnterLobby => TypeOK'
         /\ LobbyDrain => TypeOK'
         /\ LobbyCmd => TypeOK'
         /\ LobbyWait => TypeOK'
         /\ LobbyExit => TypeOK'
         /\ DeadlinePasses => TypeOK'
<1> USE DEF envVars, cmdVars, phaseVars, countVars, resultVars, statVars, spawnVars, eventVars,
            playerVars, GoTo, Steps
<1>1. EnterLobby => TypeOK'
  BY DEF TypeOK, EnterLobby
<1>2. LobbyDrain => TypeOK'
  BY DEF TypeOK, LobbyDrain, Drain
<1>3. ASSUME LobbyCmd PROVE TypeOK'
  <2> DEFINE cmd == Head(cmds)
  <2>1. cmd \in Cmd /\ cmds' \in Seq(Cmd)
    BY <1>3 DEF LobbyCmd, TypeOK
  <2>2. CarsTypeOK
    BY DEF TypeOK, CarsTypeOK, Cars
  <2>3. CarsTypeOK' /\ totalCars' \in 0..255 /\ startRequested' \in BOOLEAN
    <3>1. CASE startRequested' = TRUE /\ UNCHANGED <<totalCars, playerVars>>
      BY <2>2, <3>1 DEF TypeOK, CarsTypeOK
    <3>2. CASE LobbyInitPlayer(cmd.client)
      <4>1. CarsTypeOK'
        BY <2>1, <2>2, <3>2, InitPlayerTypes DEF LobbyInitPlayer, Cmd
      <4>2. Cardinality({d \in Clients : playerCars'[d] # None}) \in Nat
        BY ClientsFinite
      <4>3. Cardinality({d \in Clients : playerCars'[d] # None}) % 256 \in 0..255
        BY <4>2
      <4>4. totalCars' \in 0..255
        BY <3>2, <4>3 DEF LobbyInitPlayer, TypeOK
      <4> QED
        BY <3>2, <4>1, <4>4 DEF LobbyInitPlayer, TypeOK
    <3>3. CASE cmd.op \in Upgrades /\ LobbyUpgrade(cmd.client, cmd.op)
      <4>1. playerCars' \in Cars
        BY <2>1, <2>2, <3>3, UpgradeTypes DEF CarsTypeOK, LobbyUpgrade, Cmd
      <4> QED
        BY <2>2, <3>3, <4>1 DEF CarsTypeOK, LobbyUpgrade, TypeOK
    <3>4. CASE UNCHANGED <<startRequested, totalCars, playerVars>>
      BY <2>2, <3>4 DEF TypeOK, CarsTypeOK
    <3> QED
      BY <1>3, <3>1, <3>2, <3>3, <3>4 DEF LobbyCmd
  <2> QED
    BY <1>3, <2>1, <2>3 DEF LobbyCmd, TypeOK, CarsTypeOK, Cars
<1>4. LobbyWait => TypeOK'
  BY DEF TypeOK, LobbyWait
<1>5. ASSUME LobbyExit PROVE TypeOK'
  <2>1. raceStarted' \in BOOLEAN /\ raceEnded' \in BOOLEAN /\ deadlinePassed' \in BOOLEAN
    BY <1>5 DEF LobbyExit
  <2>2. raceTime' \in Nat /\ pc' \in Steps
    BY <1>5 DEF LobbyExit
  <2> QED
    BY <1>5, <2>1, <2>2 DEF TypeOK, LobbyExit
<1>6. DeadlinePasses => TypeOK'
  BY DEF TypeOK, DeadlinePasses
<1> QED
  BY <1>1, <1>2, <1>3, <1>4, <1>5, <1>6

(* The two hit handlers keep the types of the cars and the counts.         *)
LEMMA CarHitTypes ==
  ASSUME RaceTypeOK, NEW ev \in WorldEvent, UNCHANGED <<finishVars, raceTime>>,
         (\E c \in ev.cars : CarHitBuilding(c)) \/ CarHitCar(ev.cars)
  PROVE  RaceTypeOK'
<1>1. CASE SoftHit
  BY <1>1 DEF SoftHit, RaceTypeOK, finishVars, resultVars
<1>2. ASSUME NEW c \in Drivers, NEW damage \in [{c} -> Damages], Strike({c}, damage, 1)
      PROVE  RaceTypeOK'
  <2>1. damage \in [{c} -> Nat]
    BY GameAssumption
  <2> QED
    BY <1>2, <2>1, StrikeTypes
<1>3. ASSUME NEW damage \in [ev.cars -> Damages \cup {0}], ev.cars \subseteq Drivers,
             NEW times \in {1, 2}, Strike(ev.cars, damage, times)
      PROVE  RaceTypeOK'
  <2>1. Damages \cup {0} \subseteq Nat
    BY GameAssumption
  <2>2. damage \in [ev.cars -> Nat]
    BY <2>1
  <2> QED
    BY <1>3, <2>2, StrikeTypes
<1>4. CASE \E c \in ev.cars : CarHitBuilding(c)
  BY <1>1, <1>2, <1>4 DEF CarHitBuilding
<1>5. CASE CarHitCar(ev.cars)
  BY <1>1, <1>3, <1>5 DEF CarHitCar
<1> QED
  BY <1>4, <1>5

(* Every world event keeps the types.                                      *)
LEMMA EventTypes ==
  ASSUME TypeOK, HandleWorldEvent
  PROVE  TypeOK'
<1> DEFINE ev == Head(worldEvents)
<1> USE DEF envVars, cmdVars, phaseVars, resultVars, statVars, spawnVars, finishVars
<1>1. ev \in WorldEvent /\ worldEvents' \in Seq(WorldEvent)
  BY DEF HandleWorldEvent, TypeOK
<1>2. RaceTypeOK
  BY DEF TypeOK, RaceTypeOK, Cars
<1>3. ev.cars \in SUBSET Clients /\ ev.checkpoint \in 0..NumCheckpoints
  BY <1>1 DEF WorldEvent
<1>4. RaceTypeOK' /\ hitBuilding' \subseteq Clients /\ hitPairs' \subseteq SUBSET Clients
  <2>1. CASE /\ \E c \in ev.cars : CarHitCheckpoint(c, ev.checkpoint)
             /\ UNCHANGED <<hitBuilding, hitPairs, totalCars, wrecked>>
    BY <1>2, <1>3, <2>1, CheckpointTypes DEF HandleWorldEvent, TypeOK
  <2>2. CASE (\E c \in ev.cars : CarHitBuilding(c)) /\ UNCHANGED <<hitPairs, finishVars>>
    <3>1. RaceTypeOK'
      BY <1>1, <1>2, <2>2, CarHitTypes DEF HandleWorldEvent
    <3> QED
      BY <1>3, <2>2, <3>1 DEF CarHitBuilding, TypeOK
  <2>3. CASE CarHitCar(ev.cars) /\ UNCHANGED <<hitBuilding, finishVars>>
    <3>1. RaceTypeOK'
      BY <1>1, <1>2, <2>3, CarHitTypes DEF HandleWorldEvent
    <3> QED
      BY <1>3, <2>3, <3>1 DEF CarHitCar, TypeOK
  <2> QED
    BY <2>1, <2>2, <2>3 DEF HandleWorldEvent
<1> QED
  BY <1>1, <1>4 DEF HandleWorldEvent, TypeOK, RaceTypeOK, Cars

(* Every command of a race keeps the types.                                *)
LEMMA RaceCmdTypes ==
  ASSUME TypeOK, RaceCmd
  PROVE  TypeOK'
<1> DEFINE cmd == Head(cmds)
<1> USE DEF envVars, phaseVars, resultVars, statVars, spawnVars, eventVars, finishVars, playerVars
<1>1. cmd \in Cmd /\ cmds' \in Seq(Cmd)
  BY DEF RaceCmd, TypeOK
<1>2. CarsTypeOK /\ RaceTypeOK
  BY DEF TypeOK, CarsTypeOK, RaceTypeOK, Cars
<1>3. CarsTypeOK' /\ RaceTypeOK'
  <2>1. CASE ForcePlayerWin(cmd.client) /\ UNCHANGED <<spawnVars, ghosts>>
    <3> DEFINE car == [playerCars[cmd.client] EXCEPT !.actualCheckpoint = NumCheckpoints]
    <3>1. CASE cmd.client \in Unfinished
      <4>1. car \in CarState
        <5>1. playerCars[cmd.client] \in CarState
          BY <1>2, <3>1 DEF CarsTypeOK, Cars, Unfinished, Drivers
        <5>2. NumCheckpoints \in 0..NumCheckpoints
          BY CarAssumption
        <5> QED
          BY <5>1, <5>2, CarTypes
      <4>2. CarFinishRace(cmd.client, car)
        BY <2>1, <3>1 DEF ForcePlayerWin
      <4>3. RaceTypeOK'
        BY <1>1, <1>2, <2>1, <4>1, <4>2, FinishTypes DEF ForcePlayerWin, RaceCmd, Cmd
      <4> QED
        BY <1>2, <2>1, <4>3 DEF CarsTypeOK, RaceTypeOK
    <3>2. CASE cmd.client \notin Unfinished
      BY <1>2, <2>1, <3>2 DEF ForcePlayerWin, RaceCmd, CarsTypeOK, RaceTypeOK
    <3> QED
      BY <3>1, <3>2
  <2>2. CASE ForcePlayerLose(cmd.client) /\ UNCHANGED <<spawnVars, ghosts>>
    <3>1. CASE cmd.client \in Unfinished
      <4>1. Kill(playerCars[cmd.client]) \in CarState
        BY <1>2, <3>1, CarTypes DEF CarsTypeOK, Cars, Unfinished, Drivers
      <4>2. totalCars' \in 0..255 /\ wrecked' \in BOOLEAN
        BY <1>2, <2>2, <3>1, KillTypes DEF ForcePlayerLose, RaceTypeOK
      <4>3. playerCars' \in Cars
        BY <1>2, <2>2, <3>1, <4>1 DEF ForcePlayerLose, CarsTypeOK, Cars
      <4> QED
        BY <1>2, <2>2, <4>2, <4>3 DEF ForcePlayerLose, RaceCmd, CarsTypeOK, RaceTypeOK
    <3>2. CASE cmd.client \notin Unfinished
      BY <1>2, <2>2, <3>2 DEF ForcePlayerLose, RaceCmd, CarsTypeOK, RaceTypeOK
    <3> QED
      BY <3>1, <3>2
  <2>3. CASE /\ cmd.op \in Cheats \ RaceCheats /\ CheatHandler(cmd.client, cmd.op)
             /\ UNCHANGED <<spawnVars, ghosts, finishVars, totalCars, wrecked>>
    <3>1. playerCars' \in Cars
      BY <1>1, <1>2, <2>3, CheatTypes DEF CarsTypeOK, Cmd
    <3> QED
      BY <1>2, <2>3, <3>1 DEF RaceCmd, CarsTypeOK, RaceTypeOK
  <2>4. CASE InitPlayer(cmd.client) /\ UNCHANGED <<finishVars, totalCars, wrecked>>
    <3>1. CarsTypeOK'
      BY <1>1, <1>2, <2>4, InitPlayerTypes DEF Cmd
    <3> QED
      BY <1>2, <2>4, <3>1 DEF RaceCmd, CarsTypeOK, RaceTypeOK
  <2>5. CASE UNCHANGED <<playerVars, finishVars, totalCars, wrecked>>
    BY <1>2, <2>5 DEF RaceCmd, CarsTypeOK, RaceTypeOK
  <2> QED
    BY <2>1, <2>2, <2>3, <2>4, <2>5 DEF RaceCmd
<1> QED
  BY <1>1, <1>3 DEF RaceCmd, TypeOK, CarsTypeOK, RaceTypeOK, Cars

(* The other steps of a frame keep the types.                              *)
LEMMA RaceTypes ==
  ASSUME TypeOK, PhaseOK
  PROVE  /\ CheckPlayersStatus => TypeOK'
         /\ RaceDrain => TypeOK'
         /\ WorldStep => TypeOK'
         /\ EndFrame => TypeOK'
         /\ FinalizeDNFs => TypeOK'
<1> USE DEF envVars, cmdVars, phaseVars, countVars, resultVars, statVars, spawnVars, eventVars,
            playerVars, GoTo, Steps
<1>1. ASSUME CheckPlayersStatus PROVE TypeOK'
  <2> DEFINE gone    == Drivers \ registry
             dropped == gone \cap Unfinished
  <2>1. CarsTypeOK'
    <3>1. CarsTypeOK
      BY DEF TypeOK, CarsTypeOK, Cars
    <3>2. gone \in SUBSET Clients /\ DisconnectPlayers(gone)
      BY <1>1 DEF CheckPlayersStatus, Drivers
    <3> QED
      BY <3>1, <3>2, DisconnectTypes
  <2>2. Cardinality(dropped) \in Nat
    BY ClientsFinite DEF Drivers
  <2>3. totalCars' = IF Cardinality(dropped) >= totalCars
                     THEN 0 ELSE totalCars - Cardinality(dropped)
    BY <1>1 DEF CheckPlayersStatus
  <2>4. totalCars' \in 0..255
    <3>1. ASSUME NEW n \in Nat, NEW m \in 0..255
          PROVE  (IF n >= m THEN 0 ELSE m - n) \in 0..255
      OBVIOUS
    <3>2. totalCars \in 0..255
      BY DEF TypeOK
    <3> HIDE DEF dropped
    <3> QED
      BY <2>2, <2>3, <3>1, <3>2
  <2>5. raceEnded' \in BOOLEAN
    BY <1>1 DEF CheckPlayersStatus, TypeOK
  <2> QED
    BY <1>1, <2>1, <2>4, <2>5 DEF CheckPlayersStatus, TypeOK, CarsTypeOK, Cars
<1>2. RaceDrain => TypeOK'
  BY DEF TypeOK, RaceDrain, Drain
<1>3. ASSUME WorldStep PROVE TypeOK'
  <2>1. Hits \subseteq WorldEvent /\ Touches \subseteq WorldEvent
    <3>1. Bodies \subseteq Clients
      BY DEF Bodies, Drivers, TypeOK
    <3>2. Hits \subseteq WorldEvent
      BY <3>1, CarAssumption DEF Hits, WorldEvent, Bodies
    <3>3. Touches \subseteq WorldEvent
      BY <3>1, CarAssumption DEF Touches, WorldEvent
    <3> QED
      BY <3>2, <3>3
  <2>2. PICK hits \in SeqOf(Hits, MaxEvents), touches \in SeqOf(Touches, MaxEvents) :
          worldEvents' = hits \o touches
    BY <1>3 DEF WorldStep
  <2>3. hits \in Seq(WorldEvent) /\ touches \in Seq(WorldEvent)
    <3>1. hits \in Seq(Hits) /\ touches \in Seq(Touches)
      BY SequencesOfBoundedLength
    <3> QED
      BY <2>1, <3>1
  <2>4. worldEvents' \in Seq(WorldEvent)
    BY <2>2, <2>3
  <2>5. raceTime' \in Nat /\ raceEnded' \in BOOLEAN
    BY <1>3 DEF WorldStep, TypeOK
  <2> QED
    BY <1>3, <2>4, <2>5 DEF WorldStep, TypeOK
<1>4. EndFrame => TypeOK'
  BY DEF TypeOK, EndFrame
<1>5. ASSUME FinalizeDNFs PROVE TypeOK'
  <2>1. PICK order \in Bijection(1..Cardinality(Unfinished), Unfinished) :
          lastRaceResults' = lastRaceResults \o [i \in DOMAIN order |-> DNF(order[i])]
    BY <1>5 DEF FinalizeDNFs
  <2>2. Cardinality(Unfinished) \in Nat /\ Unfinished \subseteq Clients
    BY ClientsFinite DEF Unfinished, Drivers
  <2>3. order \in [1..Cardinality(Unfinished) -> Clients]
    BY <2>2 DEF Bijection, Injection
  <2>4. ASSUME NEW c \in Clients PROVE DNF(c) \in RaceResult
    BY DEF DNF, RaceResult, TypeOK
  <2>5. [i \in DOMAIN order |-> DNF(order[i])] \in Seq(RaceResult)
    BY <2>2, <2>3, <2>4
  <2>6. lastRaceResults' \in Seq(RaceResult)
    BY <2>1, <2>5 DEF TypeOK
  <2> QED
    BY <1>5, <2>6 DEF FinalizeDNFs, TypeOK
<1> QED
  BY <1>1, <1>2, <1>3, <1>4, <1>5

(* What a uint8_t holds.                                                   *)
LEMMA Byte == \A n \in Nat : n % 256 \in 0..255
  OBVIOUS

(* A race time added to a player's stats gives stats.                      *)
LEMMA AddTimeType ==
  ASSUME NEW stats \in PlayerGlobalStats \cup {None}, NEW time \in Nat
  PROVE  AddTime(stats, time) \in PlayerGlobalStats
<1>1. CASE stats = None
  BY <1>1 DEF AddTime, PlayerGlobalStats
<1>2. CASE stats # None
  BY <1>2 DEF AddTime, PlayerGlobalStats
<1> QED
  BY <1>1, <1>2

(* The steps between two races, and the last one, keep the types.          *)
LEMMA LoopTypes ==
  ASSUME TypeOK, PhaseOK
  PROVE  /\ UpdateGlobalStats => TypeOK'
         /\ NextRace => TypeOK'
         /\ GameOver => TypeOK'
<1> USE DEF envVars, cmdVars, phaseVars, countVars, resultVars, statVars, spawnVars, eventVars,
            playerVars, GoTo, Steps
<1>1. ASSUME UpdateGlobalStats PROVE TypeOK'
  <2> DEFINE r == lastRaceResults[resultIdx]
  <2>1. r \in RaceResult
    BY <1>1 DEF UpdateGlobalStats, TypeOK
  <2>2. AddTime(globalStats[r.playerId], r.raceTime) \in PlayerGlobalStats
    <3>1. r.playerId \in Clients /\ r.raceTime \in Nat
      BY <2>1 DEF RaceResult
    <3>2. globalStats[r.playerId] \in PlayerGlobalStats \cup {None}
      BY <3>1 DEF TypeOK
    <3> QED
      BY <3>1, <3>2, AddTimeType
  <2>3. globalStats' \in [Clients -> PlayerGlobalStats \cup {None}]
    BY <1>1, <2>1, <2>2 DEF UpdateGlobalStats, TypeOK
  <2>4. resultIdx' \in Nat \ {0}
    BY <1>1 DEF UpdateGlobalStats, TypeOK
  <2> QED
    BY <1>1, <2>3, <2>4 DEF UpdateGlobalStats, TypeOK
<1>2. ASSUME NextRace PROVE TypeOK'
  <2>1. raceIndex' \in 0..NumRaces
    BY <1>2, GameAssumption DEF NextRace, PhaseOK, TypeOK
  <2>2. CASE ResetRaceState
    <3>1. PICK place \in Bijection(Drivers, 1..Cardinality(Drivers)) :
            playerCars' = [c \in Clients |->
              IF c \in Drivers THEN ResetForNewRace(playerCars[c], SpotOf(place[c])) ELSE None]
      BY <2>2 DEF ResetRaceState
    <3>2. Cardinality(Drivers) \in Nat
      BY ClientsFinite DEF Drivers
    <3>3. ASSUME NEW c \in Drivers
          PROVE  ResetForNewRace(playerCars[c], SpotOf(place[c])) \in CarState
      <4>1. place[c] \in Nat \ {0}
        BY <3>2 DEF Bijection, Injection
      <4> QED
        BY <4>1, SpotInRange, NewCarType DEF ResetForNewRace
    <3>4. playerCars' \in [Clients -> CarState \cup {None}]
      BY <3>1, <3>3
    <3>5. totalCars' \in 0..255
      BY <2>2, <3>2, Byte DEF ResetRaceState
    <3>6. raceEnded' \in BOOLEAN /\ wrecked' \in BOOLEAN
      BY <2>2 DEF ResetRaceState
    <3>7. raceTime' \in Nat /\ finishedCarsCount' \in 0..255
      BY <2>2 DEF ResetRaceState
    <3>8. /\ raceRanking' \in Seq(Clients) /\ lastRaceResults' \in Seq(RaceResult)
          /\ worldEvents' \in Seq(WorldEvent) /\ queue' \in Seq(Cmd)
      BY <2>2 DEF ResetRaceState
    <3>9. pc' \in Steps /\ resultIdx' \in Nat \ {0}
      BY <1>2 DEF NextRace
    <3> QED
      BY <1>2, <2>1, <3>4, <3>5, <3>6, <3>7, <3>8, <3>9 DEF NextRace, TypeOK
  <2>3. CASE UNCHANGED <<playerCars, raceTime, countVars, raceRanking, lastRaceResults,
                         worldEvents, queue, wrecked>>
    BY <1>2, <2>1, <2>3 DEF NextRace, TypeOK
  <2> QED
    BY <1>2, <2>2, <2>3 DEF NextRace
<1>3. ASSUME GameOver PROVE TypeOK'
  <2>1. globalStats' \in [Clients -> PlayerGlobalStats \cup {None}]
    <3>1. CASE ComputeGlobalRanking
      <4>1. PICK place \in Bijection(Ranked, 1..Cardinality(Ranked)) :
              globalStats' = [c \in Clients |->
                IF c \in Ranked
                THEN [totalTime |-> FinalTime(c), globalPosition |-> place[c] % 256]
                ELSE None]
        BY <3>1 DEF ComputeGlobalRanking
      <4>2. Cardinality(Ranked) \in Nat
        BY ClientsFinite DEF Ranked
      <4>3. ASSUME NEW c \in Ranked
            PROVE  FinalTime(c) \in Nat /\ place[c] % 256 \in 0..255
        <5>1. place[c] \in Nat
          BY <4>2 DEF Bijection, Injection
        <5>2. globalStats[c].totalTime \in Nat
          BY DEF Ranked, PlayerGlobalStats, TypeOK
        <5>3. c \in Drivers => playerCars[c].upgradePenalty \in Nat
          BY DEF Drivers, CarState, TypeOK
        <5>4. FinalTime(c) \in Nat
          BY <5>2, <5>3 DEF FinalTime
        <5> QED
          BY <5>1, <5>4, Byte
      <4> QED
        BY <4>1, <4>3 DEF PlayerGlobalStats
    <3>2. CASE UNCHANGED globalStats
      BY <3>2 DEF TypeOK
    <3> QED
      BY <1>3, <3>1, <3>2 DEF GameOver
  <2> QED
    BY <1>3, <2>1 DEF GameOver, TypeOK
<1> QED
  BY <1>1, <1>2, <1>3

(* GameManager and the receivers keep the types.                           *)
LEMMA EnvironmentTypes ==
  ASSUME TypeOK
  PROVE  /\ Stop => TypeOK'
         /\ \A c \in Clients : JoinGame(c) \/ AddClient(c) \/ LeaveGame(c) => TypeOK'
         /\ \A c \in Clients, op \in Ops : PushCmd(c, op) => TypeOK'
<1> USE DEF envVars, cmdVars, phaseVars, countVars, resultVars, statVars, spawnVars, eventVars,
            playerVars
<1>1. Stop => TypeOK'
  BY DEF Stop, TypeOK
<1>2. ASSUME NEW c \in Clients, JoinGame(c) PROVE TypeOK'
  BY <1>2 DEF JoinGame, TypeOK
<1>3. ASSUME NEW c \in Clients, AddClient(c) PROVE TypeOK'
  BY <1>3 DEF AddClient, TypeOK
<1>4. ASSUME NEW c \in Clients, LeaveGame(c) PROVE TypeOK'
  BY <1>4 DEF LeaveGame, TypeOK
<1>5. ASSUME NEW c \in Clients, NEW op \in Ops, PushCmd(c, op) PROVE TypeOK'
  <2>1. queue' \in Seq(Cmd)
    BY <1>5 DEF PushCmd, Cmd, TypeOK
  <2> QED
    BY <1>5, <2>1 DEF PushCmd, TypeOK
<1> QED
  BY <1>1, <1>2, <1>3, <1>4, <1>5

-----------------------------------------------------------------------------
(* Type correctness.                                                       *)

(* A new game has its types.                                               *)
LEMMA InitTypes == GameInit => TypeOK /\ PhaseOK
<1> SUFFICES ASSUME GameInit PROVE TypeOK /\ PhaseOK
  OBVIOUS
<1>1. PhaseOK
  BY GameAssumption DEF GameInit, PhaseOK, InLobby, InRace
<1>2. registry \subseteq Clients /\ joining \subseteq Clients
  BY DEF GameInit
<1>3. /\ listed \in BOOLEAN /\ stopping \in BOOLEAN /\ startRequested \in BOOLEAN
      /\ raceStarted \in BOOLEAN /\ raceEnded \in BOOLEAN /\ deadlinePassed \in BOOLEAN
      /\ wrecked \in BOOLEAN
  BY DEF GameInit
<1>4. /\ queue \in Seq(Cmd) /\ cmds \in Seq(Cmd) /\ worldEvents \in Seq(WorldEvent)
      /\ raceRanking \in Seq(Clients) /\ lastRaceResults \in Seq(RaceResult)
  BY DEF GameInit
<1>5. /\ raceIndex \in 0..NumRaces /\ resultIdx \in Nat \ {0} /\ raceTime \in Nat
      /\ totalCars \in 0..255 /\ finishedCarsCount \in 0..255
      /\ carToSpawnId \in [Clients -> 0..NumSpawns]
  BY GameAssumption, CarAssumption DEF GameInit
<1> QED
  BY <1>1, <1>2, <1>3, <1>4, <1>5 DEF GameInit, TypeOK, Steps

(* Every step keeps the types.                                             *)
LEMMA NextTypes ==
  ASSUME TypeOK, PhaseOK, [Next]_vars
  PROVE  TypeOK'
<1>1. CASE UNCHANGED vars
  BY <1>1 DEF TypeOK, vars, envVars, cmdVars, phaseVars, countVars, resultVars, statVars,
              spawnVars, eventVars
<1>2. CASE GameThread
  BY <1>2, LobbyTypes, RaceTypes, RaceCmdTypes, EventTypes, LoopTypes DEF GameThread
<1>3. CASE Environment
  BY <1>3, LobbyTypes, EnvironmentTypes DEF Environment
<1> QED
  BY <1>1, <1>2, <1>3 DEF Next, Terminated

(* Every step keeps the flags and the race index in line with the loop.    *)
LEMMA NextPhase ==
  ASSUME TypeOK, PhaseOK, [Next]_vars
  PROVE  PhaseOK'
<1> USE DEF PhaseOK, InLobby, InRace, envVars, cmdVars, phaseVars, GoTo
<1>1. CASE UNCHANGED vars
  BY <1>1 DEF vars
<1>2. CASE EnterLobby \/ LobbyDrain \/ LobbyCmd \/ LobbyWait \/ LobbyExit
  <2>1. EnterLobby => PhaseOK'
    BY DEF EnterLobby
  <2>2. LobbyDrain => PhaseOK'
    BY DEF LobbyDrain
  <2>3. LobbyCmd => PhaseOK'
    BY DEF LobbyCmd
  <2>4. LobbyWait => PhaseOK'
    BY DEF LobbyWait
  <2>5. LobbyExit => PhaseOK'
    BY DEF LobbyExit
  <2> QED
    BY <1>2, <2>1, <2>2, <2>3, <2>4, <2>5
<1>3. CASE \/ CheckPlayersStatus \/ RaceDrain \/ RaceCmd \/ WorldStep \/ HandleWorldEvent
           \/ EndFrame \/ FinalizeDNFs
  <2>1. CheckPlayersStatus => PhaseOK'
    BY DEF CheckPlayersStatus
  <2>2. RaceDrain => PhaseOK'
    BY DEF RaceDrain
  <2>3. RaceCmd => PhaseOK'
    BY DEF RaceCmd
  <2>4. WorldStep => PhaseOK'
    BY DEF WorldStep
  <2>5. HandleWorldEvent => PhaseOK'
    BY DEF HandleWorldEvent
  <2>6. EndFrame => PhaseOK'
    BY DEF EndFrame
  <2>7. FinalizeDNFs => PhaseOK'
    BY DEF FinalizeDNFs
  <2> QED
    BY <1>3, <2>1, <2>2, <2>3, <2>4, <2>5, <2>6, <2>7
<1>4. CASE UpdateGlobalStats \/ NextRace \/ GameOver
  <2>1. UpdateGlobalStats => PhaseOK'
    BY DEF UpdateGlobalStats
  <2>2. NextRace => PhaseOK'
    BY DEF NextRace
  <2>3. GameOver => PhaseOK'
    BY DEF GameOver
  <2> QED
    BY <1>4, <2>1, <2>2, <2>3
<1>5. CASE Environment
  <2>1. DeadlinePasses => PhaseOK'
    BY DEF DeadlinePasses
  <2>2. Stop => PhaseOK'
    BY DEF Stop
  <2>3. ASSUME NEW c \in Clients, JoinGame(c) \/ AddClient(c) \/ LeaveGame(c) PROVE PhaseOK'
    BY <2>3 DEF JoinGame, AddClient, LeaveGame
  <2>4. ASSUME NEW c \in Clients, NEW op \in Ops, PushCmd(c, op) PROVE PhaseOK'
    BY <2>4 DEF PushCmd
  <2> QED
    BY <1>5, <2>1, <2>2, <2>3, <2>4 DEF Environment
<1> QED
  BY <1>1, <1>2, <1>3, <1>4, <1>5 DEF Next, GameThread, Terminated

(* In every game every variable keeps its type: the counters fit their     *)
(* uint8_t, the spawn chosen for a car exists, and the results, events and *)
(* commands name clients of the game.                                      *)
THEOREM TypeCorrect == Spec => [](TypeOK /\ PhaseOK)
<1>1. GameInit => TypeOK /\ PhaseOK
  BY InitTypes
<1>2. (TypeOK /\ PhaseOK) /\ [Next]_vars => (TypeOK /\ PhaseOK)'
  BY NextTypes, NextPhase
<1> QED
  BY <1>1, <1>2, PTL DEF Spec

-----------------------------------------------------------------------------
(***************************************************************************)
(* The grid.                                                               *)
(***************************************************************************)

(* The drivers and the spawn points their cars were placed at are the same.*)
SameSpots ==
  /\ Drivers' = Drivers
  /\ \A c \in Drivers : playerCars'[c].spot = playerCars[c].spot

SameGrid == SameSpots /\ UNCHANGED <<spawnVars, raceIndex>>

(* A client is given the first free spawn point, before the race starts.   *)
GetsCar(c) == CanInitPlayer /\ CreateCarForClient(c, FirstFreeSpawn)

(* The cars are placed anew, and the game is past its first race.          *)
NewGrid == raceIndex' # 0 /\ Drivers' = Drivers /\ UNCHANGED spawnVars

(* No member function of Car but resetForNewRace moves it to a spawn point.*)
LEMMA CarKeepsSpot ==
  ASSUME NEW car \in CarState
  PROVE  /\ Kill(car).spot = car.spot
         /\ \A damage \in Nat : ApplyDamage(car, damage).spot = car.spot
         /\ \A id \in 0..NumCheckpoints : [car EXCEPT !.actualCheckpoint = id].spot = car.spot
         /\ \A time \in Nat, n \in 0..255 : MarkFinished(car, time, n).spot = car.spot
         /\ \A u \in Upgrades : ApplyUpgrade(car, u).spot = car.spot
         /\ \A cheat \in Cheats : ApplyCheat(car, cheat).spot = car.spot
<1>1. Kill(car).spot = car.spot
  BY DEF Kill, CarState
<1>2. \A damage \in Nat : ApplyDamage(car, damage).spot = car.spot
  BY <1>1 DEF ApplyDamage, CarState
<1>3. \A id \in 0..NumCheckpoints : [car EXCEPT !.actualCheckpoint = id].spot = car.spot
  BY DEF CarState
<1>4. \A time \in Nat, n \in 0..255 : MarkFinished(car, time, n).spot = car.spot
  BY DEF MarkFinished, CarState
<1>5. \A u \in Upgrades : ApplyUpgrade(car, u).spot = car.spot
  BY DEF ApplyUpgrade, CarState
<1>6. \A cheat \in Cheats : ApplyCheat(car, cheat).spot = car.spot
  BY DEF ApplyCheat, CarState
<1> QED
  BY <1>1, <1>2, <1>3, <1>4, <1>5, <1>6

(* A step that replaces one car by another at the same spot.               *)
LEMMA OneCarKeepsSpots ==
  ASSUME playerCars \in Cars, NEW c \in Drivers, NEW car \in CarState,
         car.spot = playerCars[c].spot, playerCars' = [playerCars EXCEPT ![c] = car]
  PROVE  SameSpots
<1>1. car # None
  BY GameAssumption
<1>2. c \in Clients /\ playerCars[c] # None
  BY DEF Drivers
<1>3. Drivers' = Drivers
  BY <1>1, <1>2 DEF Drivers, Cars
<1>4. ASSUME NEW d \in Drivers PROVE playerCars'[d].spot = playerCars[d].spot
  BY <1>2 DEF Drivers, Cars
<1> QED
  BY <1>3, <1>4 DEF SameSpots

(* A step that leaves the cars alone.                                      *)
LEMMA UnchangedKeepsSpots == UNCHANGED playerCars => SameSpots
  BY DEF SameSpots, Drivers

(* A finish moves nobody to a spawn point.                                 *)
LEMMA FinishKeepsSpots ==
  ASSUME RaceTypeOK, NEW c \in Drivers, NEW car \in CarState, CarFinishRace(c, car),
         car.spot = playerCars[c].spot
  PROVE  SameSpots
<1> DEFINE done == MarkFinished(car, raceTime, finishedCarsCount')
<1>1. finishedCarsCount' \in 0..255 /\ raceTime \in Nat
  BY DEF CarFinishRace, RaceTypeOK
<1>2. done \in CarState /\ done.spot = playerCars[c].spot
  <2>1. done \in CarState
    BY <1>1, CarTypes
  <2>2. done.spot = car.spot
    BY <1>1, CarKeepsSpot
  <2> QED
    BY <2>1, <2>2
<1>3. playerCars' = [playerCars EXCEPT ![c] = done]
  BY DEF CarFinishRace, RecordFinish
<1>4. playerCars \in Cars
  BY DEF RaceTypeOK
<1> HIDE DEF done
<1> QED
  BY <1>2, <1>3, <1>4, OneCarKeepsSpots

(* Nor does a checkpoint event.                                            *)
LEMMA CheckpointKeepsSpots ==
  ASSUME RaceTypeOK, NEW c \in Clients, NEW id \in 0..NumCheckpoints, CarHitCheckpoint(c, id)
  PROVE  SameSpots
<1> DEFINE car == [playerCars[c] EXCEPT !.actualCheckpoint = id]
<1>1. CASE UNCHANGED playerCars
  BY <1>1, UnchangedKeepsSpots
<1>2. CASE c \in Drivers
  <2>1. playerCars[c] \in CarState
    BY <1>2 DEF RaceTypeOK, Cars, Drivers
  <2>2. car \in CarState /\ car.spot = playerCars[c].spot
    BY <2>1, CarTypes, CarKeepsSpot
  <2>3. CASE CarFinishRace(c, car)
    BY <1>2, <2>2, <2>3, FinishKeepsSpots
  <2>4. CASE playerCars' = [playerCars EXCEPT ![c] = car]
    BY <1>2, <2>2, <2>4, OneCarKeepsSpots DEF RaceTypeOK
  <2> QED
    BY <1>1, <2>3, <2>4 DEF CarHitCheckpoint
<1> QED
  BY <1>1, <1>2 DEF CarHitCheckpoint

(* Nor does a hit, whoever it kills.                                       *)
LEMMA StrikeKeepsSpots ==
  ASSUME playerCars \in Cars, NEW struck \in SUBSET Drivers, NEW damage \in [struck -> Nat],
         NEW times, Strike(struck, damage, times)
  PROVE  SameSpots
<1> DEFINE hurt(c) == ApplyDamage(playerCars[c], damage[c])
<1>1. ASSUME NEW c \in struck
      PROVE  hurt(c) # None /\ hurt(c).spot = playerCars[c].spot
  <2>1. playerCars[c] \in CarState /\ damage[c] \in Nat
    BY DEF Cars, Drivers
  <2>2. hurt(c) \in CarState
    BY <2>1, CarTypes
  <2>3. hurt(c) # None
    BY <2>2, GameAssumption
  <2> QED
    BY <2>1, <2>3, CarKeepsSpot
<1>2. playerCars' = [c \in Clients |-> IF c \in struck THEN hurt(c) ELSE playerCars[c]]
  BY DEF Strike
<1> HIDE DEF hurt
<1>3. Drivers' = Drivers
  BY <1>1, <1>2 DEF Drivers
<1>4. ASSUME NEW c \in Drivers PROVE playerCars'[c].spot = playerCars[c].spot
  BY <1>1, <1>2 DEF Drivers
<1> QED
  BY <1>3, <1>4 DEF SameSpots

(* No world event changes the grid.                                        *)
LEMMA EventKeepsSpots ==
  ASSUME TypeOK, HandleWorldEvent
  PROVE  SameGrid
<1> DEFINE ev == Head(worldEvents)
<1>1. ev.cars \in SUBSET Clients /\ ev.checkpoint \in 0..NumCheckpoints
  <2>1. ev \in WorldEvent
    BY DEF HandleWorldEvent, TypeOK
  <2> QED
    BY <2>1 DEF WorldEvent
<1>2. RaceTypeOK
  BY DEF TypeOK, RaceTypeOK, Cars
<1>3. Damages \subseteq Nat /\ Damages \cup {0} \subseteq Nat
  BY GameAssumption
<1>4. SameSpots
  <2>1. ASSUME NEW c \in ev.cars, CarHitCheckpoint(c, ev.checkpoint) PROVE SameSpots
    BY <1>1, <1>2, <2>1, CheckpointKeepsSpots
  <2>2. CASE SoftHit
    BY <2>2, UnchangedKeepsSpots DEF SoftHit
  <2>3. ASSUME NEW c \in Drivers, NEW damage \in [{c} -> Damages], Strike({c}, damage, 1)
        PROVE  SameSpots
    <3>1. damage \in [{c} -> Nat]
      BY <1>3
    <3> QED
      BY <1>2, <2>3, <3>1, StrikeKeepsSpots DEF RaceTypeOK
  <2>4. ASSUME NEW damage \in [ev.cars -> Damages \cup {0}], ev.cars \subseteq Drivers,
               NEW times \in {1, 2}, Strike(ev.cars, damage, times)
        PROVE  SameSpots
    <3>1. damage \in [ev.cars -> Nat]
      BY <1>3
    <3> QED
      BY <1>2, <2>4, <3>1, StrikeKeepsSpots DEF RaceTypeOK
  <2>5. ASSUME NEW c \in ev.cars, CarHitBuilding(c) PROVE SameSpots
    BY <2>2, <2>3, <2>5 DEF CarHitBuilding
  <2>6. CarHitCar(ev.cars) => SameSpots
    BY <2>2, <2>4 DEF CarHitCar
  <2> QED
    BY <2>1, <2>5, <2>6 DEF HandleWorldEvent
<1> QED
  BY <1>4 DEF HandleWorldEvent, SameGrid, phaseVars

(* No command of a race changes the grid: a late INIT_PLAYER is refused.   *)
LEMMA RaceCmdKeepsSpots ==
  ASSUME TypeOK, PhaseOK, RaceCmd
  PROVE  SameGrid
<1> DEFINE cmd == Head(cmds)
           c == cmd.client
<1>1. c \in Clients /\ cmd.op \in Ops
  <2>1. cmd \in Cmd
    BY DEF RaceCmd, TypeOK
  <2> QED
    BY <2>1 DEF Cmd
<1>2. RaceTypeOK
  BY DEF TypeOK, RaceTypeOK, Cars
<1>3. ASSUME c \in Drivers PROVE playerCars[c] \in CarState
  BY <1>3 DEF TypeOK, Drivers
<1>4. ASSUME UNCHANGED playerCars PROVE SameSpots
  BY <1>4, UnchangedKeepsSpots
<1>5. ASSUME ForcePlayerWin(c) PROVE SameSpots
  <2> DEFINE car == [playerCars[c] EXCEPT !.actualCheckpoint = NumCheckpoints]
  <2>1. CASE c \in Unfinished
    <3>1. c \in Drivers
      BY <2>1 DEF Unfinished
    <3>2. NumCheckpoints \in 0..NumCheckpoints
      BY CarAssumption
    <3>3. car \in CarState /\ car.spot = playerCars[c].spot
      BY <1>3, <3>1, <3>2, CarTypes, CarKeepsSpot
    <3>4. CarFinishRace(c, car)
      BY <1>5, <2>1 DEF ForcePlayerWin
    <3> QED
      BY <1>2, <3>1, <3>3, <3>4, FinishKeepsSpots
  <2> QED
    BY <1>4, <1>5, <2>1 DEF ForcePlayerWin
<1>6. ASSUME ForcePlayerLose(c) PROVE SameSpots
  <2>1. CASE c \in Unfinished
    <3>1. c \in Drivers
      BY <2>1 DEF Unfinished
    <3>2. Kill(playerCars[c]) \in CarState /\ Kill(playerCars[c]).spot = playerCars[c].spot
      BY <1>3, <3>1, CarTypes, CarKeepsSpot
    <3>3. playerCars' = [playerCars EXCEPT ![c] = Kill(playerCars[c])]
      BY <1>6, <2>1 DEF ForcePlayerLose
    <3> QED
      BY <1>2, <3>1, <3>2, <3>3, OneCarKeepsSpots DEF RaceTypeOK
  <2> QED
    BY <1>4, <1>6, <2>1 DEF ForcePlayerLose
<1>7. ASSUME cmd.op \in Cheats /\ CheatHandler(c, cmd.op) PROVE SameSpots
  <2>1. CASE c \in Drivers
    <3> DEFINE car == ApplyCheat(playerCars[c], cmd.op)
    <3>1. car \in CarState /\ car.spot = playerCars[c].spot
      BY <1>3, <1>7, <2>1, CarTypes, CarKeepsSpot
    <3>2. playerCars' = [playerCars EXCEPT ![c] = car]
      BY <1>7, <2>1 DEF CheatHandler
    <3> HIDE DEF car
    <3> QED
      BY <1>2, <2>1, <3>1, <3>2, OneCarKeepsSpots DEF RaceTypeOK
  <2> QED
    BY <1>4, <1>7, <2>1 DEF CheatHandler
<1>8. InitPlayer(c) => UNCHANGED playerVars
  BY DEF InitPlayer, CanInitPlayer, RaceCmd, PhaseOK, InRace
<1>9. SameSpots
  BY <1>4, <1>5, <1>6, <1>7, <1>8 DEF RaceCmd, playerVars
<1> QED
  BY <1>8, <1>9 DEF RaceCmd, playerVars, phaseVars, SameGrid

(* A command of the lobby changes the grid only by a granted INIT_PLAYER.  *)
LEMMA LobbyCmdKeepsSpots ==
  ASSUME TypeOK, LobbyCmd
  PROVE  SameGrid \/ (UNCHANGED raceIndex /\ \E c \in Clients : GetsCar(c))
<1> DEFINE cmd == Head(cmds)
           c == cmd.client
<1>1. c \in Clients /\ cmd.op \in Ops
  <2>1. cmd \in Cmd
    BY DEF LobbyCmd, TypeOK
  <2> QED
    BY <2>1 DEF Cmd
<1>2. CASE UNCHANGED playerVars
  BY <1>2, UnchangedKeepsSpots DEF LobbyCmd, playerVars, SameGrid
<1>3. CASE cmd.op \in Upgrades /\ LobbyUpgrade(c, cmd.op)
  <2>1. CASE UNCHANGED playerCars
    BY <1>3, <2>1, UnchangedKeepsSpots DEF LobbyUpgrade, LobbyCmd, SameGrid
  <2>2. CASE c \in Drivers /\ playerCars' = [playerCars EXCEPT ![c] = ApplyUpgrade(@, cmd.op)]
    <3> DEFINE car == ApplyUpgrade(playerCars[c], cmd.op)
    <3>1. playerCars \in Cars /\ playerCars[c] \in CarState
      BY <2>2 DEF TypeOK, Cars, Drivers
    <3>2. car \in CarState /\ car.spot = playerCars[c].spot
      BY <1>3, <3>1, CarTypes, CarKeepsSpot
    <3>3. playerCars' = [playerCars EXCEPT ![c] = car]
      BY <2>2
    <3> HIDE DEF car
    <3>4. SameSpots
      BY <2>2, <3>1, <3>2, <3>3, OneCarKeepsSpots
    <3> QED
      BY <1>3, <3>4 DEF LobbyUpgrade, LobbyCmd, SameGrid
  <2> QED
    BY <1>3, <2>1, <2>2 DEF LobbyUpgrade, HandleRequestUpgrade
<1>4. CASE InitPlayer(c)
  <2>1. UNCHANGED playerVars \/ GetsCar(c)
    BY <1>4 DEF InitPlayer, GetsCar
  <2> QED
    BY <1>1, <1>2, <2>1 DEF LobbyCmd
<1> QED
  BY <1>2, <1>3, <1>4 DEF LobbyCmd, LobbyInitPlayer

(* The step to the next race places the cars that there are.               *)
LEMMA NextRaceGrid ==
  ASSUME TypeOK, NextRace
  PROVE  NewGrid
<1>1. raceIndex' # 0 /\ UNCHANGED spawnVars
  BY DEF NextRace, TypeOK
<1>2. CASE ResetRaceState
  <2>1. PICK place \in Bijection(Drivers, 1..Cardinality(Drivers)) :
          playerCars' = [c \in Clients |->
            IF c \in Drivers THEN ResetForNewRace(playerCars[c], SpotOf(place[c])) ELSE None]
    BY <1>2 DEF ResetRaceState
  <2>2. Cardinality(Drivers) \in Nat
    BY ClientsFinite DEF Drivers
  <2>3. ASSUME NEW c \in Drivers PROVE ResetForNewRace(playerCars[c], SpotOf(place[c])) # None
    <3>1. place[c] \in Nat \ {0}
      BY <2>2 DEF Bijection, Injection
    <3>2. ResetForNewRace(playerCars[c], SpotOf(place[c])) \in CarState
      BY <3>1, SpotInRange, NewCarType DEF ResetForNewRace
    <3> QED
      BY <3>2, GameAssumption
  <2> QED
    BY <1>1, <2>1, <2>3 DEF Drivers, NewGrid
<1>3. CASE UNCHANGED playerCars
  BY <1>1, <1>3 DEF Drivers, NewGrid
<1> QED
  BY <1>2, <1>3 DEF NextRace

(* The four kinds of steps.                                                *)
LEMMA GridSteps ==
  ASSUME TypeOK, PhaseOK, [Next]_vars
  PROVE  \/ SameGrid
         \/ UNCHANGED raceIndex /\ \E c \in Clients : GetsCar(c)
         \/ UNCHANGED raceIndex /\ \E gone \in SUBSET Drivers : DisconnectPlayers(gone)
         \/ NewGrid
<1> DEFINE Still == UNCHANGED <<playerCars, spawnVars, raceIndex>>
<1>1. Still => SameGrid
  BY UnchangedKeepsSpots DEF SameGrid
<1> USE DEF phaseVars, playerVars
<1>2. UNCHANGED vars => Still
  BY DEF vars
<1>3. EnterLobby \/ LobbyDrain \/ LobbyWait => Still
  BY DEF EnterLobby, LobbyDrain, LobbyWait
<1>4. LobbyExit \/ RaceDrain \/ WorldStep \/ EndFrame => Still
  BY DEF LobbyExit, RaceDrain, WorldStep, EndFrame
<1>5. FinalizeDNFs \/ UpdateGlobalStats \/ GameOver => Still
  BY DEF FinalizeDNFs, UpdateGlobalStats, GameOver
<1>6. Environment => Still
  BY DEF Environment, DeadlinePasses, Stop, JoinGame, AddClient, LeaveGame, PushCmd
<1>7. CheckPlayersStatus =>
        UNCHANGED raceIndex /\ \E gone \in SUBSET Drivers : DisconnectPlayers(gone)
  BY DEF CheckPlayersStatus
<1> HIDE DEF Still
<1> QED
  BY <1>1, <1>2, <1>3, <1>4, <1>5, <1>6, <1>7, RaceCmdKeepsSpots, LobbyCmdKeepsSpots,
     EventKeepsSpots, NextRaceGrid DEF Next, GameThread, Terminated

-----------------------------------------------------------------------------
(* The spawn points a client may take or give back.                        *)

(* The spawn point a client is given was nobody's.                         *)
LEMMA FreeSpawnTaken ==
  ASSUME CanInitPlayer
  PROVE  FirstFreeSpawn \in 1..NumSpawns /\ FirstFreeSpawn # 0 /\ FirstFreeSpawn \notin usedSpawnIds
<1>1. FirstFreeSpawn \in FreeSpawns
  BY FirstFreeSpawnIsFree DEF CanInitPlayer
<1> QED
  BY <1>1, CarAssumption DEF FreeSpawns

(* Who drives, and from where, once a client was given a car.              *)
LEMMA DriversAfterInit ==
  ASSUME TypeOK, NEW c \in Clients, GetsCar(c)
  PROVE  /\ Drivers' = Drivers \cup {c}
         /\ \A d \in Drivers : playerCars'[d] = playerCars[d]
         /\ c \notin Drivers => playerCars'[c].spot = FirstFreeSpawn
<1>1. NewCar(FirstFreeSpawn) # None /\ NewCar(FirstFreeSpawn).spot = FirstFreeSpawn
  <2>1. NewCar(FirstFreeSpawn) \in CarState
    BY FreeSpawnTaken, NewCarType DEF GetsCar
  <2> QED
    BY <2>1, GameAssumption DEF NewCar
<1>2. CASE c \in Drivers
  BY <1>2 DEF GetsCar, CreateCarForClient, Drivers
<1>3. CASE c \notin Drivers
  BY <1>1, <1>3 DEF GetsCar, CreateCarForClient, Drivers, TypeOK
<1> QED
  BY <1>2, <1>3

(* Who drives once some have left.                                         *)
LEMMA DriversAfterDeparture ==
  ASSUME TypeOK, NEW gone \in SUBSET Drivers, DisconnectPlayers(gone)
  PROVE  /\ Drivers' = Drivers \ gone
         /\ \A d \in Drivers \ gone : playerCars'[d] = playerCars[d]
  BY DEF DisconnectPlayers, Drivers

-----------------------------------------------------------------------------
(* A spawn point belongs to one car, and to no one without a car: every    *)
(* createCarForClient and disconnectPlayer keeps the set usedSpawnIds and  *)
(* the map carToSpawnId in step, through duplicate INIT_PLAYERs too.       *)
THEOREM SpawnsAreOwned == Spec => []SpawnsOwned
<1>1. GameInit => SpawnsOwned
  BY DEF GameInit, SpawnsOwned, Drivers
<1>2. ASSUME TypeOK, PhaseOK, SpawnsOwned, [Next]_vars
      PROVE  SpawnsOwned'
  <2>1. CASE SameGrid
    BY <1>2, <2>1 DEF SpawnsOwned, SameGrid, SameSpots, spawnVars
  <2>2. ASSUME NEW c \in Clients, GetsCar(c) PROVE SpawnsOwned'
    <3> DEFINE s == FirstFreeSpawn
    <3>1. s # 0 /\ s \notin usedSpawnIds
      BY <2>2, FreeSpawnTaken DEF GetsCar
    <3>2. Drivers' = Drivers \cup {c}
      BY <1>2, <2>2, DriversAfterInit
    <3>3. usedSpawnIds' = usedSpawnIds \cup {s} /\ carToSpawnId' = [carToSpawnId EXCEPT ![c] = s]
      BY <2>2 DEF GetsCar, CreateCarForClient
    <3>4. Drivers \subseteq Clients
      BY DEF Drivers
    <3> HIDE DEF s
    <3> QED
      BY <1>2, <3>1, <3>2, <3>3, <3>4 DEF SpawnsOwned, TypeOK
  <2>3. ASSUME NEW gone \in SUBSET Drivers, DisconnectPlayers(gone) PROVE SpawnsOwned'
    <3>1. Drivers' = Drivers \ gone
      BY <1>2, <2>3, DriversAfterDeparture
    <3>2. Drivers \subseteq Clients
      BY DEF Drivers
    <3> QED
      BY <1>2, <2>3, <3>1, <3>2 DEF SpawnsOwned, DisconnectPlayers
  <2>4. CASE NewGrid
    BY <1>2, <2>4 DEF SpawnsOwned, NewGrid, spawnVars
  <2> QED
    BY <1>2, <2>1, <2>2, <2>3, <2>4, GridSteps
<1> QED
  BY <1>1, <1>2, TypeCorrect, PTL DEF Spec

(* In the first race a car stands on a used spawn point that is not the    *)
(* one another car stands on, nor the one that another client would free   *)
(* by leaving: after a duplicate INIT_PLAYER these two are not the same.   *)
FirstGrid ==
  raceIndex = 0 => \A c \in Drivers :
    /\ playerCars[c].spot \in usedSpawnIds
    /\ \A d \in Drivers \ {c} :
         playerCars[c].spot # playerCars[d].spot /\ playerCars[c].spot # carToSpawnId[d]

(* Every step keeps the first grid as it should be.                        *)
LEMMA NextFirstGrid ==
  ASSUME TypeOK, PhaseOK, SpawnsOwned, FirstGrid, [Next]_vars
  PROVE  FirstGrid'
<1>1. CASE SameGrid
  BY <1>1 DEF FirstGrid, SameGrid, SameSpots, spawnVars
<1>2. ASSUME NEW c \in Clients, GetsCar(c), UNCHANGED raceIndex PROVE FirstGrid'
  <2> DEFINE s == FirstFreeSpawn
  <2>1. s \notin usedSpawnIds
    BY <1>2, FreeSpawnTaken DEF GetsCar
  <2>2. /\ Drivers' = Drivers \cup {c}
        /\ \A d \in Drivers : playerCars'[d] = playerCars[d]
        /\ c \notin Drivers => playerCars'[c].spot = s
    BY <1>2, DriversAfterInit
  <2>3. usedSpawnIds' = usedSpawnIds \cup {s} /\ carToSpawnId' = [carToSpawnId EXCEPT ![c] = s]
    BY <1>2 DEF GetsCar, CreateCarForClient
  <2>4. Drivers \subseteq Clients
    BY DEF Drivers
  <2> HIDE DEF s
  <2> QED
    BY <1>2, <2>1, <2>2, <2>3, <2>4 DEF FirstGrid, SpawnsOwned, TypeOK
<1>3. ASSUME NEW gone \in SUBSET Drivers, DisconnectPlayers(gone), UNCHANGED raceIndex
      PROVE  FirstGrid'
  <2>1. /\ Drivers' = Drivers \ gone
        /\ \A d \in Drivers \ gone : playerCars'[d] = playerCars[d]
    BY <1>3, DriversAfterDeparture
  <2>2. Drivers \subseteq Clients
    BY DEF Drivers
  <2> QED
    BY <1>3, <2>1, <2>2 DEF FirstGrid, DisconnectPlayers
<1>4. CASE NewGrid
  BY <1>4 DEF FirstGrid, NewGrid
<1> QED
  BY <1>1, <1>2, <1>3, <1>4, GridSteps

(* No two cars of the first race are placed on one spawn point, whoever    *)
(* joined, asked twice or left before it began.                            *)
THEOREM FirstGridIsDistinct == Spec => []FirstGridDistinct
<1>1. GameInit => FirstGrid
  BY DEF GameInit, FirstGrid, Drivers
<1>2. FirstGrid => FirstGridDistinct
  BY DEF FirstGrid, FirstGridDistinct
<1> QED
  BY <1>1, <1>2, NextFirstGrid, TypeCorrect, SpawnsAreOwned, PTL DEF Spec

(* Nobody gets a car between the start of a race and the next lobby: a     *)
(* late INIT_PLAYER is refused, and so is one drained with the start.      *)
THEOREM NobodyDrivesLate == Spec => NoLateDrivers
<1>1. ASSUME TypeOK, PhaseOK, [Next]_vars, raceStarted
      PROVE  {c \in Clients : playerCars'[c] # None} \subseteq Drivers
  <2>1. Drivers' \subseteq Drivers
    <3>1. ~CanInitPlayer
      BY <1>1 DEF CanInitPlayer
    <3>2. SameGrid \/ NewGrid => Drivers' = Drivers
      BY DEF SameGrid, SameSpots, NewGrid
    <3> QED
      BY <1>1, <3>1, <3>2, GridSteps, DriversAfterDeparture DEF GetsCar
  <2> QED
    BY <2>1 DEF Drivers
<1>2. TypeOK /\ PhaseOK /\ [Next]_vars =>
        [raceStarted => {c \in Clients : playerCars'[c] # None} \subseteq Drivers]_vars
  BY <1>1
<1> QED
  BY <1>2, TypeCorrect, PTL DEF Spec, NoLateDrivers
=============================================================================
