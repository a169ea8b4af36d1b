----------------------------- MODULE RaceProofs ----------------------------
(***************************************************************************)
(* The results of a race.  Every step of a game is of one of eight kinds   *)
(* (RaceSteps): it leaves the results and what the cars have driven alone, *)
(* gives a client its car, starts the race, takes cars away, moves one to  *)
(* its next checkpoint, finishes one, closes the results, or resets them.  *)
(* The properties of the results are inductions over these.                *)
(***************************************************************************)
EXTENDS GameProofs, SequenceTheorems

(* The loop is between the reset of a race and its start.                  *)
Before == InLobby \/ (pc = "outer" /\ raceIndex < NumRaces)

StageKept ==
  /\ Before' => Before
  /\ InRace' => InRace
  /\ pc' = "accumulate" => pc = "accumulate"

-----------------------------------------------------------------------------
(* What a car has driven, and what it has bought.                          *)
SameProgress(old, new) ==
  /\ new.actualCheckpoint = old.actualCheckpoint
  /\ new.finished = old.finished
  /\ new.finishTime = old.finishTime
  /\ new.ranking = old.ranking

SameUpgrades(old, new) == new.upgrades = old.upgrades

(* A car of a lobby: it can drive and has not.                             *)
Fresh(car) == car.enabled /\ ~IsCarDestroy(car) /\ ~car.finished /\ car.actualCheckpoint = 0

(* The cars stay, where they were; upgrades may be bought before the race. *)
CarsRest ==
  /\ Drivers' = Drivers
  /\ \A c \in Drivers :
       /\ SameProgress(playerCars[c], playerCars'[c])
       /\ \/ SameUpgrades(playerCars[c], playerCars'[c])
          \/ ~raceStarted /\ playerCars[c].upgrades \subseteq playerCars'[c].upgrades
       /\ Before /\ Fresh(playerCars[c]) => Fresh(playerCars'[c])

TimePasses ==
  /\ raceTime' = IF raceEnded THEN raceTime ELSE raceTime + 1
  /\ raceEnded' = (raceEnded \/ raceTime' >= MaxRaceTime)

(* The counts stay, time passes, or a car is wrecked.                      *)
CountsRest ==
  \/ UNCHANGED <<totalCars, wrecked, raceTime, raceEnded>>
  \/ InRace /\ TimePasses /\ UNCHANGED <<totalCars, wrecked>>
  \/ InRace /\ wrecked' /\ UNCHANGED <<raceTime, raceEnded>>

Rests ==
  /\ StageKept /\ CarsRest /\ CountsRest
  /\ UNCHANGED <<resultVars, finishedCarsCount>>
  /\ Before => UNCHANGED worldEvents
  /\ \/ UNCHANGED raceIndex
     \/ raceIndex' = NumRaces /\ pc = "accumulate" /\ UNCHANGED playerCars

Joins(c) ==
  /\ InLobby /\ InLobby' /\ GetsCar(c)
  /\ totalCars' = Cardinality(Drivers') % 256
  /\ UNCHANGED <<resultVars, finishedCarsCount, raceEnded, raceTime, wrecked, worldEvents,
                 raceIndex>>

Starts ==
  /\ InLobby /\ InRace' /\ raceTime' = 0 /\ raceEnded' = FALSE
  /\ UNCHANGED <<playerCars, resultVars, finishedCarsCount, totalCars, wrecked, raceIndex>>

Racing == InRace /\ InRace' /\ UNCHANGED <<raceIndex, raceTime, wrecked>>

Departs(gone) ==
  LET dropped == gone \cap Unfinished
      left    == IF Cardinality(dropped) >= totalCars
                 THEN 0 ELSE totalCars - Cardinality(dropped)
  IN  /\ Racing /\ DisconnectPlayers(gone)
      /\ totalCars' = left
      /\ raceEnded' = (raceEnded \/ (dropped # {} /\ (left = 0 \/ finishedCarsCount >= left)))
      /\ UNCHANGED <<resultVars, finishedCarsCount>>

AtCheckpoint(c, id) == [playerCars[c] EXCEPT !.actualCheckpoint = id]

Advances(c) ==
  /\ Racing /\ playerCars[c].actualCheckpoint + 1 < NumCheckpoints
  /\ playerCars' =
       [playerCars EXCEPT ![c] = AtCheckpoint(c, playerCars[c].actualCheckpoint + 1)]
  /\ UNCHANGED <<resultVars, finishedCarsCount, totalCars, raceEnded>>

WinsByCheat(c) == cmds # <<>> /\ Head(cmds) = [client |-> c, op |-> "WIN_RACE_CHEAT"]

Finishes(c) ==
  /\ Racing /\ CarFinishRace(c, AtCheckpoint(c, NumCheckpoints))
  /\ playerCars[c].actualCheckpoint + 1 = NumCheckpoints \/ WinsByCheat(c)
  /\ UNCHANGED totalCars

Closes == InRace /\ FinalizeDNFs

Resets == NextRace /\ raceIndex' < NumRaces

RaceStep ==
  \/ Rests
  \/ \E c \in Clients : Joins(c)
  \/ Starts
  \/ \E gone \in SUBSET Drivers : Departs(gone)
  \/ \E c \in Unfinished : Advances(c) \/ Finishes(c)
  \/ Closes
  \/ Resets

-----------------------------------------------------------------------------
(* Who has a result.                                                       *)
HasResult(c) == \E i \in DOMAIN lastRaceResults : lastRaceResults[i].playerId = c

(* Before a race nobody has a result; during it those have one who have    *)
(* finished, also if they have left since, and no result is of the future. *)
ResultsOK ==
  /\ Before => /\ lastRaceResults = <<>> /\ raceRanking = <<>> /\ finishedCarsCount = 0
               /\ Unfinished = Drivers
  /\ InRace => /\ Len(lastRaceResults) = Len(raceRanking)
               /\ \A i \in DOMAIN lastRaceResults : lastRaceResults[i].raceTime <= raceTime
               /\ \A c \in Drivers : playerCars[c].finished <=> HasResult(c)

LobbyOK ==
  Before => /\ worldEvents = <<>> /\ ~raceEnded /\ totalCars = Cardinality(Drivers) % 256
            /\ \A c \in Drivers : Fresh(playerCars[c])

RaceOK == OneResultPerPlayer /\ FinishOrder /\ TimesFollowResults /\ FinishedAtTheLine
          /\ NobodyForgotten /\ ResultsOK /\ LobbyOK

-----------------------------------------------------------------------------
(* Only a checkpoint or the WIN cheat moves a car on or finishes it, and   *)
(* only applyUpgrade, which leaves a fresh car fresh, upgrades it.         *)
LEMMA CarsKeepProgress ==
  ASSUME NEW car \in CarState
  PROVE  /\ SameProgress(car, Kill(car)) /\ SameUpgrades(car, Kill(car))
         /\ \A damage \in Nat : /\ SameProgress(car, ApplyDamage(car, damage))
                                /\ SameUpgrades(car, ApplyDamage(car, damage))
         /\ \A cheat \in Cheats : /\ SameProgress(car, ApplyCheat(car, cheat))
                                  /\ SameUpgrades(car, ApplyCheat(car, cheat))
         /\ \A u \in Upgrades : /\ SameProgress(car, ApplyUpgrade(car, u))
                                /\ car.upgrades \subseteq ApplyUpgrade(car, u).upgrades
                                /\ Fresh(car) => Fresh(ApplyUpgrade(car, u))
<1> USE DEF SameProgress, SameUpgrades
<1>1. SameProgress(car, Kill(car)) /\ SameUpgrades(car, Kill(car))
  BY DEF Kill, CarState
<1>2. \A damage \in Nat : /\ SameProgress(car, ApplyDamage(car, damage))
                          /\ SameUpgrades(car, ApplyDamage(car, damage))
  BY <1>1 DEF ApplyDamage, CarState
<1>3. \A cheat \in Cheats : /\ SameProgress(car, ApplyCheat(car, cheat))
                            /\ SameUpgrades(car, ApplyCheat(car, cheat))
  BY DEF ApplyCheat, CarState
<1>4. ASSUME NEW u \in Upgrades
      PROVE  /\ SameProgress(car, ApplyUpgrade(car, u))
             /\ car.upgrades \subseteq ApplyUpgrade(car, u).upgrades
             /\ Fresh(car) => Fresh(ApplyUpgrade(car, u))
  <2>1. car.health # 0 => BoostedHealth(car, u) # 0
    BY DEF BoostedHealth, CarState
  <2> QED
    BY <2>1 DEF ApplyUpgrade, Fresh, IsCarDestroy, CarState
<1> QED
  BY <1>1, <1>2, <1>3, <1>4

(* A step that replaces one car by another like it.                        *)
LEMMA OneCarRests ==
  ASSUME playerCars \in Cars, NEW c \in Drivers, NEW car \in CarState,
         playerCars' = [playerCars EXCEPT ![c] = car],
         SameProgress(playerCars[c], car),
         \/ SameUpgrades(playerCars[c], car)
         \/ ~raceStarted /\ playerCars[c].upgrades \subseteq car.upgrades,
         Before /\ Fresh(playerCars[c]) => Fresh(car)
  PROVE  CarsRest
<1>1. car # None /\ c \in Clients /\ playerCars[c] # None
  BY GameAssumption DEF Drivers
<1>2. Drivers' = Drivers
  BY <1>1 DEF Drivers, Cars
<1>3. \A d \in Drivers : playerCars'[d] = IF d = c THEN car ELSE playerCars[d]
  BY DEF Drivers, Cars
<1> QED
  BY <1>2, <1>3 DEF CarsRest, SameProgress, SameUpgrades

(* A step that leaves the cars alone.                                      *)
LEMMA UnchangedRests == UNCHANGED playerCars => CarsRest
  BY DEF CarsRest, Drivers, SameProgress, SameUpgrades

(* A hit leaves its cars where they are in the race.                       *)
LEMMA StrikeRests ==
  ASSUME playerCars \in Cars, NEW struck \in SUBSET Drivers, NEW damage \in [struck -> Nat],
         NEW times, Strike(struck, damage, times), ~Before
  PROVE  CarsRest
<1> DEFINE hurt(c) == ApplyDamage(playerCars[c], damage[c])
<1>1. ASSUME NEW c \in struck
      PROVE  /\ hurt(c) # None /\ SameProgress(playerCars[c], hurt(c))
             /\ SameUpgrades(playerCars[c], hurt(c))
  <2>1. playerCars[c] \in CarState /\ damage[c] \in Nat
    BY DEF Cars, Drivers
  <2>2. hurt(c) \in CarState
    BY <2>1, CarTypes
  <2> QED
    BY <2>1, <2>2, GameAssumption, CarsKeepProgress
<1>2. playerCars' = [c \in Clients |-> IF c \in struck THEN hurt(c) ELSE playerCars[c]]
  BY DEF Strike
<1> HIDE DEF hurt
<1>3. Drivers' = Drivers
  BY <1>1, <1>2 DEF Drivers
<1>4. ASSUME NEW c \in Drivers, c \notin struck PROVE playerCars'[c] = playerCars[c]
  BY <1>2, <1>4 DEF Drivers
<1>5. ASSUME NEW c \in struck PROVE playerCars'[c] = hurt(c)
  BY <1>2 DEF Drivers
<1> QED
  BY <1>1, <1>3, <1>4, <1>5 DEF CarsRest, SameProgress, SameUpgrades

(* setKillCar, as often as it is called, takes nothing off totalCars       *)
(* without a wreck.                                                        *)
LEMMA KillsWreck ==
  ASSUME totalCars \in 0..255, wrecked \in BOOLEAN, NEW n \in Nat, CountKills(n)
  PROVE  wrecked' \/ UNCHANGED <<totalCars, wrecked>>
<1>1. CASE n = 0
  <2>1. (totalCars + 256 - 0) % 256 = totalCars
    OBVIOUS
  <2>2. totalCars' = totalCars
    BY <1>1, <2>1 DEF CountKills
  <2>3. ~(n > 0)
    BY <1>1
  <2>4. wrecked' = wrecked
    BY <2>3, Zenon DEF CountKills
  <2> QED
    BY <2>2, <2>4, Zenon
<1>2. CASE n # 0
  <2>1. n > 0
    BY <1>2
  <2> QED
    BY <2>1, Zenon DEF CountKills
<1> QED
  BY <1>1, <1>2

-----------------------------------------------------------------------------
(* A command of the lobby gives a client its car, or changes no results.   *)
LEMMA LobbyCmdSteps ==
  ASSUME TypeOK, PhaseOK, LobbyCmd
  PROVE  Rests \/ \E c \in Clients : Joins(c)
<1> DEFINE cmd == Head(cmds)
           c == cmd.client
<1>1. c \in Clients
  <2>1. cmd \in Cmd
    BY DEF LobbyCmd, TypeOK
  <2> QED
    BY <2>1 DEF Cmd
<1>2. /\ InLobby /\ InLobby' /\ StageKept /\ ~raceStarted
      /\ UNCHANGED <<resultVars, finishedCarsCount, raceEnded, raceTime, wrecked, worldEvents,
                     raceIndex>>
  BY DEF LobbyCmd, InLobby, InRace, Before, StageKept, PhaseOK, eventVars
<1>3. ASSUME CarsRest, UNCHANGED totalCars PROVE Rests
  BY <1>2, <1>3 DEF Rests, CountsRest
<1>4. CASE UNCHANGED <<totalCars, playerVars>>
  BY <1>3, <1>4, UnchangedRests DEF playerVars
<1>5. CASE cmd.op \in Upgrades /\ LobbyUpgrade(c, cmd.op)
  <2>1. CASE UNCHANGED playerCars
    BY <1>3, <1>5, <2>1, UnchangedRests DEF LobbyUpgrade
  <2>2. CASE c \in Drivers /\ playerCars' = [playerCars EXCEPT ![c] = ApplyUpgrade(@, cmd.op)]
    <3> DEFINE car == ApplyUpgrade(playerCars[c], cmd.op)
    <3>1. playerCars \in Cars /\ playerCars[c] \in CarState
      BY <2>2 DEF TypeOK, Cars, Drivers
    <3>2. /\ car \in CarState /\ SameProgress(playerCars[c], car)
          /\ playerCars[c].upgrades \subseteq car.upgrades /\ (Fresh(playerCars[c]) => Fresh(car))
      BY <1>5, <3>1, CarTypes, CarsKeepProgress
    <3>3. playerCars' = [playerCars EXCEPT ![c] = car]
      BY <2>2
    <3> HIDE DEF car
    <3>4. CarsRest
      BY <1>2, <2>2, <3>1, <3>2, <3>3, OneCarRests
    <3> QED
      BY <1>3, <1>5, <3>4 DEF LobbyUpgrade
  <2> QED
    BY <1>5, <2>1, <2>2 DEF LobbyUpgrade, HandleRequestUpgrade
<1>6. CASE LobbyInitPlayer(c)
  <2>1. CASE CanInitPlayer
    <3>1. GetsCar(c) /\ totalCars' = Cardinality(Drivers') % 256
      BY <1>6, <2>1 DEF LobbyInitPlayer, InitPlayer, GetsCar, Drivers
    <3> QED
      BY <1>1, <1>2, <3>1 DEF Joins
  <2>2. CASE ~CanInitPlayer
    BY <1>4, <1>6, <2>2 DEF LobbyInitPlayer, InitPlayer
  <2> QED
    BY <2>1, <2>2
<1> QED
  BY <1>4, <1>5, <1>6 DEF LobbyCmd

(* A checkpoint event moves a car on, finishes it, or changes nothing.     *)
LEMMA CheckpointSteps ==
  ASSUME TypeOK, FinishedAtTheLine, NEW c \in Clients, NEW id \in 0..NumCheckpoints,
         CarHitCheckpoint(c, id), Racing, ~Before, StageKept, UNCHANGED totalCars
  PROVE  Rests \/ \E d \in Unfinished : Advances(d) \/ Finishes(d)
<1>1. CASE UNCHANGED <<playerCars, finishVars>>
  BY <1>1, UnchangedRests DEF Rests, CountsRest, Racing, finishVars
<1>2. CASE c \in Drivers /\ playerCars[c].actualCheckpoint + 1 = id
  <2>1. playerCars[c] \in CarState
    BY <1>2 DEF TypeOK, Drivers
  <2>2. c \in Unfinished
    <3>1. NumCheckpoints \in Nat /\ playerCars[c].actualCheckpoint \in Nat
      BY <2>1, CarAssumption DEF CarState
    <3>2. playerCars[c].actualCheckpoint # NumCheckpoints
      BY <1>2, <3>1
    <3> QED
      BY <1>2, <3>2 DEF FinishedAtTheLine, Unfinished
  <2>3. ~AtCheckpoint(c, id).finished
    BY <2>1, <2>2 DEF AtCheckpoint, CarState, Unfinished
  <2>4. CASE id = NumCheckpoints
    <3>1. CarFinishRace(c, AtCheckpoint(c, NumCheckpoints))
      BY <1>2, <2>3, <2>4 DEF CarHitCheckpoint, AtCheckpoint
    <3> QED
      BY <1>2, <2>2, <2>4, <3>1 DEF Finishes
  <2>5. CASE id # NumCheckpoints
    <3>1. playerCars' = [playerCars EXCEPT ![c] = AtCheckpoint(c, id)] /\ UNCHANGED finishVars
      BY <1>2, <2>5 DEF CarHitCheckpoint, AtCheckpoint
    <3>2. playerCars[c].actualCheckpoint + 1 < NumCheckpoints
      BY <1>2, <2>5, CarAssumption
    <3> QED
      BY <1>2, <2>2, <3>1, <3>2 DEF Advances, finishVars
  <2> QED
    BY <2>4, <2>5
<1> QED
  BY <1>1, <1>2 DEF CarHitCheckpoint

(* So does a world event; a hit may wreck cars.                            *)
LEMMA EventSteps ==
  ASSUME TypeOK, PhaseOK, FinishedAtTheLine, HandleWorldEvent
  PROVE  Rests \/ \E d \in Unfinished : Advances(d) \/ Finishes(d)
<1> DEFINE ev == Head(worldEvents)
<1>1. ev.cars \in SUBSET Clients /\ ev.checkpoint \in 0..NumCheckpoints
  <2>1. ev \in WorldEvent
    BY DEF HandleWorldEvent, TypeOK
  <2> QED
    BY <2>1 DEF WorldEvent
<1>2. InRace /\ InRace' /\ ~Before /\ StageKept /\ UNCHANGED <<raceIndex, raceTime>>
  BY DEF HandleWorldEvent, InRace, InLobby, Before, StageKept, phaseVars
<1>3. playerCars \in Cars /\ totalCars \in 0..255 /\ wrecked \in BOOLEAN
  BY DEF TypeOK, Cars
<1>4. Damages \subseteq Nat /\ Damages \cup {0} \subseteq Nat
  BY GameAssumption
<1>5. ASSUME CarsRest, UNCHANGED <<finishVars>>, wrecked' \/ UNCHANGED <<totalCars, wrecked>>
      PROVE  Rests
  BY <1>2, <1>5 DEF Rests, CountsRest, finishVars
<1>6. ASSUME SoftHit, UNCHANGED finishVars PROVE Rests
  BY <1>5, <1>6, UnchangedRests DEF SoftHit
<1>7. ASSUME NEW struck \in SUBSET Drivers, NEW damage \in [struck -> Nat], NEW times \in {1, 2},
             Strike(struck, damage, times), UNCHANGED finishVars
      PROVE  Rests
  <2> DEFINE dead == {c \in struck : IsCarDestroy(ApplyDamage(playerCars[c], damage[c]))}
  <2>1. CarsRest
    BY <1>2, <1>3, <1>7, StrikeRests
  <2>2. times * Cardinality(dead) \in Nat
    <3>1. Cardinality(dead) \in Nat
      BY ClientsFinite DEF Drivers
    <3> QED
      BY <3>1
  <2>3. CountKills(times * Cardinality(dead))
    BY <1>7 DEF Strike
  <2>4. wrecked' \/ UNCHANGED <<totalCars, wrecked>>
    BY <1>3, <2>2, <2>3, KillsWreck
  <2> QED
    BY <1>5, <1>7, <2>1, <2>4
<1>8. ASSUME NEW c \in ev.cars, CarHitCheckpoint(c, ev.checkpoint), UNCHANGED <<totalCars, wrecked>>
      PROVE  Rests \/ \E d \in Unfinished : Advances(d) \/ Finishes(d)
  BY <1>1, <1>2, <1>8, CheckpointSteps DEF Racing
<1>9. ASSUME NEW c \in ev.cars, CarHitBuilding(c), UNCHANGED finishVars PROVE Rests
  <2>1. CASE SoftHit
    BY <1>6, <1>9, <2>1
  <2>2. ASSUME c \in Drivers, NEW damage \in [{c} -> Damages], Strike({c}, damage, 1) PROVE Rests
    <3>1. damage \in [{c} -> Nat]
      BY <1>4
    <3> QED
      BY <1>7, <1>9, <2>2, <3>1
  <2> QED
    BY <1>9, <2>1, <2>2 DEF CarHitBuilding
<1>10. ASSUME CarHitCar(ev.cars), UNCHANGED finishVars PROVE Rests
  <2>1. CASE SoftHit
    BY <1>6, <1>10, <2>1
  <2>2. ASSUME ev.cars \subseteq Drivers, NEW damage \in [ev.cars -> Damages \cup {0}],
               NEW times \in {1, 2}, Strike(ev.cars, damage, times)
        PROVE  Rests
    <3>1. damage \in [ev.cars -> Nat]
      BY <1>4
    <3> QED
      BY <1>7, <1>10, <2>2, <3>1
  <2> QED
    BY <1>10, <2>1, <2>2 DEF CarHitCar
<1> QED
  BY <1>8, <1>9, <1>10 DEF HandleWorldEvent

(* A command of the race finishes or wrecks a car, cheats, or is refused.  *)
LEMMA RaceCmdSteps ==
  ASSUME TypeOK, PhaseOK, RaceCmd
  PROVE  Rests \/ \E d \in Unfinished : Finishes(d)
<1> DEFINE cmd == Head(cmds)
           c == cmd.client
<1>1. cmd \in Cmd /\ c \in Clients /\ cmds # <<>>
  <2>1. cmd \in Cmd /\ cmds # <<>>
    BY DEF RaceCmd, TypeOK
  <2> QED
    BY <2>1 DEF Cmd
<1>2. InRace /\ InRace' /\ ~Before /\ StageKept /\ UNCHANGED <<raceIndex, raceTime>>
  BY DEF RaceCmd, InRace, InLobby, Before, StageKept, phaseVars
<1>3. playerCars \in Cars /\ totalCars \in 0..255 /\ wrecked \in BOOLEAN
  BY DEF TypeOK, Cars
<1>4. ASSUME CarsRest, UNCHANGED <<finishVars>>, wrecked' \/ UNCHANGED <<totalCars, wrecked>>
      PROVE  Rests
  BY <1>2, <1>4 DEF Rests, CountsRest, finishVars
<1>5. CASE UNCHANGED <<playerCars, finishVars, totalCars, wrecked>>
  BY <1>4, <1>5, UnchangedRests
<1>6. ASSUME c \in Drivers PROVE playerCars[c] \in CarState
  BY <1>3, <1>6 DEF Cars, Drivers
<1>7. CASE cmd.op = "WIN_RACE_CHEAT" /\ ForcePlayerWin(c)
  <2>1. CASE c \in Unfinished
    <3>1. CarFinishRace(c, AtCheckpoint(c, NumCheckpoints)) /\ UNCHANGED <<totalCars, wrecked>>
      BY <1>7, <2>1 DEF ForcePlayerWin, AtCheckpoint
    <3>2. WinsByCheat(c)
      BY <1>1, <1>7 DEF WinsByCheat, Cmd
    <3> QED
      BY <1>2, <2>1, <3>1, <3>2 DEF Finishes, Racing
  <2>2. CASE c \notin Unfinished
    BY <1>5, <1>7, <2>2 DEF ForcePlayerWin
  <2> QED
    BY <2>1, <2>2
<1>8. CASE ForcePlayerLose(c)
  <2>1. CASE c \in Unfinished
    <3>1. c \in Drivers
      BY <2>1 DEF Unfinished
    <3>2. /\ playerCars' = [playerCars EXCEPT ![c] = Kill(playerCars[c])]
          /\ CountKills(1) /\ UNCHANGED finishVars
      BY <1>8, <2>1 DEF ForcePlayerLose
    <3>3. CarsRest
      BY <1>2, <1>3, <1>6, <3>1, <3>2, CarTypes, CarsKeepProgress, OneCarRests
    <3> QED
      BY <1>3, <1>4, <3>2, <3>3, KillsWreck
  <2>2. CASE c \notin Unfinished
    BY <1>5, <1>8, <2>2 DEF ForcePlayerLose
  <2> QED
    BY <2>1, <2>2
<1>9. CASE /\ cmd.op \in Cheats /\ CheatHandler(c, cmd.op)
           /\ UNCHANGED <<finishVars, totalCars, wrecked>>
  <2>1. CASE c \in Drivers
    <3> DEFINE car == ApplyCheat(playerCars[c], cmd.op)
    <3>1. car \in CarState /\ SameProgress(playerCars[c], car) /\ SameUpgrades(playerCars[c], car)
      BY <1>6, <1>9, <2>1, CarTypes, CarsKeepProgress
    <3>2. playerCars' = [playerCars EXCEPT ![c] = car]
      BY <1>9, <2>1 DEF CheatHandler
    <3> HIDE DEF car
    <3>3. CarsRest
      BY <1>2, <1>3, <2>1, <3>1, <3>2, OneCarRests
    <3> QED
      BY <1>4, <1>9, <3>3
  <2> QED
    BY <1>5, <1>9, <2>1 DEF CheatHandler
<1>10. CASE InitPlayer(c) /\ UNCHANGED <<finishVars, totalCars, wrecked>>
  <2>1. UNCHANGED playerVars
    BY <1>2, <1>10 DEF InitPlayer, CanInitPlayer, PhaseOK
  <2> QED
    BY <1>5, <1>10, <2>1 DEF playerVars
<1> QED
  BY <1>5, <1>7, <1>8, <1>9, <1>10 DEF RaceCmd, playerVars

(* The start of the race and the end of its results.                       *)
LEMMA LobbyExitStarts == TypeOK /\ PhaseOK /\ LobbyExit => Starts
  BY DEF LobbyExit, Starts, InLobby, InRace, countVars, playerVars, GoTo

(* The departure of the cars of clients that left.                         *)
LEMMA StatusDeparts ==
  ASSUME TypeOK, CheckPlayersStatus
  PROVE  \E gone \in SUBSET Drivers : Departs(gone)
<1>1. Departs(Drivers \ registry)
  BY DEF CheckPlayersStatus, Departs, Racing, InRace, phaseVars, GoTo
<1> QED
  BY <1>1

(* A frame: the world is stepped, and the clock is read.                   *)
LEMMA FrameRests ==
  ASSUME TypeOK, WorldStep
  PROVE  Rests
<1>1. CarsRest
  BY UnchangedRests DEF WorldStep, playerVars
<1>2. InRace /\ InRace' /\ ~Before /\ StageKept /\ UNCHANGED raceIndex
  BY DEF WorldStep, InRace, InLobby, Before, StageKept, phaseVars, GoTo
<1>3. TimePasses /\ UNCHANGED <<totalCars, wrecked>>
  BY DEF WorldStep, TimePasses
<1> QED
  BY <1>1, <1>2, <1>3 DEF Rests, CountsRest, WorldStep

(* The end of an iteration resets the race, unless it was the last.        *)
LEMMA NextRaceSteps ==
  ASSUME TypeOK, PhaseOK, NextRace
  PROVE  Rests \/ Resets
<1>1. CASE raceIndex' < NumRaces
  BY <1>1 DEF Resets
<1>2. CASE ~(raceIndex' < NumRaces)
  <2>1. raceIndex' = NumRaces /\ pc = "accumulate" /\ UNCHANGED playerCars
    BY <1>2, GameAssumption DEF NextRace, TypeOK, PhaseOK, InLobby, InRace
  <2>2. ~Before' /\ ~InRace' /\ ~Before /\ pc' # "accumulate"
    BY <2>1, GameAssumption DEF NextRace, Before, InLobby, InRace, GoTo
  <2> QED
    BY <1>2, <2>1, <2>2, UnchangedRests
    DEF NextRace, Rests, StageKept, CountsRest, countVars, resultVars
<1> QED
  BY <1>1, <1>2

(* The eight kinds of steps.                                               *)
LEMMA RaceSteps ==
  ASSUME TypeOK, PhaseOK, FinishedAtTheLine, [Next]_vars
  PROVE  RaceStep
<1> DEFINE Still == /\ StageKept
                    /\ UNCHANGED <<playerCars, resultVars, countVars, raceTime, wrecked,
                                   worldEvents, raceIndex>>
<1>1. Still => Rests
  BY UnchangedRests DEF Rests, CountsRest, countVars
<1> USE DEF phaseVars, playerVars, eventVars, StageKept, Before, InLobby, InRace, GoTo
<1>2. UNCHANGED vars => Still
  BY DEF vars
<1>3. EnterLobby \/ LobbyDrain \/ LobbyWait \/ DeadlinePasses => Still
  BY DEF EnterLobby, LobbyDrain, LobbyWait, DeadlinePasses
<1>4. RaceDrain \/ EndFrame => Still
  BY DEF RaceDrain, EndFrame
<1>5. UpdateGlobalStats \/ GameOver => Still
  BY DEF UpdateGlobalStats, GameOver
<1>6. Environment => Still
  BY <1>3 DEF Environment, Stop, JoinGame, AddClient, LeaveGame, PushCmd
<1>7. FinalizeDNFs => Closes
  BY DEF FinalizeDNFs, Closes
<1> HIDE DEF Still
<1> QED
  BY <1>1, <1>2, <1>3, <1>4, <1>5, <1>6, <1>7, LobbyExitStarts, StatusDeparts, FrameRests,
     NextRaceSteps, LobbyCmdSteps, RaceCmdSteps, EventSteps
  DEF RaceStep, Next, GameThread, Terminated

-----------------------------------------------------------------------------
(* RaceOK is kept by each kind of step.  First, those around the lobby.    *)

(* Where there are no results, nothing can be wrong with them.             *)
LEMMA NoResults ==
  ASSUME lastRaceResults' = <<>>, raceRanking' = <<>>, finishedCarsCount' = 0
  PROVE  OneResultPerPlayer' /\ FinishOrder' /\ TimesFollowResults' /\ \A c : ~HasResult(c)'
<1>1. DOMAIN lastRaceResults' = {} /\ Len(raceRanking') = 0 /\ Len(lastRaceResults') = 0
  OBVIOUS
<1> QED
  BY <1>1 DEF OneResultPerPlayer, FinishOrder, TimesFollowResults, HasResult

(* A client gets its car, or another body of the one it has.               *)
LEMMA JoinsKeepsResults ==
  ASSUME TypeOK, RaceOK, NEW c \in Clients, Joins(c)
  PROVE  RaceOK'
<1>1. /\ lastRaceResults' = <<>> /\ raceRanking' = <<>> /\ finishedCarsCount' = 0
      /\ worldEvents' = <<>> /\ ~raceEnded'
  BY DEF Joins, RaceOK, ResultsOK, LobbyOK, Before, resultVars
<1>2. Before /\ pc' # "accumulate" /\ ~InRace'
  BY DEF Joins, Before, InLobby, InRace
<1>3. \A d \in Drivers' : Fresh(playerCars'[d])
  <2>1. Fresh(NewCar(FirstFreeSpawn))
    BY CarAssumption DEF Fresh, NewCar, IsCarDestroy
  <2>2. \A d \in Drivers' : playerCars'[d] = NewCar(FirstFreeSpawn)
                            \/ (d \in Drivers /\ playerCars'[d] = playerCars[d])
    BY DEF Joins, GetsCar, CreateCarForClient, Drivers, TypeOK
  <2> QED
    BY <1>2, <2>1, <2>2 DEF RaceOK, LobbyOK
<1>4. FinishedAtTheLine' /\ Unfinished' = Drivers'
  BY <1>3, CarAssumption DEF FinishedAtTheLine, Unfinished, Fresh
<1>5. ResultsOK' /\ LobbyOK'
  BY <1>1, <1>2, <1>3, <1>4 DEF ResultsOK, LobbyOK, Joins
<1>6. NobodyForgotten'
  BY <1>2 DEF NobodyForgotten
<1> QED
  BY <1>1, <1>4, <1>5, <1>6, NoResults DEF RaceOK

(* The race starts.                                                        *)
LEMMA StartsKeepsResults ==
  ASSUME TypeOK, RaceOK, Starts
  PROVE  RaceOK'
<1>1. /\ lastRaceResults' = <<>> /\ raceRanking' = <<>> /\ finishedCarsCount' = 0
      /\ \A c \in Drivers : Fresh(playerCars[c])
  BY DEF Starts, RaceOK, ResultsOK, LobbyOK, Before, resultVars
<1>2. pc' # "accumulate" /\ ~Before' /\ InRace'
  BY DEF Starts, Before, InLobby, InRace
<1>3. Drivers' = Drivers /\ \A c \in Drivers : playerCars'[c] = playerCars[c]
  BY DEF Starts, Drivers
<1>4. FinishedAtTheLine'
  BY <1>3 DEF RaceOK, FinishedAtTheLine
<1>5. ResultsOK' /\ LobbyOK'
  BY <1>1, <1>2, <1>3, NoResults DEF ResultsOK, LobbyOK, Fresh
<1>6. NobodyForgotten'
  BY <1>2 DEF NobodyForgotten
<1> QED
  BY <1>1, <1>4, <1>5, <1>6, NoResults DEF RaceOK

(* The next race is prepared.                                              *)
LEMMA ResetsKeepsResults ==
  ASSUME TypeOK, RaceOK, Resets
  PROVE  RaceOK'
<1>1. /\ lastRaceResults' = <<>> /\ raceRanking' = <<>> /\ finishedCarsCount' = 0
      /\ worldEvents' = <<>> /\ ~raceEnded'
  BY DEF Resets, NextRace, ResetRaceState
<1>2. pc' = "outer" /\ pc' # "accumulate" /\ ~InRace'
  BY DEF Resets, NextRace, GoTo, InRace
<1>3. PICK place : playerCars' = [c \in Clients |->
        IF c \in Drivers THEN ResetForNewRace(playerCars[c], SpotOf(place[c])) ELSE None]
  BY DEF Resets, NextRace, ResetRaceState
<1>4. Drivers' \subseteq Drivers
  BY <1>3 DEF Drivers
<1>5. \A c \in Drivers' : Fresh(playerCars'[c])
  BY <1>3, <1>4, CarAssumption DEF Fresh, NewCar, IsCarDestroy, ResetForNewRace, Drivers
<1>6. FinishedAtTheLine' /\ Unfinished' = Drivers'
  BY <1>5, CarAssumption DEF FinishedAtTheLine, Unfinished, Fresh
<1>7. totalCars' = Cardinality(Drivers') % 256
  <2>1. NextRace
    BY DEF Resets
  <2>2. NewGrid
    BY <2>1, NextRaceGrid
  <2> QED
    BY <2>2 DEF NewGrid, Resets, NextRace, ResetRaceState
<1>8. ResultsOK' /\ LobbyOK'
  BY <1>1, <1>2, <1>5, <1>6, <1>7 DEF ResultsOK, LobbyOK
<1>9. NobodyForgotten'
  BY <1>2 DEF NobodyForgotten
<1> QED
  BY <1>1, <1>6, <1>8, <1>9, NoResults DEF RaceOK

-----------------------------------------------------------------------------
(* Then those that leave the results, the ranking and the finishers alone. *)

(* A finisher who is still there after the step was there before it, with  *)
(* the same place and time.                                                *)
LEMMA SameFinishers ==
  ASSUME RaceOK, UNCHANGED <<resultVars, finishedCarsCount>>, Drivers' \subseteq Drivers,
         \A c \in Drivers' : playerCars[c].finished => SameProgress(playerCars[c], playerCars'[c])
  PROVE  OneResultPerPlayer' /\ FinishOrder' /\ TimesFollowResults'
<1>1. /\ lastRaceResults' = lastRaceResults /\ raceRanking' = raceRanking
      /\ finishedCarsCount' = finishedCarsCount
  BY DEF resultVars
<1>2. OneResultPerPlayer' /\ TimesFollowResults'
  BY <1>1 DEF RaceOK, OneResultPerPlayer, TimesFollowResults
<1>3. FinishOrder'
  BY <1>1 DEF RaceOK, FinishOrder, SameProgress
<1> QED
  BY <1>2, <1>3

(* The cars stay where they are; time may pass.                            *)
LEMMA RestsKeepsResults ==
  ASSUME TypeOK, RaceOK, Rests
  PROVE  RaceOK'
<1>1. /\ Drivers' = Drivers
      /\ \A c \in Drivers : SameProgress(playerCars[c], playerCars'[c])
      /\ lastRaceResults' = lastRaceResults /\ raceRanking' = raceRanking
      /\ finishedCarsCount' = finishedCarsCount
  BY DEF Rests, CarsRest, resultVars
<1>2. OneResultPerPlayer' /\ FinishOrder' /\ TimesFollowResults'
  BY <1>1, SameFinishers DEF Rests
<1>3. FinishedAtTheLine'
  BY <1>1 DEF RaceOK, FinishedAtTheLine, SameProgress
<1>4. NobodyForgotten'
  BY <1>1 DEF RaceOK, NobodyForgotten, SameProgress, Rests, StageKept
<1>5. ResultsOK'
  <2>1. Unfinished' = Unfinished
    BY <1>1 DEF Unfinished, SameProgress
  <2>2. raceTime \in Nat /\ raceTime' \in Nat /\ raceTime <= raceTime'
    BY DEF Rests, CountsRest, TimePasses, TypeOK
  <2>3. ASSUME InRace'
        PROVE  \A i \in DOMAIN lastRaceResults' : lastRaceResults'[i].raceTime <= raceTime'
    <3> SUFFICES ASSUME NEW i \in DOMAIN lastRaceResults
                 PROVE  lastRaceResults[i].raceTime <= raceTime'
      BY <1>1
    <3>1. lastRaceResults[i].raceTime <= raceTime
      BY <2>3 DEF RaceOK, ResultsOK, Rests, StageKept
    <3>2. lastRaceResults[i].raceTime \in Nat
      <4>1. lastRaceResults[i] \in RaceResult
        BY DEF TypeOK
      <4> QED
        BY <4>1 DEF RaceResult
    <3> QED
      BY <2>2, <3>1, <3>2
  <2> QED
    BY <1>1, <2>1, <2>3 DEF RaceOK, ResultsOK, Rests, StageKept, HasResult, SameProgress
<1>6. LobbyOK'
  <2> SUFFICES ASSUME Before' PROVE LobbyOK'
    BY DEF LobbyOK
  <2>1. Before /\ worldEvents' = worldEvents
    BY DEF Rests, StageKept
  <2>2. ~InRace
    BY <2>1 DEF Before, InLobby, InRace
  <2> QED
    BY <1>1, <2>1, <2>2 DEF RaceOK, LobbyOK, Rests, CarsRest, CountsRest
<1> QED
  BY <1>2, <1>3, <1>4, <1>5, <1>6 DEF RaceOK

(* Cars are taken away; what they have driven stays in the results.        *)
LEMMA DepartsKeepsResults ==
  ASSUME TypeOK, RaceOK, NEW gone \in SUBSET Drivers, Departs(gone)
  PROVE  RaceOK'
<1>1. /\ Drivers' = Drivers \ gone
      /\ \A c \in Drivers' : c \in Drivers /\ playerCars'[c] = playerCars[c]
      /\ lastRaceResults' = lastRaceResults /\ raceRanking' = raceRanking
      /\ raceTime' = raceTime
  BY DriversAfterDeparture DEF Departs, Racing, resultVars
<1>2. OneResultPerPlayer' /\ FinishOrder' /\ TimesFollowResults'
  BY <1>1, SameFinishers DEF Departs, SameProgress
<1>3. FinishedAtTheLine'
  BY <1>1 DEF RaceOK, FinishedAtTheLine
<1>4. InRace /\ InRace' /\ ~Before' /\ pc' # "accumulate"
  BY DEF Departs, Racing, InRace, Before, InLobby
<1>5. ResultsOK' /\ LobbyOK' /\ NobodyForgotten'
  BY <1>1, <1>4 DEF RaceOK, ResultsOK, LobbyOK, NobodyForgotten, HasResult
<1> QED
  BY <1>2, <1>3, <1>5 DEF RaceOK

(* A car that moves on to the next checkpoint.                             *)
LEMMA AdvancesKeepsResults ==
  ASSUME TypeOK, RaceOK, NEW c \in Unfinished, Advances(c)
  PROVE  RaceOK'
<1> DEFINE car == AtCheckpoint(c, playerCars[c].actualCheckpoint + 1)
<1>1. c \in Clients /\ c \in Drivers /\ ~playerCars[c].finished /\ playerCars[c] \in CarState
  BY DEF Unfinished, Drivers, TypeOK
<1>2. /\ car # None /\ ~car.finished /\ car.actualCheckpoint # NumCheckpoints
  <2>1. playerCars[c].actualCheckpoint \in Nat /\ NumCheckpoints \in Nat
    BY <1>1, CarAssumption DEF CarState
  <2>2. playerCars[c].actualCheckpoint + 1 \in 0..NumCheckpoints
    BY <2>1 DEF Advances
  <2>3. car \in CarState
    BY <1>1, <2>2, CarTypes DEF AtCheckpoint
  <2> QED
    BY <1>1, <2>1, <2>3, GameAssumption DEF AtCheckpoint, CarState, Advances
<1>3. playerCars' = [playerCars EXCEPT ![c] = car]
  BY DEF Advances
<1> HIDE DEF car
<1>4. /\ Drivers' = Drivers /\ playerCars'[c] = car
      /\ \A d \in Drivers : d # c => playerCars'[d] = playerCars[d]
  BY <1>1, <1>2, <1>3 DEF Drivers, TypeOK
<1>5. OneResultPerPlayer' /\ FinishOrder' /\ TimesFollowResults'
  BY <1>1, <1>4, SameFinishers DEF Advances, SameProgress
<1>6. FinishedAtTheLine'
  BY <1>2, <1>4 DEF RaceOK, FinishedAtTheLine
<1>7. InRace /\ InRace' /\ ~Before' /\ pc' # "accumulate" /\ raceTime' = raceTime
  BY DEF Advances, Racing, InRace, Before, InLobby
<1>8. ResultsOK' /\ LobbyOK' /\ NobodyForgotten'
  BY <1>1, <1>2, <1>4, <1>7 DEF RaceOK, ResultsOK, LobbyOK, NobodyForgotten, HasResult, Advances,
     resultVars
<1> QED
  BY <1>5, <1>6, <1>8 DEF RaceOK

-----------------------------------------------------------------------------
(* Last, the two that write results.                                       *)

(* The byte that counts the finishers counts one more.                     *)
LEMMA NextByte == \A n \in Nat : ((n % 256) + 1) % 256 = (n + 1) % 256
  OBVIOUS

(* A car that is taken to the last checkpoint and marked as finished.      *)
CarAtTheLine(c, place) == MarkFinished(AtCheckpoint(c, NumCheckpoints), raceTime, place)

(* It shows the place and the time.                                        *)
LEMMA CarShowsFinish ==
  ASSUME TypeOK, NEW c \in Unfinished, NEW place \in 0..255, NEW car,
         car = CarAtTheLine(c, place)
  PROVE  /\ car # None /\ car.finished /\ car.actualCheckpoint = NumCheckpoints
         /\ car.ranking = place /\ car.finishTime = raceTime
<1> DEFINE before == AtCheckpoint(c, NumCheckpoints)
<1>1. playerCars[c] \in CarState /\ NumCheckpoints \in 0..NumCheckpoints /\ raceTime \in Nat
  BY CarAssumption DEF Unfinished, Drivers, TypeOK
<1>2. before \in CarState
  BY <1>1, CarTypes DEF AtCheckpoint
<1>3. before.actualCheckpoint = NumCheckpoints
  BY <1>1 DEF AtCheckpoint, CarState
<1>4. car \in CarState
  BY <1>1, <1>2, CarTypes DEF CarAtTheLine
<1> QED
  BY <1>2, <1>3, <1>4, GameAssumption DEF CarAtTheLine, MarkFinished, CarState

(* A car that finishes: a result and a place behind those there are.       *)
LEMMA FinishesKeepsResults ==
  ASSUME TypeOK, RaceOK, NEW c \in Unfinished, Finishes(c)
  PROVE  RaceOK'
<1> DEFINE n == Len(raceRanking)
           place == (n + 1) % 256
           car == CarAtTheLine(c, place)
           r == [playerId |-> c, raceTime |-> raceTime, position |-> place, finished |-> TRUE]
<1>1. c \in Clients /\ c \in Drivers /\ ~playerCars[c].finished
  BY DEF Unfinished, Drivers
<1>2. InRace /\ InRace' /\ ~Before' /\ pc' # "accumulate" /\ raceTime' = raceTime
  BY DEF Finishes, Racing, InRace, Before, InLobby
<1>3. /\ n \in Nat /\ Len(lastRaceResults) = n /\ finishedCarsCount = n % 256
      /\ raceRanking \in Seq(Clients) /\ lastRaceResults \in Seq(RaceResult) /\ raceTime \in Nat
  BY <1>2 DEF RaceOK, ResultsOK, FinishOrder, TypeOK
<1>4. finishedCarsCount' = place /\ place \in 0..255
  <2>1. finishedCarsCount' = (finishedCarsCount + 1) % 256
    BY DEF Finishes, CarFinishRace
  <2>2. n + 1 \in Nat
    BY <1>3
  <2> QED
    BY <1>3, <2>1, <2>2, NextByte, Byte
<1>5. car # None /\ car.finished /\ car.actualCheckpoint = NumCheckpoints
      /\ car.ranking = place /\ car.finishTime = raceTime
  <2> HIDE DEF place
  <2> QED
    BY <1>4, CarShowsFinish
<1>6. /\ playerCars' = [playerCars EXCEPT ![c] = car]
      /\ lastRaceResults' = Append(lastRaceResults, r) /\ raceRanking' = Append(raceRanking, c)
  BY <1>4 DEF Finishes, CarFinishRace, RecordFinish, CarAtTheLine
<1>7. r.playerId = c /\ r.raceTime = raceTime /\ r.position = place /\ r.finished
  OBVIOUS
<1> HIDE DEF car, r
<1>8. /\ Drivers' = Drivers /\ playerCars'[c] = car
      /\ \A d \in Drivers : d # c => playerCars'[d] = playerCars[d]
  BY <1>1, <1>5, <1>6 DEF Drivers, TypeOK
<1>9. /\ DOMAIN lastRaceResults = 1..n /\ DOMAIN lastRaceResults' = 1..(n + 1)
      /\ Len(lastRaceResults') = n + 1 /\ Len(raceRanking') = n + 1
      /\ lastRaceResults'[n + 1] = r /\ raceRanking'[n + 1] = c
      /\ \A i \in 1..n : /\ lastRaceResults'[i] = lastRaceResults[i]
                         /\ raceRanking'[i] = raceRanking[i]
  BY <1>3, <1>6
<1> HIDE DEF n, place
<1>10. \A i \in 1..n : lastRaceResults[i].playerId # c /\ lastRaceResults[i].raceTime <= raceTime
  BY <1>1, <1>2, <1>9 DEF RaceOK, ResultsOK, HasResult
<1>11. 1..(n + 1) = 1..n \cup {n + 1}
  BY <1>3
<1>12. OneResultPerPlayer'
  BY <1>7, <1>9, <1>10, <1>11 DEF OneResultPerPlayer, RaceOK
<1>13. TimesFollowResults'
  <2>1. \A i \in 1..n : ~(n + 1 <= i)
    BY <1>3
  <2> QED
    BY <1>3, <1>7, <1>9, <1>10, <1>11, <2>1 DEF TimesFollowResults, RaceOK
<1>14. FinishOrder'
  <2>1. finishedCarsCount' = Len(raceRanking') % 256 /\ Len(raceRanking') <= Len(lastRaceResults')
    BY <1>3, <1>4, <1>9 DEF place
  <2>2. ASSUME NEW i \in DOMAIN lastRaceResults'
        PROVE  LET s == lastRaceResults'[i] IN
                 /\ s.finished <=> i <= Len(raceRanking')
                 /\ s.finished => s.playerId = raceRanking'[i] /\ s.position = i % 256
                 /\ s.finished /\ s.playerId \in Drivers' =>
                      LET old == playerCars'[s.playerId] IN
                        old.finished /\ old.ranking = s.position /\ old.finishTime = s.raceTime
    <3>1. CASE i = n + 1
      BY <1>3, <1>5, <1>7, <1>8, <1>9, <3>1 DEF place
    <3>2. CASE i \in 1..n
      <4>1. i <= n /\ i <= n + 1 /\ n \in Nat /\ n = Len(raceRanking)
        BY <1>3, <3>2 DEF n
      <4> QED
        BY <1>8, <1>9, <1>10, <3>2, <4>1 DEF RaceOK, FinishOrder
    <3> QED
      BY <1>9, <1>11, <3>1, <3>2
  <2> QED
    BY <2>1, <2>2 DEF FinishOrder
<1>15. FinishedAtTheLine'
  BY <1>5, <1>8 DEF RaceOK, FinishedAtTheLine
<1>16. ResultsOK' /\ LobbyOK' /\ NobodyForgotten'
  <2>1. \A d : HasResult(d)' <=> HasResult(d) \/ d = c
    BY <1>7, <1>9, <1>11 DEF HasResult
  <2>2. \A i \in DOMAIN lastRaceResults' : lastRaceResults'[i].raceTime <= raceTime'
    BY <1>2, <1>3, <1>7, <1>9, <1>10, <1>11
  <2>3. \A d \in Drivers' : playerCars'[d].finished <=> HasResult(d)'
    BY <1>2, <1>5, <1>8, <2>1 DEF RaceOK, ResultsOK
  <2> QED
    BY <1>2, <1>9, <2>2, <2>3 DEF ResultsOK, LobbyOK, NobodyForgotten
<1> QED
  BY <1>12, <1>13, <1>14, <1>15, <1>16 DEF RaceOK

(* The results are closed: whoever has not finished is put behind.         *)
LEMMA ClosesKeepsResults ==
  ASSUME TypeOK, RaceOK, Closes
  PROVE  RaceOK'
<1> DEFINE n == Len(lastRaceResults)
           m == Cardinality(Unfinished)
<1>1. PICK order \in Bijection(1..m, Unfinished) :
        lastRaceResults' = lastRaceResults \o [i \in DOMAIN order |-> DNF(order[i])]
  BY DEF Closes, FinalizeDNFs
<1> DEFINE late == [i \in DOMAIN order |-> DNF(order[i])]
<1>2. InRace /\ ~InRace' /\ ~Before' /\ pc' = "accumulate"
  BY DEF Closes, FinalizeDNFs, GoTo, InRace, Before, InLobby
<1>3. /\ n \in Nat /\ m \in Nat /\ Len(raceRanking) = n
      /\ lastRaceResults \in Seq(RaceResult) /\ raceTime \in Nat
  BY <1>2, ClientsFinite DEF RaceOK, ResultsOK, TypeOK, Unfinished, Drivers
<1>4. /\ DOMAIN order = 1..m
      /\ \A k \in 1..m : order[k] \in Unfinished
      /\ \A k, l \in 1..m : order[k] = order[l] => k = l
      /\ \A c \in Unfinished : \E k \in 1..m : order[k] = c
  BY DEF Bijection, Injection, Surjection, IsInjective
<1>5. /\ \A k \in 1..m : late[k] = DNF(order[k])
      /\ late \in Seq({DNF(c) : c \in Unfinished}) /\ Len(late) = m
  BY <1>3, <1>4
<1>6. \A c : DNF(c).playerId = c /\ DNF(c).raceTime = raceTime /\ ~DNF(c).finished
  BY DEF DNF
<1>7. lastRaceResults' = lastRaceResults \o late
  BY <1>1
<1> HIDE DEF late
<1>8. /\ DOMAIN lastRaceResults = 1..n /\ DOMAIN lastRaceResults' = 1..(n + m)
      /\ Len(lastRaceResults') = n + m
      /\ \A i \in 1..n : lastRaceResults'[i] = lastRaceResults[i]
      /\ \A k \in 1..m : lastRaceResults'[n + k] = DNF(order[k])
  <2> DEFINE S == RaceResult \cup {DNF(c) : c \in Unfinished}
  <2>0. DOMAIN lastRaceResults = 1..n /\ n = Len(lastRaceResults)
    BY <1>3
  <2>1. /\ Len(lastRaceResults') = n + m /\ lastRaceResults' \in Seq(S)
        /\ \A i \in 1..(n + m) : lastRaceResults'[i] = IF i <= n THEN lastRaceResults[i]
                                                                  ELSE late[i - n]
    <3>1. lastRaceResults \in Seq(S)
      <4>1. RaceResult \subseteq S
        OBVIOUS
      <4> QED
        BY <1>3, <4>1
    <3>2. late \in Seq(S)
      <4>1. {DNF(c) : c \in Unfinished} \subseteq S
        OBVIOUS
      <4> QED
        BY <1>5, <4>1
    <3> HIDE DEF S
    <3> QED
      BY <1>5, <1>7, <3>1, <3>2, ConcatProperties
  <2>2. \A k \in 1..m : n + k \in 1..(n + m) /\ ~(n + k <= n) /\ (n + k) - n = k
    BY <1>3
  <2>3. \A i \in 1..n : i \in 1..(n + m) /\ i <= n
    BY <1>3
  <2>4. DOMAIN lastRaceResults' = 1..(n + m)
    BY <2>1
  <2> QED
    BY <1>5, <2>0, <2>1, <2>2, <2>3, <2>4
<1> HIDE DEF n, m
<1>9. \A i \in 1..(n + m) : i \in 1..n \/ \E k \in 1..m : i = n + k
  <2>1. \A i \in 1..(n + m) : i \notin 1..n => i - n \in 1..m /\ i = n + (i - n)
    BY <1>3
  <2> QED
    BY <2>1
<1>10. \A i \in 1..n : /\ lastRaceResults[i].playerId \notin Unfinished
                       /\ lastRaceResults[i].raceTime <= raceTime
  BY <1>2, <1>8 DEF RaceOK, ResultsOK, HasResult, Unfinished
<1>11. UNCHANGED <<playerCars, Drivers, raceRanking, finishedCarsCount, raceTime>>
  BY DEF Closes, FinalizeDNFs, Drivers, playerVars, countVars
<1>12. OneResultPerPlayer'
  <2>1. ASSUME NEW i \in 1..(n + m), NEW j \in 1..(n + m),
               lastRaceResults'[i].playerId = lastRaceResults'[j].playerId
        PROVE  i = j
    <3>1. CASE i \in 1..n /\ j \in 1..n
      BY <1>8, <2>1, <3>1 DEF RaceOK, OneResultPerPlayer
    <3>2. ASSUME NEW k \in 1..m, i = n + k PROVE i = j
      BY <1>4, <1>6, <1>8, <1>9, <1>10, <2>1, <3>2
    <3>3. ASSUME NEW k \in 1..m, j = n + k PROVE i = j
      BY <1>4, <1>6, <1>8, <1>9, <1>10, <2>1, <3>3
    <3> QED
      BY <1>9, <3>1, <3>2, <3>3
  <2> QED
    BY <1>8, <2>1 DEF OneResultPerPlayer
<1>13. TimesFollowResults'
  <2>1. ASSUME NEW i \in 1..(n + m), NEW j \in 1..(n + m), i <= j
        PROVE  lastRaceResults'[i].raceTime <= lastRaceResults'[j].raceTime
    <3>1. CASE j \in 1..n
      <4>1. i \in 1..n
        BY <1>3, <2>1, <3>1
      <4> QED
        BY <1>8, <2>1, <3>1, <4>1 DEF RaceOK, TimesFollowResults
    <3>2. ASSUME NEW k \in 1..m, j = n + k
          PROVE  lastRaceResults'[i].raceTime <= lastRaceResults'[j].raceTime
      <4>1. lastRaceResults'[j].raceTime = raceTime
        BY <1>6, <1>8, <3>2
      <4>2. lastRaceResults'[i].raceTime <= raceTime
        <5>1. CASE i \in 1..n
          BY <1>8, <1>10, <5>1
        <5>2. CASE \E l \in 1..m : i = n + l
          <6>1. lastRaceResults'[i].raceTime = raceTime
            BY <1>6, <1>8, <5>2
          <6> QED
            BY <1>3, <6>1
        <5> QED
          BY <1>9, <5>1, <5>2
      <4> QED
        BY <4>1, <4>2
    <3> QED
      BY <1>9, <3>1, <3>2
  <2> QED
    BY <1>8, <2>1 DEF TimesFollowResults
<1>14. FinishOrder'
  <2>1. Len(raceRanking') <= Len(lastRaceResults') /\ finishedCarsCount' = Len(raceRanking') % 256
    BY <1>3, <1>8, <1>11 DEF RaceOK, FinishOrder
  <2>2. ASSUME NEW i \in DOMAIN lastRaceResults'
        PROVE  LET s == lastRaceResults'[i] IN
                 /\ s.finished <=> i <= Len(raceRanking')
                 /\ s.finished => s.playerId = raceRanking'[i] /\ s.position = i % 256
                 /\ s.finished /\ s.playerId \in Drivers' =>
                      LET old == playerCars'[s.playerId] IN
                        old.finished /\ old.ranking = s.position /\ old.finishTime = s.raceTime
    <3>1. CASE i \in 1..n
      BY <1>8, <1>11, <3>1 DEF RaceOK, FinishOrder
    <3>2. ASSUME NEW k \in 1..m, i = n + k
          PROVE  ~lastRaceResults'[i].finished /\ ~(i <= Len(raceRanking'))
      <4>1. ~(i <= n) /\ Len(raceRanking') = n
        BY <1>3, <1>11, <3>2
      <4>2. lastRaceResults'[i] = DNF(order[k])
        BY <1>8, <3>2
      <4> QED
        BY <1>6, <4>1, <4>2
    <3> QED
      BY <1>8, <1>9, <3>1, <3>2
  <2> QED
    BY <2>1, <2>2 DEF FinishOrder
<1>15. FinishedAtTheLine'
  BY <1>11 DEF RaceOK, FinishedAtTheLine
<1>16. NobodyForgotten'
  <2>1. ASSUME NEW c \in Drivers
        PROVE  \E i \in DOMAIN lastRaceResults' :
                 /\ lastRaceResults'[i].playerId = c
                 /\ lastRaceResults'[i].finished = playerCars[c].finished
    <3>1. CASE playerCars[c].finished
      <4>1. PICK i \in 1..n : lastRaceResults[i].playerId = c
        BY <1>2, <1>8, <3>1 DEF RaceOK, ResultsOK, HasResult
      <4>2. lastRaceResults[i].finished
        BY <1>3, <1>8 DEF RaceOK, FinishOrder
      <4>3. i \in DOMAIN lastRaceResults' /\ lastRaceResults'[i] = lastRaceResults[i]
        BY <1>3, <1>8
      <4>4. lastRaceResults[i].finished \in BOOLEAN /\ playerCars[c].finished \in BOOLEAN
        <5>1. lastRaceResults[i] \in RaceResult /\ playerCars[c] \in CarState
          BY <1>3, <1>8 DEF Drivers, TypeOK
        <5> QED
          BY <5>1 DEF RaceResult, CarState
      <4> QED
        BY <3>1, <4>1, <4>2, <4>3, <4>4
    <3>2. CASE ~playerCars[c].finished
      <4>1. PICK k \in 1..m : order[k] = c
        BY <1>4, <3>2 DEF Unfinished
      <4>2. n + k \in DOMAIN lastRaceResults' /\ lastRaceResults'[n + k] = DNF(c)
        BY <1>3, <1>8, <4>1
      <4>3. DNF(c).finished = FALSE /\ playerCars[c].finished = FALSE
        <5>1. playerCars[c] \in CarState
          BY DEF Drivers, TypeOK
        <5> QED
          BY <3>2, <5>1 DEF DNF, CarState
      <4> QED
        BY <1>6, <4>2, <4>3
    <3> QED
      BY <3>1, <3>2
  <2> QED
    BY <1>11, <2>1 DEF NobodyForgotten
<1>17. ResultsOK' /\ LobbyOK'
  BY <1>2 DEF ResultsOK, LobbyOK
<1> QED
  BY <1>12, <1>13, <1>14, <1>15, <1>16, <1>17 DEF RaceOK

-----------------------------------------------------------------------------
(* A game begins in front of its first lobby, without a car.               *)
LEMMA InitResults == GameInit => RaceOK
<1> SUFFICES ASSUME GameInit PROVE RaceOK
  OBVIOUS
<1>1. /\ lastRaceResults = <<>> /\ raceRanking = <<>> /\ worldEvents = <<>> /\ Drivers = {}
      /\ finishedCarsCount = 0 /\ totalCars = 0 /\ raceEnded = FALSE /\ pc = "outer"
  BY DEF GameInit, Drivers
<1>2. ~InRace /\ pc # "accumulate" /\ Unfinished = {}
  BY <1>1 DEF InRace, Unfinished
<1>3. DOMAIN lastRaceResults = {} /\ Len(lastRaceResults) = 0 /\ Len(raceRanking) = 0
  BY <1>1
<1>4. totalCars = Cardinality(Drivers) % 256
  BY <1>1, FS_EmptySet
<1> QED
  BY <1>1, <1>2, <1>3, <1>4 DEF RaceOK, OneResultPerPlayer, FinishOrder, TimesFollowResults,
     FinishedAtTheLine, NobodyForgotten, ResultsOK, LobbyOK

(* Every step keeps the results as they should be.                         *)
LEMMA NextResults ==
  ASSUME TypeOK, PhaseOK, RaceOK, [Next]_vars
  PROVE  RaceOK'
<1>1. RaceStep
  BY RaceSteps DEF RaceOK
<1> QED
  BY <1>1, RestsKeepsResults, JoinsKeepsResults, StartsKeepsResults, DepartsKeepsResults,
     AdvancesKeepsResults, FinishesKeepsResults, ClosesKeepsResults, ResetsKeepsResults
  DEF RaceStep

(* The inductive invariant of the results.                                 *)
THEOREM ResultsAreSound == Spec => []RaceOK
<1>1. TypeOK /\ PhaseOK /\ RaceOK /\ [Next]_vars => RaceOK'
  BY NextResults
<1> QED
  BY <1>1, InitResults, TypeCorrect, PTL DEF Spec

(* No player gets two results of one race.                                 *)
THEOREM OneResultEach == Spec => []OneResultPerPlayer
<1>1. RaceOK => OneResultPerPlayer
  BY DEF RaceOK
<1> QED
  BY <1>1, ResultsAreSound, PTL

(* The finishers of the results are the ranking, numbered without a gap,   *)
(* and the cars show the same places and times.                            *)
THEOREM FinishersAreOrdered == Spec => []FinishOrder
<1>1. RaceOK => FinishOrder
  BY DEF RaceOK
<1> QED
  BY <1>1, ResultsAreSound, PTL

(* Nobody has a better time than whoever comes before in the results.      *)
THEOREM TimesAreOrdered == Spec => []TimesFollowResults
<1>1. RaceOK => TimesFollowResults
  BY DEF RaceOK
<1> QED
  BY <1>1, ResultsAreSound, PTL

(* A car has finished exactly when it stands at the last checkpoint.       *)
THEOREM FinishIsTheLine == Spec => []FinishedAtTheLine
<1>1. RaceOK => FinishedAtTheLine
  BY DEF RaceOK
<1> QED
  BY <1>1, ResultsAreSound, PTL

(* Everybody with a car at the end of a race is in its results, and as     *)
(* finished exactly if the car says so.                                    *)
THEOREM NobodyIsForgotten == Spec => []NobodyForgotten
<1>1. RaceOK => NobodyForgotten
  BY DEF RaceOK
<1> QED
  BY <1>1, ResultsAreSound, PTL

(* The lobby of every race starts from zero: no result of the race before, *)
(* no event, every car unhurt, at checkpoint 0 and counted.                *)
THEOREM LobbyStartsClean == Spec => []LobbyIsClean
<1>1. RaceOK => LobbyIsClean
  BY DEF RaceOK, ResultsOK, LobbyOK, LobbyIsClean, Before, Fresh
<1> QED
  BY <1>1, ResultsAreSound, PTL

-----------------------------------------------------------------------------
(* What a step may do to the cars that stay.                               *)

(* A car passes the checkpoints one by one; only the WIN cheat skips some, *)
(* and only a new race starts them again.                                  *)
THEOREM CheckpointsPassInOrder == Spec => CheckpointsInOrder
<1> DEFINE Passes(c) ==
      LET before == playerCars[c].actualCheckpoint
          after  == playerCars'[c].actualCheckpoint
      IN  \/ after \in {before, before + 1}
          \/ raceIndex' = raceIndex + 1 /\ after = 0
          \/ cmds # <<>> /\ Head(cmds) = [client |-> c, op |-> "WIN_RACE_CHEAT"]
<1>1. ASSUME TypeOK, PhaseOK, RaceOK, [Next]_vars, NEW c \in Drivers, playerCars'[c] # None
      PROVE  Passes(c)
  <2>1. CASE playerCars'[c] = playerCars[c]
    BY <2>1
  <2>2. CASE Rests
    BY <2>2 DEF Rests, CarsRest, SameProgress
  <2>3. ASSUME NEW d \in Clients, Joins(d) PROVE Passes(c)
    BY <1>1, <2>1, <2>3, DriversAfterInit DEF Joins
  <2>4. CASE Starts
    BY <2>1, <2>4 DEF Starts
  <2>5. ASSUME NEW gone \in SUBSET Drivers, Departs(gone) PROVE Passes(c)
    BY <1>1, <2>1, <2>5 DEF Departs, DisconnectPlayers, Drivers
  <2>6. ASSUME NEW d \in Unfinished, Advances(d) PROVE Passes(c)
    BY <1>1, <2>1, <2>6 DEF Advances, AtCheckpoint, Drivers, Unfinished, TypeOK, CarState
  <2>7. ASSUME NEW d \in Unfinished, Finishes(d) PROVE Passes(c)
    BY <1>1, <2>1, <2>7
    DEF Finishes, CarFinishRace, RecordFinish, MarkFinished, AtCheckpoint, WinsByCheat, Drivers,
        Unfinished, TypeOK, CarState
  <2>8. CASE Closes
    BY <2>1, <2>8 DEF Closes, FinalizeDNFs, playerVars
  <2>9. CASE Resets
    BY <1>1, <2>9 DEF Resets, NextRace, ResetRaceState, ResetForNewRace, NewCar, Drivers
  <2> QED
    BY <1>1, <2>2, <2>3, <2>4, <2>5, <2>6, <2>7, <2>8, <2>9, RaceSteps DEF RaceOK, RaceStep
<1>2. TypeOK /\ PhaseOK /\ RaceOK /\ [Next]_vars =>
        [\A c \in Drivers : playerCars'[c] # None => Passes(c)]_vars
  BY <1>1
<1> QED
  BY <1>2, TypeCorrect, ResultsAreSound, PTL DEF Spec, CheckpointsInOrder

(* Upgrades are bought only between races, and last for one.               *)
THEOREM UpgradesAreForOneRace == Spec => UpgradesLastOneRace
<1> DEFINE Lasts(c) ==
      LET before == playerCars[c].upgrades
          after  == playerCars'[c].upgrades
      IN  IF raceIndex' # raceIndex /\ raceIndex' < NumRaces
          THEN after = {}
          ELSE after = before \/ (~raceStarted /\ before \subseteq after)
<1>1. ASSUME TypeOK, PhaseOK, RaceOK, [Next]_vars, NEW c \in Drivers, playerCars'[c] # None
      PROVE  Lasts(c)
  <2>1. CASE playerCars'[c] = playerCars[c] /\ (raceIndex' = raceIndex \/ ~(raceIndex' < NumRaces))
    BY <2>1
  <2>2. CASE Rests
    BY <2>2, GameAssumption DEF Rests, CarsRest, SameUpgrades
  <2>3. ASSUME NEW d \in Clients, Joins(d) PROVE Lasts(c)
    BY <1>1, <2>1, <2>3, DriversAfterInit DEF Joins
  <2>4. CASE Starts
    BY <2>1, <2>4 DEF Starts
  <2>5. ASSUME NEW gone \in SUBSET Drivers, Departs(gone) PROVE Lasts(c)
    BY <1>1, <2>1, <2>5 DEF Departs, Racing, DisconnectPlayers, Drivers
  <2>6. ASSUME NEW d \in Unfinished, Advances(d) PROVE Lasts(c)
    BY <1>1, <2>1, <2>6
    DEF Advances, Racing, AtCheckpoint, Drivers, Unfinished, TypeOK, CarState
  <2>7. ASSUME NEW d \in Unfinished, Finishes(d) PROVE Lasts(c)
    BY <1>1, <2>1, <2>7
    DEF Finishes, Racing, CarFinishRace, RecordFinish, MarkFinished, AtCheckpoint, Drivers,
        Unfinished, TypeOK, CarState
  <2>8. CASE Closes
    BY <2>1, <2>8 DEF Closes, FinalizeDNFs, playerVars, phaseVars
  <2>9. CASE Resets
    <3>1. raceIndex' # raceIndex /\ raceIndex' < NumRaces
      BY <1>1, <2>9, GameAssumption DEF Resets, NextRace, TypeOK
    <3>2. playerCars'[c].upgrades = {}
      BY <1>1, <2>9 DEF Resets, NextRace, ResetRaceState, ResetForNewRace, NewCar, Drivers
    <3> QED
      BY <3>1, <3>2
  <2> QED
    BY <1>1, <2>2, <2>3, <2>4, <2>5, <2>6, <2>7, <2>8, <2>9, RaceSteps DEF RaceOK, RaceStep
<1>2. TypeOK /\ PhaseOK /\ RaceOK /\ [Next]_vars =>
        [\A c \in Drivers : playerCars'[c] # None => Lasts(c)]_vars
  BY <1>1
<1> QED
  BY <1>2, TypeCorrect, ResultsAreSound, PTL DEF Spec, UpgradesLastOneRace
=============================================================================
