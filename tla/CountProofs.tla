----------------------------- MODULE CountProofs ---------------------------
(***************************************************************************)
(* The counters of a race, and the places of the final ranking.  The       *)
(* counters are uint8_t, and a departure compares and subtracts them, so   *)
(* what follows holds for fewer than 256 spawn points: these bound the     *)
(* cars, and the places that were given and the cars that can still get    *)
(* one never exceed them.  The final positions are uint8_t too, and number *)
(* the players of all races.  The maps of the repository have 8 spawn      *)
(* points on each of their two routes.                                     *)
(***************************************************************************)
EXTENDS RaceProofs

(* The cars that can still finish and those that did.                      *)
CanScore == Cardinality(Unfinished) + Len(raceRanking)

CountOK ==
  /\ CountsAddUp /\ NoEarlyEnd /\ NoLateEnd
  /\ InRace => CanScore <= NumSpawns

-----------------------------------------------------------------------------
(* No more cars than spawn points, as each has one of its own.             *)
LEMMA DriversFitTheSpawns ==
  ASSUME TypeOK, SpawnsOwned
  PROVE  IsFiniteSet(Drivers) /\ Cardinality(Drivers) \in Nat /\ Cardinality(Drivers) <= NumSpawns
<1> DEFINE spawn == [c \in Drivers |-> carToSpawnId[c]]
<1>1. NumSpawns \in Nat /\ IsFiniteSet(1..NumSpawns) /\ Cardinality(1..NumSpawns) = NumSpawns
  BY CarAssumption, FS_Interval
<1>2. \A c \in Drivers : carToSpawnId[c] \in 1..NumSpawns
  BY DEF TypeOK, SpawnsOwned
<1>3. spawn \in Injection(Drivers, 1..NumSpawns)
  BY <1>2 DEF SpawnsOwned, Injection, IsInjective
<1>4. IsFiniteSet(Drivers) /\ Cardinality(Drivers) <= NumSpawns
  BY <1>1, <1>3, FS_Injection
<1> QED
  BY <1>4, FS_CardinalityType

(* What the counts are about is finite.                                    *)
LEMMA UnfinishedFinite ==
  /\ IsFiniteSet(Unfinished) /\ Cardinality(Unfinished) \in Nat
  /\ Cardinality(Unfinished) = 0 <=> Unfinished = {}
<1>1. Unfinished \in SUBSET Clients
  BY DEF Unfinished, Drivers
<1> QED
  BY <1>1, ClientsFinite, FS_EmptySet

(* While no car was killed the counters of a race are exact.               *)
LEMMA ExactCounts ==
  ASSUME NumSpawns < 256, TypeOK, RaceOK, CountOK, InRace, ~wrecked
  PROVE  /\ Len(raceRanking) \in Nat /\ CanScore <= NumSpawns /\ NumSpawns \in Nat
         /\ totalCars = CanScore /\ finishedCarsCount = Len(raceRanking)
<1>1. /\ Len(raceRanking) \in Nat /\ NumSpawns \in Nat /\ CanScore \in Nat /\ CanScore <= NumSpawns
      /\ Len(raceRanking) <= CanScore
  BY UnfinishedFinite, CarAssumption DEF TypeOK, CountOK, CanScore
<1>2. \A n \in Nat : n < 256 => n % 256 = n
  OBVIOUS
<1>3. totalCars = CanScore % 256 /\ finishedCarsCount = Len(raceRanking) % 256
  BY DEF CountOK, CountsAddUp, CanScore, RaceOK, FinishOrder
<1> QED
  BY <1>1, <1>2, <1>3

-----------------------------------------------------------------------------
(* Nobody finishes or leaves, and time may end the race.                   *)
LEMMA RestsKeepsCounts ==
  ASSUME TypeOK, CountOK, Rests
  PROVE  CountOK'
<1>1. Unfinished' = Unfinished /\ raceRanking' = raceRanking /\ (InRace' => InRace)
  BY DEF Rests, CarsRest, StageKept, SameProgress, Unfinished, resultVars
<1>2. CASE UNCHANGED <<totalCars, wrecked, raceTime, raceEnded>>
  BY <1>1, <1>2 DEF CountOK, CountsAddUp, NoEarlyEnd, NoLateEnd, CanScore
<1>3. CASE InRace /\ TimePasses /\ UNCHANGED <<totalCars, wrecked>>
  <2>1. raceEnded' /\ raceTime' < MaxRaceTime => raceEnded /\ raceTime < MaxRaceTime
    <3>1. raceTime' < MaxRaceTime => ~(raceTime' >= MaxRaceTime)
      BY <1>3, GameAssumption DEF TimePasses, TypeOK
    <3> QED
      BY <1>3, <3>1, Zenon DEF TimePasses
  <2>2. raceEnded => raceEnded'
    BY <1>3 DEF TimePasses
  <2> QED
    BY <1>1, <1>3, <2>1, <2>2 DEF CountOK, CountsAddUp, NoEarlyEnd, NoLateEnd, CanScore
<1>4. CASE wrecked'
  BY <1>1, <1>4 DEF CountOK, CountsAddUp, NoEarlyEnd, NoLateEnd, CanScore
<1> QED
  BY <1>2, <1>3, <1>4 DEF Rests, CountsRest

(* Nobody has a place before the race.                                     *)
LEMMA LobbyKeepsCounts ==
  ASSUME RaceOK', Before', ~InRace'
  PROVE  CountOK'
<1>1. /\ raceRanking' = <<>> /\ Unfinished' = Drivers'
      /\ totalCars' = Cardinality(Drivers') % 256
  BY DEF RaceOK, ResultsOK, LobbyOK
<1>2. \A n \in Nat : n + 0 = n
  OBVIOUS
<1>3. Len(raceRanking') = 0 /\ Cardinality(Drivers') \in Nat
  <2>1. Drivers' \in SUBSET Clients
    BY DEF Drivers
  <2> QED
    BY <1>1, <2>1, ClientsFinite
<1> QED
  BY <1>1, <1>2, <1>3 DEF CountOK, CountsAddUp, NoEarlyEnd, NoLateEnd

(* Those who leave on the road are taken off totalCars, and the race ends  *)
(* with the last of them.                                                  *)
LEMMA DepartsKeepsCounts ==
  ASSUME NumSpawns < 256, TypeOK, RaceOK, CountOK, NEW gone \in SUBSET Drivers, Departs(gone)
  PROVE  CountOK'
<1> DEFINE dropped == gone \cap Unfinished
           u == Cardinality(Unfinished)
           d == Cardinality(dropped)
           k == Len(raceRanking)
<1>1. /\ InRace /\ wrecked' = wrecked /\ raceRanking' = raceRanking /\ raceTime' = raceTime
      /\ totalCars' = IF d >= totalCars THEN 0 ELSE totalCars - d
      /\ raceEnded' = (raceEnded \/ (dropped # {} /\ (totalCars' = 0
                                                      \/ finishedCarsCount >= totalCars')))
  BY DEF Departs, Racing, resultVars
<1>2. Unfinished' = Unfinished \ dropped
  BY DriversAfterDeparture DEF Departs, Unfinished
<1>3. /\ IsFiniteSet(Unfinished) /\ u \in Nat /\ d \in Nat /\ d <= u /\ k \in Nat
      /\ u + k <= NumSpawns /\ NumSpawns \in Nat
      /\ Cardinality(Unfinished') = u - d
      /\ d = 0 <=> dropped = {}
  <2>1. IsFiniteSet(dropped) /\ d <= u /\ Unfinished \cap dropped = dropped
    BY UnfinishedFinite, FS_Subset
  <2>2. d \in Nat /\ (d = 0 <=> dropped = {})
    BY <2>1, FS_CardinalityType, FS_EmptySet
  <2>3. Cardinality(Unfinished') = u - d
    <3> HIDE DEF dropped
    <3>1. Cardinality(Unfinished \ dropped) = u - Cardinality(Unfinished \cap dropped)
      BY UnfinishedFinite, FS_Difference
    <3> QED
      BY <1>2, <2>1, <3>1
  <2>4. k \in Nat /\ u + k <= NumSpawns /\ NumSpawns \in Nat
    BY <1>1, CarAssumption DEF TypeOK, CountOK, CanScore
  <2> QED
    BY <2>1, <2>2, <2>3, <2>4, UnfinishedFinite
<1>4. CanScore' = u - d + k /\ Len(raceRanking') = k
  BY <1>1, <1>3 DEF CanScore
<1>5. CanScore' <= NumSpawns
  BY <1>3, <1>4
<1>6. Unfinished' = {} <=> u = d
  <2>1. Unfinished' = {} <=> Cardinality(Unfinished') = 0
    BY <1>2, <1>3, FS_Difference, FS_EmptySet
  <2> QED
    BY <1>3, <2>1
<1>7. ASSUME ~wrecked
      PROVE  /\ totalCars' = u - d + k
             /\ dropped # {} /\ (totalCars' = 0 \/ finishedCarsCount >= totalCars') => u = d
             /\ u = d /\ u # 0 => dropped # {} /\ finishedCarsCount >= totalCars'
  <2>1. totalCars = u + k /\ finishedCarsCount = k
    BY <1>1, <1>7, ExactCounts DEF CanScore
  <2>2. totalCars' = u - d + k
    BY <1>1, <1>3, <2>1
  <2> QED
    BY <1>3, <2>1, <2>2
<1> HIDE DEF dropped, u, d, k
<1>8. CountsAddUp'
  <2>1. ~wrecked' => totalCars' = (u - d + k) % 256
    <3>1. u - d + k \in Nat /\ u - d + k < 256
      BY <1>3
    <3>2. (u - d + k) % 256 = u - d + k
      BY <3>1
    <3> QED
      BY <1>1, <1>7, <3>2
  <2> QED
    BY <1>4, <2>1 DEF CountsAddUp, CanScore
<1>9. NoEarlyEnd'
  <2>1. raceEnded /\ raceTime < MaxRaceTime /\ ~wrecked => Unfinished' = {}
    BY <1>1, <1>2 DEF CountOK, NoEarlyEnd
  <2> QED
    BY <1>1, <1>6, <1>7, <2>1 DEF NoEarlyEnd
<1>10. NoLateEnd'
  <2> SUFFICES ASSUME ~wrecked, raceRanking # <<>>, Unfinished' = {}
               PROVE  raceEnded'
    BY <1>1 DEF NoLateEnd
  <2>1. CASE Unfinished = {}
    BY <1>1, <2>1 DEF CountOK, NoLateEnd
  <2>2. CASE Unfinished # {}
    <3>1. u = d /\ u # 0
      BY <1>6, <2>2, UnfinishedFinite DEF u
    <3> QED
      BY <1>1, <1>7, <3>1
  <2> QED
    BY <2>1, <2>2
<1> QED
  BY <1>5, <1>8, <1>9, <1>10 DEF CountOK

(* A finisher changes sides, and the race ends with the last one.          *)
LEMMA FinishesKeepsCounts ==
  ASSUME NumSpawns < 256, TypeOK, RaceOK, CountOK, NEW c \in Unfinished, Finishes(c),
         Drivers' = Drivers, Unfinished' = Unfinished \ {c}
  PROVE  CountOK'
<1> DEFINE u == Cardinality(Unfinished)
           k == Len(raceRanking)
<1>1. /\ InRace /\ wrecked' = wrecked /\ raceRanking' = Append(raceRanking, c)
      /\ raceTime' = raceTime /\ totalCars' = totalCars
      /\ raceEnded' = (raceEnded \/ finishedCarsCount' = totalCars)
  BY DEF Finishes, Racing, CarFinishRace, RecordFinish
<1>2. /\ u \in Nat /\ u > 0 /\ k \in Nat /\ u + k <= NumSpawns /\ NumSpawns \in Nat
      /\ Cardinality(Unfinished') = u - 1
  <2>1. k \in Nat /\ u + k <= NumSpawns /\ NumSpawns \in Nat
    BY <1>1, CarAssumption DEF TypeOK, CountOK, CanScore
  <2>2. Cardinality(Unfinished') = u - 1
    BY UnfinishedFinite, FS_RemoveElement
  <2>3. u \in Nat /\ u # 0
    BY UnfinishedFinite
  <2> QED
    BY <2>1, <2>2, <2>3
<1>3. CanScore' = u + k /\ Len(raceRanking') = k + 1
  <2>1. Len(raceRanking') = k + 1
    BY <1>1 DEF TypeOK
  <2> QED
    BY <1>2, <2>1 DEF CanScore
<1>4. Unfinished' = {} <=> u = 1
  <2>1. IsFiniteSet(Unfinished')
    BY UnfinishedFinite, FS_RemoveElement
  <2>2. Unfinished' = {} <=> Cardinality(Unfinished') = 0
    BY <2>1, FS_EmptySet
  <2> QED
    BY <1>2, <2>2
<1>5. ~wrecked => (finishedCarsCount' = totalCars <=> u = 1)
  <2> SUFFICES ASSUME ~wrecked PROVE finishedCarsCount' = totalCars <=> u = 1
    OBVIOUS
  <2>1. totalCars = u + k /\ finishedCarsCount = k
    BY <1>1, ExactCounts DEF CanScore
  <2>2. finishedCarsCount' = (k + 1) % 256
    BY <2>1 DEF Finishes, CarFinishRace
  <2>3. (k + 1) % 256 = k + 1
    BY <1>2
  <2> QED
    BY <1>2, <2>1, <2>2, <2>3
<1>6. CountsAddUp' /\ CanScore' <= NumSpawns
  BY <1>1, <1>2, <1>3 DEF CountOK, CountsAddUp, CanScore
<1>7. NoEarlyEnd'
  <2>1. Unfinished # {}
    OBVIOUS
  <2> HIDE DEF u, k
  <2> QED
    BY <1>1, <1>4, <1>5, <2>1 DEF CountOK, NoEarlyEnd
<1>8. NoLateEnd'
  <2> HIDE DEF u, k
  <2> QED
    BY <1>1, <1>4, <1>5 DEF NoLateEnd
<1> QED
  BY <1>6, <1>7, <1>8 DEF CountOK

-----------------------------------------------------------------------------
(* Every step keeps the counts.                                            *)
LEMMA NextCounts ==
  ASSUME NumSpawns < 256, TypeOK, PhaseOK, RaceOK, RaceOK', SpawnsOwned, CountOK, [Next]_vars
  PROVE  CountOK'
<1>1. RaceStep
  BY RaceSteps DEF RaceOK
<1>2. ASSUME NEW c \in Clients, Joins(c) PROVE CountOK'
  <2>1. Before' /\ ~InRace'
    BY <1>2 DEF Joins, Before, InLobby, InRace
  <2> QED
    BY <2>1, LobbyKeepsCounts
<1>3. CASE Resets
  <2>1. Before' /\ ~InRace'
    BY <1>3 DEF Resets, NextRace, Before, InRace, GoTo
  <2> QED
    BY <2>1, LobbyKeepsCounts
<1>4. CASE Starts
  <2>1. raceRanking' = <<>> /\ ~raceEnded' /\ raceRanking = <<>> /\ Unfinished = Drivers
    BY <1>4 DEF Starts, resultVars, RaceOK, ResultsOK, Before
  <2>2. Unfinished' = Unfinished /\ Drivers' = Drivers
    BY <1>4 DEF Starts, Unfinished, Drivers
  <2>3. CountsAddUp'
    BY <1>4, <2>1, <2>2 DEF CountOK, CountsAddUp, Starts
  <2>4. Cardinality(Unfinished) + Len(<<>>) <= NumSpawns
    <3>1. \A n \in Nat : n <= NumSpawns => n + Len(<<>>) <= NumSpawns
      BY CarAssumption
    <3> QED
      BY <2>1, <3>1, DriversFitTheSpawns
  <2> QED
    BY <2>1, <2>2, <2>3, <2>4 DEF CountOK, NoEarlyEnd, NoLateEnd, CanScore
<1>5. ASSUME NEW gone \in SUBSET Drivers, Departs(gone) PROVE CountOK'
  BY <1>5, DepartsKeepsCounts
<1>6. ASSUME NEW c \in Unfinished, Advances(c) PROVE CountOK'
  <2> DEFINE car == AtCheckpoint(c, playerCars[c].actualCheckpoint + 1)
  <2>1. c \in Drivers /\ playerCars[c] \in CarState /\ ~playerCars[c].finished
    BY DEF Unfinished, Drivers, TypeOK
  <2>2. car # None /\ ~car.finished
    <3>1. playerCars[c].actualCheckpoint + 1 \in 0..NumCheckpoints
      BY <1>6, <2>1, CarAssumption DEF Advances, CarState
    <3>2. car \in CarState
      BY <2>1, <3>1, CarTypes DEF AtCheckpoint
    <3> QED
      BY <2>1, <3>2, GameAssumption DEF AtCheckpoint, CarState
  <2>3. playerCars' = [playerCars EXCEPT ![c] = car]
    BY <1>6 DEF Advances
  <2> HIDE DEF car
  <2>4. Unfinished' = Unfinished
    BY <2>1, <2>2, <2>3 DEF Unfinished, Drivers, TypeOK
  <2> QED
    BY <1>6, <2>4 DEF Advances, Racing, resultVars, CountOK, CountsAddUp, NoEarlyEnd, NoLateEnd,
       CanScore
<1>7. ASSUME NEW c \in Unfinished, Finishes(c) PROVE CountOK'
  <2> DEFINE place == (finishedCarsCount + 1) % 256
             car == CarAtTheLine(c, place)
  <2>1. place \in 0..255
    BY DEF TypeOK
  <2>2. car = CarAtTheLine(c, place)
    OBVIOUS
  <2>3. playerCars' = [playerCars EXCEPT ![c] = car]
    BY <1>7 DEF Finishes, CarFinishRace, RecordFinish, CarAtTheLine
  <2> HIDE DEF place, car
  <2>5. car # None /\ car.finished
    BY <2>1, <2>2, CarShowsFinish
  <2>4. Drivers' = Drivers /\ Unfinished' = Unfinished \ {c}
    BY <2>3, <2>5 DEF Drivers, Unfinished, TypeOK
  <2> QED
    BY <1>7, <2>4, FinishesKeepsCounts
<1>8. CASE Closes
  <2>1. Unfinished' = Unfinished /\ ~InRace'
    BY <1>8 DEF Closes, FinalizeDNFs, playerVars, Unfinished, Drivers, InRace, GoTo
  <2> QED
    BY <1>8, <2>1 DEF Closes, FinalizeDNFs, countVars, CountOK, CountsAddUp, NoEarlyEnd, NoLateEnd
<1> QED
  BY <1>1, <1>2, <1>3, <1>4, <1>5, <1>6, <1>7, <1>8, RestsKeepsCounts DEF RaceStep

(* The counts are kept up, with fewer spawn points than a byte counts.     *)
LEMMA CountsAreKept == ASSUME NumSpawns < 256 PROVE Spec => []CountOK
<1>1. GameInit => CountOK
  <2> SUFFICES ASSUME GameInit PROVE CountOK
    OBVIOUS
  <2>1. Drivers = {} /\ raceRanking = <<>> /\ totalCars = 0 /\ pc = "outer"
    BY DEF GameInit, Drivers
  <2>2. Unfinished = {} /\ Cardinality(Unfinished) = 0 /\ Len(raceRanking) = 0 /\ ~InRace
    BY <2>1, FS_EmptySet DEF Unfinished, InRace
  <2> QED
    BY <2>1, <2>2 DEF CountOK, CountsAddUp, NoEarlyEnd, NoLateEnd
<1>2. TypeOK /\ PhaseOK /\ RaceOK /\ RaceOK' /\ SpawnsOwned /\ CountOK /\ [Next]_vars => CountOK'
  BY NextCounts
<1> QED
  BY <1>1, <1>2, TypeCorrect, ResultsAreSound, SpawnsAreOwned, PTL DEF Spec

(* While no car was killed, totalCars is the number of cars that can still *)
(* finish plus those that did, also if some of these have left since.      *)
THEOREM CountsAgree == ASSUME NumSpawns < 256 PROVE Spec => []CountsAddUp
<1>1. CountOK => CountsAddUp
  BY DEF CountOK
<1> QED
  BY <1>1, CountsAreKept, PTL

(* A race that ends before its time limit leaves nobody on the road.       *)
THEOREM NoRaceEndsEarly == ASSUME NumSpawns < 256 PROVE Spec => []NoEarlyEnd
<1>1. CountOK => NoEarlyEnd
  BY DEF CountOK
<1> QED
  BY <1>1, CountsAreKept, PTL

(* A race that someone finished ends with the last car on the road,        *)
(* whether it finishes or leaves.                                          *)
THEOREM NoRaceEndsLate == ASSUME NumSpawns < 256 PROVE Spec => []NoLateEnd
<1>1. CountOK => NoLateEnd
  BY DEF CountOK
<1> QED
  BY <1>1, CountsAreKept, PTL

-----------------------------------------------------------------------------
(* The final ranking.  Nobody has a place before the game is done; while   *)
(* the results of a race are added, those read so far are in the stats;    *)
(* after the last race everybody with a car is.  No race adds more players *)
(* than it has spawn points, so the places fit a byte.                     *)
RankOK ==
  /\ pc # "done" => \A c \in Ranked : globalStats[c].globalPosition = 0
  /\ pc # "accumulate" => resultIdx = 1
  /\ pc = "accumulate" =>
       /\ Len(lastRaceResults) <= NumSpawns /\ resultIdx <= Len(lastRaceResults) + 1
       /\ \A i \in 1..(resultIdx - 1) : lastRaceResults[i].playerId \in Ranked
  /\ pc = "outer" /\ raceIndex = NumRaces => Drivers \subseteq Ranked
  /\ pc # "done" => Cardinality(Ranked) <= raceIndex * NumSpawns + (resultIdx - 1)
  /\ FinalRanking

(* A step that adds up no results and ends no race and no game.            *)
KeepsStats ==
  /\ UNCHANGED <<globalStats, resultIdx, raceIndex>>
  /\ pc' \in {"outer", "accumulate", "done"} => UNCHANGED <<pc, playerCars, lastRaceResults>>
  /\ pc \in {"accumulate", "done"} => pc' = pc

(* All steps but four are such.                                            *)
LEMMA StatSteps ==
  ASSUME TypeOK, PhaseOK, [Next]_vars
  PROVE  KeepsStats \/ FinalizeDNFs \/ UpdateGlobalStats \/ NextRace \/ GameOver
<1> USE DEF KeepsStats, statVars, phaseVars, playerVars, resultVars, eventVars, GoTo
<1>1. UNCHANGED vars => KeepsStats
  BY DEF vars
<1>2. EnterLobby \/ LobbyDrain \/ LobbyCmd \/ LobbyWait \/ LobbyExit => KeepsStats
  BY DEF EnterLobby, LobbyDrain, LobbyCmd, LobbyWait, LobbyExit
<1>3. CheckPlayersStatus \/ RaceDrain \/ RaceCmd \/ WorldStep => KeepsStats
  BY DEF CheckPlayersStatus, RaceDrain, RaceCmd, WorldStep
<1>4. HandleWorldEvent \/ EndFrame => KeepsStats
  BY DEF HandleWorldEvent, EndFrame
<1>5. Environment => KeepsStats
  BY DEF Environment, DeadlinePasses, Stop, JoinGame, AddClient, LeaveGame, PushCmd
<1> HIDE DEF KeepsStats
<1> QED
  BY <1>1, <1>2, <1>3, <1>4, <1>5 DEF Next, GameThread, Terminated

(* The ranked players are finitely many.                                   *)
LEMMA RankedFinite == IsFiniteSet(Ranked) /\ Cardinality(Ranked) \in Nat
<1>1. Ranked \in SUBSET Clients
  BY DEF Ranked
<1> QED
  BY <1>1, ClientsFinite

(* Such a step keeps what is known of the stats.                           *)
LEMMA KeepsStatsKeepsRanks ==
  ASSUME TypeOK, RankOK, KeepsStats
  PROVE  RankOK'
<1>1. globalStats' = globalStats /\ resultIdx' = resultIdx /\ raceIndex' = raceIndex
  BY DEF KeepsStats
<1>2. Ranked' = Ranked
  BY <1>1 DEF Ranked
<1>3. CASE pc' \in {"outer", "accumulate", "done"}
  <2>1. pc' = pc /\ playerCars' = playerCars /\ lastRaceResults' = lastRaceResults
    BY <1>3 DEF KeepsStats
  <2> QED
    BY <1>1, <1>2, <2>1 DEF RankOK, FinalRanking, Computed, Drivers
<1>4. CASE pc' \notin {"outer", "accumulate", "done"}
  <2>1. pc \notin {"accumulate", "done"}
    BY <1>4 DEF KeepsStats
  <2> QED
    BY <1>1, <1>2, <1>4, <2>1 DEF RankOK, FinalRanking, Computed
<1> QED
  BY <1>3, <1>4

(* The results of a race: one for each car that could still finish, behind *)
(* those who had.                                                          *)
LEMMA ClosesKeepsRanks ==
  ASSUME TypeOK, RaceOK, CountOK, RankOK, FinalizeDNFs
  PROVE  RankOK'
<1> DEFINE m == Cardinality(Unfinished)
<1>1. PICK order \in Bijection(1..m, Unfinished) :
        lastRaceResults' = lastRaceResults \o [i \in DOMAIN order |-> DNF(order[i])]
  BY DEF FinalizeDNFs
<1> DEFINE late == [i \in DOMAIN order |-> DNF(order[i])]
<1>2. pc # "done" /\ pc # "accumulate" /\ pc' = "accumulate" /\ InRace
  BY DEF FinalizeDNFs, GoTo, InRace
<1>3. m \in Nat /\ Len(lastRaceResults) + m <= NumSpawns
  BY <1>2, UnfinishedFinite DEF CountOK, CanScore, RaceOK, ResultsOK
<1>4. Len(lastRaceResults') = Len(lastRaceResults) + m
  <2>1. DOMAIN order = 1..m
    BY DEF Bijection, Injection
  <2>2. late \in Seq({DNF(c) : c \in Unfinished}) /\ Len(late) = m
    BY <1>3, <2>1 DEF Bijection, Injection
  <2> HIDE DEF late
  <2> QED
    BY <1>1, <2>2 DEF late, TypeOK
<1>5. globalStats' = globalStats /\ resultIdx' = resultIdx /\ raceIndex' = raceIndex
  BY DEF FinalizeDNFs, statVars, phaseVars
<1>6. Ranked' = Ranked
  BY <1>5 DEF Ranked
<1>7. resultIdx' = 1 /\ Len(lastRaceResults') \in Nat
  BY <1>2, <1>3, <1>4, <1>5 DEF RankOK, TypeOK
<1>8. ~Computed'
  BY <1>2 DEF Computed
<1> HIDE DEF m
<1> QED
  BY <1>2, <1>3, <1>4, <1>5, <1>6, <1>7, <1>8 DEF RankOK, FinalRanking

(* One more result is added to the stats of its player.                    *)
LEMMA UpdateKeepsRanks ==
  ASSUME TypeOK, RankOK, UpdateGlobalStats
  PROVE  RankOK'
<1> DEFINE r == lastRaceResults[resultIdx]
           p == r.playerId
<1>1. /\ pc = "accumulate" /\ pc' = "accumulate" /\ pc # "done" /\ pc # "outer"
      /\ resultIdx \in Nat \ {0} /\ resultIdx <= Len(lastRaceResults) /\ resultIdx' = resultIdx + 1
      /\ lastRaceResults' = lastRaceResults /\ raceIndex' = raceIndex
      /\ globalStats' = [globalStats EXCEPT ![p] = AddTime(@, r.raceTime)]
  BY DEF UpdateGlobalStats, TypeOK, resultVars, phaseVars
<1>2. r \in RaceResult /\ Len(lastRaceResults) \in Nat
  BY <1>1 DEF TypeOK
<1>3. p \in Clients /\ r.raceTime \in Nat
  BY <1>2 DEF RaceResult
<1> DEFINE new == AddTime(globalStats[p], r.raceTime)
<1>4. new \in PlayerGlobalStats /\ new # None
  <2>1. globalStats[p] \in PlayerGlobalStats \cup {None}
    BY <1>3 DEF TypeOK
  <2>2. new \in PlayerGlobalStats
    BY <1>3, <2>1, AddTimeType
  <2>3. CASE globalStats[p] = None
    BY <2>2, <2>3, StatsAssumption
  <2> QED
    BY <2>2, StatsAssumption
<1>5. p \in Ranked => new.globalPosition = 0
  <2> SUFFICES ASSUME p \in Ranked PROVE new.globalPosition = 0
    OBVIOUS
  <2>1. globalStats[p] \in PlayerGlobalStats /\ globalStats[p] # None
        /\ globalStats[p].globalPosition = 0
    BY <1>1 DEF RankOK, Ranked, TypeOK
  <2> QED
    BY <2>1 DEF AddTime, PlayerGlobalStats
<1>6. p \notin Ranked => new.globalPosition = 0
  BY <1>3 DEF Ranked, AddTime
<1>7. globalStats' = [globalStats EXCEPT ![p] = new]
  BY <1>1
<1> HIDE DEF new, p, r
<1>8. Ranked' = Ranked \cup {p}
  BY <1>3, <1>4, <1>7 DEF Ranked, TypeOK
<1>9. \A c \in Ranked' : globalStats'[c].globalPosition = 0
  BY <1>1, <1>3, <1>5, <1>6, <1>7, <1>8 DEF RankOK, Ranked, TypeOK
<1>10. \A i \in 1..(resultIdx' - 1) : lastRaceResults'[i].playerId \in Ranked'
  <2>1. \A i \in 1..(resultIdx' - 1) : i = resultIdx \/ i \in 1..(resultIdx - 1)
    BY <1>1
  <2> QED
    BY <1>1, <1>8, <2>1 DEF RankOK, p, r
<1>11. Cardinality(Ranked') <= raceIndex' * NumSpawns + (resultIdx' - 1)
  <2>1. /\ Cardinality(Ranked') \in Nat /\ Cardinality(Ranked) \in Nat
        /\ Cardinality(Ranked') <= Cardinality(Ranked) + 1
    BY <1>8, RankedFinite, FS_AddElement
  <2>2. raceIndex * NumSpawns \in Nat
    BY CarAssumption, GameAssumption DEF TypeOK
  <2>3. Cardinality(Ranked) <= raceIndex * NumSpawns + (resultIdx - 1)
    BY <1>1 DEF RankOK
  <2> QED
    BY <1>1, <2>1, <2>2, <2>3
<1>12. ~Computed'
  BY <1>1 DEF Computed
<1> QED
  BY <1>1, <1>2, <1>9, <1>10, <1>11, <1>12 DEF RankOK, FinalRanking

(* The results are added; after the last race nobody with a car is missing.*)
LEMMA NextRaceKeepsRanks ==
  ASSUME TypeOK, PhaseOK, RaceOK, RankOK, NextRace
  PROVE  RankOK'
<1>1. /\ pc = "accumulate" /\ pc' = "outer" /\ resultIdx > Len(lastRaceResults) /\ resultIdx' = 1
      /\ raceIndex' = raceIndex + 1 /\ globalStats' = globalStats /\ raceIndex < NumRaces
      /\ (raceIndex' < NumRaces \/ playerCars' = playerCars)
  BY DEF NextRace, GoTo, PhaseOK
<1>2. Ranked' = Ranked
  BY <1>1 DEF Ranked
<1>3. /\ resultIdx \in Nat /\ Len(lastRaceResults) \in Nat /\ resultIdx - 1 = Len(lastRaceResults)
      /\ resultIdx - 1 <= NumSpawns /\ NumSpawns \in Nat /\ raceIndex \in Nat
  BY <1>1, CarAssumption DEF RankOK, TypeOK
<1>4. Drivers \subseteq Ranked
  <2>1. ASSUME NEW c \in Drivers PROVE c \in Ranked
    <3>1. PICK i \in DOMAIN lastRaceResults : lastRaceResults[i].playerId = c
      BY <1>1 DEF RaceOK, NobodyForgotten
    <3>2. i \in 1..(resultIdx - 1)
      BY <1>3 DEF TypeOK
    <3> QED
      BY <1>1, <3>1, <3>2 DEF RankOK
  <2> QED
    BY <2>1
<1>5. raceIndex' = NumRaces => Drivers' \subseteq Ranked'
  <2>1. raceIndex' = NumRaces => ~(raceIndex' < NumRaces)
    BY GameAssumption
  <2> QED
    BY <1>1, <1>2, <1>4, <2>1 DEF Drivers
<1>6. Cardinality(Ranked') <= raceIndex' * NumSpawns + (resultIdx' - 1)
  <2>1. (raceIndex + 1) * NumSpawns = raceIndex * NumSpawns + NumSpawns
    BY <1>3
  <2>2. raceIndex * NumSpawns \in Nat
    BY <1>3
  <2>3. Cardinality(Ranked) <= raceIndex * NumSpawns + (resultIdx - 1)
    BY <1>1 DEF RankOK
  <2> QED
    BY <1>1, <1>2, <1>3, <2>1, <2>2, <2>3, RankedFinite
<1>7. ~Computed'
  BY <1>1 DEF Computed
<1> QED
  BY <1>1, <1>2, <1>5, <1>6, <1>7 DEF RankOK, FinalRanking

(* The times that are ranked.                                              *)
LEMMA FinalTimeType ==
  ASSUME TypeOK, NEW c \in Ranked
  PROVE  FinalTime(c) \in Nat
<1>1. globalStats[c] \in PlayerGlobalStats
  BY DEF Ranked, TypeOK
<1>2. c \in Drivers => playerCars[c] \in CarState
  BY DEF Drivers, TypeOK
<1> QED
  BY <1>1, <1>2 DEF FinalTime, PlayerGlobalStats, CarState

(* The places are given out.                                               *)
LEMMA GameOverKeepsRanks ==
  ASSUME NumRaces * NumSpawns < 256, TypeOK, RankOK, GameOver
  PROVE  RankOK'
<1>1. /\ pc = "outer" /\ pc' = "done" /\ resultIdx' = resultIdx /\ raceIndex' = raceIndex
      /\ playerCars' = playerCars
  BY DEF GameOver, GoTo, phaseVars, playerVars
<1>2. Drivers' = Drivers
  BY <1>1 DEF Drivers
<1>3. FinalRanking'
  <2>1. CASE UNCHANGED globalStats
    <3>1. ~Computed'
      BY <1>1, <2>1 DEF Computed, RankOK, Ranked
    <3> QED
      BY <3>1 DEF FinalRanking
  <2>2. CASE raceIndex = NumRaces /\ ComputeGlobalRanking
    <3> DEFINE n == Cardinality(Ranked)
    <3>1. PICK place \in Bijection(Ranked, 1..n) :
            /\ \A c, d \in Ranked : place[c] < place[d] => FinalTime(c) <= FinalTime(d)
            /\ globalStats' = [c \in Clients |->
                 IF c \in Ranked
                 THEN [totalTime |-> FinalTime(c), globalPosition |-> place[c] % 256]
                 ELSE None]
      BY <2>2 DEF ComputeGlobalRanking
    <3>2. n \in Nat /\ n < 256
      <4>1. n <= NumRaces * NumSpawns + (1 - 1)
        BY <1>1, <2>2 DEF RankOK
      <4>2. NumRaces * NumSpawns \in Nat
        BY CarAssumption, GameAssumption
      <4> QED
        BY <4>1, <4>2, RankedFinite
    <3>3. /\ \A c \in Ranked : place[c] \in 1..n
          /\ \A c, d \in Ranked : place[c] = place[d] => c = d
          /\ \A i \in 1..n : \E c \in Ranked : place[c] = i
      BY DEF Bijection, Injection, Surjection, IsInjective
    <3>4. \A i \in 1..n : i % 256 = i
      BY <3>2
    <3>5. Ranked' = Ranked
      <4> DEFINE stats(c) == [totalTime |-> FinalTime(c), globalPosition |-> place[c] % 256]
      <4>1. \A c \in Ranked : stats(c) # None
        <5>1. ASSUME NEW c \in Ranked PROVE stats(c) \in PlayerGlobalStats
          <6>1. FinalTime(c) \in Nat
            BY <5>1, FinalTimeType
          <6>2. place[c] % 256 \in 0..255
            <7>1. place[c] \in Nat
              BY <3>2, <3>3
            <7> QED
              BY <7>1, Byte
          <6> QED
            BY <6>1, <6>2 DEF PlayerGlobalStats
        <5> HIDE DEF stats
        <5> QED
          BY <5>1, StatsAssumption
      <4> QED
        BY <3>1, <4>1 DEF Ranked
    <3>6. \A c \in Ranked : /\ globalStats'[c].totalTime = FinalTime(c)
                            /\ globalStats'[c].globalPosition = place[c]
      BY <3>1, <3>3, <3>4 DEF Ranked
    <3>7. Drivers' \subseteq Ranked'
      BY <1>1, <1>2, <2>2, <3>5 DEF RankOK
    <3>8. {globalStats'[c].globalPosition : c \in Ranked'} = 1..Cardinality(Ranked')
      BY <3>3, <3>5, <3>6
    <3>9. ASSUME NEW c \in Ranked, NEW d \in Ranked, FinalTime(c) < FinalTime(d)
          PROVE  place[c] < place[d]
      <4>1. FinalTime(c) \in Nat /\ FinalTime(d) \in Nat /\ place[c] \in Nat /\ place[d] \in Nat
        BY <3>3, FinalTimeType
      <4>2. ~(FinalTime(d) <= FinalTime(c)) /\ c # d
        BY <3>9, <4>1
      <4>3. ~(place[d] < place[c]) /\ place[c] # place[d]
        BY <3>1, <3>3, <4>2
      <4> QED
        BY <4>1, <4>3
    <3> QED
      BY <3>5, <3>6, <3>7, <3>8, <3>9 DEF FinalRanking
  <2> QED
    BY <2>1, <2>2 DEF GameOver
<1> QED
  BY <1>1, <1>3 DEF RankOK

(* Nobody is ranked before the first race.                                 *)
LEMMA InitRanks == GameInit => RankOK
<1> SUFFICES ASSUME GameInit PROVE RankOK
  OBVIOUS
<1>1. /\ Ranked = {} /\ Drivers = {} /\ resultIdx = 1 /\ raceIndex = 0 /\ pc = "outer"
  BY DEF GameInit, Ranked, Drivers
<1>2. Cardinality(Ranked) = 0 /\ 0 * NumSpawns + (1 - 1) = 0
  BY <1>1, FS_EmptySet, CarAssumption
<1> QED
  BY <1>1, <1>2 DEF RankOK, FinalRanking, Computed

(* Once the final ranking is computed, everybody with a car in the last    *)
(* race is in it, the places are 1, 2, ... without a gap and go by total   *)
(* time.  What holds while the game goes on is in RankOK.                  *)
THEOREM RankingIsFinal == ASSUME NumRaces * NumSpawns < 256 PROVE Spec => []FinalRanking
<1>1. NumSpawns < 256
  <2>1. \A r \in Nat \ {0}, s \in Nat : s <= r * s
    <3> SUFFICES ASSUME NEW r \in Nat \ {0}, NEW s \in Nat PROVE s <= r * s
      OBVIOUS
    <3>1. r * s = (r - 1) * s + s /\ (r - 1) * s \in Nat
      OBVIOUS
    <3> QED
      BY <3>1
  <2> QED
    BY <2>1, CarAssumption, GameAssumption
<1>2. TypeOK /\ PhaseOK /\ RaceOK /\ CountOK /\ RankOK /\ [Next]_vars => RankOK'
  BY StatSteps, KeepsStatsKeepsRanks, ClosesKeepsRanks, UpdateKeepsRanks, NextRaceKeepsRanks,
     GameOverKeepsRanks
<1>3. RankOK => FinalRanking
  BY DEF RankOK
<1>4. Spec => []CountOK
  BY <1>1, CountsAreKept
<1> QED
  BY <1>2, <1>3, <1>4, InitRanks, TypeCorrect, ResultsAreSound, PTL DEF Spec
=============================================================================
