---------------------------- MODULE BoardProofs ----------------------------
(***************************************************************************)
(* A game implements the board of its results (RaceBoard): its steps move  *)
(* from one stage to the next in four places only (StageMoves), and within *)
(* a stage each of the kinds of steps of RaceProofs is a step of the board *)
(* or leaves it as it is.                                                  *)
(***************************************************************************)
EXTENDS RaceProofs

(* While a race is not over its clock is below the limit, and never above. *)
ClockOK == InRace => raceTime <= MaxRaceTime /\ (raceEnded \/ raceTime < MaxRaceTime)

boardVars == <<Stage, raceIndex, Drivers, raceTime, lastRaceResults>>

Promised == Board!BoardNext \/ UNCHANGED boardVars

-----------------------------------------------------------------------------
(* The clock stops at the limit, as the frame that reaches it ends the     *)
(* race.                                                                   *)
LEMMA ClockStep ==
  ASSUME TypeOK, ClockOK, RaceStep
  PROVE  ClockOK'
<1> USE GameAssumption DEF ClockOK
<1>1. CASE Rests
  <2>1. InRace' => InRace
    BY <1>1 DEF Rests, StageKept
  <2>2. CASE UNCHANGED <<raceTime, raceEnded>>
    <3>1. raceTime' = raceTime /\ raceEnded' = raceEnded
      BY <2>2
    <3> QED
      BY <2>1, <3>1
  <2>3. CASE InRace /\ TimePasses
    <3>1. raceTime \in Nat /\ MaxRaceTime \in Nat /\ raceTime <= MaxRaceTime
      BY <2>3 DEF TypeOK
    <3>2. CASE raceEnded
      <4>1. raceTime' = raceTime /\ raceEnded'
        BY <2>3, <3>2 DEF TimePasses
      <4> QED
        BY <3>1, <4>1
    <3>3. CASE ~raceEnded
      <4>1. raceTime' = raceTime + 1 /\ raceTime < MaxRaceTime
        BY <2>3, <3>3 DEF TimePasses
      <4>2. raceTime' >= MaxRaceTime => raceEnded'
        BY <2>3 DEF TimePasses
      <4> QED
        BY <3>1, <4>1, <4>2
    <3> QED
      BY <3>2, <3>3
  <2> QED
    BY <1>1, <2>2, <2>3 DEF Rests, CountsRest
<1>2. ASSUME NEW c \in Clients, Joins(c) PROVE ClockOK'
  BY <1>2 DEF Joins, InLobby, InRace
<1>3. CASE Starts
  BY <1>3 DEF Starts
<1>4. ASSUME NEW gone \in SUBSET Drivers, Departs(gone) PROVE ClockOK'
  BY <1>4 DEF Departs, Racing
<1>5. ASSUME NEW c \in Unfinished, Advances(c) \/ Finishes(c) PROVE ClockOK'
  BY <1>5 DEF Advances, Finishes, CarFinishRace, Racing
<1>6. CASE Closes
  BY <1>6 DEF Closes, FinalizeDNFs, GoTo, InRace
<1>7. CASE Resets
  BY <1>7 DEF Resets, NextRace, GoTo, InRace
<1> QED
  BY <1>1, <1>2, <1>3, <1>4, <1>5, <1>6, <1>7 DEF RaceStep

(* No race is longer than its time limit.                                  *)
LEMMA ClockInvariant == Spec => []ClockOK
<1>1. GameInit => ClockOK
  BY DEF GameInit, ClockOK, InRace
<1>2. TypeOK /\ PhaseOK /\ RaceOK /\ ClockOK /\ [Next]_vars => ClockOK'
  BY RaceSteps, ClockStep DEF RaceOK
<1> QED
  BY <1>1, <1>2, TypeCorrect, ResultsAreSound, PTL DEF Spec

-----------------------------------------------------------------------------
(* The stages, by the step the loop is at.                                 *)
LEMMA Stages ==
  /\ InRace => Stage = "race"
  /\ InLobby => Stage = "lobby"
  /\ pc = "accumulate" => Stage = "closed"
  /\ pc = "done" => Stage = "over"
  /\ pc = "outer" => Stage = IF raceIndex = NumRaces THEN "over" ELSE "lobby"
  /\ InRace' => Stage' = "race"
  /\ pc' = "accumulate" => Stage' = "closed"
  BY DEF Stage, InRace, InLobby

(* A step that leaves the loop where it is, or in the same controller.     *)
LEMMA SameStage ==
  ASSUME UNCHANGED raceIndex,
         UNCHANGED pc \/ (InRace /\ InRace') \/ (InLobby /\ InLobby')
                      \/ (pc = "outer" /\ raceIndex < NumRaces /\ InLobby'),
         TypeOK
  PROVE  UNCHANGED <<Stage, raceIndex>>
<1>1. CASE UNCHANGED pc
  BY <1>1 DEF Stage, InRace
<1>2. CASE InRace /\ InRace'
  BY <1>2 DEF Stage
<1>3. CASE InLobby /\ InLobby'
  BY <1>3 DEF Stage, InLobby, InRace
<1>4. CASE pc = "outer" /\ raceIndex < NumRaces /\ InLobby'
  <2>1. raceIndex # NumRaces
    BY <1>4, GameAssumption DEF TypeOK
  <2> QED
    BY <1>4, <2>1 DEF Stage, InLobby, InRace
<1> QED
  BY <1>1, <1>2, <1>3, <1>4

(* Only four steps lead from one stage to another.                         *)
LEMMA StageMoves ==
  ASSUME TypeOK, PhaseOK, [Next]_vars
  PROVE  \/ UNCHANGED <<Stage, raceIndex>>
         \/ LobbyExit \/ FinalizeDNFs \/ NextRace \/ GameOver
<1> USE DEF phaseVars, GoTo
<1>1. CASE UNCHANGED vars
  BY <1>1, SameStage DEF vars
<1>2. CASE EnterLobby
  BY <1>2, SameStage DEF EnterLobby, InLobby
<1>3. CASE LobbyDrain \/ LobbyCmd \/ LobbyWait
  BY <1>3, SameStage DEF LobbyDrain, LobbyCmd, LobbyWait, InLobby
<1>4. CASE CheckPlayersStatus \/ RaceDrain \/ RaceCmd
  BY <1>4, SameStage DEF CheckPlayersStatus, RaceDrain, RaceCmd, InRace
<1>5. CASE WorldStep \/ HandleWorldEvent \/ EndFrame
  BY <1>5, SameStage DEF WorldStep, HandleWorldEvent, EndFrame, InRace
<1>6. CASE UpdateGlobalStats
  BY <1>6, SameStage DEF UpdateGlobalStats
<1>7. CASE Environment
  BY <1>7, SameStage DEF Environment, DeadlinePasses, Stop, JoinGame, AddClient, LeaveGame, PushCmd
<1> QED
  BY <1>1, <1>2, <1>3, <1>4, <1>5, <1>6, <1>7 DEF Next, GameThread, Terminated

-----------------------------------------------------------------------------
(* Those four, on the board.                                               *)

LEMMA StartsOnBoard == ASSUME Starts PROVE Board!Start
<1>1. Stage = "lobby" /\ Stage' = "race"
  BY Stages DEF Starts
<1> QED
  BY <1>1 DEF Starts, Board!Start, Drivers, resultVars

(* Who has no result when the race closes has not finished.                *)
LEMMA ClosesOnBoard ==
  ASSUME TypeOK, RaceOK, Closes
  PROVE  Board!Close
<1>1. Stage = "race" /\ Stage' = "closed"
  BY Stages DEF Closes, FinalizeDNFs, GoTo
<1>2. Unfinished = Drivers \ Board!Placed
  BY DEF Closes, RaceOK, ResultsOK, HasResult, Board!Placed, Unfinished
<1>3. \A c : DNF(c) = Board!Missing(c)
  BY DEF DNF, Board!Missing
<1>4. PICK order \in Bijection(1..Cardinality(Unfinished), Unfinished) :
        lastRaceResults' = lastRaceResults \o [i \in DOMAIN order |-> DNF(order[i])]
  BY DEF Closes, FinalizeDNFs
<1>5. lastRaceResults' = lastRaceResults \o [i \in DOMAIN order |-> Board!Missing(order[i])]
  BY <1>3, <1>4
<1>6. UNCHANGED <<raceIndex, Drivers, raceTime>>
  BY DEF Closes, FinalizeDNFs, phaseVars, playerVars, Drivers
<1>7. order \in Bijection(1..Cardinality(Drivers \ Board!Placed), Drivers \ Board!Placed)
  BY <1>2, <1>4
<1>8. \E o \in Bijection(1..Cardinality(Drivers \ Board!Placed), Drivers \ Board!Placed) :
        lastRaceResults' = lastRaceResults \o [i \in DOMAIN o |-> Board!Missing(o[i])]
  BY <1>5, <1>7
<1>9. \A S, T : Board!Bijection(S, T) = Bijection(S, T)
  BY DEF Board!Bijection, Bijection, Board!Injection, Injection, Board!Surjection, Surjection,
         Board!IsInjective, IsInjective
<1>10. \A S : Board!Cardinality(S) = Cardinality(S)
  BY DEF Board!Cardinality, Cardinality
<1> QED
  BY <1>1, <1>6, <1>8, <1>9, <1>10 DEF Board!Close

LEMMA NextRaceOnBoard ==
  ASSUME TypeOK, PhaseOK, NextRace
  PROVE  Board!NextRace \/ Board!End
<1>1. pc = "accumulate" /\ pc' = "outer" /\ raceIndex' = raceIndex + 1
      /\ raceIndex \in Nat /\ NumRaces \in Nat /\ raceIndex < NumRaces
  BY GameAssumption DEF NextRace, GoTo, TypeOK, PhaseOK
<1>2. Stage = "closed" /\ Stage' = IF raceIndex' = NumRaces THEN "over" ELSE "lobby"
  BY <1>1 DEF Stage, InRace
<1>3. CASE raceIndex' < NumRaces
  <2>1. Drivers' = Drivers
    BY NextRaceGrid DEF NewGrid
  <2>2. raceTime' = 0 /\ lastRaceResults' = <<>>
    BY <1>3 DEF NextRace, ResetRaceState
  <2> QED
    BY <1>1, <1>2, <1>3, <2>1, <2>2 DEF Board!NextRace
<1>4. CASE ~(raceIndex' < NumRaces)
  <2>1. UNCHANGED <<playerCars, raceTime, lastRaceResults>>
    BY <1>4 DEF NextRace
  <2>2. raceIndex' = NumRaces
    BY <1>1, <1>4
  <2> QED
    BY <1>1, <1>2, <2>1, <2>2 DEF Board!End, Drivers
<1> QED
  BY <1>3, <1>4

LEMMA GameOverOnBoard == ASSUME TypeOK, GameOver PROVE Promised
<1>1. pc = "outer" /\ Stage' = "over" /\ UNCHANGED <<raceIndex, Drivers, raceTime, lastRaceResults>>
  BY DEF GameOver, GoTo, Stage, InRace, phaseVars, playerVars, resultVars, Drivers
<1>2. Stage \in {"lobby", "over"}
  BY <1>1, Stages
<1> QED
  BY <1>1, <1>2 DEF Promised, Board!BoardNext, Board!End, boardVars

-----------------------------------------------------------------------------
(* Within a stage, each kind of step.                                      *)

(* Time passes, or nothing that the board shows.                           *)
LEMMA RestsOnBoard ==
  ASSUME TypeOK, ClockOK, Rests, UNCHANGED <<Stage, raceIndex>>
  PROVE  Promised
<1>1. UNCHANGED <<Drivers, lastRaceResults>>
  BY DEF Rests, CarsRest, resultVars
<1>2. CASE UNCHANGED raceTime
  BY <1>1, <1>2 DEF Promised, boardVars
<1>3. CASE InRace /\ TimePasses /\ raceTime' # raceTime
  <2>1. raceTime' = raceTime + 1 /\ raceTime < MaxRaceTime
    BY <1>3 DEF TimePasses, ClockOK
  <2>2. Stage = "race"
    BY <1>3, Stages
  <2> QED
    BY <1>1, <2>1, <2>2 DEF Promised, Board!BoardNext, Board!Tick
<1> QED
  BY <1>2, <1>3 DEF Rests, CountsRest

LEMMA JoinsOnBoard ==
  ASSUME TypeOK, NEW c \in Clients, Joins(c), UNCHANGED Stage
  PROVE  Promised
<1>1. Stage = "lobby" /\ UNCHANGED <<raceIndex, raceTime, lastRaceResults>>
  BY Stages DEF Joins, resultVars
<1>2. Drivers' = Drivers \cup {c}
  BY DriversAfterInit DEF Joins, GetsCar, TypeOK
<1> QED
  BY <1>1, <1>2 DEF Promised, Board!BoardNext, Board!Enter

LEMMA DepartsOnBoard ==
  ASSUME NEW gone \in SUBSET Drivers, Departs(gone)
  PROVE  Promised
<1>1. Stage = "race" /\ Stage' = "race" /\ UNCHANGED <<raceIndex, raceTime, lastRaceResults>>
  BY Stages DEF Departs, Racing, resultVars
<1>2. Drivers' \in SUBSET Drivers
  BY DEF Departs, DisconnectPlayers, Drivers
<1> QED
  BY <1>1, <1>2 DEF Promised, Board!BoardNext, Board!Leave

LEMMA AdvancesOnBoard ==
  ASSUME TypeOK, NEW c \in Unfinished, Advances(c)
  PROVE  Promised
<1> DEFINE car == AtCheckpoint(c, playerCars[c].actualCheckpoint + 1)
<1>1. Stage = "race" /\ Stage' = "race" /\ UNCHANGED <<raceIndex, raceTime, lastRaceResults>>
  BY Stages DEF Advances, Racing, resultVars
<1>2. playerCars[c] \in CarState /\ c \in Clients /\ playerCars[c] # None
  BY DEF Unfinished, Drivers, TypeOK
<1>3. playerCars[c].actualCheckpoint + 1 \in 0..NumCheckpoints
  BY <1>2, CarAssumption DEF Advances, CarState
<1>4. car # None
  <2>1. car \in CarState
    BY <1>2, <1>3, CarTypes DEF AtCheckpoint
  <2> QED
    BY <2>1, GameAssumption
<1>5. playerCars' = [playerCars EXCEPT ![c] = car]
  BY DEF Advances
<1> HIDE DEF car
<1>6. Drivers' = Drivers
  BY <1>2, <1>4, <1>5 DEF Drivers, TypeOK
<1> QED
  BY <1>1, <1>6 DEF Promised, boardVars

(* A car that finishes gets the next line of the board.                    *)
LEMMA FinishesOnBoard ==
  ASSUME TypeOK, RaceOK, NEW c \in Unfinished, Finishes(c)
  PROVE  Promised
<1> DEFINE place == (finishedCarsCount + 1) % 256
           car == CarAtTheLine(c, place)
<1>1. Stage = "race" /\ Stage' = "race" /\ UNCHANGED <<raceIndex, raceTime>>
  BY Stages DEF Finishes, Racing
<1>2. c \in Clients /\ c \in Drivers /\ playerCars[c] # None
  BY DEF Unfinished, Drivers
<1>3. car = CarAtTheLine(c, place) /\ place \in 0..255
  BY DEF TypeOK
<1>4. /\ playerCars' = [playerCars EXCEPT ![c] = car]
      /\ lastRaceResults' = Append(lastRaceResults, [playerId |-> c, raceTime |-> raceTime,
                                                     position |-> place, finished |-> TRUE])
  BY DEF Finishes, CarFinishRace, RecordFinish, CarAtTheLine
<1>5. place = (Len(lastRaceResults) + 1) % 256
  <2>1. InRace /\ finishedCarsCount = Len(raceRanking) % 256
        /\ Len(lastRaceResults) = Len(raceRanking) /\ Len(raceRanking) \in Nat
    BY DEF Finishes, Racing, RaceOK, ResultsOK, FinishOrder, TypeOK
  <2> QED
    BY <2>1, NextByte
<1> HIDE DEF place, car
<1>6. car # None
  BY <1>3, CarShowsFinish
<1>7. Drivers' = Drivers
  BY <1>2, <1>4, <1>6 DEF Drivers, TypeOK
<1>8. c \notin Board!Placed
  BY <1>2 DEF Finishes, Racing, RaceOK, ResultsOK, HasResult, Unfinished, Board!Placed
<1>9. lastRaceResults' = Append(lastRaceResults, Board!Arrived(c))
  BY <1>4, <1>5 DEF Board!Arrived
<1> QED
  BY <1>1, <1>2, <1>7, <1>8, <1>9 DEF Promised, Board!BoardNext, Board!Finish

-----------------------------------------------------------------------------
(* A new game is a new board.                                              *)
LEMMA InitOnBoard == GameInit => Board!BoardInit
<1> SUFFICES ASSUME GameInit PROVE Board!BoardInit
  OBVIOUS
<1>1. Stage = "lobby"
  BY GameAssumption DEF GameInit, Stage, InRace
<1>2. Drivers = {}
  BY DEF GameInit, Drivers
<1> QED
  BY <1>1, <1>2 DEF GameInit, Board!BoardInit

(* Every step of the game is one of the board, or leaves it as it is.      *)
LEMMA NextOnBoard ==
  ASSUME TypeOK, PhaseOK, RaceOK, ClockOK, [Next]_vars
  PROVE  Promised
<1>1. RaceStep
  BY RaceSteps DEF RaceOK
<1>2. CASE LobbyExit
  BY <1>2, LobbyExitStarts, StartsOnBoard DEF Promised, Board!BoardNext
<1>3. CASE FinalizeDNFs
  <2>1. Closes
    BY <1>3 DEF FinalizeDNFs, Closes, InRace
  <2> QED
    BY <2>1, ClosesOnBoard DEF Promised, Board!BoardNext
<1>4. CASE NextRace
  BY <1>4, NextRaceOnBoard DEF Promised, Board!BoardNext
<1>5. CASE GameOver
  BY <1>5, GameOverOnBoard
<1>6. CASE UNCHANGED <<Stage, raceIndex>>
  <2>1. ~Starts
    BY <1>6, Stages DEF Starts
  <2>2. ~Closes
    BY <1>6, Stages DEF Closes, FinalizeDNFs, GoTo
  <2>3. ~Resets
    BY <1>6 DEF Resets, NextRace, TypeOK
  <2> QED
    BY <1>1, <1>6, <2>1, <2>2, <2>3, RestsOnBoard, JoinsOnBoard, DepartsOnBoard, AdvancesOnBoard,
       FinishesOnBoard DEF RaceStep
<1> QED
  BY <1>2, <1>3, <1>4, <1>5, <1>6, StageMoves

(* The refinement, for any number of clients, races, checkpoints and spawn *)
(* points and any time limit: what a game does to its results is what      *)
(* RaceBoard promises.                                                     *)
THEOREM GameKeepsBoard == Spec => BoardKept
<1>1. TypeOK /\ PhaseOK /\ RaceOK /\ ClockOK /\ [Next]_vars
        => [Board!BoardNext]_(Board!boardVars)
  BY NextOnBoard DEF Promised, boardVars, Board!boardVars
<1> QED
  BY <1>1, InitOnBoard, TypeCorrect, ResultsAreSound, ClockInvariant, PTL
     DEF Spec, BoardKept, Board!BoardSpec
=============================================================================
