------------------------------ MODULE GameLoop -----------------------------
(***************************************************************************)
(* One game: the thread GameLoop::run (server_src/game_logic/              *)
(* server_gameloop.cpp), which alternates lobby and race over the routes   *)
(* of the map, and around it the threads that share its queue, registry    *)
(* and flag: the receivers of the clients and GameManager.                 *)
(***************************************************************************)
EXTENDS RaceController

-----------------------------------------------------------------------------
(* GameManager and the receivers.                                          *)

(* CreateJoinGame, first half: the game is found and has not started.      *)
JoinGame(c) ==
  /\ listed /\ ~raceStarted
  /\ c \notin registry \cup joining
  /\ joining' = joining \cup {c}
  /\ UNCHANGED <<listed, registry, stopping, cmdVars, phaseVars, countVars, resultVars,
                 statVars, playerVars, eventVars, pc, raceTime, wrecked>>

(* CreateJoinGame, second half, after the lock of GameManager is released: *)
(* AddClient, which refuses the client if the game is full.                *)
AddClient(c) ==
  /\ c \in joining
  /\ joining' = joining \ {c}
  /\ registry' = IF Cardinality(registry) < MaxPlayers THEN registry \cup {c} ELSE registry
  /\ UNCHANGED <<listed, stopping, cmdVars, phaseVars, countVars, resultVars, statVars,
                 playerVars, eventVars, pc, raceTime, wrecked>>

(* LeaveGame: the last client to leave takes the game off the list.        *)
LeaveGame(c) ==
  /\ listed /\ c \in registry
  /\ registry' = registry \ {c}
  /\ listed' = (registry' # {})
  /\ UNCHANGED <<joining, stopping, cmdVars, phaseVars, countVars, resultVars, statVars,
                 playerVars, eventVars, pc, raceTime, wrecked>>

(* GameLoop::stop, called by that client's thread after the lock.          *)
Stop ==
  /\ ~listed /\ ~stopping
  /\ stopping' = TRUE
  /\ UNCHANGED <<joining, listed, registry, cmdVars, phaseVars, countVars, resultVars,
                 statVars, playerVars, eventVars, pc, raceTime, wrecked>>

(* A receiver pushes a command of its client; a closed queue refuses it.   *)
PushCmd(c, op) ==
  /\ c \in registry /\ ~stopping
  /\ Len(queue) < MaxQueue
  /\ queue' = Append(queue, [client |-> c, op |-> op])
  /\ UNCHANGED <<envVars, cmds, phaseVars, countVars, resultVars, statVars, playerVars,
                 eventVars, pc, raceTime, wrecked>>

-----------------------------------------------------------------------------
(* GameLoop::run.                                                          *)

AddTime(stats, time) ==
  IF stats = None THEN [totalTime |-> time, globalPosition |-> 0]
                  ELSE [stats EXCEPT !.totalTime = @ + time]

(* One iteration of updateGlobalStatsFromLastRace.                         *)
UpdateGlobalStats ==
  /\ pc = "accumulate" /\ resultIdx <= Len(lastRaceResults)
  /\ LET r == lastRaceResults[resultIdx] IN
       globalStats' = [globalStats EXCEPT ![r.playerId] = AddTime(@, r.raceTime)]
  /\ resultIdx' = resultIdx + 1
  /\ UNCHANGED <<envVars, cmdVars, phaseVars, countVars, resultVars, playerVars, eventVars,
                 pc, raceTime, wrecked>>

(* A variant that counts the spawn points from 0.                          *)
SpotFromZero(i) == i % NumSpawns

(* spawnPoints[i % spawnPoints.size()], counting from 1.                   *)
SpotOf(i) == 1 + ((i - 1) % NumSpawns)

(* resetRaceState: the i-th car of playerCars, in whatever order the map   *)
(* yields them, goes to the i-th spawn point; counters, results and both   *)
(* queues are emptied.  usedSpawnIds and carToSpawnId stay as they were.   *)
ResetRaceState ==
  /\ \E place \in Bijection(Drivers, 1..Cardinality(Drivers)) :
       playerCars' = [c \in Clients |->
         IF c \in Drivers THEN ResetForNewRace(playerCars[c], SpotOf(place[c])) ELSE None]
  /\ raceTime' = 0 /\ finishedCarsCount' = 0 /\ raceEnded' = FALSE
  /\ totalCars' = Cardinality(Drivers) % 256
  /\ raceRanking' = <<>> /\ lastRaceResults' = <<>>
  /\ worldEvents' = <<>> /\ queue' = <<>>
  /\ wrecked' = FALSE

(* The end of an iteration of run: the next route, if there is one.        *)
NextRace ==
  /\ pc = "accumulate" /\ resultIdx > Len(lastRaceResults)
  /\ raceIndex' = raceIndex + 1
  /\ IF raceIndex' < NumRaces
     THEN ResetRaceState
     ELSE UNCHANGED <<playerCars, raceTime, countVars, raceRanking, lastRaceResults,
                      worldEvents, queue, wrecked>>
  /\ resultIdx' = 1
  /\ GoTo("outer")
  /\ UNCHANGED <<envVars, cmds, startRequested, raceStarted, deadlinePassed, globalStats,
                 spawnVars, ghosts, hitBuilding, hitPairs>>

Ranked == {c \in Clients : globalStats[c] # None}

(* The time computeGlobalRanking ranks a player by.                        *)
FinalTime(c) ==
  globalStats[c].totalTime + (IF c \in Drivers THEN playerCars[c].upgradePenalty ELSE 0)

(* A variant that sorts before it adds the penalties.                      *)
RankingBeforePenalties ==
  \E place \in Bijection(Ranked, 1..Cardinality(Ranked)) :
    /\ \A c, d \in Ranked :
         place[c] < place[d] => globalStats[c].totalTime <= globalStats[d].totalTime
    /\ globalStats' = [c \in Clients |->
         IF c \in Ranked
         THEN [totalTime |-> FinalTime(c), globalPosition |-> place[c] % 256]
         ELSE None]

(* computeGlobalRanking: positions by total time, ties in any order.       *)
ComputeGlobalRanking ==
  \E place \in Bijection(Ranked, 1..Cardinality(Ranked)) :
    /\ \A c, d \in Ranked : place[c] < place[d] => FinalTime(c) <= FinalTime(d)
    /\ globalStats' = [c \in Clients |->
         IF c \in Ranked
         THEN [totalTime |-> FinalTime(c), globalPosition |-> place[c] % 256]
         ELSE None]

(* run leaves its loop; the ranking is computed unless it was stopped.     *)
GameOver ==
  /\ pc = "outer"
  /\ \/ raceIndex = NumRaces /\ ~stopping /\ ComputeGlobalRanking
     \/ stopping /\ UNCHANGED globalStats
  /\ GoTo("done")
  /\ UNCHANGED <<envVars, cmdVars, phaseVars, countVars, resultVars, resultIdx, playerVars,
                 eventVars, raceTime, wrecked>>

-----------------------------------------------------------------------------
GameThread ==
  \/ EnterLobby \/ LobbyDrain \/ LobbyCmd \/ LobbyWait \/ LobbyExit
  \/ CheckPlayersStatus \/ RaceDrain \/ RaceCmd \/ WorldStep \/ HandleWorldEvent \/ EndFrame
  \/ FinalizeDNFs \/ UpdateGlobalStats \/ NextRace \/ GameOver

Environment ==
  \/ DeadlinePasses \/ Stop
  \/ \E c \in Clients : JoinGame(c) \/ AddClient(c) \/ LeaveGame(c)
  \/ \E c \in Clients, op \in Ops : PushCmd(c, op)

(* The thread has ended and nobody is left to act.                         *)
Terminated == pc = "done" /\ UNCHANGED vars

Next == GameThread \/ Environment \/ Terminated

Spec == GameInit /\ [][Next]_vars

(* The game thread is scheduled for ever, a lobby's deadline is a point in *)
(* time, and the thread that took the game off the list goes on to stop it.*)
Fairness == WF_vars(GameThread) /\ WF_vars(DeadlinePasses) /\ WF_vars(Stop)

FairSpec == Spec /\ Fairness
=============================================================================
