-------------------------- MODULE LobbyController --------------------------
(***************************************************************************)
(* LobbyController::runLobbyLoop (server_src/game_logic/lobby_controller   *)
(* .cpp): before every race it serves START_GAME, INIT_PLAYER and upgrade  *)
(* requests until the start is requested or, from the second race on, the  *)
(* deadline passes.  Its broadcasts of the countdown, the route and the    *)
(* upgrade list are left out.                                              *)
(***************************************************************************)
EXTENDS PlayerManager

(* The head of runLobbyLoop.                                               *)
EnterLobby ==
  /\ pc = "outer" /\ raceIndex < NumRaces /\ ~stopping
  /\ startRequested' = FALSE /\ raceStarted' = FALSE
  /\ GoTo("lobby")
  /\ UNCHANGED <<envVars, cmdVars, raceIndex, deadlinePassed, countVars, resultVars, statVars,
                 playerVars, eventVars, raceTime, wrecked>>

(* emptyQueue takes everything that is in the queue.                       *)
Drain == cmds' = queue /\ queue' = <<>>

(* A variant of the loop that does not ask whether it should keep running. *)
LobbyDrainForEver ==
  /\ pc = "lobby"
  /\ Drain
  /\ GoTo("lobbyCmds")
  /\ UNCHANGED <<envVars, phaseVars, countVars, resultVars, statVars, playerVars, eventVars,
                 raceTime, wrecked>>

LobbyDrain ==
  /\ pc = "lobby" /\ ~stopping
  /\ Drain
  /\ GoTo("lobbyCmds")
  /\ UNCHANGED <<envVars, phaseVars, countVars, resultVars, statVars, playerVars, eventVars,
                 raceTime, wrecked>>

(* Commands of clients that have left the registry are skipped.            *)
Served(cmd) == cmd.client \in registry

(* INIT_PLAYER: totalCars is the number of cars if the player was created. *)
LobbyInitPlayer(c) ==
  /\ InitPlayer(c)
  /\ IF CanInitPlayer
     THEN totalCars' = Cardinality({d \in Clients : playerCars'[d] # None}) % 256
     ELSE UNCHANGED totalCars
  /\ UNCHANGED startRequested

LobbyUpgrade(c, u) ==
  /\ HandleRequestUpgrade(c, u)
  /\ UNCHANGED <<startRequested, totalCars, spawnVars, ghosts>>

(* One iteration of processLobbyCmds; it knows no other command.           *)
LobbyCmd ==
  /\ pc = "lobbyCmds" /\ cmds # <<>>
  /\ LET cmd == Head(cmds) IN
       \/ /\ Served(cmd) /\ cmd.op = "START_GAME"
          /\ startRequested' = TRUE
          /\ UNCHANGED <<totalCars, playerVars>>
       \/ /\ Served(cmd) /\ cmd.op = "INIT_PLAYER"
          /\ LobbyInitPlayer(cmd.client)
       \/ /\ Served(cmd) /\ cmd.op \in Upgrades
          /\ LobbyUpgrade(cmd.client, cmd.op)
       \/ /\ ~Served(cmd) \/ cmd.op \in Cheats
          /\ UNCHANGED <<startRequested, totalCars, playerVars>>
  /\ cmds' = Tail(cmds)
  /\ UNCHANGED <<envVars, queue, pc, raceIndex, raceStarted, deadlinePassed, finishedCarsCount,
                 raceEnded, resultVars, statVars, eventVars, raceTime, wrecked>>

(* A variant that waits for START_GAME before every race.                  *)
LobbyOverOnStart == startRequested

LobbyOver == startRequested \/ (raceIndex # 0 /\ deadlinePassed)

(* The end of an iteration that does not break, and sleeps.                *)
LobbyWait ==
  /\ pc = "lobbyCmds" /\ cmds = <<>>
  /\ ~LobbyOver
  /\ GoTo("lobby")
  /\ UNCHANGED <<envVars, cmdVars, phaseVars, countVars, resultVars, statVars, playerVars,
                 eventVars, raceTime, wrecked>>

(* The loop breaks, or is stopped at its head; its deadline is a local.    *)
(* The race is marked started; runRace resets its clock and its end flag.  *)
LobbyExit ==
  /\ \/ pc = "lobbyCmds" /\ cmds = <<>> /\ LobbyOver
     \/ pc = "lobby" /\ stopping
  /\ raceStarted' = TRUE /\ raceTime' = 0 /\ raceEnded' = FALSE
  /\ deadlinePassed' = FALSE
  /\ GoTo("race")
  /\ UNCHANGED <<envVars, cmdVars, raceIndex, startRequested, totalCars, finishedCarsCount,
                 resultVars, statVars, playerVars, eventVars, wrecked>>

(* Clock::now() reaches the deadline of the lobby.                         *)
DeadlinePasses ==
  /\ pc \in {"lobby", "lobbyCmds"} /\ raceIndex # 0 /\ ~deadlinePassed
  /\ deadlinePassed' = TRUE
  /\ UNCHANGED <<envVars, cmdVars, pc, raceIndex, startRequested, raceStarted, countVars,
                 resultVars, statVars, playerVars, eventVars, raceTime, wrecked>>
=============================================================================
