----------------------------- MODULE GameManager ----------------------------
(***************************************************************************)
(* GameManager (server_src/server_game_manager.cpp): the games, the        *)
(* clients in the registry of each, and the threads of the games.  Its     *)
(* methods run on the threads of their callers; what a method does under   *)
(* the lock of GameManager is one action, what it does after is another.   *)
(* The race inside a game is GameLoop's business: here its thread runs     *)
(* until it has raced every route or finds itself stopped.                 *)
(***************************************************************************)
EXTENDS Naturals, Sequences, FiniteSets

CONSTANTS
  Clients,
  MaxGames,     \* bound of the model: how many games are ever created
  MaxPlayers    \* the 8 of ClientsRegistry::AddClient

Acceptor == "acceptor"
Callers == Clients \cup {Acceptor}

ASSUME ManagerAssumption ==
  /\ MaxGames \in Nat /\ MaxPlayers \in Nat \ {0}
  /\ Acceptor \notin Clients

VARIABLES
  lastGame,     \* last_id
  listed,       \* keys of games
  registry,     \* of each game: keys of its ClientsRegistry
  game,         \* of each game: its thread
  closedQueues, \* games whose queue GameLoop::stop has closed
  toStop        \* of each calling thread: the game it took off the list, or 0

managerVars == <<lastGame, listed, registry, game, closedQueues, toStop>>

Games == 1..MaxGames

ManagerInit ==
  /\ lastGame = 0 /\ listed = {}
  /\ registry = [g \in Games |-> {}]
  /\ game = [g \in Games |-> "none"]
  /\ closedQueues = {}
  /\ toStop = [w \in Callers |-> 0]

(* A variant that registers the client after it has listed the game.       *)
CreateGameEmpty(c) ==
  /\ lastGame < MaxGames
  /\ lastGame' = lastGame + 1
  /\ listed' = listed \cup {lastGame'}
  /\ game' = [game EXCEPT ![lastGame'] = "created"]
  /\ UNCHANGED <<registry, closedQueues, toStop>>

(* A variant that numbers the games from 0.                                *)
CreateGameFromZero(c) ==
  /\ lastGame < MaxGames
  /\ lastGame' = lastGame + 1
  /\ listed' = listed \cup {lastGame}
  /\ registry' = [registry EXCEPT ![lastGame] = {c}]
  /\ game' = [game EXCEPT ![lastGame] = "created"]
  /\ UNCHANGED <<closedQueues, toStop>>

(* CreateJoinGame(0, ...): the client is registered, then the game listed. *)
CreateGame(c) ==
  /\ lastGame < MaxGames
  /\ lastGame' = lastGame + 1
  /\ listed' = listed \cup {lastGame'}
  /\ registry' = [registry EXCEPT ![lastGame'] = {c}]
  /\ game' = [game EXCEPT ![lastGame'] = "created"]
  /\ UNCHANGED <<closedQueues, toStop>>

(* raw->start(), after the lock.                                           *)
StartGameThread(g) ==
  /\ game' = [game EXCEPT ![g] = "running"]
  /\ UNCHANGED <<lastGame, listed, registry, closedQueues, toStop>>

(* CreateJoinGame(g, ...), under the lock.  A game that has started is not *)
(* joinable; whether this one has is free, except that a game which has    *)
(* raced all its routes stays started.                                     *)
Joinable(g) == g \in listed /\ game[g] # "over"

(* ClientsRegistry::AddClient, after the lock.                             *)
HasRoom(g) == Cardinality(registry[g]) < MaxPlayers

AddClient(c, g) ==
  /\ registry' = [registry EXCEPT ![g] = IF HasRoom(g) THEN @ \cup {c} ELSE @]
  /\ UNCHANGED <<lastGame, listed, game, closedQueues, toStop>>

(* A variant that leaves the empty game on the list.                       *)
LeaveGameListed(who, c, g) ==
  IF g \in listed
  THEN /\ registry' = [registry EXCEPT ![g] = @ \ {c}]
       /\ toStop' = IF registry'[g] = {} THEN [toStop EXCEPT ![who] = g] ELSE toStop
       /\ UNCHANGED <<lastGame, listed, game, closedQueues>>
  ELSE UNCHANGED managerVars

(* LeaveGame, under the lock: the last client to leave takes the game off  *)
(* the list and has to stop it.                                            *)
LeaveGame(who, c, g) ==
  IF g \in listed
  THEN /\ registry' = [registry EXCEPT ![g] = @ \ {c}]
       /\ IF registry'[g] = {}
          THEN listed' = listed \ {g} /\ toStop' = [toStop EXCEPT ![who] = g]
          ELSE UNCHANGED <<listed, toStop>>
       /\ UNCHANGED <<lastGame, game, closedQueues>>
  ELSE UNCHANGED managerVars

(* LeaveGame, after the lock: to_stop->stop() and then to_stop->join().    *)
StopGame(who) ==
  /\ toStop[who] # 0 /\ toStop[who] \notin closedQueues
  /\ closedQueues' = closedQueues \cup {toStop[who]}
  /\ UNCHANGED <<lastGame, listed, registry, game, toStop>>

JoinGameThread(who) ==
  /\ toStop[who] \in closedQueues /\ game[toStop[who]] = "over"
  /\ toStop' = [toStop EXCEPT ![who] = 0]
  /\ UNCHANGED <<lastGame, listed, registry, game, closedQueues>>

(* GameLoop::run returns: it was stopped, or it has raced every route.     *)
GameThreadEnds(g) ==
  /\ game[g] = "running"
  /\ game' = [game EXCEPT ![g] = "over"]
  /\ UNCHANGED <<lastGame, listed, registry, closedQueues, toStop>>
=============================================================================
