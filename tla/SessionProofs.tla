---------------------------- MODULE SessionProofs ---------------------------
(***************************************************************************)
(* The connections of the server, for any number of clients, games and     *)
(* players: the safety properties of SessionProperties.  The invariants    *)
(* are proved one after the other, each from those before it.  Those of    *)
(* the threads and the players do not depend on what the acceptor has on   *)
(* its list: where it calls a handler, they ask whether it is that of a    *)
(* client.  The list itself comes last.                                    *)
(***************************************************************************)
EXTENDS SessionProperties, FiniteSetTheorems, TLAPS

(* Where a receiver is, and what its client has.  Only one that has seen   *)
(* the end of the file is flagged; one that is getting a game has none.    *)
ReceiverOK ==
  \A c \in Clients :
    /\ session[c] = "none" => receiver[c] = "none"
    /\ peerClosed[c] => receiver[c] \in {"break", "exit"}
    /\ receiver[c] \in {"start", "add", "assign"} => joined[c] = 0

(* A game that somebody has to stop is off the list; nobody else has to.   *)
StoppersOK ==
  /\ OneStopper
  /\ \A w \in Callers : toStop[w] # 0 => toStop[w] \notin listed

(* A client that starts a game is in it, and nobody else starts that game. *)
StartersOK ==
  /\ StartedGameExists
  /\ \A c \in Clients : receiver[c] = "start" =>
       /\ c \in registry[target[c]]
       /\ \A d \in Clients \ {c} : receiver[d] = "start" => target[d] # target[c]

(* The handler the acceptor is working on is where the acceptor is.        *)
HandledOK ==
  \A c \in Clients : handlers[it] = c =>
    /\ pc = "stop" => session[c] = "stopping"
    /\ pc = "join" => session[c] = "shut"

(* While the server runs only receivers that have seen the end of the file *)
(* are stopped, and a receiver that has left its game is in none.          *)
RunningOK ==
  ~killing => \A c \in Clients :
    /\ session[c] \in {"none", "live"} \/ receiver[c] \in {"break", "exit"}
    /\ receiver[c] = "leave" => \A g \in listed : c \notin registry[g]

(* The list has a handler once, and its iterator starts at the first.      *)
HandlersOK ==
  /\ HandlersTypeOK
  /\ it \in Nat \ {0}
  /\ \A i, j \in DOMAIN handlers : handlers[i] = handlers[j] => i = j
  /\ \A i \in DOMAIN handlers : session[handlers[i]] # "none"

Accepting == pc \notin {"ended", "exited", "terminated"}

(* While the acceptor runs every session that is not closed is on the      *)
(* list; kill_all leaves closed sessions behind its iterator.              *)
SessionsOK ==
  /\ HandlersOK
  /\ Accepting => \A c \in Clients : session[c] \in {"none", "closed"} \/ c \in ToSet(handlers)
  /\ Accepting /\ killing => \A i \in DOMAIN handlers : i < it => session[handlers[i]] = "closed"
  /\ NoSessionOutlivesAcceptor

(* What is known of the players together.                                  *)
PlayersOK == HandledOK /\ RunningOK /\ ReceiverKnowsGame /\ NoGhostPlayers

-----------------------------------------------------------------------------
(* Who may take a step.                                                    *)
LEMMA StepCases ==
  ASSUME [Next]_vars
  PROVE  \/ UNCHANGED vars
         \/ \E c \in Clients : \/ ReceiverCalls(c) \/ ReceiverRequests(c)
                               \/ SenderStopped(c) \/ SenderFails(c) \/ Accept(c) \/ Disconnect(c)
         \/ AcceptorScans
         \/ GameThreads \/ AskStop \/ ShutListener \/ DestroyServer
  BY DEF Next

(* The methods of GameManager keep the types, and take no id back.         *)
LEMMA ManagerTypes ==
  ASSUME ManagerTypeOK
  PROVE  /\ UNCHANGED managerVars => ManagerTypeOK' /\ lastGame' = lastGame
         /\ \A c \in Clients : CreateGame(c) => ManagerTypeOK' /\ lastGame' = lastGame + 1
         /\ \A g : StartGameThread(g) => ManagerTypeOK' /\ lastGame' = lastGame
         /\ \A c \in Clients : \A g : AddClient(c, g) => ManagerTypeOK' /\ lastGame' = lastGame
         /\ \A w \in Callers : \A c, g : LeaveGame(w, c, g) => ManagerTypeOK' /\ lastGame' = lastGame
         /\ \A w \in Callers : StopGame(w) \/ JoinGameThread(w) => ManagerTypeOK' /\ lastGame' = lastGame
         /\ \A g \in Games : GameThreadEnds(g) => ManagerTypeOK' /\ lastGame' = lastGame
<1> USE ManagerAssumption DEF ManagerTypeOK, Games, Callers
<1>1. ASSUME NEW c \in Clients, CreateGame(c) PROVE ManagerTypeOK' /\ lastGame' = lastGame + 1
  BY <1>1 DEF CreateGame
<1>2. ASSUME NEW g, StartGameThread(g) PROVE ManagerTypeOK' /\ lastGame' = lastGame
  BY <1>2 DEF StartGameThread
<1>3. ASSUME NEW c \in Clients, NEW g, AddClient(c, g)
      PROVE  ManagerTypeOK' /\ lastGame' = lastGame
  BY <1>3 DEF AddClient
<1>4. ASSUME NEW w \in Callers, NEW c, NEW g, LeaveGame(w, c, g)
      PROVE  ManagerTypeOK' /\ lastGame' = lastGame
  <2>1. CASE g \notin listed
    BY <1>4, <2>1 DEF LeaveGame, managerVars
  <2>2. CASE g \in listed
    <3>1. g \in Games /\ g \in 0..lastGame /\ lastGame \in Nat
      BY <2>2
    <3>2. registry' \in [Games -> SUBSET Clients] /\ UNCHANGED <<lastGame, game, closedQueues>>
      BY <1>4, <2>2 DEF LeaveGame
    <3>3. listed' \subseteq 1..lastGame /\ toStop' \in [Callers -> 0..lastGame]
      BY <1>4, <2>2, <3>1 DEF LeaveGame
    <3> QED BY <3>2, <3>3
  <2> QED BY <2>1, <2>2
<1>5. ASSUME NEW w \in Callers, StopGame(w) \/ JoinGameThread(w)
      PROVE  ManagerTypeOK' /\ lastGame' = lastGame
  <2>1. toStop[w] \in 0..lastGame /\ lastGame \in Nat /\ 0 \in 0..lastGame
    OBVIOUS
  <2>2. CASE StopGame(w)
    <3>1. toStop[w] \in 1..lastGame
      BY <2>1, <2>2 DEF StopGame
    <3> QED BY <2>2, <3>1 DEF StopGame
  <2>3. CASE JoinGameThread(w)
    BY <2>1, <2>3 DEF JoinGameThread
  <2> QED BY <1>5, <2>2, <2>3
<1>6. ASSUME NEW g \in Games, GameThreadEnds(g) PROVE ManagerTypeOK' /\ lastGame' = lastGame
  BY <1>6 DEF GameThreadEnds
<1>7. UNCHANGED managerVars => ManagerTypeOK' /\ lastGame' = lastGame
  BY DEF managerVars
<1> QED BY <1>1, <1>2, <1>3, <1>4, <1>5, <1>6, <1>7

(* Every id in use was given out by CreateJoinGame, and every thread is    *)
(* where its loop can be: the types, for any clients and games.            *)
THEOREM ThreadTypesCorrect == Spec => [](ManagerTypeOK /\ ThreadTypeOK)
<1>1. SessionsInit => ManagerTypeOK /\ ThreadTypeOK
  <2> SUFFICES ASSUME SessionsInit PROVE ManagerTypeOK /\ ThreadTypeOK
    OBVIOUS
  <2>1. lastGame = 0 /\ lastGame \in 0..MaxGames
    BY ManagerAssumption DEF SessionsInit, ManagerInit
  <2>2. ManagerTypeOK
    BY <2>1 DEF SessionsInit, ManagerInit, ManagerTypeOK
  <2>3. ThreadTypeOK
    <3>1. 0 \in 0..lastGame
      BY <2>1
    <3> QED BY <3>1 DEF SessionsInit, ThreadTypeOK, SessionStates
  <2> QED BY <2>2, <2>3
<1>2. ManagerTypeOK /\ ThreadTypeOK /\ [Next]_vars => (ManagerTypeOK /\ ThreadTypeOK)'
  <2> SUFFICES ASSUME ManagerTypeOK, ThreadTypeOK, [Next]_vars PROVE (ManagerTypeOK /\ ThreadTypeOK)'
    OBVIOUS
  <2>1. CASE UNCHANGED vars
    BY <2>1 DEF vars, managerVars, acceptorVars, threadVars, ManagerTypeOK, ThreadTypeOK
  <2> USE DEF acceptorVars, threadVars, ReceiverAt, AcceptorAt, NoGame, AfterCommand, SessionStates
  <2>2. ASSUME NEW c \in Clients, ReceiverCalls(c) PROVE (ManagerTypeOK /\ ThreadTypeOK)'
    <3>1. CASE StartNewGame(c)
      <4>1. StartGameThread(target[c]) \/ UNCHANGED managerVars
        BY <3>1 DEF StartNewGame
      <4>2. ManagerTypeOK' /\ lastGame' = lastGame
        BY <4>1, ManagerTypes
      <4>3. 0 \in 0..lastGame
        BY DEF ManagerTypeOK
      <4> QED BY <3>1, <4>2, <4>3 DEF StartNewGame, ThreadTypeOK
    <3>2. CASE AddToGame(c)
      <4>1. ManagerTypeOK' /\ lastGame' = lastGame /\ 0 \in 0..lastGame
        BY <3>2, ManagerTypes DEF AddToGame, ManagerTypeOK
      <4> QED BY <3>2, <4>1 DEF AddToGame, ThreadTypeOK
    <3>3. CASE AssignGame(c) \/ ForgetGame(c)
      <4>1. 0 \in 0..lastGame
        BY DEF ManagerTypeOK
      <4> QED BY <3>3, <4>1, ManagerTypes DEF AssignGame, ForgetGame, ThreadTypeOK
    <3>5. CASE ReceiveEof(c) \/ ReceiveCut(c) \/ ReceiverEnds(c)
      BY <3>5, ManagerTypes DEF ReceiveEof, NoMoreBytes, ReceiveCut, ReceiverEnds, ThreadTypeOK
    <3>4. CASE (StopGame(c) \/ JoinGameThread(c)) /\ NotSessions
      BY <3>4, ManagerTypes DEF NotSessions, Callers, ThreadTypeOK
    <3> QED BY <2>2, <3>1, <3>2, <3>3, <3>4, <3>5 DEF ReceiverCalls
  <2>3. ASSUME NEW c \in Clients, ReceiverRequests(c) PROVE (ManagerTypeOK /\ ThreadTypeOK)'
    <3>1. CASE RequestNewGame(c)
      BY <3>1, ManagerTypes DEF RequestNewGame, ManagerTypeOK, ThreadTypeOK
    <3>2. CASE RequestLeave(c)
      BY <3>2, ManagerTypes DEF RequestLeave, Callers, ThreadTypeOK
    <3>3. CASE RequestGames(c) \/ Command(c)
      BY <3>3, ManagerTypes DEF RequestGames, Command, ThreadTypeOK
    <3>4. ASSUME NEW g \in Games, RequestJoin(c, g) PROVE (ManagerTypeOK /\ ThreadTypeOK)'
      <4>1. g \in 0..lastGame
        BY <3>4 DEF RequestJoin, Joinable, ManagerTypeOK
      <4> QED BY <3>4, <4>1, ManagerTypes DEF RequestJoin, ThreadTypeOK
    <3> QED BY <2>3, <3>1, <3>2, <3>3, <3>4 DEF ReceiverRequests
  <2>4. ASSUME AcceptorScans PROVE (ManagerTypeOK /\ ThreadTypeOK)'
    <3>1. CASE StopReceiver
      BY <3>1, ManagerTypes DEF StopReceiver, Callers, ThreadTypeOK
    <3>2. CASE (StopGame(Acceptor) \/ JoinGameThread(Acceptor)) /\ NotSessions
      BY <3>2, ManagerTypes DEF NotSessions, Callers, ThreadTypeOK
    <3>3. CASE AcceptFails \/ PollQuiet \/ ShutSession \/ JoinSession \/ KilledAll
      BY <3>3, ManagerTypes DEF AcceptFails, PollQuiet, ShutSession, JoinSession, KilledAll, ThreadTypeOK
    <3>4. CASE ReapDead
      <4>1. UNCHANGED managerVars /\ UNCHANGED <<stop, gone, session, threadVars>>
        BY <3>4 DEF ReapDead
      <4>2. pc' \in {"terminated", "accept", "scan"} /\ killing' \in {killing, TRUE}
        BY <3>4 DEF ReapDead
      <4> QED BY <4>1, <4>2, ManagerTypes DEF ThreadTypeOK
    <3> QED BY <2>4, <3>1, <3>2, <3>3, <3>4 DEF AcceptorScans
  <2>5. ASSUME NEW c \in Clients, SenderStopped(c) \/ SenderFails(c) \/ Accept(c) \/ Disconnect(c)
        PROVE (ManagerTypeOK /\ ThreadTypeOK)'
    BY <2>5, ManagerTypes
       DEF SenderStopped, SenderFails, SenderEnds, Accept, Disconnect, ThreadTypeOK
  <2>6. ASSUME GameThreads \/ AskStop \/ ShutListener \/ DestroyServer
        PROVE (ManagerTypeOK /\ ThreadTypeOK)'
    <3>1. CASE GameThreads
      BY <3>1, ManagerTypes DEF GameThreads, NotSessions, ThreadTypeOK
    <3>2. CASE AskStop \/ ShutListener \/ DestroyServer
      BY <3>2, ManagerTypes DEF AskStop, ShutListener, DestroyServer, ThreadTypeOK
    <3> QED BY <2>6, <3>1, <3>2
  <2> QED BY <2>1, <2>2, <2>3, <2>4, <2>5, <2>6, StepCases
<1> QED BY <1>1, <1>2, PTL DEF Spec

-----------------------------------------------------------------------------
(* What is known of the threads together.                                  *)
ThreadsOK == ClosedSocketsAreIdle /\ ReceiverOK

(* What a step does to the threads of the connections keeps them in order. *)
LEMMA ThreadsStep ==
  ASSUME ThreadTypeOK, ThreadsOK, [Next]_vars
  PROVE  ThreadsOK'
<1> USE DEF ThreadsOK, ClosedSocketsAreIdle, ReceiverOK, ThreadTypeOK
<1> USE DEF acceptorVars, threadVars, ReceiverAt, NoGame, AfterCommand
<1>1. CASE UNCHANGED vars
  BY <1>1 DEF vars
<1>2. ASSUME NEW c \in Clients, ReceiverCalls(c) PROVE ThreadsOK'
  <2>1. CASE StartNewGame(c) \/ AddToGame(c)
    BY <2>1 DEF StartNewGame, AddToGame
  <2>2. CASE AssignGame(c) \/ ForgetGame(c)
    BY <2>2 DEF AssignGame, ForgetGame
  <2>3. CASE ReceiveEof(c) \/ ReceiveCut(c) \/ ReceiverEnds(c)
    BY <2>3 DEF ReceiveEof, NoMoreBytes, ReceiveCut, ReceiverEnds
  <2>4. CASE NotSessions
    BY <2>4 DEF NotSessions
  <2> QED BY <1>2, <2>1, <2>2, <2>3, <2>4 DEF ReceiverCalls
<1>3. ASSUME NEW c \in Clients, ReceiverRequests(c) PROVE ThreadsOK'
  <2>1. CASE RequestNewGame(c) \/ RequestLeave(c)
    BY <2>1 DEF RequestNewGame, RequestLeave, Receiving
  <2>2. CASE RequestGames(c) \/ Command(c)
    BY <2>2 DEF RequestGames, Command, Receiving
  <2>3. ASSUME NEW g \in Games, RequestJoin(c, g) PROVE ThreadsOK'
    BY <2>3 DEF RequestJoin, Receiving
  <2> QED BY <1>3, <2>1, <2>2, <2>3 DEF ReceiverRequests
<1>4. ASSUME NEW c \in Clients, SenderStopped(c) \/ SenderFails(c) PROVE ThreadsOK'
  BY <1>4 DEF SenderStopped, SenderFails, SenderEnds
<1>5. ASSUME NEW c \in Clients, Accept(c) \/ Disconnect(c) PROVE ThreadsOK'
  BY <1>5 DEF Accept, Disconnect
<1>6. ASSUME AcceptorScans PROVE ThreadsOK'
  <2>1. CASE StopReceiver \/ ShutSession
    BY <2>1 DEF StopReceiver, ShutSession
  <2>2. CASE JoinSession
    BY <2>2 DEF JoinSession
  <2>3. CASE AcceptFails \/ PollQuiet \/ KilledAll \/ NotSessions
    BY <2>3 DEF AcceptFails, PollQuiet, KilledAll, NotSessions
  <2>4. CASE ReapDead
    BY <2>4 DEF ReapDead
  <2> QED BY <1>6, <2>1, <2>2, <2>3, <2>4 DEF AcceptorScans
<1>7. ASSUME GameThreads \/ AskStop \/ ShutListener \/ DestroyServer PROVE ThreadsOK'
  BY <1>7 DEF GameThreads, NotSessions, AskStop, ShutListener, DestroyServer
<1> QED BY <1>1, <1>2, <1>3, <1>4, <1>5, <1>6, <1>7, StepCases

(* Whatever the order in which a socket is closed, its handler is stopped  *)
(* and its threads end: the close comes last.                              *)
THEOREM SocketsCloseLast == Spec => []ClosedSocketsAreIdle
<1>1. SessionsInit => ThreadsOK
  BY DEF SessionsInit, ThreadsOK, ClosedSocketsAreIdle, ReceiverOK
<1>2. ThreadTypeOK /\ ThreadsOK /\ [Next]_vars => ThreadsOK'
  BY ThreadsStep
<1>3. ThreadsOK => ClosedSocketsAreIdle
  BY DEF ThreadsOK
<1> QED BY <1>1, <1>2, <1>3, ThreadTypesCorrect, PTL DEF Spec

-----------------------------------------------------------------------------
(* What a step does to the list of games and to those who have to stop one.*)
LEMMA ManagerSteps ==
  ASSUME [Next]_vars
  PROVE  \/ UNCHANGED <<lastGame, listed, toStop>>
         \/ \E c \in Clients : CreateGame(c)
         \/ \E w \in Callers : \E c, g : LeaveGame(w, c, g)
         \/ \E w \in Callers : JoinGameThread(w)
<1> DEFINE Done == \/ UNCHANGED <<lastGame, listed, toStop>>
                   \/ \E c \in Clients : CreateGame(c)
                   \/ \E w \in Callers : \E c, g : LeaveGame(w, c, g)
                   \/ \E w \in Callers : JoinGameThread(w)
<1> USE DEF managerVars, Callers
<1>1. CASE UNCHANGED vars
  BY <1>1 DEF vars
<1>2. ASSUME NEW c \in Clients, ReceiverCalls(c) PROVE Done
  <2>1. CASE StartNewGame(c) \/ AddToGame(c)
    BY <2>1 DEF StartNewGame, AddToGame, StartGameThread, AddClient
  <2>2. CASE AssignGame(c) \/ ForgetGame(c) \/ ReceiveEof(c) \/ ReceiveCut(c) \/ ReceiverEnds(c)
    BY <2>2 DEF AssignGame, ForgetGame, ReceiveEof, NoMoreBytes, ReceiveCut, ReceiverEnds
  <2>3. CASE StopGame(c)
    BY <2>3 DEF StopGame
  <2>4. CASE JoinGameThread(c)
    BY <2>4
  <2> QED BY <1>2, <2>1, <2>2, <2>3, <2>4 DEF ReceiverCalls
<1>3. ASSUME NEW c \in Clients, ReceiverRequests(c) PROVE Done
  <2>1. CASE RequestNewGame(c)
    BY <2>1 DEF RequestNewGame
  <2>2. CASE RequestLeave(c)
    BY <2>2 DEF RequestLeave
  <2>3. CASE RequestGames(c) \/ Command(c)
    BY <2>3 DEF RequestGames, Command
  <2>4. ASSUME NEW g \in Games, RequestJoin(c, g) PROVE Done
    BY <2>4 DEF RequestJoin
  <2> QED BY <1>3, <2>1, <2>2, <2>3, <2>4 DEF ReceiverRequests
<1>4. ASSUME NEW c \in Clients, SenderStopped(c) \/ SenderFails(c) \/ Accept(c) \/ Disconnect(c)
      PROVE  Done
  BY <1>4 DEF SenderStopped, SenderFails, SenderEnds, Accept, Disconnect
<1>5. ASSUME AcceptorScans PROVE Done
  <2>1. CASE StopReceiver
    BY <2>1 DEF StopReceiver
  <2>2. CASE AcceptFails \/ PollQuiet \/ ShutSession \/ JoinSession
    BY <2>2 DEF AcceptFails, PollQuiet, ShutSession, JoinSession
  <2>3. CASE ReapDead \/ KilledAll
    BY <2>3 DEF ReapDead, KilledAll
  <2>4. CASE StopGame(Acceptor)
    BY <2>4 DEF StopGame
  <2>5. CASE JoinGameThread(Acceptor)
    BY <2>5
  <2> QED BY <1>5, <2>1, <2>2, <2>3, <2>4, <2>5 DEF AcceptorScans
<1>6. ASSUME GameThreads \/ AskStop \/ ShutListener \/ DestroyServer PROVE Done
  BY <1>6 DEF GameThreads, GameThreadEnds, AskStop, ShutListener, DestroyServer
<1> QED BY <1>1, <1>2, <1>3, <1>4, <1>5, <1>6, StepCases

(* However many clients leave a game at the same time, with or without     *)
(* their connection, one thread stops and joins it.                        *)
THEOREM GamesHaveOneStopper == Spec => []OneStopper
<1>1. SessionsInit => StoppersOK
  BY DEF SessionsInit, ManagerInit, StoppersOK, OneStopper
<1>2. ManagerTypeOK /\ StoppersOK /\ [Next]_vars => StoppersOK'
  <2> SUFFICES ASSUME ManagerTypeOK, StoppersOK, [Next]_vars PROVE StoppersOK'
    OBVIOUS
  <2> USE DEF StoppersOK, OneStopper
  <2>1. CASE UNCHANGED <<lastGame, listed, toStop>>
    BY <2>1
  <2>2. ASSUME NEW c \in Clients, CreateGame(c) PROVE StoppersOK'
    BY <2>2 DEF CreateGame, ManagerTypeOK
  <2>3. ASSUME NEW w \in Callers, NEW c, NEW g, LeaveGame(w, c, g) PROVE StoppersOK'
    BY <2>3 DEF LeaveGame, managerVars, ManagerTypeOK
  <2>4. ASSUME NEW w \in Callers, JoinGameThread(w) PROVE StoppersOK'
    BY <2>4 DEF JoinGameThread, ManagerTypeOK
  <2> QED BY <2>1, <2>2, <2>3, <2>4, ManagerSteps
<1>3. StoppersOK => OneStopper
  BY DEF StoppersOK
<1> QED BY <1>1, <1>2, <1>3, ThreadTypesCorrect, PTL DEF Spec

-----------------------------------------------------------------------------
(* A game on the list is one that was created.                             *)
LEMMA ListedGames ==
  ASSUME ManagerTypeOK
  PROVE  listed \subseteq Games /\ 0 \notin listed /\ lastGame \in Nat
  BY ManagerAssumption DEF ManagerTypeOK, Games

(* A departure from a game takes neither the game nor its place from a     *)
(* client that is about to start it.                                       *)
LEMMA LeaveKeepsStarters ==
  ASSUME ManagerTypeOK, ThreadTypeOK, ReceiverOK, StartersOK,
         NEW w, NEW c, LeaveGame(w, c, joined[c]),
         NEW d \in Clients, receiver[d] = "start"
  PROVE  /\ target[d] \in listed' /\ d \in registry'[target[d]] /\ game' = game
<1>1. target[d] \in listed /\ target[d] \in Games /\ d \in registry[target[d]]
  BY ListedGames DEF StartersOK, StartedGameExists
<1>2. joined[d] = 0 /\ 0 \notin listed
  BY DEF ReceiverOK, ManagerTypeOK
<1>3. c = d => UNCHANGED managerVars
  BY <1>2 DEF LeaveGame
<1>4. ASSUME c # d, target[d] = joined[c] PROVE d \in registry'[target[d]] /\ listed' = listed
  BY <1>1, <1>4 DEF LeaveGame, ManagerTypeOK, managerVars
<1>5. ASSUME target[d] # joined[c] PROVE d \in registry'[target[d]] /\ target[d] \in listed'
  BY <1>1, <1>5 DEF LeaveGame, ManagerTypeOK, managerVars
<1>6. game' = game
  BY DEF LeaveGame, managerVars
<1> QED BY <1>1, <1>3, <1>4, <1>5, <1>6 DEF managerVars

(* No step takes the game away from a client that is about to start it.    *)
LEMMA StartersStep ==
  ASSUME ManagerTypeOK, ThreadTypeOK, ReceiverOK, StartersOK, [Next]_vars
  PROVE  StartersOK'
<1> USE DEF acceptorVars, threadVars, managerVars, ReceiverAt, NoGame, AfterCommand
<1> DEFINE SameGames == UNCHANGED <<listed, registry, game, target>>
           NoneNew == \A d \in Clients : receiver'[d] = "start" => receiver[d] = "start"
<1>a. SameGames /\ NoneNew => StartersOK'
  BY DEF StartersOK, StartedGameExists
<1>1. CASE UNCHANGED vars
  BY <1>1, <1>a DEF vars
<1>2. ASSUME NEW c \in Clients, ReceiverCalls(c) PROVE StartersOK'
  <2>1. CASE StartNewGame(c)
    <3>1. UNCHANGED <<listed, registry>> /\ receiver'[c] # "start" /\ NoneNew
      BY <2>1 DEF StartNewGame, StartGameThread, ThreadTypeOK
    <3>2. ASSUME NEW d \in Clients, receiver'[d] = "start"
          PROVE  receiver[d] = "start" /\ d # c /\ target'[d] = target[d] /\ target[d] # target[c]
      BY <2>1, <3>1, <3>2 DEF StartNewGame, StartersOK, ThreadTypeOK
    <3>3. \A g \in Games : g # target[c] => game'[g] = game[g]
      BY <2>1 DEF StartNewGame, StartGameThread, ManagerTypeOK
    <3> QED BY <3>1, <3>2, <3>3, ListedGames DEF StartersOK, StartedGameExists
  <2>2. CASE AddToGame(c)
    <3>1. UNCHANGED <<listed, game>> /\ NoneNew
      BY <2>2 DEF AddToGame, AddClient, ThreadTypeOK
    <3>2. \A g \in Games : registry[g] \subseteq registry'[g]
      BY <2>2 DEF AddToGame, AddClient, ManagerTypeOK
    <3>3. \A d \in Clients : receiver'[d] = "start" => target'[d] = target[d]
      BY <2>2 DEF AddToGame, ThreadTypeOK
    <3> QED BY <3>1, <3>2, <3>3, ListedGames DEF StartersOK, StartedGameExists
  <2>3. CASE AssignGame(c)
    BY <2>3 DEF AssignGame, StartersOK, StartedGameExists, ThreadTypeOK
  <2>4. CASE ForgetGame(c) \/ ReceiveEof(c) \/ ReceiveCut(c) \/ ReceiverEnds(c)
    BY <2>4, <1>a DEF ForgetGame, ReceiveEof, NoMoreBytes, ReceiveCut, ReceiverEnds, ThreadTypeOK
  <2>5. CASE (StopGame(c) \/ JoinGameThread(c)) /\ NotSessions
    BY <2>5, <1>a DEF StopGame, JoinGameThread, NotSessions
  <2> QED BY <1>2, <2>1, <2>2, <2>3, <2>4, <2>5 DEF ReceiverCalls
<1>3. ASSUME NEW c \in Clients, ReceiverRequests(c) PROVE StartersOK'
  <2>1. CASE RequestNewGame(c)
    <3>1. lastGame + 1 \in Games /\ lastGame + 1 \notin listed /\ listed \subseteq Games
      BY <2>1, ListedGames, ManagerAssumption DEF RequestNewGame, CreateGame, ManagerTypeOK, Games
    <3>2. \A d \in Clients : target[d] # lastGame + 1
      BY ListedGames DEF ThreadTypeOK
    <3>3. /\ listed' = listed \cup {lastGame + 1}
          /\ \A g \in Games \ {lastGame + 1} : registry'[g] = registry[g] /\ game'[g] = game[g]
          /\ registry'[lastGame + 1] = {c} /\ game'[lastGame + 1] = "created"
      BY <2>1, <3>1 DEF RequestNewGame, CreateGame, ManagerTypeOK
    <3>4. /\ target'[c] = lastGame + 1 /\ receiver'[c] = "start"
          /\ \A d \in Clients \ {c} : target'[d] = target[d] /\ receiver'[d] = receiver[d]
      BY <2>1 DEF RequestNewGame, CreateGame, ThreadTypeOK
    <3> QED BY <3>1, <3>2, <3>3, <3>4 DEF StartersOK, StartedGameExists
  <2>2. CASE RequestLeave(c)
    <3>1. UNCHANGED target /\ NoneNew
      BY <2>2 DEF RequestLeave, ThreadTypeOK
    <3>2. ASSUME NEW d \in Clients, receiver[d] = "start"
          PROVE  target[d] \in listed' /\ d \in registry'[target[d]] /\ game' = game
      BY <2>2, <3>2, LeaveKeepsStarters DEF RequestLeave
    <3> QED BY <3>1, <3>2 DEF StartersOK, StartedGameExists
  <2>3. CASE RequestGames(c) \/ Command(c)
    BY <2>3, <1>a DEF RequestGames, Command, ThreadTypeOK
  <2>4. ASSUME NEW g \in Games, RequestJoin(c, g) PROVE StartersOK'
    BY <2>4 DEF RequestJoin, Receiving, StartersOK, StartedGameExists, ThreadTypeOK
  <2> QED BY <1>3, <2>1, <2>2, <2>3, <2>4 DEF ReceiverRequests
<1>4. ASSUME NEW c \in Clients, SenderStopped(c) \/ SenderFails(c) \/ Accept(c) \/ Disconnect(c)
      PROVE  StartersOK'
  BY <1>4, <1>a DEF SenderStopped, SenderFails, SenderEnds, Accept, Disconnect, ThreadTypeOK
<1>5. ASSUME AcceptorScans PROVE StartersOK'
  <2>1. CASE StopReceiver
    <3>1. UNCHANGED target /\ NoneNew
      BY <2>1 DEF StopReceiver
    <3>2. ASSUME NEW d \in Clients, receiver[d] = "start"
          PROVE  target[d] \in listed' /\ d \in registry'[target[d]] /\ game' = game
      BY <2>1, <3>2, LeaveKeepsStarters DEF StopReceiver
    <3> QED BY <3>1, <3>2 DEF StartersOK, StartedGameExists
  <2>2. CASE AcceptFails \/ PollQuiet \/ ShutSession \/ JoinSession
    BY <2>2, <1>a DEF AcceptFails, PollQuiet, ShutSession, JoinSession
  <2>3. CASE ReapDead \/ KilledAll
    BY <2>3, <1>a DEF ReapDead, KilledAll
  <2>4. CASE (StopGame(Acceptor) \/ JoinGameThread(Acceptor)) /\ NotSessions
    BY <2>4, <1>a DEF StopGame, JoinGameThread, NotSessions
  <2> QED BY <1>5, <2>1, <2>2, <2>3, <2>4 DEF AcceptorScans
<1>6. ASSUME GameThreads PROVE StartersOK'
  BY <1>6 DEF GameThreads, GameThreadEnds, NotSessions, StartersOK, StartedGameExists, ManagerTypeOK, Games
<1>7. ASSUME AskStop \/ ShutListener \/ DestroyServer PROVE StartersOK'
  BY <1>7, <1>a DEF AskStop, ShutListener, DestroyServer
<1> QED BY <1>1, <1>2, <1>3, <1>4, <1>5, <1>6, <1>7, StepCases

(* The raw pointer through which CreateJoinGame starts a new game points   *)
(* at a game that is on the list and has not been started, whoever joins   *)
(* and leaves it in between.                                               *)
THEOREM StartedGamesExist == Spec => []StartedGameExists
<1>1. SessionsInit => ThreadsOK /\ StartersOK
  BY DEF SessionsInit, ThreadsOK, ClosedSocketsAreIdle, ReceiverOK, StartersOK, StartedGameExists
<1>2. ManagerTypeOK /\ ThreadTypeOK /\ ThreadsOK /\ StartersOK /\ [Next]_vars
        => (ThreadsOK /\ StartersOK)'
  BY ThreadsStep, StartersStep DEF ThreadsOK
<1>3. StartersOK => StartedGameExists
  BY DEF StartersOK
<1> QED BY <1>1, <1>2, <1>3, ThreadTypesCorrect, PTL DEF Spec

-----------------------------------------------------------------------------
(* A caller of LeaveGame leaves its client in no listed game, if the game  *)
(* it names is the only one the client can be in; others keep their games. *)
LEMMA LeaveKeepsPlayers ==
  ASSUME ManagerTypeOK, NEW w, NEW c, NEW n, LeaveGame(w, c, n),
         \A g \in listed : c \in registry[g] => g = n
  PROVE  /\ listed' \subseteq listed
         /\ \A g \in listed' : c \notin registry'[g] /\ registry'[g] \subseteq registry[g]
<1>1. listed \subseteq Games
  BY ListedGames
<1>2. CASE n \notin listed
  BY <1>2 DEF LeaveGame, managerVars
<1>3. CASE n \in listed
  BY <1>1, <1>3 DEF LeaveGame, ManagerTypeOK
<1> QED BY <1>2, <1>3

(* The acceptor stops, shuts and joins the handler it is working on.       *)
LEMMA HandledStep ==
  ASSUME ThreadTypeOK, HandledOK, [Next]_vars
  PROVE  HandledOK'
<1> USE DEF HandledOK, ThreadTypeOK, acceptorVars, threadVars
<1>1. CASE UNCHANGED vars
  BY <1>1 DEF vars
<1>2. ASSUME NEW c \in Clients, ReceiverCalls(c) \/ ReceiverRequests(c) PROVE HandledOK'
  <2>1. UNCHANGED acceptorVars /\ UNCHANGED session
    BY <1>2 DEF ReceiverCalls, ReceiverRequests, StartNewGame, AddToGame, AssignGame, ForgetGame,
                ReceiveEof, NoMoreBytes, ReceiveCut, ReceiverEnds, NotSessions, RequestNewGame,
                RequestLeave, RequestGames, Command, RequestJoin
  <2> QED BY <2>1
<1>3. ASSUME NEW c \in Clients, SenderStopped(c) \/ SenderFails(c) \/ Accept(c) \/ Disconnect(c)
      PROVE  HandledOK'
  BY <1>3 DEF SenderStopped, SenderFails, SenderEnds, Accept, AcceptorAt, Disconnect
<1>4. ASSUME AcceptorScans PROVE HandledOK'
  <2>1. CASE StopReceiver
    BY <2>1 DEF StopReceiver, AcceptorAt
  <2>2. CASE ShutSession
    BY <2>2 DEF ShutSession, AcceptorAt
  <2>3. CASE AcceptFails \/ PollQuiet \/ JoinSession \/ KilledAll
    BY <2>3 DEF AcceptFails, PollQuiet, JoinSession, KilledAll, AcceptorAt
  <2>4. CASE ReapDead
    <3>1. pc' \notin {"stop", "join"}
      BY <2>4 DEF ReapDead, AcceptorAt
    <3> QED BY <3>1
  <2>5. CASE NotSessions
    BY <2>5 DEF NotSessions
  <2> QED BY <1>4, <2>1, <2>2, <2>3, <2>4, <2>5 DEF AcceptorScans
<1>5. ASSUME GameThreads \/ AskStop \/ ShutListener \/ DestroyServer PROVE HandledOK'
  BY <1>5 DEF GameThreads, NotSessions, AskStop, ShutListener, DestroyServer, AcceptorAt
<1> QED BY <1>1, <1>2, <1>3, <1>4, <1>5, StepCases

(* No step puts a client in a game its receiver does not know of, or ends  *)
(* the connection of a client that is still in one.                        *)
LEMMA PlayersStep ==
  ASSUME ManagerTypeOK, ThreadTypeOK, ReceiverOK, PlayersOK, [Next]_vars
  PROVE  PlayersOK'
<1> DEFINE Players == RunningOK /\ ReceiverKnowsGame /\ NoGhostPlayers
<1> SUFFICES Players'
  BY HandledStep DEF PlayersOK
<1> USE DEF acceptorVars, threadVars, managerVars, ReceiverAt, NoGame, AfterCommand
<1>0. ReceiverOK /\ HandledOK /\ RunningOK /\ ReceiverKnowsGame /\ NoGhostPlayers
  BY DEF PlayersOK
<1>a. listed \subseteq Games /\ 0 \notin listed
  BY ListedGames
<1>b. SUFFICES ASSUME ~killing' PROVE Players'
  BY DEF RunningOK, ReceiverKnowsGame, NoGhostPlayers
<1>c. ASSUME ~killing, NEW c \in Clients, receiver[c] \notin {"none", "break", "exit"}
      PROVE  session[c] = "live"
  BY <1>0, <1>c DEF RunningOK, ReceiverOK
<1>d. ASSUME ~killing, NEW c \in Clients, receiver[c] \notin {"start", "assign"}
      PROVE  \A g \in listed : c \in registry[g] => g = joined[c]
  BY <1>0, <1>d DEF ReceiverKnowsGame
<1>1. CASE UNCHANGED vars
  BY <1>0, <1>b, <1>1 DEF vars, RunningOK, ReceiverKnowsGame, NoGhostPlayers
<1>2. ASSUME NEW c \in Clients, ReceiverCalls(c) PROVE Players'
  <2>1. CASE StartNewGame(c)
    <3>1. ~killing /\ receiver[c] = "start" /\ session[c] = "live"
      BY <1>b, <1>c, <2>1 DEF StartNewGame
    <3>2. /\ UNCHANGED <<listed, registry, session, joined, target>>
          /\ receiver' = [receiver EXCEPT ![c] = "assign"]
      BY <2>1, <3>1 DEF StartNewGame, StartGameThread, CanAnswer
    <3> QED BY <1>0, <3>1, <3>2 DEF RunningOK, ReceiverKnowsGame, NoGhostPlayers, ThreadTypeOK
  <2>2. CASE AddToGame(c)
    <3>1. ~killing /\ receiver[c] = "add" /\ session[c] = "live"
      BY <1>b, <1>c, <2>2 DEF AddToGame
    <3>2. \A g \in listed : c \notin registry[g]
      BY <1>0, <1>a, <1>d, <3>1 DEF ReceiverOK
    <3>3. UNCHANGED <<listed, session, joined>>
      BY <2>2 DEF AddToGame, AddClient
    <3>4. CASE HasRoom(target[c])
      <4>1. receiver' = [receiver EXCEPT ![c] = "assign"] /\ UNCHANGED target
        BY <2>2, <3>1, <3>4 DEF AddToGame, CanAnswer
      <4>2. /\ \A g \in listed \ {target[c]} : registry'[g] = registry[g]
            /\ target[c] \in listed => registry'[target[c]] = registry[target[c]] \cup {c}
        BY <1>a, <2>2, <3>4 DEF AddToGame, AddClient, ManagerTypeOK
      <4> QED BY <1>0, <3>1, <3>2, <3>3, <4>1, <4>2
              DEF RunningOK, ReceiverKnowsGame, NoGhostPlayers, ThreadTypeOK
    <3>5. CASE ~HasRoom(target[c])
      <4>1. receiver' = [receiver EXCEPT ![c] = "recv"] /\ target' = [target EXCEPT ![c] = 0]
        BY <2>2, <3>1, <3>5 DEF AddToGame
      <4>2. \A g \in listed : registry'[g] = registry[g]
        BY <1>a, <2>2, <3>5 DEF AddToGame, AddClient, ManagerTypeOK
      <4> QED BY <1>0, <3>1, <3>2, <3>3, <4>1, <4>2
              DEF RunningOK, ReceiverKnowsGame, NoGhostPlayers, ThreadTypeOK
    <3> QED BY <3>4, <3>5
  <2>3. CASE AssignGame(c)
    <3>1. ~killing /\ receiver[c] = "assign" /\ joined[c] = 0 /\ session[c] = "live"
      BY <1>0, <1>b, <1>c, <2>3 DEF AssignGame, ReceiverOK
    <3>2. /\ UNCHANGED <<listed, registry, session>>
          /\ receiver' = [receiver EXCEPT ![c] = "recv"]
          /\ joined' = [joined EXCEPT ![c] = target[c]]
          /\ target' = [target EXCEPT ![c] = 0]
      BY <2>3, <3>1 DEF AssignGame
    <3>3. \A g \in listed : c \in registry[g] => g = target[c]
      BY <1>0, <1>a, <3>1 DEF ReceiverKnowsGame
    <3> QED BY <1>0, <3>1, <3>2, <3>3 DEF RunningOK, ReceiverKnowsGame, NoGhostPlayers, ThreadTypeOK
  <2>4. CASE ForgetGame(c)
    <3>1. ~killing /\ receiver[c] = "leave" /\ session[c] = "live"
      BY <1>b, <1>c, <2>4 DEF ForgetGame
    <3>2. /\ UNCHANGED <<listed, registry, session, target>>
          /\ receiver' = [receiver EXCEPT ![c] = "recv"]
          /\ joined' = [joined EXCEPT ![c] = 0]
      BY <2>4, <3>1 DEF ForgetGame
    <3> QED BY <1>0, <3>1, <3>2 DEF RunningOK, ReceiverKnowsGame, NoGhostPlayers, ThreadTypeOK
  <2>6. CASE ReceiveEof(c) \/ ReceiveCut(c) \/ ReceiverEnds(c)
    <3>1. /\ UNCHANGED <<killing, listed, registry, session, joined, target>>
          /\ \E at \in {"break", "exit"} : receiver' = [receiver EXCEPT ![c] = at]
          /\ receiver[c] \in {"recv", "break"}
      BY <2>6 DEF ReceiveEof, NoMoreBytes, ReceiveCut, ReceiverEnds
    <3> QED BY <1>0, <1>b, <3>1 DEF RunningOK, ReceiverKnowsGame, NoGhostPlayers, ThreadTypeOK
  <2>5. CASE (StopGame(c) \/ JoinGameThread(c)) /\ NotSessions
    BY <1>0, <1>b, <2>5 DEF StopGame, JoinGameThread, NotSessions, RunningOK, ReceiverKnowsGame, NoGhostPlayers
  <2> QED BY <1>2, <2>1, <2>2, <2>3, <2>4, <2>5, <2>6 DEF ReceiverCalls
<1>3. ASSUME NEW c \in Clients, ReceiverRequests(c) PROVE Players'
  <2>1. CASE RequestNewGame(c)
    <3>1. ~killing /\ receiver[c] = "recv" /\ joined[c] = 0 /\ session[c] = "live"
      BY <1>b, <1>c, <2>1 DEF RequestNewGame, Receiving
    <3>2. \A g \in listed : c \notin registry[g]
      BY <1>a, <1>d, <3>1
    <3>3. /\ listed' = listed \cup {lastGame'} /\ lastGame' = lastGame + 1
          /\ registry' = [registry EXCEPT ![lastGame'] = {c}]
          /\ UNCHANGED <<session, joined>>
      BY <2>1 DEF RequestNewGame, CreateGame
    <3>4. lastGame' \in Games /\ lastGame' \notin listed
      BY <2>1, <3>3, ListedGames, ManagerAssumption DEF RequestNewGame, CreateGame, ManagerTypeOK, Games
    <3>5. /\ \A g \in listed : registry'[g] = registry[g]
          /\ registry'[lastGame'] = {c}
      BY <1>a, <3>3, <3>4 DEF ManagerTypeOK
    <3>6. receiver' = [receiver EXCEPT ![c] = "start"] /\ target' = [target EXCEPT ![c] = lastGame']
      BY <2>1 DEF RequestNewGame
    <3>7. /\ receiver'[c] = "start" /\ target'[c] = lastGame'
          /\ \A d \in Clients \ {c} : receiver'[d] = receiver[d] /\ target'[d] = target[d]
      BY <3>6 DEF ThreadTypeOK
    <3>8. RunningOK'
      BY <1>0, <3>1, <3>3, <3>5, <3>7 DEF RunningOK
    <3>9. ReceiverKnowsGame'
      <4>1. SUFFICES ASSUME NEW g \in listed', NEW d \in registry'[g]
                     PROVE  \/ joined'[d] = g
                            \/ receiver'[d] \in {"start", "assign"} /\ target'[d] = g
        BY DEF ReceiverKnowsGame
      <4>2. CASE g = lastGame'
        BY <3>5, <3>7, <4>2
      <4>3. CASE g # lastGame'
        <5>1. g \in listed /\ d \in registry[g] /\ d # c
          BY <3>2, <3>3, <3>5, <4>3
        <5>2. d \in Clients
          BY <1>a, <5>1 DEF ManagerTypeOK
        <5>3. receiver'[d] = receiver[d] /\ target'[d] = target[d] /\ joined'[d] = joined[d]
          BY <3>3, <3>7, <5>1, <5>2
        <5> QED BY <1>0, <3>1, <5>1, <5>3 DEF ReceiverKnowsGame
      <4> QED BY <4>2, <4>3
    <3>10. NoGhostPlayers'
      <4>1. \A g \in listed', d \in Clients :
              d \in registry'[g] => d = c \/ (g \in listed /\ d \in registry[g])
        BY <3>3, <3>5
      <4> QED BY <1>0, <3>1, <3>3, <3>5, <4>1 DEF NoGhostPlayers
    <3> QED BY <3>8, <3>9, <3>10
  <2>2. CASE RequestLeave(c)
    <3>1. ~killing /\ receiver[c] = "recv" /\ session[c] = "live"
      BY <1>b, <1>c, <2>2 DEF RequestLeave, Receiving
    <3>2. /\ listed' \subseteq listed
          /\ \A g \in listed' : c \notin registry'[g] /\ registry'[g] \subseteq registry[g]
      BY <1>d, <2>2, <3>1, LeaveKeepsPlayers DEF RequestLeave
    <3>3. UNCHANGED <<session, joined, target>> /\ receiver' = [receiver EXCEPT ![c] = "leave"]
      BY <2>2 DEF RequestLeave
    <3> QED BY <1>0, <3>1, <3>2, <3>3 DEF RunningOK, ReceiverKnowsGame, NoGhostPlayers, ThreadTypeOK
  <2>3. CASE RequestGames(c) \/ Command(c)
    <3>1. ~killing /\ receiver[c] = "recv" /\ session[c] = "live"
      BY <1>b, <1>c, <2>3 DEF RequestGames, Command, Receiving
    <3>2. /\ UNCHANGED <<listed, registry, session, joined, target>>
          /\ \E at \in {"recv", "exit"} : receiver' = [receiver EXCEPT ![c] = at]
      BY <2>3, <3>1 DEF RequestGames, Command
    <3> QED BY <1>0, <3>1, <3>2 DEF RunningOK, ReceiverKnowsGame, NoGhostPlayers, ThreadTypeOK
  <2>4. ASSUME NEW g \in Games, RequestJoin(c, g) PROVE Players'
    BY <1>0, <1>b, <1>a, <2>4 DEF RequestJoin, Receiving, ReceiverOK, RunningOK,
                       ReceiverKnowsGame, NoGhostPlayers, ThreadTypeOK
  <2> QED BY <1>3, <2>1, <2>2, <2>3, <2>4 DEF ReceiverRequests
<1>4. ASSUME NEW c \in Clients, SenderStopped(c) \/ SenderFails(c) \/ Disconnect(c) PROVE Players'
  BY <1>0, <1>b, <1>4 DEF SenderStopped, SenderFails, SenderEnds, Disconnect,
                    RunningOK, ReceiverKnowsGame, NoGhostPlayers
<1>5. ASSUME NEW c \in Clients, Accept(c) PROVE Players'
  BY <1>0, <1>b, <1>5 DEF Accept, ReceiverOK, RunningOK, ReceiverKnowsGame, NoGhostPlayers, ThreadTypeOK
<1>6. ASSUME AcceptorScans PROVE Players'
  <2>1. CASE StopReceiver
    <3> DEFINE c == handlers[it]
    <3>1. ~killing /\ peerClosed[c] /\ LeaveGame(Acceptor, c, joined[c])
      BY <1>b, <2>1 DEF StopReceiver
    <3>2. c \in Clients => receiver[c] \in {"break", "exit"}
      BY <1>0, <3>1 DEF ReceiverOK
    <3>3. \A g \in listed : c \in registry[g] => g = joined[c]
      BY <1>a, <1>d, <3>1, <3>2 DEF ManagerTypeOK
    <3>4. /\ listed' \subseteq listed
          /\ \A g \in listed' : c \notin registry'[g] /\ registry'[g] \subseteq registry[g]
      BY <3>1, <3>3, LeaveKeepsPlayers
    <3>5. UNCHANGED <<receiver, joined, target>> /\ session' = [session EXCEPT ![c] = "stopping"]
      BY <2>1 DEF StopReceiver
    <3>6. \A g \in listed' : registry'[g] \subseteq Clients
      BY <1>a, <3>4 DEF ManagerTypeOK
    <3> HIDE DEF c
    <3> QED BY <1>0, <3>1, <3>2, <3>4, <3>5, <3>6
            DEF RunningOK, ReceiverKnowsGame, NoGhostPlayers, ThreadTypeOK
  <2>2. CASE ShutSession \/ JoinSession
    <3> DEFINE c == handlers[it]
    <3>1. /\ ~killing /\ pc \in {"stop", "join"}
          /\ UNCHANGED <<listed, registry, receiver, joined, target>>
          /\ \E at \in SessionStates : session' = [session EXCEPT ![c] = at]
      BY <1>b, <2>2 DEF ShutSession, JoinSession, SessionStates
    <3>2. c \in Clients => session[c] \in {"stopping", "shut"}
      BY <1>0, <3>1 DEF HandledOK
    <3>3. c \in Clients => receiver[c] \in {"break", "exit"} /\ \A g \in listed : c \notin registry[g]
      BY <1>0, <3>1, <3>2 DEF RunningOK, NoGhostPlayers
    <3>4. \A g \in listed : registry[g] \subseteq Clients
      BY <1>a DEF ManagerTypeOK
    <3> HIDE DEF c
    <3> QED BY <1>0, <3>1, <3>3, <3>4 DEF RunningOK, ReceiverKnowsGame, NoGhostPlayers, ThreadTypeOK
  <2>4. CASE AcceptFails \/ PollQuiet \/ KilledAll
    BY <1>0, <1>b, <2>4 DEF AcceptFails, PollQuiet, KilledAll, RunningOK, ReceiverKnowsGame, NoGhostPlayers
  <2>5. CASE ReapDead
    BY <1>0, <1>b, <2>5 DEF ReapDead, RunningOK, ReceiverKnowsGame, NoGhostPlayers
  <2>6. CASE (StopGame(Acceptor) \/ JoinGameThread(Acceptor)) /\ NotSessions
    BY <1>0, <1>b, <2>6 DEF StopGame, JoinGameThread, NotSessions, RunningOK, ReceiverKnowsGame, NoGhostPlayers
  <2> QED BY <1>6, <2>1, <2>2, <2>4, <2>5, <2>6 DEF AcceptorScans
<1>7. ASSUME GameThreads \/ AskStop \/ ShutListener \/ DestroyServer PROVE Players'
  BY <1>0, <1>b, <1>7 DEF GameThreads, GameThreadEnds, NotSessions, AskStop, ShutListener, DestroyServer,
                    RunningOK, ReceiverKnowsGame, NoGhostPlayers
<1> QED BY <1>1, <1>2, <1>3, <1>4, <1>5, <1>6, <1>7, StepCases

(* The two invariants of the players, with what they rest on.              *)
LEMMA PlayersInvariant == Spec => [](ThreadsOK /\ PlayersOK)
<1>1. SessionsInit => ThreadsOK /\ PlayersOK
  BY DEF SessionsInit, ManagerInit, ThreadsOK, ClosedSocketsAreIdle, ReceiverOK, PlayersOK, HandledOK,
         RunningOK, ReceiverKnowsGame, NoGhostPlayers
<1>2. ManagerTypeOK /\ ThreadTypeOK /\ ThreadsOK /\ PlayersOK /\ [Next]_vars
        => (ThreadsOK /\ PlayersOK)'
  BY ThreadsStep, PlayersStep DEF ThreadsOK
<1> QED BY <1>1, <1>2, ThreadTypesCorrect, PTL DEF Spec

(* A client is in no game but the one its receiver believes it to be in,   *)
(* so that the LeaveGame of its disconnection takes it out of all of them. *)
THEOREM ReceiversKnowTheirGames == Spec => []ReceiverKnowsGame
<1>1. ThreadsOK /\ PlayersOK => ReceiverKnowsGame
  BY DEF PlayersOK
<1> QED BY <1>1, PlayersInvariant, PTL

(* While the server runs, whoever is in a listed game has its connection:  *)
(* its handler is stopped only after the acceptor took it out of its game. *)
THEOREM NobodyIsLeftBehind == Spec => []NoGhostPlayers
<1>1. ThreadsOK /\ PlayersOK => NoGhostPlayers
  BY DEF PlayersOK
<1> QED BY <1>1, PlayersInvariant, PTL

-----------------------------------------------------------------------------
listVars == <<pc, killing, handlers, it, session>>

(* Only the acceptor's thread, and who destroys it, touches the list.      *)
LEMMA ListSteps ==
  ASSUME [Next]_vars
  PROVE  \/ UNCHANGED listVars
         \/ \E c \in Clients : Accept(c)
         \/ AcceptFails \/ PollQuiet \/ StopReceiver \/ ShutSession \/ JoinSession
         \/ ReapDead \/ KilledAll \/ DestroyServer
<1> USE DEF listVars
<1>1. CASE UNCHANGED vars
  BY <1>1 DEF vars, acceptorVars
<1>2. ASSUME NEW c \in Clients, ReceiverCalls(c) PROVE UNCHANGED listVars
  BY <1>2 DEF ReceiverCalls, StartNewGame, AddToGame, AssignGame, ForgetGame, ReceiveEof,
              ReceiveCut, ReceiverEnds, NotSessions, acceptorVars
<1>3. ASSUME NEW c \in Clients, ReceiverRequests(c) PROVE UNCHANGED listVars
  BY <1>3 DEF ReceiverRequests, RequestNewGame, RequestLeave, RequestGames, Command, RequestJoin,
              acceptorVars
<1>4. ASSUME NEW c \in Clients, SenderStopped(c) \/ SenderFails(c) \/ Disconnect(c)
      PROVE  UNCHANGED listVars
  BY <1>4 DEF SenderStopped, SenderFails, SenderEnds, Disconnect, acceptorVars
<1>5. ASSUME GameThreads \/ AskStop \/ ShutListener PROVE UNCHANGED listVars
  BY <1>5 DEF GameThreads, NotSessions, AskStop, ShutListener, acceptorVars
<1>6. ASSUME (StopGame(Acceptor) \/ JoinGameThread(Acceptor)) /\ NotSessions
      PROVE  UNCHANGED listVars
  BY <1>6 DEF NotSessions, acceptorVars
<1> HIDE DEF listVars
<1> QED BY <1>1, <1>2, <1>3, <1>4, <1>5, <1>6, StepCases DEF AcceptorScans

(* What reap_dead leaves of the list comes from the list, each handler     *)
(* once.                                                                   *)
LEMMA ReapedList ==
  ASSUME HandlersOK, ReapDead
  PROVE  /\ handlers' \in Seq(Clients)
         /\ \A i, j \in DOMAIN handlers' : handlers'[i] = handlers'[j] => i = j
         /\ \A i \in DOMAIN handlers' : handlers'[i] \in ToSet(handlers)
<1> DEFINE n == Cardinality(Survivors)
<1>1. PICK kept \in [1..n -> Survivors] :
        /\ \A i, j \in DOMAIN kept : i < j => kept[i] < kept[j]
        /\ handlers' = [i \in DOMAIN kept |-> handlers[kept[i]]]
  BY DEF ReapDead
<1>2. handlers \in Seq(Clients) /\ Survivors \subseteq DOMAIN handlers
  BY DEF HandlersOK, HandlersTypeOK, Survivors
<1>3. Len(handlers) \in Nat /\ DOMAIN handlers = 1..Len(handlers)
  BY <1>2
<1>4. n \in Nat
  <2>1. IsFiniteSet(DOMAIN handlers)
    BY <1>3, FS_Interval
  <2>2. IsFiniteSet(Survivors)
    BY <1>2, <2>1, FS_Subset
  <2> QED BY <2>2, FS_CardinalityType
<1> HIDE DEF n
<1>5. \A i \in 1..n : kept[i] \in DOMAIN handlers /\ kept[i] \in Nat
  BY <1>1, <1>2, <1>3
<1>6. /\ DOMAIN handlers' = 1..n
      /\ \A i \in 1..n : handlers'[i] = handlers[kept[i]]
  BY <1>1
<1>7. \A i \in 1..n : handlers'[i] \in Clients
  BY <1>2, <1>3, <1>5, <1>6
<1>8. handlers' \in Seq(Clients)
  <2>1. handlers' = [i \in 1..n |-> handlers[kept[i]]]
    BY <1>1
  <2>2. handlers' \in [1..n -> Clients]
    BY <1>6, <1>7, <2>1
  <2> QED BY <1>4, <2>2
<1>9. ASSUME NEW i \in 1..n, NEW j \in 1..n, handlers'[i] = handlers'[j] PROVE i = j
  <2>1. kept[i] = kept[j]
    BY <1>5, <1>6, <1>9 DEF HandlersOK
  <2>2. ~(i < j) /\ ~(j < i)
    BY <1>1, <1>5, <2>1
  <2> QED BY <1>4, <2>2
<1>10. \A i \in 1..n : handlers'[i] \in ToSet(handlers)
  BY <1>5, <1>6 DEF ToSet
<1> QED BY <1>6, <1>8, <1>9, <1>10

LEMMA SessionsStep ==
  ASSUME ThreadTypeOK, SessionsOK, [Next]_vars
  PROVE  SessionsOK'
<1> USE DEF SessionsOK, HandlersOK, HandlersTypeOK, Accepting, NoSessionOutlivesAcceptor
<1>1. CASE UNCHANGED listVars
  BY <1>1 DEF listVars, ToSet
<1>2. ASSUME NEW c \in Clients, Accept(c) PROVE SessionsOK'
  <2>1. /\ handlers' = Append(handlers, c) /\ session' = [session EXCEPT ![c] = "live"]
        /\ it' = 1 /\ pc' = "scan" /\ pc = "accept" /\ killing' = killing
        /\ session[c] = "none"
    BY <1>2 DEF Accept, AcceptorAt
  <2>2. /\ handlers \in Seq(Clients) /\ Len(handlers) \in Nat
        /\ DOMAIN handlers = 1..Len(handlers)
    OBVIOUS
  <2>3. /\ handlers' \in Seq(Clients) /\ DOMAIN handlers' = 1..(Len(handlers) + 1)
        /\ \A i \in DOMAIN handlers : handlers'[i] = handlers[i] /\ handlers[i] \in Clients
        /\ handlers'[Len(handlers) + 1] = c
    BY <2>1, <2>2
  <2>4. \A i \in DOMAIN handlers : handlers[i] # c
    BY <2>1
  <2>5. \A i \in DOMAIN handlers' : i \in DOMAIN handlers \/ i = Len(handlers) + 1
    BY <2>2, <2>3
  <2>6. /\ session'[c] = "live"
        /\ \A d \in Clients \ {c} : session'[d] = session[d]
    BY <2>1 DEF ThreadTypeOK
  <2>7. \A i, j \in DOMAIN handlers' : handlers'[i] = handlers'[j] => i = j
    BY <2>3, <2>4, <2>5
  <2>8. \A i \in DOMAIN handlers' : session'[handlers'[i]] # "none"
    BY <2>3, <2>4, <2>5, <2>6
  <2>9. c \in ToSet(handlers') /\ ToSet(handlers) \subseteq ToSet(handlers')
    BY <2>2, <2>3 DEF ToSet
  <2>10. \A d \in Clients : session'[d] \in {"none", "closed"} \/ d \in ToSet(handlers')
    BY <2>1, <2>6, <2>9
  <2>11. \A i \in DOMAIN handlers' : ~(i < it')
    BY <2>1, <2>2, <2>3
  <2> QED BY <2>1, <2>3, <2>7, <2>8, <2>10, <2>11
<1>3. CASE AcceptFails
  BY <1>3 DEF AcceptFails, AcceptorAt, ToSet
<1>4. CASE PollQuiet
  BY <1>4 DEF PollQuiet, ToSet
(* A session that is stopped, shut and joined is that of the handler the   *)
(* iterator is at, and nobody else's.                                      *)
<1>5. ASSUME NEW at \in SessionStates \ {"none"}, it \in DOMAIN handlers, Accepting, Accepting',
             session' = [session EXCEPT ![handlers[it]] = at],
             UNCHANGED <<handlers, killing>>,
             \/ it' = it
             \/ it' = it + 1 /\ at = "closed" /\ pc' \notin {"stop", "join"}
      PROVE  SessionsOK'
  <2>1. handlers[it] \in Clients /\ DOMAIN handlers = 1..Len(handlers) /\ Len(handlers) \in Nat
    BY <1>5
  <2>2. /\ session'[handlers[it]] = at
        /\ \A d \in Clients \ {handlers[it]} : session'[d] = session[d]
    BY <1>5, <2>1 DEF ThreadTypeOK
  <2>3. \A i \in DOMAIN handlers \ {it} :
          handlers[i] \in Clients /\ session'[handlers[i]] = session[handlers[i]]
    BY <1>5, <2>1, <2>2
  <2>4. handlers[it] \in ToSet(handlers) /\ ToSet(handlers') = ToSet(handlers)
    BY <1>5, <2>1 DEF ToSet
  <2>5. HandlersOK'
    BY <1>5, <2>2, <2>3
  <2>6. \A c \in Clients : session'[c] \in {"none", "closed"} \/ c \in ToSet(handlers')
    BY <1>5, <2>2, <2>4
  <2>7. ASSUME killing', NEW i \in DOMAIN handlers', i < it' PROVE session'[handlers'[i]] = "closed"
    <3>1. CASE i = it
      BY <1>5, <2>2, <2>7, <3>1
    <3>2. CASE i # it
      <4>1. i < it
        BY <1>5, <2>1, <2>7, <3>2
      <4> QED BY <1>5, <2>3, <2>7, <3>2, <4>1
    <3> QED BY <3>1, <3>2
  <2> QED BY <1>5, <2>5, <2>6, <2>7
<1>6. CASE StopReceiver
  <2>1. it \in DOMAIN handlers
    BY <1>6 DEF StopReceiver
  <2> QED BY <1>5, <1>6, <2>1 DEF StopReceiver, AcceptorAt, SessionStates
<1>7. CASE ShutSession
  BY <1>5, <1>7 DEF ShutSession, AcceptorAt, SessionStates
<1>8. CASE JoinSession
  BY <1>5, <1>8 DEF JoinSession, AcceptorAt, SessionStates
<1>9. CASE ReapDead
  <2>1. /\ handlers' \in Seq(Clients)
        /\ \A i, j \in DOMAIN handlers' : handlers'[i] = handlers'[j] => i = j
        /\ \A i \in DOMAIN handlers' : handlers'[i] \in ToSet(handlers)
    BY <1>9, ReapedList
  <2>2. session' = session /\ it' \in {1, it} /\ Accepting
        /\ pc' \in {"terminated", "accept", "scan"}
    BY <1>9 DEF ReapDead, AcceptorAt
  <2>3. HandlersOK'
    <3>1. \A i \in DOMAIN handlers' : session'[handlers'[i]] # "none"
      BY <2>1, <2>2 DEF ToSet
    <3> QED BY <2>1, <2>2, <3>1
  <2>4. ASSUME Accepting', NEW c \in Clients, c \notin ToSet(handlers')
        PROVE  session'[c] \in {"none", "closed"}
    <3>1. CASE c \in ToSet(handlers)
      BY <1>9, <2>2, <2>4, <3>1 DEF ReapDead, AcceptorAt
    <3>2. CASE c \notin ToSet(handlers)
      BY <2>2, <3>2
    <3> QED BY <3>1, <3>2
  <2>5. Accepting' /\ killing' => it' = 1
    BY <1>9 DEF ReapDead, AcceptorAt
  <2>6. Accepting' /\ killing' => \A i \in DOMAIN handlers' : ~(i < it')
    <3>1. DOMAIN handlers' = 1..Len(handlers') /\ Len(handlers') \in Nat
      BY <2>1
    <3> QED BY <2>5, <3>1
  <2> QED BY <2>2, <2>3, <2>4, <2>6
<1>10. CASE KilledAll
  <2>1. /\ pc = "scan" /\ killing /\ it > Len(handlers)
        /\ handlers' = <<>> /\ pc' = "ended" /\ UNCHANGED <<it, session>>
    BY <1>10 DEF KilledAll, AcceptorAt
  <2>2. \A i \in DOMAIN handlers : session[handlers[i]] = "closed"
    BY <2>1
  <2>3. \A c \in Clients : session[c] \in {"none", "closed"}
    BY <2>1, <2>2 DEF ToSet
  <2> QED BY <2>1, <2>3
<1>11. CASE DestroyServer
  BY <1>11 DEF DestroyServer, AcceptorAt
<1> QED BY <1>1, <1>2, <1>3, <1>4, <1>6, <1>7, <1>8, <1>9, <1>10, <1>11, ListSteps

LEMMA SessionsInvariant == Spec => []SessionsOK
<1>1. SessionsInit => SessionsOK
  BY DEF SessionsInit, SessionsOK, HandlersOK, HandlersTypeOK, Accepting, NoSessionOutlivesAcceptor
<1>2. ManagerTypeOK /\ ThreadTypeOK /\ SessionsOK /\ [Next]_vars => SessionsOK'
  BY SessionsStep
<1> QED BY <1>1, <1>2, ThreadTypesCorrect, PTL DEF Spec

(* Where stop and join are called the iterator points at a handler of the  *)
(* list, whatever reap_dead has taken from it: with the ids and the points *)
(* of the threads' loops, the types of the sessions.                       *)
THEOREM SessionTypeCorrect == Spec => []TypeOK
<1>1. ManagerTypeOK /\ ThreadTypeOK /\ SessionsOK => TypeOK
  BY DEF TypeOK, SessionsOK, HandlersOK
<1> QED BY <1>1, SessionsInvariant, ThreadTypesCorrect, PTL

(* Whatever connects and breaks while the server is stopped, when the      *)
(* acceptor's thread returns every session has been stopped and joined.    *)
THEOREM NobodyIsKeptConnected == Spec => []ConnectionsEnd
<1>1. SessionsOK => NoSessionOutlivesAcceptor
  BY DEF SessionsOK
<1>2. ClosedSocketsAreIdle /\ NoSessionOutlivesAcceptor => ConnectionsEnd
  BY DEF ConnectionsEnd
<1> QED BY <1>1, <1>2, SessionsInvariant, SocketsCloseLast, PTL
=============================================================================
