------------------------------ MODULE Sessions ------------------------------
(***************************************************************************)
(* The connections of the server: the acceptor thread (server_acceptor     *)
(* .cpp), the ClientHandler of every connection, and its two threads, the  *)
(* receiver and the sender; around them the clients and Server::run.  The  *)
(* receivers and the acceptor call GameManager.                            *)
(*                                                                         *)
(* Left out: what the messages hold and the queue to the sender, of which  *)
(* only matters that Sender::stop closes it.  A client asks for a game     *)
(* only when it is in none, and sends commands only when it is in one.     *)
(***************************************************************************)
EXTENDS GameManager, SequencesExt

VARIABLES
  gone,         \* clients that have closed their end of the connection
  stop,         \* Acceptor::stop: "no", "asked" (keep_running), "shut" (the socket)
  pc,           \* where the acceptor thread is
  killing,      \* whether it is in kill_all
  handlers,     \* handlers, by client
  it,           \* the handler poll or stop is being called on
  session,      \* of each client: how far its ClientHandler is
  receiver,     \* of each client: where Receiver::run is
  target,       \* of each client: the game CreateJoinGame is working on, or 0
  joined,       \* joined_game_id
  peerClosed,   \* peerClosed
  answered,     \* clients whose queue to the sender has been given a message
  sender        \* of each client: where Sender::run is

acceptorVars == <<stop, pc, killing, handlers, it>>
threadVars == <<receiver, target, joined, peerClosed, answered, sender>>
vars == <<managerVars, acceptorVars, gone, session, threadVars>>

(* live; stopping: keep_running is false; shut: the socket is shut down    *)
(* and the queue closed; closed: threads joined and socket closed.         *)
SessionStates == {"none", "live", "stopping", "shut", "closed"}

SessionsInit ==
  /\ ManagerInit
  /\ gone = {}
  /\ stop = "no" /\ pc = "accept" /\ killing = FALSE
  /\ handlers = <<>> /\ it = 1
  /\ session = [c \in Clients |-> "none"]
  /\ receiver = [c \in Clients |-> "none"]
  /\ target = [c \in Clients |-> 0]
  /\ joined = [c \in Clients |-> 0]
  /\ peerClosed = [c \in Clients |-> FALSE]
  /\ answered = {}
  /\ sender = [c \in Clients |-> "none"]

(* should_keep_running, which run asks before every recvOpcode.            *)
AfterCommand(c) == IF session[c] = "live" THEN "recv" ELSE "exit"

ReceiverAt(c, at) == receiver' = [receiver EXCEPT ![c] = at]

(* A request has arrived whole.  What a client sent before it closed its   *)
(* end is still in the buffer of the socket, after a shutdown as well.     *)
Receiving(c) == receiver[c] = "recv"

-----------------------------------------------------------------------------
(* Receiver::run.                                                          *)

(* JOIN_GAME with game 0.                                                  *)
RequestNewGame(c) ==
  /\ Receiving(c) /\ joined[c] = 0
  /\ CreateGame(c)
  /\ target' = [target EXCEPT ![c] = lastGame']
  /\ ReceiverAt(c, "start")
  /\ UNCHANGED <<acceptorVars, gone, session, joined, peerClosed, answered, sender>>

(* What CreateJoinGame pushes to the sender once its client has the game   *)
(* is refused by a queue that Sender::stop has closed: the game stays as   *)
(* it is, and is assigned to nobody.                                       *)
CanAnswer(c) == session[c] # "shut"

NoGame(c) == ReceiverAt(c, AfterCommand(c)) /\ target' = [target EXCEPT ![c] = 0]

StartNewGame(c) ==
  /\ receiver[c] = "start"
  /\ IF CanAnswer(c)
     THEN StartGameThread(target[c]) /\ ReceiverAt(c, "assign") /\ UNCHANGED target
     ELSE NoGame(c) /\ UNCHANGED managerVars
  /\ answered' = answered \cup {c}
  /\ UNCHANGED <<acceptorVars, gone, session, joined, peerClosed, sender>>

(* JOIN_GAME with a game of the list.  The refusals leave everything as it *)
(* was: the exception is caught and the loop goes on.                      *)
RequestJoin(c, g) ==
  /\ Receiving(c) /\ joined[c] = 0
  /\ Joinable(g)
  /\ target' = [target EXCEPT ![c] = g]
  /\ ReceiverAt(c, "add")
  /\ UNCHANGED <<managerVars, acceptorVars, gone, session, joined, peerClosed, answered, sender>>

AddToGame(c) ==
  /\ receiver[c] = "add"
  /\ AddClient(c, target[c])
  /\ IF HasRoom(target[c]) /\ CanAnswer(c)
     THEN ReceiverAt(c, "assign") /\ UNCHANGED target
     ELSE NoGame(c)
  /\ answered' = answered \cup {c}
  /\ UNCHANGED <<acceptorVars, gone, session, joined, peerClosed, sender>>

(* A variant that keeps the queue and forgets the id.                      *)
AssignQueueOnly(c) ==
  /\ receiver[c] = "assign"
  /\ target' = [target EXCEPT ![c] = 0]
  /\ ReceiverAt(c, AfterCommand(c))
  /\ UNCHANGED <<managerVars, acceptorVars, gone, session, joined, peerClosed, answered, sender>>

(* CreateJoinGame has returned: cmdQueue and joined_game_id are assigned.  *)
AssignGame(c) ==
  /\ receiver[c] = "assign"
  /\ joined' = [joined EXCEPT ![c] = target[c]]
  /\ target' = [target EXCEPT ![c] = 0]
  /\ ReceiverAt(c, AfterCommand(c))
  /\ UNCHANGED <<managerVars, acceptorVars, gone, session, peerClosed, answered, sender>>

(* CLIENT_DISCONNECT: LeaveGame, and when it returns joined_game_id is 0.  *)
RequestLeave(c) ==
  /\ Receiving(c) /\ joined[c] # 0
  /\ LeaveGame(c, c, joined[c])
  /\ ReceiverAt(c, "leave")
  /\ UNCHANGED <<acceptorVars, gone, session, target, joined, peerClosed, answered, sender>>

ForgetGame(c) ==
  /\ receiver[c] = "leave" /\ toStop[c] = 0
  /\ joined' = [joined EXCEPT ![c] = 0]
  /\ ReceiverAt(c, AfterCommand(c))
  /\ UNCHANGED <<managerVars, acceptorVars, gone, session, target, peerClosed, answered, sender>>

(* REQUEST_GAMES.  If Sender::stop has closed the queue, push throws, and  *)
(* run would have ended here anyway.                                       *)
RequestGames(c) ==
  /\ Receiving(c)
  /\ answered' = answered \cup {c}
  /\ ReceiverAt(c, AfterCommand(c))
  /\ UNCHANGED <<managerVars, acceptorVars, gone, session, target, joined, peerClosed, sender>>

(* A command goes to the queue of the game; if that is closed, push throws *)
(* and run ends without setting peerClosed.                                *)
Command(c) ==
  /\ Receiving(c) /\ joined[c] # 0
  /\ ReceiverAt(c, IF joined[c] \in closedQueues THEN "exit" ELSE AfterCommand(c))
  /\ UNCHANGED <<managerVars, acceptorVars, gone, session, target, joined, peerClosed,
                 answered, sender>>

NoMoreBytes(c) == receiver[c] = "recv" /\ (c \in gone \/ session[c] = "shut")

(* recvOpcode throws: the client is gone, or the socket is shut down.      *)
ReceiveEof(c) ==
  /\ NoMoreBytes(c)
  /\ peerClosed' = [peerClosed EXCEPT ![c] = TRUE]
  /\ ReceiverAt(c, "break")
  /\ UNCHANGED <<managerVars, acceptorVars, gone, session, target, joined, answered, sender>>

(* The stream ends behind the opcode: what reads the rest of the message   *)
(* throws past the loop, and run ends without setting peerClosed.  (Only   *)
(* JOIN_GAME catches it itself; then the end of file is at an opcode.)     *)
ReceiveCut(c) ==
  /\ NoMoreBytes(c)
  /\ ReceiverAt(c, "exit")
  /\ UNCHANGED <<managerVars, acceptorVars, gone, session, target, joined, peerClosed, answered, sender>>

ReceiverEnds(c) ==
  /\ receiver[c] = "break"
  /\ ReceiverAt(c, "exit")
  /\ UNCHANGED <<managerVars, acceptorVars, gone, session, target, joined, peerClosed, answered, sender>>

-----------------------------------------------------------------------------
(* Sender::run.                                                            *)

SenderEnds(c) ==
  /\ sender[c] = "pop"
  /\ sender' = [sender EXCEPT ![c] = "exit"]
  /\ UNCHANGED <<managerVars, acceptorVars, gone, session, receiver, target, joined, peerClosed,
                 answered>>

(* A variant for a Sender::stop that does not close the queue.             *)
SenderNotTold(c) == session[c] = "shut" /\ c \in gone /\ SenderEnds(c)

(* pop throws ClosedQueue.                                                 *)
SenderStopped(c) == session[c] = "shut" /\ SenderEnds(c)

(* A message, an answer or one of the game, cannot be sent to a client     *)
(* that is gone.                                                           *)
SenderFails(c) == c \in gone /\ c \in answered /\ SenderEnds(c)

-----------------------------------------------------------------------------
(* Acceptor::run.                                                          *)

AcceptorAt(at) == pc' = at

(* accept returns, perhaps after stop was asked for.                       *)
Accept(c) ==
  /\ pc = "accept" /\ stop # "shut"
  /\ session[c] = "none"
  /\ handlers' = Append(handlers, c)
  /\ session' = [session EXCEPT ![c] = "live"]
  /\ receiver' = [receiver EXCEPT ![c] = "recv"]
  /\ sender' = [sender EXCEPT ![c] = "pop"]
  /\ it' = 1
  /\ AcceptorAt("scan")
  /\ UNCHANGED <<managerVars, stop, killing, gone, target, joined, peerClosed, answered>>

(* accept throws on the socket that was shut down: on to kill_all.         *)
AcceptFails ==
  /\ pc = "accept" /\ stop = "shut"
  /\ killing' = TRUE /\ it' = 1
  /\ AcceptorAt("scan")
  /\ UNCHANGED <<managerVars, stop, handlers, gone, session, threadVars>>

(* A variant by which kill_all polls the handlers it should stop.          *)
PollEvenKilling ==
  /\ pc = "scan" /\ it <= Len(handlers)
  /\ ~peerClosed[handlers[it]]
  /\ it' = it + 1
  /\ UNCHANGED <<managerVars, stop, pc, killing, handlers, gone, session, threadVars>>

(* poll of a handler whose receiver has seen no end of file.               *)
PollQuiet ==
  /\ pc = "scan" /\ ~killing /\ it <= Len(handlers)
  /\ ~peerClosed[handlers[it]]
  /\ it' = it + 1
  /\ UNCHANGED <<managerVars, stop, pc, killing, handlers, gone, session, threadVars>>

(* A variant that stops the receiver and leaves the client in its game.    *)
StopReceiverInGame ==
  /\ pc = "scan" /\ it <= Len(handlers)
  /\ LET c == handlers[it] IN
       /\ killing \/ peerClosed[c]
       /\ session' = [session EXCEPT ![c] = "stopping"]
  /\ AcceptorAt("stop")
  /\ UNCHANGED <<managerVars, stop, killing, handlers, it, gone, threadVars>>

(* ClientHandler::stop, from poll or kill_all.  Receiver::stop clears      *)
(* keep_running and calls LeaveGame with the id it finds in the receiver.  *)
StopReceiver ==
  /\ pc = "scan" /\ it <= Len(handlers)
  /\ LET c == handlers[it] IN
       /\ killing \/ peerClosed[c]
       /\ session' = [session EXCEPT ![c] = "stopping"]
       /\ LeaveGame(Acceptor, c, joined[c])
  /\ AcceptorAt("stop")
  /\ UNCHANGED <<stop, killing, handlers, it, gone, threadVars>>

(* The rest of Receiver::stop, and Sender::stop.                           *)
ShutSession ==
  /\ pc = "stop" /\ toStop[Acceptor] = 0
  /\ session' = [session EXCEPT ![handlers[it]] = "shut"]
  /\ AcceptorAt("join")
  /\ UNCHANGED <<managerVars, stop, killing, handlers, it, gone, threadVars>>

(* ClientHandler::join: both threads have ended, and the socket is closed. *)
JoinSession ==
  /\ pc = "join"
  /\ sender[handlers[it]] = "exit" /\ receiver[handlers[it]] = "exit"
  /\ session' = [session EXCEPT ![handlers[it]] = "closed"]
  /\ it' = it + 1
  /\ AcceptorAt("scan")
  /\ UNCHANGED <<managerVars, stop, killing, handlers, gone, threadVars>>

IsAlive(c) == sender[c] # "exit" /\ receiver[c] # "exit"

Survivors == {i \in DOMAIN handlers : IsAlive(handlers[i])}

(* reap_dead keeps the survivors in their order; to destroy a thread that  *)
(* has not been joined is the end of the process.  Then the loop asks      *)
(* whether it should keep running.                                         *)
ReapDead ==
  /\ pc = "scan" /\ ~killing /\ it > Len(handlers)
  /\ \E kept \in [1..Cardinality(Survivors) -> Survivors] :
       /\ \A i, j \in DOMAIN kept : i < j => kept[i] < kept[j]
       /\ handlers' = [i \in DOMAIN kept |-> handlers[kept[i]]]
  /\ LET reaped == ToSet(handlers) \ ToSet(handlers') IN
       IF \E c \in reaped : session[c] # "closed"
       THEN AcceptorAt("terminated") /\ UNCHANGED <<killing, it>>
       ELSE IF stop = "no"
            THEN AcceptorAt("accept") /\ UNCHANGED <<killing, it>>
            ELSE AcceptorAt("scan") /\ killing' = TRUE /\ it' = 1
  /\ UNCHANGED <<managerVars, stop, gone, session, threadVars>>

(* The end of kill_all and of the acceptor thread.                         *)
KilledAll ==
  /\ pc = "scan" /\ killing /\ it > Len(handlers)
  /\ handlers' = <<>>
  /\ AcceptorAt("ended")
  /\ UNCHANGED <<managerVars, stop, killing, it, gone, session, threadVars>>

-----------------------------------------------------------------------------
(* Server::run: "q" asks the acceptor to stop; once it has been joined the *)
(* server is destroyed, and with it the games that are still listed; a     *)
(* thread of theirs that was started has not been joined.                  *)

AskStop ==
  /\ stop = "no"
  /\ stop' = "asked"
  /\ UNCHANGED <<managerVars, pc, killing, handlers, it, gone, session, threadVars>>

ShutListener ==
  /\ stop = "asked"
  /\ stop' = "shut"
  /\ UNCHANGED <<managerVars, pc, killing, handlers, it, gone, session, threadVars>>

DestroyServer ==
  /\ pc = "ended" /\ stop = "shut"
  /\ AcceptorAt(IF \E g \in listed : game[g] # "created" THEN "terminated" ELSE "exited")
  /\ UNCHANGED <<managerVars, stop, killing, handlers, it, gone, session, threadVars>>

(* A client closes its end, at any time after it has connected.            *)
Disconnect(c) ==
  /\ session[c] # "none" /\ c \notin gone
  /\ gone' = gone \cup {c}
  /\ UNCHANGED <<managerVars, acceptorVars, session, threadVars>>

-----------------------------------------------------------------------------
NotSessions == UNCHANGED <<acceptorVars, gone, session, threadVars>>

ReceiverCalls(c) ==
  \/ StartNewGame(c) \/ AddToGame(c) \/ AssignGame(c) \/ ForgetGame(c)
  \/ ReceiveEof(c) \/ ReceiveCut(c) \/ ReceiverEnds(c)
  \/ (StopGame(c) \/ JoinGameThread(c)) /\ NotSessions

ReceiverRequests(c) ==
  \/ RequestNewGame(c) \/ RequestLeave(c) \/ RequestGames(c) \/ Command(c)
  \/ \E g \in Games : RequestJoin(c, g)

AcceptorScans ==
  \/ AcceptFails \/ PollQuiet \/ StopReceiver \/ ShutSession \/ JoinSession
  \/ ReapDead \/ KilledAll
  \/ (StopGame(Acceptor) \/ JoinGameThread(Acceptor)) /\ NotSessions

GameThreads == \E g \in Games : GameThreadEnds(g) /\ NotSessions

StoppedGameEnds == \E g \in closedQueues : GameThreadEnds(g) /\ NotSessions

Over == pc \in {"exited", "terminated"}

Next ==
  \/ /\ ~Over
     /\ \/ \E c \in Clients : \/ ReceiverCalls(c) \/ ReceiverRequests(c)
                              \/ SenderStopped(c) \/ SenderFails(c)
                              \/ Accept(c) \/ Disconnect(c)
        \/ AcceptorScans \/ GameThreads
        \/ AskStop \/ ShutListener \/ DestroyServer
  \/ Over /\ UNCHANGED vars

Spec == SessionsInit /\ [][Next]_vars

(* Every thread that is not waiting for a client goes on; a game that was  *)
(* stopped ends (GameLoop); Server::run goes on once it was told to stop.  *)
(* Nothing is assumed of the clients, nor of who connects.                 *)
Fairness ==
  /\ \A c \in Clients : WF_vars(~Over /\ ReceiverCalls(c)) /\ WF_vars(~Over /\ SenderStopped(c))
  /\ WF_vars(~Over /\ AcceptorScans)
  /\ WF_vars(~Over /\ StoppedGameEnds)
  /\ WF_vars(~Over /\ ShutListener) /\ WF_vars(~Over /\ DestroyServer)

FairSpec == Spec /\ Fairness
=============================================================================
