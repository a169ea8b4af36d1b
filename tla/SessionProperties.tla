-------------------------- MODULE SessionProperties -------------------------
(***************************************************************************)
(* What makes the connections of the server correct: that they leave       *)
(* nothing behind, that what one thread takes over another thread lets go, *)
(* and that the server can be shut down.                                   *)
(***************************************************************************)
EXTENDS Sessions

(* The variables hold what the code's types and states allow: every id is  *)
(* one that was given out, and the iterator that stop and join use points  *)
(* at a handler of the list.                                               *)
ManagerTypeOK ==
  /\ lastGame \in 0..MaxGames /\ listed \subseteq 1..lastGame
  /\ registry \in [Games -> SUBSET Clients]
  /\ game \in [Games -> {"none", "created", "running", "over"}]
  /\ closedQueues \subseteq 1..lastGame
  /\ toStop \in [Callers -> 0..lastGame]

ThreadTypeOK ==
  /\ gone \subseteq Clients
  /\ stop \in {"no", "asked", "shut"}
  /\ pc \in {"accept", "scan", "stop", "join", "ended", "exited", "terminated"}
  /\ killing \in BOOLEAN
  /\ session \in [Clients -> SessionStates]
  /\ receiver \in [Clients -> {"none", "recv", "start", "add", "assign", "leave", "break", "exit"}]
  /\ target \in [Clients -> 0..lastGame] /\ joined \in [Clients -> 0..lastGame]
  /\ peerClosed \in [Clients -> BOOLEAN]
  /\ answered \subseteq Clients
  /\ sender \in [Clients -> {"none", "pop", "exit"}]

HandlersTypeOK ==
  /\ handlers \in Seq(Clients)
  /\ pc \in {"stop", "join"} => it \in DOMAIN handlers

TypeOK == ManagerTypeOK /\ ThreadTypeOK /\ HandlersTypeOK

(* CreateJoinGame starts the thread of a new game through a raw pointer,   *)
(* after it has released the lock: nobody who joined and left in between   *)
(* has taken that game off the list and destroyed it.                      *)
StartedGameExists ==
  \A c \in Clients :
    receiver[c] = "start" => target[c] \in listed /\ game[target[c]] = "created"

(* Of all the threads that may see a game become empty (the receivers that *)
(* leave it and the acceptor that stops their handlers), one stops and     *)
(* joins it: a second close or join would throw.                           *)
OneStopper ==
  \A w, x \in Callers : w # x /\ toStop[w] # 0 => toStop[w] # toStop[x]

(* Receiver::stop leaves the game joined_game_id names.  It is the game of *)
(* the client, unless the receiver is just about to write it there; in     *)
(* kill_all a client may be added whose receiver is then told nothing.     *)
ReceiverKnowsGame ==
  ~killing => \A g \in listed : \A c \in registry[g] :
    \/ joined[c] = g
    \/ receiver[c] \in {"start", "assign"} /\ target[c] = g

(* While the server runs, the players of a listed game have a session: the *)
(* poll that stops a handler takes its client out of its game.  That a     *)
(* poll comes at all is not said: it waits for the next connection, and a  *)
(* receiver that ended within a message is never polled (ReceiveCut).      *)
NoGhostPlayers ==
  ~killing => \A g \in listed : \A c \in registry[g] : session[c] = "live"

(* server_client_handler.cpp:35: when the socket is closed nobody uses it. *)
ClosedSocketsAreIdle ==
  \A c \in Clients : session[c] = "closed" => receiver[c] = "exit" /\ sender[c] = "exit"

(* When Acceptor::run returns, kill_all has gone through every connection  *)
(* it ever accepted that poll and reap_dead had not ended before.          *)
NoSessionOutlivesAcceptor ==
  pc \in {"ended", "exited"} => \A c \in Clients : session[c] \in {"none", "closed"}

(* Whenever clients come and go and the server is told to stop: nobody     *)
(* uses a closed socket, and when the acceptor has ended all are closed,   *)
(* so none is left behind with its threads running.                        *)
ConnectionsEnd == ClosedSocketsAreIdle /\ NoSessionOutlivesAcceptor

(* Once the server is told to stop, the acceptor ends, however many        *)
(* clients are in whatever state: no join waits for a thread that waits.   *)
ShutdownCompletes == stop # "no" ~> Over

(* server_client_handler.h:18: poll reacts to the end of file the receiver *)
(* has flagged.  So a flagged handler leaves the list stopped and joined.  *)
FlaggedHandlersAreStopped ==
  [][\A c \in ToSet(handlers) \ ToSet(handlers') : peerClosed[c] => session[c] = "closed"]_vars
=============================================================================
