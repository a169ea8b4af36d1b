----------------------------- MODULE ClientGame -----------------------------
(***************************************************************************)
(* The window of a client during a game (client_window.cpp,                *)
(* event_manager.cpp, renderables/car.cpp) and how the client ends         *)
(* (client.cpp), on the connection to its game.                            *)
(*                                                                         *)
(* One thread handles the messages, the user's input and the drawing: it   *)
(* empties the inbox, takes the input, draws a frame.  The model gives it  *)
(* at most one input a frame, and only when none is on its way already.    *)
(***************************************************************************)
EXTENDS ClientConnection

CONSTANTS JunkValues,    \* what an unwritten variable may hold
          LowHealth,     \* 20, in hundredths
          MaxShown       \* upgrades a car of the window takes: 3

ASSUME ClientAssumption ==
  /\ MaxShown \in Nat
  /\ \A m \in GameMessages : \A f \in DOMAIN m : m[f] # Junk

VARIABLES
  window,   \* the fields of ClientWindow that its EventManager refers to
  client    \* "window", "stopping" (Client::stop was called) or "ended"

clientVars == <<window, client>>
allVars == <<feedVars, connectionVars, clientVars>>

NOT_ACCESSIBLE == -1

NewShownCar == [state |-> "ALIVE", upgrades |-> 0]

(* shop: the upgrade screen has its buttons.                               *)
FirstWindow ==
  [running |-> TRUE, quit |-> FALSE, showStart |-> TRUE, shop |-> FALSE,
   myCarId |-> NOT_ACCESSIBLE, cars |-> <<>>,
   nextCheckpoint |-> NOT_ACCESSIBLE, checkpointNumber |-> 0, lastRaceNumber |-> 0]

Shows(w, c) == c \in DOMAIN w.cars

-----------------------------------------------------------------------------
(* EventManager::handleServerMessage, by message.                          *)

PutCar(w, c) ==
  [w EXCEPT !.cars = [d \in DOMAIN w.cars \cup {c} |-> IF d = c THEN NewShownCar ELSE w.cars[d]]]

OnInitPlayer(w, m) == PutCar([w EXCEPT !.myCarId = m.id], m.id)

OnNewPlayer(w, m) == IF Shows(w, m.id) THEN w ELSE PutCar(w, m.id)

(* A variant that takes a car without health for one with little.          *)
HealthStateLow(state, health) ==
  CASE health <= LowHealth /\ state = "ALIVE" -> "LOW_HEALTH"
    [] OTHER -> state

(* Car::setHealth.  Nothing leads back to ALIVE.                           *)
HealthState(state, health) ==
  CASE health <= 0 /\ state \in {"LOW_HEALTH", "ALIVE"} -> "EXPLODING"
    [] 0 < health /\ health <= LowHealth /\ state = "ALIVE" -> "LOW_HEALTH"
    [] OTHER -> state

OnCollision(w, m) ==
  IF Shows(w, m.id) THEN [w EXCEPT !.cars[m.id].state = HealthState(@, m.health)] ELSE w

OnClientDisconnect(w, m) ==
  LET left == [w EXCEPT !.cars = [c \in DOMAIN w.cars \ {m.id} |-> w.cars[c]]]
  IN IF m.id = w.myCarId THEN [left EXCEPT !.myCarId = NOT_ACCESSIBLE, !.running = FALSE] ELSE left

OnCheckpointHit(w, m) ==
  IF w.nextCheckpoint = m.checkpoint /\ w.myCarId = m.id
  THEN [w EXCEPT !.checkpointNumber = m.checkpoint]
  ELSE w

(* A new race starts the number of checkpoints again.                      *)
OnCurrentInfo(w, m) ==
  [w EXCEPT !.checkpointNumber = IF m.race # w.lastRaceNumber THEN 0 ELSE @,
            !.lastRaceNumber = m.race, !.nextCheckpoint = m.next]

OnUpgradeSend(w, m) ==
  IF m.success # 0
  THEN [w EXCEPT !.cars[w.myCarId].upgrades = IF @ = MaxShown THEN @ ELSE @ + 1]
  ELSE w

(* Movement, TIME and RECOMMENDED_PATH change nothing that is kept here.   *)
HandleServerMessage(w, m) ==
  CASE m.type = "INIT_PLAYER" -> OnInitPlayer(w, m)
    [] m.type = "NEW_PLAYER" -> OnNewPlayer(w, m)
    [] m.type = "COLLISION" -> OnCollision(w, m)
    [] m.type = "CLIENT_DISCONNECT" -> OnClientDisconnect(w, m)
    [] m.type = "CHECKPOINT_HIT" -> OnCheckpointHit(w, m)
    [] m.type = "CURRENT_INFO" -> OnCurrentInfo(w, m)
    [] m.type = "STATS" -> [w EXCEPT !.running = FALSE, !.quit = TRUE]
    [] m.type = "UPGRADE_SEND" -> OnUpgradeSend(w, m)
    [] m.type = "UPGRADE_LOGIC" -> [w EXCEPT !.shop = TRUE]
    [] m.type = "SRV_DISCONNECTION" -> [w EXCEPT !.running = FALSE]
    [] m.type = "STARTING_GAME" -> [w EXCEPT !.showStart = FALSE]
    [] OTHER -> w

(* A message with the values its unwritten fields happen to hold.          *)
Settled(m) ==
  {[f \in DOMAIN m |-> IF m[f] = Junk THEN v ELSE m[f]] : v \in JunkValues}

(* The loop of ClientWindow::run over receiverQueue.try_pop.               *)
HandleMessage ==
  /\ client = "window" /\ inbox # <<>>
  /\ \E m \in Settled(Head(inbox)) : window' = HandleServerMessage(window, m)
  /\ inbox' = Tail(inbox)
  /\ UNCHANGED <<feedVars, playing, stream, receiver, senderQueue, client>>

-----------------------------------------------------------------------------
(* EventManager::handleEvents: what the user may do, as the window after   *)
(* it and the messages it sends.                                           *)
Input(w, sends) == [window |-> w, sends |-> sends]

Inputs(w) ==
  {Input(w, <<>>), Input([w EXCEPT !.running = FALSE, !.quit = FALSE], <<>>)}
  \cup {Input(w, <<[type |-> "UPGRADE_REQUEST", upgrade |-> u]>>) :
          u \in IF w.showStart /\ w.shop THEN Upgrades ELSE {}}
  \cup IF w.showStart
       THEN {Input([w EXCEPT !.showStart = FALSE], <<[type |-> "START_GAME"]>>)} ELSE {}

(* drawCars: an explosion may have come to its end; a wreck, whoever's it  *)
(* is, takes the next checkpoint away.                                     *)
Drawn(w) ==
  LET inState(s) == {c \in DOMAIN w.cars : w.cars[c].state = s}
      ended(burnt) == [c \in DOMAIN w.cars |->
                        IF c \in burnt THEN [w.cars[c] EXCEPT !.state = "DESTROYED"] ELSE w.cars[c]]
  IN IF w.showStart THEN {w}
     ELSE {[w EXCEPT !.cars = ended(burnt),
                     !.nextCheckpoint = IF inState("DESTROYED") # {} THEN NOT_ACCESSIBLE ELSE @]
             : burnt \in SUBSET inState("EXPLODING")}

(* Nothing is kept of a window that was left.                              *)
Left == [FirstWindow EXCEPT !.running = FALSE]

(* The rest of an iteration of ClientWindow::run, once the inbox is empty. *)
Frame ==
  /\ client = "window" /\ inbox = <<>> /\ window.running
  /\ \E input \in Inputs(window) :
       /\ input.sends # <<>> => senderQueue = <<>>
       /\ senderQueue' = senderQueue \o input.sends
       /\ \E w \in Drawn(input.window) :
            IF w.running THEN window' = w /\ UNCHANGED client
                         ELSE window' = Left /\ client' = "stopping"
  /\ UNCHANGED <<feedVars, playing, stream, receiver, inbox>>

(* The loop is left after a message that ended it.                         *)
LeaveWindow ==
  /\ client = "window" /\ inbox = <<>> /\ ~window.running
  /\ client' = "stopping" /\ window' = Left
  /\ UNCHANGED <<feedVars, connectionVars>>

-----------------------------------------------------------------------------
(* A variant whose receiver does not go on at the end of the file.         *)
ReceiverWokenByBytes ==
  /\ client = "stopping" /\ receiver = "on" /\ stream # <<>>
  /\ receiver' = "threw"
  /\ UNCHANGED <<feedVars, playing, stream, inbox, senderQueue, clientVars>>

(* Client::stop closes the queues and the socket, Client::join waits for   *)
(* both threads.  The close does not wake a receiver that is blocked in    *)
(* recv: it goes on when bytes or the end of the file arrive, and then     *)
(* ends at the closed queue; one that is not blocked sees the flag.        *)
ReceiverWoken ==
  /\ client = "stopping" /\ receiver = "on" /\ (stream # <<>> \/ Dead)
  /\ receiver' = "threw"
  /\ UNCHANGED <<feedVars, playing, stream, inbox, senderQueue, clientVars>>

ReceiverStops ==
  /\ client = "stopping" /\ receiver = "on"
  /\ receiver' = "threw"
  /\ UNCHANGED <<feedVars, playing, stream, inbox, senderQueue, clientVars>>

ClientJoins ==
  /\ client = "stopping" /\ receiver # "on"
  /\ client' = "ended"
  /\ UNCHANGED <<feedVars, connectionVars, window>>

-----------------------------------------------------------------------------
(* What the game does once its client is gone is not followed.             *)
Server == client = "window" /\ (GameThread \/ OtherClients)

(* The threads of a client that was not stopped.                           *)
ClientThreads ==
  client = "window" /\ (ServerSender \/ ClientReceiver \/ EndOfFile \/ ClientSender)

Window == HandleMessage \/ Frame \/ LeaveWindow \/ ReceiverWoken \/ ReceiverStops \/ ClientJoins

ClientInit == FeedInit /\ ConnectionInit /\ window = FirstWindow /\ client = "window"

(* The server is gone and the client has ended, or sits in a window that   *)
(* nobody closes.                                                          *)
Over == Dead /\ client = "ended" /\ UNCHANGED allVars

ClientNext ==
  \/ Server /\ UNCHANGED <<connectionVars, clientVars>>
  \/ (ClientThreads \/ Die) /\ UNCHANGED clientVars
  \/ Window
  \/ Over

ClientSpec == ClientInit /\ [][ClientNext]_allVars

(* The threads are scheduled for ever, bytes on the wire arrive.  Nothing  *)
(* is assumed of the game, of the users or of a receiver that is blocked.  *)
ClientFairSpec ==
  /\ ClientSpec
  /\ WF_allVars(ClientThreads /\ UNCHANGED clientVars)
  /\ WF_allVars(HandleMessage \/ LeaveWindow \/ ReceiverWoken \/ ClientJoins)
=============================================================================
