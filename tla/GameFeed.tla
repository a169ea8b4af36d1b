------------------------------ MODULE GameFeed ------------------------------
(***************************************************************************)
(* One game as its client Me sees it: the messages its handlers send, in   *)
(* the order in which they send them.  Of the game itself it keeps what    *)
(* the messages are about; spawn points, counters and results are the      *)
(* business of GameLoop, and any frame of a race may be its last one.      *)
(* Left out are the messages that change nothing the properties look at:   *)
(* Movement, TIME and RECOMMENDED_PATH.                                    *)
(*                                                                         *)
(* A step of the game thread sends at most one message, so that Me's       *)
(* Sender may get in between any two of them; the loops over commands, cars*)
(* and world events go round once a step.  Me is in the registry all the   *)
(* time; it has been told CAR_SELECT and its INIT_PLAYER is the first      *)
(* command of the next iteration (LobbyDialogue has what happens before).  *)
(***************************************************************************)
EXTENDS Integers, FiniteSets, Sequences, SequencesExt, FiniteSetsExt, TLC, Wire

CONSTANTS Me, Others,       \* ids of the players
          NumRaces, NumCheckpoints,
          NumSpawns,
          FullHealth,       \* of a new car, in thousandths
          Damages,          \* damages a hit may deal, in thousandths
          Upgrades,         \* numbers of the upgrades
          MaxUpgrades,
          MaxHits,          \* bound of the model: hits in a whole game
          MaxQueue,         \* bound of the model: commands waiting
          MaxOut            \* bound of the model: the game runs on only while
                            \* no more messages than this wait for the Sender

Players == {Me} \cup Others

ASSUME FeedAssumption ==
  /\ Players \subseteq Nat /\ Me \notin Others
  /\ NumRaces \in Nat \ {0} /\ NumCheckpoints \in Nat
  /\ FullHealth \in Nat /\ Damages \subseteq Nat

(* NONE of the enum Upgrade.                                               *)
None == 1

VARIABLES
  phase,           \* "lobby", "race", "over", or "dead" with its server
  raceIndex,
  startRequested,
  cars,            \* playerCars
  hits,
  out,             \* the queue of Me's Sender
  at,              \* where the iteration of the game thread is: at its "top",
                   \* at the "cmds" of a lobby, at the "drops" or the world
                   \* "events" of a race
  drained,         \* the commands of this iteration that are still to do
  visiting,        \* cars that the loop at this place still has to go over
  registry,        \* the other clients of the registry
  departed,        \* clients that left; their ids are not used again
  queue            \* the command queue

gameVars == <<phase, raceIndex, startRequested, cars, hits>>
loopVars == <<at, drained, visiting>>
feedVars == <<gameVars, out, loopVars, registry, departed, queue>>

(* checkpoint, health, enabled and upgrades are of the current race;       *)
(* spent (it had nothing left, or less than the wire can tell from it) and *)
(* bought are history, over all races that Me has been there.              *)
NewCar ==
  [checkpoint |-> 0, health |-> FullHealth, enabled |-> TRUE, upgrades |-> {},
   spent |-> FALSE, bought |-> 0]

HasCar(c) == c \in DOMAIN cars

(* emplace keeps a car that is there already.                              *)
WithCar(c) == [d \in DOMAIN cars \cup {c} |-> IF HasCar(d) THEN cars[d] ELSE NewCar]

NoSpawn == Cardinality(DOMAIN cars) >= NumSpawns

Finished(car) == car.checkpoint = NumCheckpoints

-----------------------------------------------------------------------------
(* registry.sendTo and registry.broadcast, as far as Me is concerned.      *)
SendTo(c, m) == out' = IF c = Me THEN Append(out, m) ELSE out
Broadcast(m) == SendTo(Me, m)

(* The game thread at a place of its iteration.                            *)
Running(place) == at = place /\ Len(out) <= MaxOut

(* A command that has an effect: its client is still there, it asks for a  *)
(* car while there is a spawn point, or for an upgrade with a car.         *)
Counts(cmd) ==
  /\ cmd.client \in {Me} \cup registry
  /\ cmd.op = "INIT_PLAYER" => ~NoSpawn
  /\ cmd.op = "UPGRADE_REQUEST" => HasCar(cmd.client)

(* processLobbyCmds is at its next command.                                *)
NextCmd ==
  /\ Running("cmds") /\ visiting = {} /\ drained # <<>>
  /\ drained' = Tail(drained)
  /\ UNCHANGED <<phase, raceIndex, hits, at, registry, departed, queue>>

Serve(op, client) ==
  /\ NextCmd
  /\ Counts(Head(drained)) /\ Head(drained).op = op /\ Head(drained).client = client

SkipCmd ==
  /\ NextCmd /\ ~Counts(Head(drained))
  /\ UNCHANGED <<startRequested, cars, out, visiting>>

(* A variant that does not tell the new client of the cars that are there. *)
InitPlayerAlone(c) ==
  /\ Serve("INIT_PLAYER", c)
  /\ cars' = WithCar(c)
  /\ SendTo(c, [type |-> "INIT_PLAYER", id |-> c])
  /\ UNCHANGED <<startRequested, visiting>>

(* initPlayer before the race, after its CAR_SELECT.  Me is sent its car   *)
(* and then is to hear of the cars that were there; of the car of another  *)
(* client it hears if it has one itself (notifyOthersAboutNewCar).         *)
InitPlayer(c) ==
  /\ Serve("INIT_PLAYER", c)
  /\ cars' = WithCar(c)
  /\ \/ /\ c = Me /\ visiting' = DOMAIN cars \ {Me}
        /\ SendTo(Me, [type |-> "INIT_PLAYER", id |-> Me])
     \/ /\ c # Me /\ UNCHANGED visiting
        /\ IF HasCar(Me) THEN SendTo(Me, [type |-> "NEW_PLAYER", id |-> c]) ELSE UNCHANGED out
  /\ UNCHANGED startRequested

(* notifyClientExistingCars, one car of it.                                *)
NotifyExisting(c) ==
  /\ Running("cmds") /\ c \in visiting
  /\ SendTo(Me, [type |-> "NEW_PLAYER", id |-> c])
  /\ visiting' = visiting \ {c}
  /\ UNCHANGED <<gameVars, at, drained, registry, departed, queue>>

(* handleRequestUpgrade: bought once each, up to the limit; the answer to  *)
(* a refusal names NONE.  Clients ask for the upgrades that UPGRADE_LOGIC   *)
(* told them of; findUpgradeDef would throw for any other.                 *)
RequestUpgrade(c, u) ==
  LET answer(up, success) == [type |-> "UPGRADE_SEND", upgrade |-> up, success |-> success]
      ok == Cardinality(cars[c].upgrades) < MaxUpgrades /\ u \notin cars[c].upgrades
  IN /\ Serve("UPGRADE_REQUEST", c) /\ Head(drained).arg = u
     /\ \/ ~ok /\ SendTo(c, answer(None, 0)) /\ UNCHANGED cars
        \/ /\ ok /\ SendTo(c, answer(u, 1))
           /\ cars' = [cars EXCEPT ![c].upgrades = cars[c].upgrades \cup {u},
                                   ![c].bought = cars[c].bought + 1]
     /\ UNCHANGED <<startRequested, visiting>>

StartGame(c) ==
  /\ Serve("START_GAME", c)
  /\ Broadcast([type |-> "STARTING_GAME"]) /\ startRequested' = TRUE
  /\ UNCHANGED <<cars, visiting>>

(* processLobbyCmds takes all the commands there are, then does them one   *)
(* by one.                                                                 *)
EmptyQueue ==
  /\ phase = "lobby" /\ Running("top")
  /\ drained' = queue /\ queue' = <<>> /\ at' = "cmds"
  /\ UNCHANGED <<gameVars, out, visiting, registry, departed>>

LobbyCmd ==
  \/ \E c \in Players : InitPlayer(c) \/ StartGame(c) \/ NotifyExisting(c)
  \/ \E c \in Players, u \in Upgrades : RequestUpgrade(c, u)
  \/ SkipCmd

CmdsDone == Running("cmds") /\ drained = <<>> /\ visiting = {} /\ at' = "top"

(* The rest of an iteration of runLobbyLoop: it may be over by request or, *)
(* from the second race on, by the deadline.                               *)
LobbyEnds ==
  /\ CmdsDone /\ (startRequested \/ raceIndex # 0)
  /\ phase' = "race" /\ startRequested' = FALSE
  /\ UNCHANGED <<raceIndex, cars, hits, out, drained, visiting, registry, departed, queue>>

(* broadcastUpgradeLogic, and the loop sleeps.                             *)
UpgradeLogic ==
  /\ CmdsDone /\ ~startRequested
  /\ Broadcast([type |-> "UPGRADE_LOGIC", size |-> Cardinality(Upgrades)])
  /\ UNCHANGED <<gameVars, drained, visiting, registry, departed, queue>>

-----------------------------------------------------------------------------
(* checkPlayersStatus asks the registry once for all players.              *)
CheckPlayersStatus ==
  /\ phase = "race" /\ Running("top")
  /\ at' = "drops" /\ visiting' = DOMAIN cars \ ({Me} \cup registry)
  /\ UNCHANGED <<gameVars, out, drained, registry, departed, queue>>

(* disconnectPlayer, and the CLIENT_DISCONNECT that checkPlayersStatus     *)
(* broadcasts for it.                                                      *)
DropCar(c) ==
  /\ Running("drops") /\ c \in visiting
  /\ cars' = [d \in DOMAIN cars \ {c} |-> cars[d]] /\ visiting' = visiting \ {c}
  /\ Broadcast([type |-> "CLIENT_DISCONNECT", id |-> c])
  /\ UNCHANGED <<phase, raceIndex, startRequested, hits, at, drained, registry, departed, queue>>

(* processCmds and the step of the world, which hits what is enabled.  Of  *)
(* the commands of a race nothing is kept: an INIT_PLAYER is refused with  *)
(* a message to its sender, which is not Me, and a cheat is a hit without  *)
(* a collision.                                                            *)
WorldStep ==
  /\ Running("drops") /\ visiting = {}
  /\ queue' = <<>>
  /\ at' = "events" /\ visiting' = {c \in DOMAIN cars : cars[c].enabled}
  /\ UNCHANGED <<gameVars, out, drained, registry, departed>>

(* A world event of this frame; Me hears of no checkpoint but its own.     *)
WorldEvent(c) ==
  /\ Running("events") /\ c \in visiting
  /\ UNCHANGED <<phase, raceIndex, startRequested, loopVars, registry, departed, queue>>

(* CarHitCheckpointHandler.                                                *)
CarHitCheckpoint(c, n) ==
  /\ WorldEvent(c) /\ cars[c].checkpoint + 1 = n
  /\ cars' = [cars EXCEPT ![c].checkpoint = n]
  /\ SendTo(c, [type |-> "CHECKPOINT_HIT", id |-> c, checkpoint |-> n])
  /\ UNCHANGED hits

(* applyDamage; without health left, which is 0 here however much is       *)
(* missing, the car is killed and its body disabled.                       *)
Hurt(car, damage) ==
  LET left == IF damage < car.health THEN car.health - damage ELSE 0
  IN [car EXCEPT !.health = left, !.enabled = @ /\ left # 0,
                 !.spent = @ \/ Hundredths(left) = 0]

(* A hit of a car, which is enabled when the world steps but may have been *)
(* killed by an event before; what it has left is sent to everybody        *)
(* (broadcastCarHealth), rounded as the Sender will.  A hit between two    *)
(* cars is two events here: its handler sends the health of both.          *)
CarHit(c, damage) ==
  /\ WorldEvent(c) /\ hits < MaxHits
  /\ cars' = [cars EXCEPT ![c] = Hurt(cars[c], damage)] /\ hits' = hits + 1
  /\ Broadcast([type |-> "COLLISION", id |-> c, health |-> Hundredths(cars'[c].health)])

(* A variant that names the checkpoint the car has passed.                 *)
CurrentInfoPassed ==
  IF ~HasCar(Me) \/ Finished(cars[Me]) THEN UNCHANGED out
  ELSE SendTo(Me, [type |-> "CURRENT_INFO", race |-> raceIndex + 1, next |-> cars[Me].checkpoint])

(* sendCurrentInfo: nothing for a car that has no next checkpoint.         *)
CurrentInfo ==
  IF ~HasCar(Me) \/ Finished(cars[Me]) THEN UNCHANGED out
  ELSE SendTo(Me, [type |-> "CURRENT_INFO", race |-> raceIndex + 1,
                   next |-> cars[Me].checkpoint + 1])

FrameEnds ==
  /\ Running("events") /\ at' = "top" /\ visiting' = {}
  /\ CurrentInfo
  /\ UNCHANGED <<gameVars, drained, registry, departed, queue>>

(* resetRaceState, which also drops the commands that came meanwhile, or   *)
(* sendPlayerStats after the last race.                                    *)
RaceEnds ==
  /\ Running("events") /\ at' = "top" /\ visiting' = {}
  /\ \/ /\ raceIndex + 1 < NumRaces
        /\ phase' = "lobby" /\ raceIndex' = raceIndex + 1 /\ queue' = <<>>
        /\ cars' = [c \in DOMAIN cars |->
             [NewCar EXCEPT !.spent = cars[c].spent, !.bought = cars[c].bought]]
        /\ UNCHANGED out
     \/ /\ raceIndex + 1 >= NumRaces
        /\ phase' = "over"
        /\ IF HasCar(Me) THEN SendTo(Me, [type |-> "STATS", position |-> 1]) ELSE UNCHANGED out
        /\ UNCHANGED <<raceIndex, cars, queue>>
  /\ UNCHANGED <<startRequested, hits, drained, registry, departed>>

(* One frame of runRace.                                                   *)
RaceFrame ==
  \/ CheckPlayersStatus \/ WorldStep \/ FrameEnds \/ RaceEnds
  \/ \E c \in Others : DropCar(c)
  \/ \E n \in 1..NumCheckpoints : CarHitCheckpoint(Me, n)
  \/ \E c \in Players, damage \in Damages : CarHit(c, damage)

-----------------------------------------------------------------------------
(* The other clients: they join while no race is on, send commands, leave. *)
Join(c) ==
  /\ phase = "lobby" /\ c \notin registry \cup departed
  /\ registry' = registry \cup {c}
  /\ UNCHANGED <<gameVars, out, loopVars, departed, queue>>

Leave(c) ==
  /\ c \in registry
  /\ registry' = registry \ {c} /\ departed' = departed \cup {c}
  /\ UNCHANGED <<gameVars, out, loopVars, queue>>

(* Its lobby window sends INIT_PLAYER once, and START_GAME comes after it. *)
(* The other commands of other clients send Me nothing, or what its own    *)
(* do, and those of a race are gone with its next frame or its end.        *)
Push(c, op) ==
  /\ c \in registry /\ phase = "lobby" /\ Len(queue) < MaxQueue
  /\ op = "INIT_PLAYER" <=>
       ~HasCar(c) /\ \A cmds \in {queue, drained} : \A i \in DOMAIN cmds : cmds[i].client # c
  /\ queue' = Append(queue, [client |-> c, op |-> op, arg |-> 0])
  /\ UNCHANGED <<gameVars, out, loopVars, registry, departed>>

GameThread == EmptyQueue \/ LobbyCmd \/ LobbyEnds \/ UpgradeLogic \/ RaceFrame

OtherClients == \E c \in Others : Join(c) \/ Leave(c) \/ \E op \in {"START_GAME", "INIT_PLAYER"} : Push(c, op)

FeedInit ==
  /\ registry \in SUBSET Others /\ departed = {}
  /\ phase = "lobby" /\ raceIndex \in 0..(NumRaces - 1) /\ startRequested = FALSE /\ hits = 0
  /\ \E there \in SUBSET registry : cars = [c \in there |-> NewCar]
  /\ out = <<>> /\ at = "top" /\ drained = <<>> /\ visiting = {}
  /\ queue = <<[client |-> Me, op |-> "INIT_PLAYER", arg |-> 0]>>
=============================================================================
