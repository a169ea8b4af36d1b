-------------------------- MODULE ClientProperties --------------------------
(***************************************************************************)
(* What a client may expect of its window: properties of ClientGame.       *)
(***************************************************************************)
EXTENDS ClientGame

(* Whoever has a car on the server is shown it, and what Me is shown can   *)
(* be compared once every message has been handled and Me has been told of *)
(* all the cars it is to be told of.                                       *)
UpToDate ==
  /\ phase \in {"lobby", "race", "over"} /\ HasCar(Me)
  /\ out = <<>> /\ stream = <<>> /\ inbox = <<>> /\ client = "window"
  /\ at = "cmds" => visiting = {}

(* The cars of the window are those of the game, whoever came or left      *)
(* before, between or after Me and in whatever order it was told of them.  *)
MembershipAgrees ==
  UpToDate => /\ window.myCarId = Me
              /\ DOMAIN window.cars = DOMAIN cars

Wreck(shown) == shown.state \in {"EXPLODING", "DESTROYED"}

(* The window shows a wreck for every car that was killed in this race,    *)
(* and exactly for those that after some hit, in whatever race that Me was *)
(* there for, had less health than the half hundredth that survives the    *)
(* wire: a car with less than that is shown as a wreck and drives on, and  *)
(* setHealth never leads back.  It shows as many upgrades as Me ever       *)
(* bought, up to the number it has room for.                               *)
CarsAgree ==
  UpToDate =>
    /\ \A c \in DOMAIN cars : /\ ~cars[c].enabled => Wreck(window.cars[c])
                               /\ Wreck(window.cars[c]) <=> cars[c].spent
    /\ window.cars[Me].upgrades = Min({MaxShown, cars[Me].bought})

(* The number of checkpoints shown never runs ahead of the car in the race *)
(* it is for, and once the first frame of a race has been handled the hint *)
(* points at the checkpoint the game expects, unless a wreck took it away. *)
HudFollows ==
  phase = "race" /\ HasCar(Me) /\ window.lastRaceNumber = raceIndex + 1 =>
    LET car == cars[Me] IN
      /\ window.checkpointNumber <= car.checkpoint
      /\ UpToDate /\ at = "top" /\ ~Finished(car) =>
           \/ window.nextCheckpoint = car.checkpoint + 1
           \/ /\ window.nextCheckpoint = NOT_ACCESSIBLE
              /\ \E c \in DOMAIN window.cars : window.cars[c].state = "DESTROYED"

(* A player with a car in the last race gets its final result and leaves   *)
(* the window, and so does one whose server dies, unless its death cuts a  *)
(* field of a message in two: then the receiver thread ends by an          *)
(* exception and the window is not told.                                   *)
EndIsNoticed ==
  (phase = "over" /\ HasCar(Me)) \/ Dead ~> ~window.running \/ receiver = "threw"

(* A client that was closed ends when its server is gone, even if its      *)
(* receiver was blocked in recv when the socket was closed.                *)
ClientEnds == client = "stopping" /\ Dead ~> client = "ended"

-----------------------------------------------------------------------------
(* The connection as a channel of messages.                                *)

(* The messages in the bytes on the wire, and the notice after them, which *)
(* nobody gives if reading them throws.                                    *)
OnTheWire == IF stream = <<>> THEN <<>> ELSE Received[stream].msgs

NoticeMsg == [type |-> "SRV_DISCONNECTION"]

Ending ==
  IF ~Dead \/ receiver # "on" \/ (stream # <<>> /\ Received[stream].threw)
  THEN <<>> ELSE <<NoticeMsg>>

(* Of messages in the queue those that Sender will let through: all from   *)
(* the one on that gives the client its car, and of those before it the    *)
(* unfiltered, which in a game are the STARTING_GAMEs.                     *)
LetThrough(open, msgs) ==
  LET starts == {i \in DOMAIN msgs : StartsPlaying(msgs[i])}
      first  == IF open THEN 1 ELSE Min(starts \cup {Len(msgs) + 1})
      early  == {i \in 1..(first - 1) : msgs[i].type \in Unfiltered}
  IN [n \in 1..Cardinality(early) |-> [type |-> "STARTING_GAME"]]
       \o SubSeq(msgs, first, Len(msgs))

InTheQueue == LetThrough(playing, out)

Channel == INSTANCE MessageChannel WITH
  Notice  <- NoticeMsg,
  waiting <- IF client = "window" THEN OnTheWire \o InTheQueue \o Ending ELSE <<>>,
  arrived <- IF client = "window" THEN inbox ELSE <<>>,
  broken  <- Dead \/ client # "window"

(* The connection is such a channel: what the game sends to a client that  *)
(* has its car arrives once, in order and as it was sent.                  *)
ChannelRefined == Channel!ChannelSpec
=============================================================================
