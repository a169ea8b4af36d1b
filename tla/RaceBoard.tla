----------------------------- MODULE RaceBoard -----------------------------
(***************************************************************************)
(* What a game promises its players of the results, whatever happens on    *)
(* the road: one board per race, to which every finisher is added once,    *)
(* next in place, with the time of its arrival; when the race closes, all  *)
(* who are still there and did not finish follow without a place.  A line  *)
(* of the board is never taken back or changed before the next race.       *)
(*                                                                         *)
(* GameProperties states that GameLoop implements this specification.      *)
(***************************************************************************)
EXTENDS Naturals, Sequences, FiniteSets, Functions

CONSTANTS Players, Races, TimeLimit

VARIABLES
  stage,    \* "lobby", "race", "closed" or "over"
  race,     \* races that are behind
  drivers,  \* the players with a car
  clock,    \* time since the start
  board     \* lastRaceResults

boardVars == <<stage, race, drivers, clock, board>>

BoardInit == stage = "lobby" /\ race = 0 /\ drivers = {} /\ clock = 0 /\ board = <<>>

Placed == {board[i].playerId : i \in DOMAIN board}

Arrived(p) ==
  [playerId |-> p, raceTime |-> clock, position |-> (Len(board) + 1) % 256, finished |-> TRUE]

Missing(p) == [playerId |-> p, raceTime |-> clock, position |-> 0, finished |-> FALSE]

(* Players come before the start, and go after it.                         *)
Enter(p) ==
  /\ stage = "lobby"
  /\ drivers' = drivers \cup {p}
  /\ UNCHANGED <<stage, race, clock, board>>

Start ==
  /\ stage = "lobby"
  /\ stage' = "race" /\ clock' = 0
  /\ UNCHANGED <<race, drivers, board>>

Leave ==
  /\ stage = "race"
  /\ drivers' \in SUBSET drivers
  /\ UNCHANGED <<stage, race, clock, board>>

Tick ==
  /\ stage = "race" /\ clock < TimeLimit
  /\ clock' = clock + 1
  /\ UNCHANGED <<stage, race, drivers, board>>

Finish(p) ==
  /\ stage = "race" /\ p \in drivers \ Placed
  /\ board' = Append(board, Arrived(p))
  /\ UNCHANGED <<stage, race, drivers, clock>>

Close ==
  /\ stage = "race"
  /\ LET late == drivers \ Placed IN
       \E order \in Bijection(1..Cardinality(late), late) :
         board' = board \o [i \in DOMAIN order |-> Missing(order[i])]
  /\ stage' = "closed"
  /\ UNCHANGED <<race, drivers, clock>>

(* Everybody stays for the next race.                                      *)
NextRace ==
  /\ stage = "closed" /\ race + 1 < Races
  /\ stage' = "lobby" /\ race' = race + 1 /\ clock' = 0 /\ board' = <<>>
  /\ UNCHANGED drivers

(* After the last race, or in a lobby that everybody has left.             *)
End ==
  /\ \/ stage = "closed" /\ race + 1 = Races /\ race' = Races
     \/ stage = "lobby" /\ UNCHANGED race
  /\ stage' = "over"
  /\ UNCHANGED <<drivers, clock, board>>

BoardNext ==
  \/ Start \/ Leave \/ Tick \/ Close \/ NextRace \/ End
  \/ \E p \in Players : Enter(p) \/ Finish(p)

BoardSpec == BoardInit /\ [][BoardNext]_boardVars
=============================================================================
