-------------------------------- MODULE Car --------------------------------
(***************************************************************************)
(* The race state of one car (server_src/world/entities/car.h, car.cpp) as *)
(* a record, and the member functions of Car as operators from records to  *)
(* records.                                                                *)
(*                                                                         *)
(* The box2d body is abstracted to what the game rules can tell apart: it  *)
(* is enabled or disabled, and the spawn point at which the server last    *)
(* placed it.  Health and damage are small integers.  The upgrade factors  *)
(* of the code (engineFactor, shield, damage) are 1.0 until the upgrade is *)
(* bought, so the set of bought upgrades stands for them.                  *)
(***************************************************************************)
EXTENDS Naturals, FiniteSets

CONSTANTS BaseHealth,      \* handling.baseHealth
          CheatHealth,     \* CHEAT_HEALTH
          Upgrades,        \* the upgrade types of config.yaml
          Penalty,         \* the penalty of each upgrade, in units of race time
          MaxUpgrades,     \* CAR_MAX_UPGRADES
          NumSpawns,       \* spawn points of a route
          NumCheckpoints   \* checkpoints of a route; the last one is the finish

ASSUME CarAssumption ==
  /\ BaseHealth \in Nat \ {0}
  /\ "HEALTH" \in Upgrades => BaseHealth > 1
  /\ CheatHealth \in Nat \ {0}
  /\ Penalty \in [Upgrades -> Nat]
  /\ MaxUpgrades \in Nat
  /\ NumSpawns \in Nat \ {0}
  /\ NumCheckpoints \in Nat \ {0}

CarState ==
  [ health           : Nat,
    totalHealth      : Nat,
    actualCheckpoint : 0..NumCheckpoints,
    finished         : BOOLEAN,
    finishTime       : Nat,
    ranking          : 0..255,
    upgradePenalty   : Nat,
    upgrades         : SUBSET Upgrades,
    enabled          : BOOLEAN,
    spot             : 1..NumSpawns ]

(* The constructor: a new body at a spawn point, and resetRaceState.       *)
NewCar(spot) ==
  [ health           |-> BaseHealth,
    totalHealth      |-> BaseHealth,
    actualCheckpoint |-> 0,
    finished         |-> FALSE,
    finishTime       |-> 0,
    ranking          |-> 0,
    upgradePenalty   |-> 0,
    upgrades         |-> {},
    enabled          |-> TRUE,
    spot             |-> spot ]

(* Variants: one does not enable the body again, one keeps the upgrades.   *)
ResetStillDisabled(car, spot) == [NewCar(spot) EXCEPT !.enabled = car.enabled]
ResetKeepingUpgrades(car, spot) ==
  [NewCar(spot) EXCEPT !.upgrades = car.upgrades, !.upgradePenalty = car.upgradePenalty]

(* Enable the body, put it at the spawn point, and resetRaceState.         *)
ResetForNewRace(car, spot) == NewCar(spot)

IsCarDestroy(car) == car.health = 0

HasMaxUpgrade(car) == Cardinality(car.upgrades) >= MaxUpgrades

Kill(car) == [car EXCEPT !.health = 0, !.enabled = FALSE]

ApplyDamage(car, damage) ==
  IF damage >= car.health THEN Kill(car)
                          ELSE [car EXCEPT !.health = @ - damage]

MarkFinished(car, time, position) ==
  [car EXCEPT !.finished = TRUE, !.finishTime = time, !.ranking = position]

(* Every upgrade is bought once per race; HEALTH is recognised by the      *)
(* total health having moved off its base, the others by their factor.     *)
CanApplyUpgrade(car, u) ==
  IF u = "HEALTH" THEN car.totalHealth = BaseHealth ELSE u \notin car.upgrades

(* HEALTH multiplies the current health by 1.5 and makes it the total.     *)
BoostedHealth(car, u) ==
  IF u = "HEALTH" THEN (3 * car.health) \div 2 ELSE car.health

ApplyUpgrade(car, u) ==
  [car EXCEPT !.health         = BoostedHealth(car, u),
              !.totalHealth    = IF u = "HEALTH" THEN BoostedHealth(car, u) ELSE @,
              !.upgradePenalty = @ + Penalty[u],
              !.upgrades       = @ \cup {u}]

(* FREE_SPEED_CHEAT only raises the speed limit of the body.               *)
ApplyCheat(car, cheat) ==
  IF cheat = "HEALTH_CHEAT"
  THEN [car EXCEPT !.health = CheatHealth, !.totalHealth = CheatHealth]
  ELSE car
=============================================================================
