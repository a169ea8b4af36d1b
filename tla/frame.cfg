SPECIFICATION Spec
CONSTANTS
  Clients = {c1, c2}
  None = None
  BaseHealth = 1
  CheatHealth = 2
  Upgrades = {}
  Penalty <- MCPenalty
  MaxUpgrades = 3
  NumSpawns = 2
  NumCheckpoints = 2
  MaxPlayers = 2
  NumRaces = 1
  MaxRaceTime = 2
  Damages = {1}
  Cheats = {"WIN_RACE_CHEAT", "LOST_RACE_CHEAT", "HEALTH_CHEAT"}
  MaxQueue = 1
  MaxEvents = 2
SYMMETRY MCSymmetry
INVARIANTS FinishOrder NobodyForgotten FinishedAtTheLine
PROPERTY CheckpointsInOrder
