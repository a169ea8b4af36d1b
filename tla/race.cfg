SPECIFICATION Spec
CONSTANTS
  Clients = {c1, c2, c3}
  None = None
  BaseHealth = 1
  CheatHealth = 2
  Upgrades = {}
  Penalty <- MCPenalty
  MaxUpgrades = 3
  NumSpawns = 3
  NumCheckpoints = 1
  MaxPlayers = 3
  NumRaces = 1
  MaxRaceTime = 3
  Damages = {1}
  Cheats = {}
  MaxQueue = 1
  MaxEvents = 1
SYMMETRY MCSymmetry
INVARIANTS OneResultPerPlayer CountsAddUp NoEarlyEnd NoLateEnd SpawnsOwned FirstGridDistinct
PROPERTY NoLateDrivers
