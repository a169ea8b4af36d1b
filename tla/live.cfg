SPECIFICATION FairSpec
CONSTANTS
  Clients = {c1, c2}
  None = None
  BaseHealth = 1
  CheatHealth = 2
  Upgrades = {}
  Penalty <- MCPenalty
  MaxUpgrades = 1
  NumSpawns = 1
  NumCheckpoints = 1
  MaxPlayers = 2
  NumRaces = 2
  MaxRaceTime = 2
  Damages = {1}
  Cheats = {}
  MaxQueue = 1
  MaxEvents = 1
PROPERTIES RaceEnds GameRunsOn AbandonedGameEnds
