SPECIFICATION Spec
CONSTANTS
  Clients = {c1, c2}
  None = None
  BaseHealth = 1
  CheatHealth = 2
  Upgrades = {"ENGINE_FORCE"}
  Penalty <- MCPenalty
  MaxUpgrades = 1
  NumSpawns = 2
  NumCheckpoints = 1
  MaxPlayers = 2
  NumRaces = 2
  MaxRaceTime = 2
  Damages = {1}
  Cheats = {}
  MaxQueue = 1
  MaxEvents = 1
SYMMETRY MCSymmetry
INVARIANTS TypeOK LobbyIsClean FinalRanking
PROPERTIES UpgradesLastOneRace BoardKept
