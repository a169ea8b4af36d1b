SPECIFICATION FairSpec
CONSTANTS
  Clients = {c1, c2}
  MaxGames = 1
  MaxPlayers = 1
PROPERTY
  ShutdownCompletes
