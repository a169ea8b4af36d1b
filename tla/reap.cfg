SPECIFICATION Spec
CONSTANTS
  Clients = {c1, c2}
  MaxGames = 1
  MaxPlayers = 2
PROPERTY
  FlaggedHandlersAreStopped
