SPECIFICATION Spec
CONSTANTS
  Clients = {c1, c2}
  MaxGames = 2
  MaxPlayers = 2
SYMMETRY Symmetry
INVARIANTS
  TypeOK
  StartedGameExists
  OneStopper
  ReceiverKnowsGame
  NoGhostPlayers
  ConnectionsEnd
