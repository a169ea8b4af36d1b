SPECIFICATION ClientFairSpec
CONSTANTS
  Me = 1
  Others = {2}
  NumRaces = 2
  NumCheckpoints = 2
  NumSpawns = 2
  FullHealth = 40
  Damages = {36, 40}
  Upgrades = {2}
  MaxUpgrades = 1
  MaxHits = 1
  MaxQueue = 1
  MaxOut = 0
  MaxInbox = 1
  Junk = Junk
  JunkValues = {0, 200}
  LowHealth = 2
  MaxShown = 1
INVARIANTS MembershipAgrees CarsAgree HudFollows
PROPERTIES ChannelRefined EndIsNoticed ClientEnds
