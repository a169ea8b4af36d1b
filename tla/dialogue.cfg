SPECIFICATION DialogueFairSpec
CONSTANTS
  NumRaces = 2
  MaxGames = 2
INVARIANTS OneGame OnlyStartMisread EntersWithCar
PROPERTY Answered
