SPECIFICATION FairSpec
CONSTANTS
  Threads = {t1, t2, t3}
  Items = {a, b}
  MaxSize = 2
  MaxItems = 4
INVARIANTS
  TypeOK
  NobodyOversleeps
  FirstInFirstOut
PROPERTY
  CloseFreesConsumers
