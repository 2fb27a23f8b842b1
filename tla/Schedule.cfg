SPECIFICATION FairSpec
CONSTANTS
  Names = {n1, n2}
  Intervals = {2, 3}
  DefaultEvery = 2
  Bad = 0
  Handlers = {h1}
  Ticker = ticker
  Free = free
  Faults = {"read", "save", "crash"}
  MaxTime = 5
INVARIANTS
  TypeOK
  
  ScopeAsChosen
PROPERTIES
  NoLostEdit
  TicksServed
