SPECIFICATION FairSpec
CONSTANTS
  Names = {n1, n2}
  Ports = {p1, p2}
  Exits = {x1, x2}
  None = None
  GateSets = {{}, {"latency", "new_ip", "gemini"}}
  OnlySets = {{}}
  MaxTries = 2
INVARIANTS
  TypeOK
  NoResurrection
  JudgedByNewExit
PROPERTIES
  KeepsBudget
  WaveEnds
