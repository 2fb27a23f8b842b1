SPECIFICATION FairSpec
CONSTANTS
  Names = {n1}
  Regions = {de}
  Nowhere = Nowhere
  Faults = {"read", "show", "logs", "command", "psictl"}
  RowsTTL = 1
  UnitsTTL = 1
  ConnectingTTL = 1
  ActiveTTL = 1
  MaxRun = 2
INVARIANTS
  TypeOK
  SharedRowsListed
PROPERTIES
  RegionRemembered
  Settles
