SPECIFICATION Spec
CONSTANTS
  Names = {n1}
  Regions = {de}
  Nowhere = Nowhere
  Faults = {}
  RowsTTL = 1
  UnitsTTL = 1
  ConnectingTTL = 1
  ActiveTTL = 1
  MaxRun = 2
PROPERTIES
  FollowUpFresh
