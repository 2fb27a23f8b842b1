SPECIFICATION FairSpec
CONSTANTS
  Pairs = {p1, p2}
  Admins = {a1}
  Ticker = Ticker
  None = None
  Half = Half
  Free = Free
  MaxFaults = 2
  MaxCert = 2
INVARIANTS
  TypeOK
  EnabledAsSaved
PROPERTIES
  RefreshKeepsChoice
  RenewalServed
