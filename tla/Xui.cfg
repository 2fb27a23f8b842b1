SPECIFICATION Spec
CONSTANTS
  Names = {n1, n2}
  Ports = {1, 2}
  Others = {direct}
  Threads = {t1, t2}
  Free = Free
  Faults = {"reach", "read", "save", "crash"}
  MaxOutbounds = 2
INVARIANTS
  TypeOK
  SyncedOrSaid
PROPERTIES
  OthersUntouched
