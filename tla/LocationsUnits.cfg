SPECIFICATION FairSpec
CONSTANTS
  Names = {n1}
  Threads = {t1, t2}
  Free = Free
  None = None
  NoConf = NoConf
  Torn = Torn
  PortBase = 1
  PortMax = 2
  Foreign = {1}
  BackupPorts = {2, 4}
  MaxBackup = 2
  Upstreams = {direct, proxy}
  Faults = {"write", "save", "read", "refresh", "systemctl", "service", "crash", "reboot", "update"}
INVARIANTS
  TypeOK
  StartsReady
  NoOrphan
  UpstreamApplied
  RulesInStep
PROPERTIES
  StopSurvivesReboot
  HandlersFinish
