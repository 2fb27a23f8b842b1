SPECIFICATION Spec
CONSTANTS
  Names = {n1, n2}
  Threads = {t1, t2}
  Free = Free
  None = None
  NoConf = NoConf
  Torn = Torn
  PortBase = 1
  PortMax = 3
  Foreign = {1}
  BackupPorts = {2, 3, 4}
  MaxBackup = 2
  Upstreams = {direct}
  Faults = {}
PROPERTIES
  WaveLeavesStopped
