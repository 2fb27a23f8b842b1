SPECIFICATION Spec
CONSTANTS
  Proxies = {p1}
  Links = {v1, v2}
  Direct = Direct
  Xray = Xray
  Locs = {l1}
  Requests = {t1, t2}
  None = None
  Free = Free
  MaxFaults = 2
INVARIANTS
  TypeOK
  
  ShortcutSound
  OneThrowaway
