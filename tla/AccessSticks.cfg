SPECIFICATION Spec
CONSTANTS
  Clients = {c1, c2}
  Informed = {c1}
  Requests = {r1}
  None = None
  Wrong = Wrong
  Limit = 2
  LockFor = 2
  StaleAfter = 2
  Large = 1
  SessionTTL = 1
  MaxChange = 1
PROPERTIES
  LoginSticks
