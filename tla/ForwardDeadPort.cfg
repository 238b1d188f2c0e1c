\* One port whose listener dies while the connection lives.
CONSTANTS
  Ports = {p1}
  Callers = {c1}
  MaxStaleAttempts = 1
  Foreign = {}
  ReturnMayKeep = FALSE
SPECIFICATION FairSpec
PROPERTY DeadPortNoticed
CHECK_DEADLOCK FALSE
