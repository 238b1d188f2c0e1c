\* Two clients that send every request for one port, one record restored.
CONSTANTS
  p1 = p1
  p2 = p2
  c1 = c1
  c2 = c2
  Callers = {c1, c2}
  Ports = {p1}
  Ops = {"start", "stop", "restart", "stopAll"}
  Restored <- OneRestored
  MaxStarts = 2
SPECIFICATION FairSpec
PROPERTIES
  RequestsReturn
  StoppedForwardsLeave
CHECK_DEADLOCK FALSE
