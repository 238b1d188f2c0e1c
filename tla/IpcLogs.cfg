\* One log stream of a running daemon.
CONSTANTS
  d = d
  e = e
  w = w
  l = l
  Clients = {l}
  Program <- Programs
  WireCap = 1
  SubCap = 1
  MaxCalls = 2
  MaxEvents = 3
SPECIFICATION Spec
INVARIANT LogStreamsAreServed
CHECK_DEADLOCK FALSE
