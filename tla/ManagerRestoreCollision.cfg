\* A restored forward and a new one, one request at a time.
CONSTANTS
  p1 = p1
  p2 = p2
  c1 = c1
  c2 = c2
  Callers = {c1}
  Ports = {p1, p2}
  Ops = {"start"}
  Restored <- OneRestored
  MaxStarts = 2
SPECIFICATION Spec
INVARIANT IdsAreUnique
CHECK_DEADLOCK FALSE
