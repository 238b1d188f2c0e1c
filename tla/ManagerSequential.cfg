\* One request at a time, one of them for a record: what the registry
\* guarantees when nothing races.
CONSTANTS
  p1 = p1
  p2 = p2
  c1 = c1
  c2 = c2
  Callers = {c1}
  Ports = {p1, p2}
  Ops = {"start", "stop", "restart", "stopAll"}
  Restored <- LateRestored
  MaxStarts = 4
SPECIFICATION Spec
INVARIANTS
  TypeOK
  EveryLiveForwardIsRegistered
  ClaimedPortsAreExclusive
  HistoryMatchesRegistry
PROPERTY OnlyEndedForwardsLeave
CHECK_DEADLOCK FALSE
