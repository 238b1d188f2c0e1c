\* Two ports, both of which other processes may take; two callers of Stop.
CONSTANTS
  Ports = {p1, p2}
  Callers = {c1, c2}
  MaxStaleAttempts = 3
  Foreign = {p1, p2}
  ReturnMayKeep = TRUE
SPECIFICATION FairSpec
INVARIANTS
  TypeOK
  DoneLeavesNothing
  NoGoroutineOutlivesItsAttempt
  StaleAfterMissingInARow
PROPERTIES
  ImplementsLifecycle
  StopTerminates
  DropIsHandled
  DeadPortReleasesTheOthers
CHECK_DEADLOCK FALSE
