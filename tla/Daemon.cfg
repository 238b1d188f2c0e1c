\* Two terminals, two daemons, every command, crashes at any step.
CONSTANTS
  p1 = p1
  p2 = p2
  u1 = u1
  u2 = u2
  None = None
  Torn = Torn
  Pids = {p1, p2}
  Users = {u1, u2}
SPECIFICATION FairSpec
INVARIANTS
  TypeOK
  OneDaemon
  FilesTellTheTruth
PROPERTIES
  CommandsEnd
  SignalledEnd
CHECK_DEADLOCK FALSE
