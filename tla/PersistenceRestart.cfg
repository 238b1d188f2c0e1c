\* Two ids whose specs share a local port, over two daemons; crashes, writes
\* that fail, and an audit of the second daemon.
CONSTANTS
  a = a
  b = b
  Ids = {a, b}
  LocalPort <- OnePort
  SubCap = 1
  QueueCap = 1
  WritesFail = TRUE
  Shutdowns = FALSE
  Audits = {2}
  MaxStarts = 1
  MaxBoots = 2
SPECIFICATION FairSpec
INVARIANTS
  TypeOK
  FileCatchesUp
PROPERTIES
  EndedLeaveTheFile
  MissingIsReported
CHECK_DEADLOCK FALSE
