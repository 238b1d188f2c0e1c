\* One id and two forwards of it, a shutdown, and writes that fail.
CONSTANTS
  a = a
  b = b
  Ids = {a}
  LocalPort <- OnePort
  SubCap = 1
  QueueCap = 1
  WritesFail = TRUE
  Shutdowns = TRUE
  Audits = {}
  MaxStarts = 2
  MaxBoots = 1
SPECIFICATION FairSpec
INVARIANT
  FileCatchesUp
PROPERTY
  ShutdownEnds
CHECK_DEADLOCK FALSE
