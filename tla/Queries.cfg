\* Three pods, three ports of an object, five rows, two directories.
CONSTANTS
  Labels = {app}
  Times = {1, 2}
  MaxPods = 3
  Numbers = {0, 80, 443, 65535, 65536}
  MaxPorts = 3
  MaxRows = 5
  Dirs = {d1, d2}
  MaxDirs = 2
  MaxNames = 2
  None = None
SPECIFICATION Spec
INVARIANTS
  BestPodIsPicked
  SubmittedPairsCanStart
  CursorIsShown
  KubeconfigsOnce
CHECK_DEADLOCK FALSE
