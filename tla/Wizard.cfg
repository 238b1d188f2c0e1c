\* One place and one object with one port; two messages under way when a key is pressed.
CONSTANTS
  None = None
  Kubes = {k1}
  Namespaces = {n1}
  Kinds = {t1}
  Objects = {o1}
  Remotes = {r1}
  Locals = {l1}
  Default <- MCDefault
  NoPorts = {}
  Room = 2
SPECIFICATION FairSpec
INVARIANTS
  TypeOK
  SwallowedWhileStarting
PROPERTIES
  StopsWereAsked
  ViewCatchesUp
CHECK_DEADLOCK FALSE
