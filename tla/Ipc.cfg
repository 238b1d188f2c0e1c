\* A doctor, an event stream and the table of `kpf ls -w`.
CONSTANTS
  d = d
  e = e
  w = w
  l = l
  Clients = {d, e, w}
  Program <- Programs
  WireCap = 1
  SubCap = 1
  MaxCalls = 2
  MaxEvents = 3
SPECIFICATION FairSpec
INVARIANTS
  TypeOK
  OneAnswerPerCall
  EventStreamsAreServed
  StreamIsFaithful
PROPERTIES
  EventsAreShownWhileRead
  HandlersReturn
CHECK_DEADLOCK FALSE
