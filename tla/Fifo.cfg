CONSTANTS
  Producers = {p1, p2}
  Consumers = {c1, c2}
  Elements = {e1, e2, e3}
  NoThread = NoThread
  NoElement = NoElement
  AllocMayFail = FALSE
SPECIFICATION FairSpec
CHECK_DEADLOCK FALSE
INVARIANTS
  Consistent
  NeverEmptyHanded
PROPERTIES
  ImplementsQueue
  EveryElementDelivered
