CONSTANTS
  T1 = 1
  T2 = 2
  T4 = 2
  Timeout = 4
  MaxFifo = 1
  MaxSessions = 2
  MaxCopies = 6
  OneLoop = TRUE
  AckMayFail = TRUE
  Lifetime = 2
  SlowAnswers = TRUE
  MaxFaults = 2
SPECIFICATION Spec
CHECK_DEADLOCK FALSE
INVARIANTS
  AckMeansTold
PROPERTIES
  NoGhostAfterAck
