CONSTANTS
  T1 = 1
  T2 = 4
  T4 = 5
  Timeout = 8
  MaxFifo = 2
  MaxSessions = 1
  MaxCopies = 1
  OneLoop = TRUE
  AckMayFail = FALSE
SPECIFICATION Spec
CHECK_DEADLOCK FALSE
INVARIANTS
  OutcomeOnce
  NeverSilent
  TimeoutsNeverStale
PROPERTIES
  NoRequestAfterAnswer
