CONSTANTS
  T1 = 1
  T2 = 2
  T4 = 2
  Timeout = 4
  MaxFifo = 2
  MaxSessions = 2
  MaxCopies = 6
  OneLoop = TRUE
  AckMayFail = FALSE
  Lifetime = 1
  MaxFaults = 2
SPECIFICATION EndsSpec
CHECK_DEADLOCK FALSE
INVARIANTS
  AnswersAgree
  RequestsBounded
PROPERTIES
  NoGhostRequest
  RefusedCallEnds
