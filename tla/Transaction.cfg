CONSTANTS
  T1 = 1
  T2 = 2
  T4 = 2
  Timeout = 4
  MaxFifo = 2
  MaxSessions = 2
  MaxCopies = 3
  OneLoop = FALSE
  AckMayFail = FALSE
SPECIFICATION FairSpec
CHECK_DEADLOCK FALSE
INVARIANTS
  AnsweredOnce
PROPERTIES
  NothingAfterEnd
  EveryWaitEnds
