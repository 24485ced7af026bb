CONSTANTS
  MaxFifo = 1
  MaxCalls = 1
  MaxReports = 2
  MaxFailures = 1
  PipeMax = 1
  ReadMax = 1
SPECIFICATION FairSpec
INVARIANTS
  NoForgottenWork
  NoEventMissed
PROPERTIES
  WorkDone
  EventsDelivered
  QuitEnds
