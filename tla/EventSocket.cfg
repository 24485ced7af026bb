CONSTANTS
  MaxFifo = 1
  MaxCalls = 1
  MaxReports = 1
  MaxFailures = 0
  PipeMax = 2
  ReadMax = 2
SPECIFICATION Spec
INVARIANT SocketTells
