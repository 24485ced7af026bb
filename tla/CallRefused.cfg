CONSTANTS
  MaxTr = 2
  MaxDialog = 2
  MaxRetry = 1
  MaxFifo = 2
  MaxMinutes = 2
  LostAnswer = 1
SPECIFICATION Spec
CHECK_DEADLOCK FALSE
INVARIANTS
  RefusedStaysRefused
