CONSTANTS
  MaxTr = 3
  MaxDialog = 2
  MaxRetry = 1
  MaxFifo = 1
  MaxMinutes = 2
  LostAnswer = 1
SPECIFICATION Spec
CHECK_DEADLOCK FALSE
INVARIANTS
  NoUseAfterFree
  OwnedOnce
  DialogsInOrder
PROPERTIES
  ReleasedWhenDone
  EstablishedUntilBye
