SPECIFICATION DlgSpec
\* The call is over when no more may be sent.
CHECK_DEADLOCK FALSE
CONSTANTS
  DlgChains <- DlgStrictFirst
  DlgForks = {"f"}
  DlgMaxSent = 1
  DlgMaxMoves = 0
INVARIANT
  DlgRouted
