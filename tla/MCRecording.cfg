SPECIFICATION FairSpec
CONSTANTS
  Contracts = {c1, c2}
  MaxLines = 5
  MaxTime = 3
INVARIANTS WrittenBeforeSeen ReplayedChainIsTheSessions
PROPERTIES EveryWholeLineReplays
CHECK_DEADLOCK FALSE
