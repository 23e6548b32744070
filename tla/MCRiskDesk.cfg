CONSTANTS
  Expiries = {4}
  MaxSkew = 1
  MaxAhead = 1
  MayCancel = FALSE
  MaxTime = 3
  Book = {3, 9}
  Warn = 1
  Reject = 2
SPECIFICATION FairSpec
PROPERTIES RecoveryNeedsNewSurface CacheMovesForward EverySnapshotAnswered
CHECK_DEADLOCK FALSE
