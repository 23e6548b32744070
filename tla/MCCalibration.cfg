CONSTANTS
  Expiries = {2, 9}
  MaxSkew = 1
  MaxAhead = 2
  MayCancel = TRUE
  MaxTime = 2
SPECIFICATION CycleSpec
INVARIANTS MemoryIsWhole CyclesInOrder
PROPERTIES SilenceIsBounded KeepsContract
CHECK_DEADLOCK FALSE
