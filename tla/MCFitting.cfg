CONSTANTS
  Expiries = {near, far}
  MaxSlices = 2
  MaxRmse = 1
  WorstRmse = 2
SPECIFICATION Spec
INVARIANTS CalmSliceKeepsItsOptimum ShapeNeedsQuotes
CHECK_DEADLOCK FALSE
