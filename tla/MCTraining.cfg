CONSTANTS
  near = near
  wing = wing
  Cells = {near, wing}
  Capacity = 1
  Horizon = 1
  ReplaySize = 1
  RestartAfter = 1
  Ages = {0, 2}
  MaxFresh = 2
  MaxAhead = 1
  MayCancel = TRUE
  MaxTime = 2
SPECIFICATION Spec
INVARIANTS ReplayIsHistory ScheduleIsHonest NothingBrokenIsKept
PROPERTY KeepsContract
CHECK_DEADLOCK FALSE
