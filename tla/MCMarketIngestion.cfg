CONSTANTS
  near = near
  far = far
  alien = alien
  Contracts = {near, far, alien}
  Foreign = {alien}
  ExpiryOf <- MCExpiryOf
  Mids <- MCMids
  Cadence = 2
  MaxQuiet = 3
  MoveNum = 1
  MoveDen = 2
  MaxTime = 7
SPECIFICATION Spec
INVARIANTS ChainForgetsTheDead OneUniverse StatsAlwaysConstructible BoundedSilence
PROPERTY DriftIsSeen
CHECK_DEADLOCK FALSE
