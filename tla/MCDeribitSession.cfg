SPECIFICATION FairSpec
CONSTANTS
  Symbols = {a, b, x}
  Foreign = {x}
  InitialListing = {a, x}
  BatchSize = 1
  FloatExponent = 9
  MaxPolls = 1
  MaxFaults = 2
  MaxId = 9
  MaxInbox = 1
INVARIANTS UniverseIsSubscribed SettledByItsOwnReply
PROPERTIES SessionRecovers CloseEndsTheStream
CHECK_DEADLOCK FALSE
