CONSTANTS
  NoFlag = NoFlag
  Files <- MCFiles
  MarketFlags <- MCMarketFlags
  NamesFlags <- MCNamesFlags
  Recordings <- MCRecordings
SPECIFICATION StartupSpec
INVARIANTS EveryPositionIsValued RecordingIsOneMarket ComparedIsWhatRuns
CHECK_DEADLOCK FALSE
