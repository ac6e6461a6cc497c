SPECIFICATION FairSpec
CONSTANTS
  Ids = {i1, i2}
  InputCap = 2
  MaxMessages = 3
  MaxPongs = 1
  MaximumMissedPongSets = 1
  Scenes <- MCScenes
INVARIANTS
  TypeOK
  RestartIsQualified
  TableIsLive
  OpenIsNamed
  ClosesWhatWasOpen
PROPERTIES
  NoHastyRestart
  Watchdog
  SignalEnds
CHECK_DEADLOCK FALSE
