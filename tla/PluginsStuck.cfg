SPECIFICATION FairSpec
CONSTANTS
  Scenes <- StuckScenes
  OutboxCap = 1
  PipeCap = 1
  StreamCap = 2
  InCap = 1
  RingSize = 2
CHECK_DEADLOCK FALSE
PROPERTIES CloseKills
