SPECIFICATION FairSpec
CONSTANTS
  Scenes <- StreamScenes
  OutboxCap = 3
  PipeCap = 1
  StreamCap = 2
  InCap = 3
  RingSize = 2
CHECK_DEADLOCK FALSE
PROPERTIES StreamEnds
