SPECIFICATION FairSpec
CONSTANTS
  Scenes <- LiveScenes
  OutboxCap = 3
  PipeCap = 1
  StreamCap = 1
  InCap = 3
  RingSize = 2
CHECK_DEADLOCK FALSE
PROPERTIES TargetFreed SessionOver
