SPECIFICATION Spec
CONSTANTS
  Scenes <- MCScenes
  OutboxCap = 1
  PipeCap = 1
  StreamCap = 2
  InCap = 1
  RingSize = 2
CHECK_DEADLOCK FALSE
INVARIANTS InOrder EndIsEnd CloseIsEnd NoPanic HostKeysFirst NoGap RingHolds
