SPECIFICATION Spec
CONSTANTS
  NoChannel = NoChannel
  Surroundings <- AllRoles
  Channels = {c1}
  InboundCap = 1
  QueueCap = 2
  InputCap = 1
INVARIANTS
  TypeOK
  SentInOrder
  TrackedIsAwaited
  Flushed
  NotifiedLast
CHECK_DEADLOCK FALSE
