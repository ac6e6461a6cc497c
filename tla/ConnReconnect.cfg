SPECIFICATION FairSpec
CONSTANTS
  NoChannel = NoChannel
  Surroundings <- DaemonBreaks
  Channels = {c1}
  InboundCap = 1
  QueueCap = 2
  InputCap = 1
PROPERTY AlwaysReconnects
CHECK_DEADLOCK FALSE
