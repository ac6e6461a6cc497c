SPECIFICATION FairSpec
CONSTANTS
  NoChannel = NoChannel
  Surroundings <- AgentLasting
  Channels = {c1}
  InboundCap = 1
  QueueCap = 4
  InputCap = 2
PROPERTIES
  CloseCompletes
  ChannelsDie
CHECK_DEADLOCK FALSE
