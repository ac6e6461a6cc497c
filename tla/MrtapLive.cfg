SPECIFICATION FairSpec
CONSTANTS
  PipelineLimit = 2
  MaxRecoveries = 2
  AgentVersion = "2.1+"
  Attach = TRUE
  DrainOnExit = TRUE
  MaxSynRetries = 1
  MaxPayloads = 4
  MaxLosses = 0
  MaxLate = 0
  OutputCap = 4
  MaxExpiries = 0
  Env = {"respond", "pluginDone", "pluginFails", "orphan", "close"}
PROPERTIES
  ImplementsPipe
  EventuallyDelivered
  CloseReturns
CHECK_DEADLOCK FALSE
