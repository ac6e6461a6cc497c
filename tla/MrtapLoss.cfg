SPECIFICATION Spec
CONSTANTS
  PipelineLimit = 2
  MaxRecoveries = 2
  AgentVersion = "2.1+"
  Attach = FALSE
  DrainOnExit = TRUE
  MaxSynRetries = 1
  MaxPayloads = 4
  MaxLosses = 2
  MaxLate = 1
  OutputCap = 4
  MaxExpiries = 1
  Env = {"loseRequest", "loseReply", "expire", "refreshElsewhere", "refreshFails", "respond", "timeout",
         "stream", "pluginDone"}
INVARIANTS
  TypeOK
  DeliveredContiguous
  NothingForgotten
  OutboxFits
  InboxCanBuild
  MuteFits
CHECK_DEADLOCK FALSE
