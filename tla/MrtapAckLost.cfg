SPECIFICATION Spec
CONSTANTS
  PipelineLimit = 2
  MaxRecoveries = 2
  AgentVersion = "2.1+"
  Attach = FALSE
  DrainOnExit = FALSE
  MaxSynRetries = 1
  MaxPayloads = 3
  MaxLosses = 1
  MaxLate = 1
  OutputCap = 4
  MaxExpiries = 1
  Env = {"loseReply", "expire"}
INVARIANT NoDuplicate
CHECK_DEADLOCK FALSE
