SPECIFICATION Spec
CONSTANTS
  CallIDs = {"c1", "c2"}
  CommandIDs = {k1}
  MaxLogicalModelCalls = 1
  MaxTransportAttempts = 1
  MaxRetryDelay = 0
  MaxRetries = 0
  Delays = {}
  ProviderFailures = {}
  Streams = FALSE
  SensitiveCalls = {}
  HasInstructions = FALSE
  Mishaps = {}
  FreshCallIDs = TRUE
  MaxDeltas = 0
  MaxCrashes = 1
  MaxFailures = 0
  Answers <- MCPlainAnswers
CHECK_DEADLOCK FALSE
INVARIANT TerminalAgrees
