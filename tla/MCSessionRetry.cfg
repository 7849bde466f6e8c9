SPECIFICATION Spec
CONSTANTS
  CallIDs = {"c1", "c2"}
  CommandIDs = {k1, k2}
  MaxLogicalModelCalls = 2
  MaxTransportAttempts = 3
  MaxRetryDelay = 2
  MaxRetries = 2
  Delays = {2, 1}
  ProviderFailures = {"rate_limit", "permanent"}
  Streams = TRUE
  SensitiveCalls = {"c2"}
  HasInstructions = FALSE
  Mishaps = {"context_limit", "stream_disagrees"}
  FreshCallIDs = TRUE
  MaxDeltas = 2
  MaxCrashes = 0
  MaxFailures = 0
  Answers <- MCOddAnswers
CHECK_DEADLOCK FALSE
SYMMETRY Symmetry
INVARIANTS TypeOK LittleLateWork TerminalAgrees ContextIsPaired
