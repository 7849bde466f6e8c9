SPECIFICATION Spec
CONSTANTS
  CallIDs = {"c1", "c2"}
  CommandIDs = {k1}
  MaxLogicalModelCalls = 1
  MaxTransportAttempts = 1
  MaxRetryDelay = 0
  MaxRetries = 0
  Delays = {}
  ProviderFailures = {}
  Streams = TRUE
  SensitiveCalls = {}
  HasInstructions = FALSE
  Mishaps = {}
  FreshCallIDs = TRUE
  MaxDeltas = 1
  MaxCrashes = 0
  MaxFailures = 1
  Answers <- MCPlainAnswers
CHECK_DEADLOCK FALSE
INVARIANT CursorsIncrease
