SPECIFICATION SharedSpec
CONSTANTS
  CallIDs = {"c1", "c2"}
  CommandIDs = {k1, k2}
  MaxLogicalModelCalls = 2
  MaxTransportAttempts = 2
  MaxRetryDelay = 0
  MaxRetries = 0
  Delays = {}
  ProviderFailures = {}
  Streams = FALSE
  SensitiveCalls = {}
  HasInstructions = FALSE
  Mishaps = {}
  FreshCallIDs = TRUE
  MaxDeltas = 0
  MaxCrashes = 0
  MaxFailures = 0
  Answers <- MCAnswers
CHECK_DEADLOCK FALSE
INVARIANT ClosedStaysReplayable
