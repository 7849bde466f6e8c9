SPECIFICATION Spec
CONSTANTS
  CallIDs = {"c1", "c2"}
  CommandIDs = {k1}
  MaxLogicalModelCalls = 2
  MaxTransportAttempts = 2
  MaxRetryDelay = 0
  MaxRetries = 0
  Delays = {}
  ProviderFailures = {}
  Streams = FALSE
  SensitiveCalls = {}
  HasInstructions = FALSE
  Mishaps = {}
  FreshCallIDs = FALSE
  MaxDeltas = 0
  MaxCrashes = 0
  MaxFailures = 0
  Answers <- MCPlainAnswers
CHECK_DEADLOCK FALSE
INVARIANT Reopenable
