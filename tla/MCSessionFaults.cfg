SPECIFICATION Spec
CONSTANTS
  CallIDs = {"c1", "c2"}
  CommandIDs = {k1, k2}
  MaxLogicalModelCalls = 1
  MaxTransportAttempts = 1
  MaxRetryDelay = 0
  MaxRetries = 0
  Delays = {}
  ProviderFailures = {"permanent"}
  Streams = TRUE
  SensitiveCalls = {}
  HasInstructions = TRUE
  Mishaps = {}
  FreshCallIDs = TRUE
  MaxDeltas = 1
  MaxCrashes = 3
  MaxFailures = 1
  Answers <- MCPlainAnswers
CHECK_DEADLOCK FALSE
SYMMETRY Symmetry
INVARIANTS EndsOnce Reopenable RunsAreBlocks AtRest AckedIsDurable PublishedIsDurable
PROPERTIES FailClosed ImplementsLifecycle
