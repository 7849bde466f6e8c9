SPECIFICATION CliFairSpec
CONSTANTS
  CallIDs = {"c1"}
  CommandIDs = {k1, k2}
  MaxLogicalModelCalls = 1
  MaxTransportAttempts = 2
  MaxRetryDelay = 1
  MaxRetries = 1
  Delays = {1}
  ProviderFailures = {"transient"}
  Streams = FALSE
  SensitiveCalls = {}
  HasInstructions = FALSE
  Mishaps = {}
  FreshCallIDs = TRUE
  MaxDeltas = 0
  MaxCrashes = 1
  MaxFailures = 1
  Answers <- MCAnswers
CHECK_DEADLOCK FALSE
INVARIANT PromptIsHonest
PROPERTIES CancelledRunEnds OnlyProviderBlocks ComesBack TurnEnds
