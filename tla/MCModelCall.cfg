SPECIFICATION Spec
CONSTANTS
  Chunks <- MCChunks
  Parts <- MCParts
  Statuses <- MCStatuses
  Headers <- MCHeaders
  ScriptedFailures = {"transient"}
  OutputLimit = 5
  MaxToolCalls = 2
  MaxDuration = 127
  Second = 10
  FirstDelay = 5
  MaxComputedDelay = 8
  MaxServerDelay = 30
  MaxRetryDelay = 45
  MaxRetries = 2
  MaxLines = 4
INVARIANTS StreamIsOfText  CallsAreWhole WaitsAreBounded
CHECK_DEADLOCK FALSE
