SPECIFICATION SharedSpec
CONSTANTS
  CallIDs = {"c1", "c2"}
  CommandIDs = {k1, k2}
  MaxLogicalModelCalls = 1
  MaxTransportAttempts = 0
  MaxRetryDelay = 3
  Delays = {2}
  MaxRuns = 2
  MaxRecords = 2
  MaxEvents = 1
  Batches <- MCBatches
  Events <- MCEvents
INVARIANTS BookkeepingLoads WithinLimits LookIsConsistent
PROPERTY ManifestOnlyAdvances
CHECK_DEADLOCK FALSE
SYMMETRY Symmetry
