SPECIFICATION Spec
CONSTANTS
  CallIDs = {"c1", "c2"}
  Runs = {1, 2}
  MaxLength = 5
  Paths <- MCPaths
  Protected <- MCProtected
  ListLines = 2
  ReadLines = 2
  MaxBytes = 10
  HintBytes = 2
  MarkerBytes = 4
  MaxChanges = 1
  Lines <- MCLines
  MaxLines = 3
INVARIANTS ScanAgrees RepairCompletes ListIsComplete ReadIsWhole
CHECK_DEADLOCK FALSE
