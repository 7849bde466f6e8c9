SPECIFICATION Spec
CONSTANTS
  Runners = {a, b}
  Configs = {p, q}
  Rounds = 2
  Tasks = 2
  TaskPasses = 1
  TotalPasses = 3
  MaxLaunches = 3
  Observed <- MCObserved
CHECK_DEADLOCK FALSE
SYMMETRY Symmetry
INVARIANTS SlotsRunOnce RoundsAreWhole ReportIsHonest
PROPERTY EvidenceIsKept
