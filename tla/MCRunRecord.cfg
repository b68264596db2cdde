SPECIFICATION RecordSpec
CONSTANTS
  w1 = w1
  w2 = w2
  x = x
  y = y
  g = g
  None = None
  Writers <- MCWriters
  Names <- MCNames
  Tags <- MCTags
  Tables = {"artifacts", "logs", "cell_executions", "metrics", "resource_usage"}
  MaxCalls = 4
INVARIANTS
  AckedSaved
  LocksOfFailuresOnly
  RegisteredEndStands
SYMMETRY MCSymmetry
