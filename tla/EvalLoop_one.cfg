SPECIFICATION Spec
CONSTANTS
  Inputs = {m1, m2}
  m1 = m1
  m2 = m2
  Budget = 1
  BudgetWindow = 1
  AskWindow = 1
  RecordWindow = 1
  Enough = 1
  MaxRuns = 1
  MaxAsks = 3
  MaxTime = 2
  LastRun = 0
  MaxCrashes = 1
INVARIANTS
  BudgetKept
  RepliesReachRecords
PROPERTIES
  GroundTruthIsKept
CHECK_DEADLOCK FALSE
