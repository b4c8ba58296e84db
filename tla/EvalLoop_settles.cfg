SPECIFICATION FairSpec
CONSTANTS
  Inputs = {m1}
  m1 = m1
  Budget = 1
  BudgetWindow = 1
  AskWindow = 1
  RecordWindow = 1
  Enough = 1
  MaxRuns = 2
  MaxAsks = 2
  MaxTime = 2
  LastRun = 0
  MaxCrashes = 0
PROPERTIES
  RecordsAreSettled
CHECK_DEADLOCK FALSE
