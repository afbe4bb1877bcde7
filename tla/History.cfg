SPECIFICATION Spec
CONSTANTS
  Issue = {i1, i2}
  Undated = {i2}
  LastDay = 2
  MaxRuns = 2
  Attempts <- MCAttempts
  Trunk = {"a", "b"}
  Workflow <- MCWorkflow
  Retention = 2
  RunRetention = 3
  Delay = 1
  Shapes <- MCShapes
  LastDate = 3
INVARIANTS TypeOK HistorySound
PROPERTIES PrunedIsCounted
CHECK_DEADLOCK FALSE
