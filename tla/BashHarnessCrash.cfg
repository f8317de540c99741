SPECIFICATION BashSpec
CONSTANTS
  Process = {p1, p2}
  Batch <- ToolBatches
  maxToolSteps = 2
  MaxTurns = 2
  MaxNodes = 30
  MaxStarts = 2
  MaxFailures = 0
  StoreType = {"bolt"}
INVARIANT CallsAreAnswered
CHECK_DEADLOCK FALSE
