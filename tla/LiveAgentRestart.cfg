SPECIFICATION LiveSpec
CONSTANTS
  Session = {s1}
  Terminal = {}
  Batch <- Batches
  maxToolSteps = 2
  MaxEvents = 2
  MaxStarts = 2
  MaxFailures = 0
PROPERTY HistoryIsAppendOnly
CHECK_DEADLOCK FALSE
