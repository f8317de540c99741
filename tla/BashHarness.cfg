SPECIFICATION BashSpec
CONSTANTS
  Process = {p1, p2}
  Batch <- Batches
  maxToolSteps = 2
  MaxTurns = 2
  MaxNodes = 30
  MaxStarts = 2
  MaxFailures = 1
  StoreType = {"bolt", "leveldb"}
INVARIANTS
  ConversationIsWellFormed
  BashInv
PROPERTY TurnEnds
CHECK_DEADLOCK FALSE
