SPECIFICATION MathSpec
CONSTANTS
  Process = {p1, p2}
  Batch <- Batches
  maxToolSteps = 1
  MaxTurns = 2
  MaxNodes = 6
  MaxStarts = 3
  MaxLost = 1
SYMMETRY ProcessSymmetry
INVARIANTS
  ConversationIsWellFormed
  WireIsFaithful
  
  
CHECK_DEADLOCK FALSE
