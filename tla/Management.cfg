SPECIFICATION ManagementSpec
CONSTANTS
  Session = {s1}
  ID = {n1, n2, n3}
  NoID = NoID
  Reader = {r1}
  BufSize = 2
  MaxParents = 2
  MaxTerminals = 1
  QueryFails = FALSE
INVARIANTS
  HeadIsLastApplied
  
  
  NoNodeMissed
  
  
PROPERTIES
  PendingIsSent
  QueryIsAnswered
CHECK_DEADLOCK FALSE
