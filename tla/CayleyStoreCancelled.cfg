SPECIFICATION Spec
CONSTANTS
  Session = {s1}
  ID = {n1, n2}
  NoID = NoID
  Reader = {r1}
  BufSize = 1
  MaxParents = 2
  MaxTerminals = 2
  QueryFails = TRUE
INVARIANT HeadIsUnique
CHECK_DEADLOCK FALSE
