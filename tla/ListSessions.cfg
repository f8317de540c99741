SPECIFICATION ListSpec
CONSTANTS
  SessionID = {s1, s2, s3, s4}
  Time = {0, 1, 2, 3}
  NoToken = NoToken
  Limit = {0, 1, 2}
  defaultLimit = 3
  MaxPages = 5
  MaxFailures = 1
SYMMETRY SessionSymmetry
INVARIANTS
  ListingInv
CHECK_DEADLOCK FALSE
