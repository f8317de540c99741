SPECIFICATION AdkSpec
CONSTANTS
  u1 = u1
  u2 = u2
  s1 = s1
  s2 = s2
  Key <- TwoUsers
  Caller = {c1, c2}
  MaxEvents = 3
  MaxFailures = 1
SYMMETRY CallerSymmetry
INVARIANTS
  CopiesAgree
  UserStateIsPrivate
CHECK_DEADLOCK FALSE
