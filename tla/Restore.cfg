SPECIFICATION Spec
CONSTANTS
  n1 = n1
  n2 = n2
  n3 = n3
  n4 = n4
  f1 = f1
  NoID = NoID
  ID <- FourIDs
  Foreign <- ForeignIDs
  Roles = {"user"}
  TypedKinds = {"memory"}
  LinkKinds = {"branch_from"}
  ExtraParents = {}
  Time = {0}
  MaxRefs = 2
  MaxLinks = 1
SYMMETRY IDSymmetry
INVARIANTS
  ReplayIsFaithful
  LoadIsFaithful
  SynthesizedLogReplays
  DamageNeverDangles
CHECK_DEADLOCK FALSE
