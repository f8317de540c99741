SPECIFICATION Spec
CONSTANTS
  n1 = n1
  n2 = n2
  n3 = n3
  n4 = n4
  f1 = f1
  NoID = NoID
  ID <- FourIDs
  Foreign <- ForeignIDs
  Roles = {"user", "assistant"}
  TypedKinds = {"memory"}
  LinkKinds = {}
  ExtraParents = {}
  Time = {0}
  MaxRefs = 3
  MaxLinks = 1
SYMMETRY IDSymmetry
INVARIANTS
  TypeOK
  LogMatchesFields
  ParentsPrecede
  ChildrenInvertParents
  EveryNodeResumes
  AdvanceHeadEndsAtLeafOrFork
PROPERTIES
  HistoryIsImmutable
  ClosedIsFinal
  ImplementsSessionLog
CHECK_DEADLOCK FALSE
