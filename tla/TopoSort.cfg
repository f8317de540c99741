SPECIFICATION SortSpec
CONSTANT NodeMaps <- AllMaps
INVARIANTS
  LoopInv
  SortedIsTopological
  ErrorIffCycle
PROPERTY Terminates
CHECK_DEADLOCK FALSE
