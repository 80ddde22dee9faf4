CONSTANTS
  NumThreads = 2
  NumCells = 12
  Patience = 0
  Passed = 1
  MaxEnqs = 3
  MaxDeqs = 2
  Kinds = {"deq"}
  ReuseRequests = TRUE
  MaxChase = 6
SPECIFICATION LiveSpec
CHECK_DEADLOCK FALSE
INVARIANTS
  PublishedCovered
  SpoiledCovered
  IInv
  ChaseBounded
PROPERTIES
  EveryCallReturns
