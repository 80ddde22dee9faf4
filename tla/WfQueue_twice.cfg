CONSTANTS
  NumThreads = 2
  NumCells = 8
  Patience = 0
  Passed = 1
  MaxEnqs = 3
  MaxDeqs = 3
  Kinds = {"deq"}
  ReuseRequests = TRUE
  MaxChase = 6
SPECIFICATION Spec
CHECK_DEADLOCK FALSE
INVARIANTS
  DequeuedOnce
