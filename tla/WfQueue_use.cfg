CONSTANTS
  NumThreads = 2
  NumCells = 4
  Patience = 0
  Passed = 1
  MaxEnqs = 4
  MaxDeqs = 3
  Kinds = {"deq", "deq_bfs"}
  ReuseRequests = FALSE
  MaxChase = 6
SPECIFICATION Spec
CHECK_DEADLOCK FALSE
INVARIANTS
  FifoInv
  StoredOnce
  DequeuedOnce
  NoneLost
PROPERTIES
  OldestFirst
