CONSTANTS
  t1 = t1
  t2 = t2
  t3 = t3
  Threads = {t1, t2}
  N = 2
  CycleMod = 8
  Catchups = 2
  MaxCalls = 6
SPECIFICATION FairSpec
CHECK_DEADLOCK FALSE
PROPERTIES
  OldestFirst
  EveryCallReturns
