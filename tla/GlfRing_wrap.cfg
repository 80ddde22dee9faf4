CONSTANTS
  t1 = t1
  t2 = t2
  t3 = t3
  Threads = {t1, t2, t3}
  N = 1
  CycleMod = 4
  Catchups = 2
  MaxCalls = 6
SPECIFICATION Spec
CHECK_DEADLOCK FALSE
SYMMETRY Symmetry
INVARIANTS
  IndicesConserved
  ConsumeFindsItem
  IInv
  NoneStranded
PROPERTIES
  EmptyIsTrue
