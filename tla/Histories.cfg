CONSTANTS
  t1 = t1
  t2 = t2
  Threads = {t1, t2}
  N = 2
  CycleMod = 8
  Catchups = 2
  NoValue = NoValue
  Values = {1, 2, 3, 4}
  MaxCalls = 4
  p = p
  c1 = c1
  c2 = c2
  Ops = 2
  QueueLength = 2
  TicketMod = 8
  NoItem = NoItem
  SfCalls = 6
  Failure = Failure
  Success = Success
SPECIFICATION AnySpec
CHECK_DEADLOCK FALSE
SYMMETRY Symmetry
INVARIANTS
  CellExclusive
  HistoryLinearizable
  SuccessesLinearizable
