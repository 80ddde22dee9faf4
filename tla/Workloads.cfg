CONSTANTS
  RayWorkers = 2
  TilePixels = 3
  max_depth = 2
  AliveMod = 8
  TOTAL_PIXELS = 5
  MAX_DEPTH = 2
  BlockLogs = {0, 1}
  NumWaves = 2
  WarpSize = 2
  INLINE_DEG = 1
  HUB_DEG = 3
  FrontierN = 4
  CheckThreads = 2
  FIFO_OPS_PER_THREAD = 4
  CheckCapacity = 4
  TID_BITS = 1
  SEQ_BITS = 2
  Garbage = {0, 3}
  MaxFaults = 2
SPECIFICATION FairSpec
CHECK_DEADLOCK FALSE
INVARIANTS
  BouncesInTurn
  RaysCounted
  ReflectedRaysPacked
  LevelsAreDistances
  VerdictSound
PROPERTIES
  WorkloadsEnd
