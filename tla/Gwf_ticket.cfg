CONSTANTS
  NumThreads = 3
  N = 4
  CycleMod = 8
  EnqTries = 1
  DeqTries = 1
  HelpDelay = 1
  Catchups = 1
  MaxEnq = 1
  MaxDeq = 2
  Lap = 2
  NumStuck = 2
SPECIFICATION Spec
CHECK_DEADLOCK FALSE
INVARIANTS
  SlowTicketsTaken
