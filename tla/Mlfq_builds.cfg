CONSTANTS
  NP = 3
  NPROC = 4
  NPR = 2
  AGE = 2
  MaxTicks = 3
  NL = 2
  RAND_MAX = 4
  MaxDebt = 1
  MaxTickets = 3
  NB = 2
  Priorities = {0, 60}
  LastTick = 1
  MaxRun = 1
  MaxSch = 2
  NC = 2
  TW = 3
  Elapse = 2
  MaxSleep = 2
SPECIFICATION AllSpec
INVARIANTS QueueComplete CountedOnce
PROPERTIES PicksRight
CHECK_DEADLOCK FALSE
