CONSTANTS
  Ops = {o1, o2}
  Blocks = {b1, b2}
  Values = {0, 1}
  MAXOPBLOCKS = 2
  LOGSIZE = 4
  NLOG = 5
SPECIFICATION FairSpec
INVARIANTS Reservation NoLostWakeup
PROPERTIES AtomicCommit SleeperWakes
