CONSTANTS
  Procs = {p1, p2}
  None = None
  Blocks = {k1, k2, k3}
  Values = {0, 1}
  NBUF = 2
  NUM = 7
  Sizes = {4, 7}
  MaxPins = 1
SPECIFICATION Spec
SYMMETRY Symmetry
INVARIANTS OneBuffer NoLostCompletion
PROPERTIES OneCopy
CHECK_DEADLOCK FALSE
