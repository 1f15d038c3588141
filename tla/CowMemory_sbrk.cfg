CONSTANTS
  Procs = {p1, p2}
  Pages = {a, b, c, d, e}
  MaxVA = 4
  Values = {0}
  Zero = 0
  Junk = 0
  SbrkPages = {1}
  ExecPages = {}
  NoProc = NoProc
  NoPage = NoPage
  InitProc = p1
  InitTable = a
  InitPage = b
SPECIFICATION Spec
SYMMETRY Symmetry
INVARIANTS NoLeak
CHECK_DEADLOCK FALSE
