CONSTANTS
  Procs = {p1, p2}
  Pages = {a, b, c, d, e}
  MaxVA = 2
  Values = {0, 1}
  Zero = 0
  Junk = 1
  SbrkPages = {1}
  ExecPages = {}
  NoProc = NoProc
  NoPage = NoPage
  InitProc = p1
  InitTable = a
  InitPage = b
SPECIFICATION Spec
PROPERTIES ForkIsolation
CHECK_DEADLOCK FALSE
