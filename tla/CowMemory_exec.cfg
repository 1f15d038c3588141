CONSTANTS
  Procs = {p1, p2}
  Pages = {a, b, c, d, e}
  MaxVA = 2
  Values = {0, 1}
  Zero = 0
  Junk = 1
  SbrkPages = {}
  ExecPages = {2}
  NoProc = NoProc
  NoPage = NoPage
  InitProc = p1
  InitTable = a
  InitPage = b
SPECIFICATION StoreSpec
SYMMETRY Symmetry
 
PROPERTIES StoreIsolation
CHECK_DEADLOCK FALSE
