CONSTANTS
  Procs = {p1, p2}
  None = None
  NINODES = 3
  Calls <- MCCalls
  NFILE = 1
  MaxLinks = 1
SPECIFICATION Spec
SYMMETRY Symmetry
INVARIANTS LinksExact IputNeverBlocks
PROPERTIES OpenSurvives
