CONSTANTS
  Procs = {p1, p2}
  InitProc = p1
  Frames = {f1, f2}
  Null = Null
  Intervals = {0, 1, 2}
  MaxTicks = 3
  W = 3
  H = 2
  Regs = {2}
  MAXARGS = 3
  Chars = {"w", " ", "|", ";", "&", "<", ">", "(", ")"}
  MaxLine = 5
  NSLOT = 4
  NFD = 5
  Scripts <- MCScripts
  Core = 4
  Heap = 12
  Sizes = {16, 17, 64, 300}
  BUF = 4
  Text = {"a", "b", "n"}
  MaxText = 4
  Patterns <- MCPatterns
  DIRSIZ = 2
  Letters = {"a", "b", "/"}
  MaxPath = 5
  MaxName = 3
  Cells = 5
  IntBits = 6
  NP = 2
  Words <- MCWords
  MaxCalls = 3
  PG = 12
  NPG = 2
  AddrBits = 5
  WORD = 2
  ALIGN = 2
  MAXARG = 3
  Lens = {0, 1, 3, 12, 13, 25}
  ArgLens = {0, 1, 2, 3, 12}
SPECIFICATION AllSpec
SYMMETRY FrameSymmetry
INVARIANTS ContextKept ParsesGrammar Wired EveryUnitOnce RoutinesRight TraceRight AccessRight
