CONSTANTS
  f1 = f1
  f2 = f2
  i1 = i1
  i2 = i2
  None = None
  Procs = {p1, p2}
  Files = {f1, f2}
  Inodes = {i1, i2}
  of <- MCof
  Byte <- MCByte
  NBLOCKS = 4
  BSIZE = 2
  NDIRECT = 1
  MAXOPBLOCKS = 6
  Lengths = {3}
  FProcs = {q1, q2}
  NOFILE = 2
  NFILE = 3
  Pipes = {i1}
  MkBSIZE = 3
  NINDIRECT = 3
  nmeta = 2
  FSSIZE = 14
  MaxFiles = 2
  MaxSize = 7
SYMMETRY Symmetry
SPECIFICATION AllSpec
INVARIANTS OneOwner LogFits RefsExact
PROPERTIES IsFileStore
