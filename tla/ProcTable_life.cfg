CONSTANTS
  NPROC = 3
  CPUs = {c1, c2}
  NoCpu = NoCpu
  MaxPid = 4
  KillPids = {0, 3}
  Masks = {0}
  NCPU = 2
  NT = 2
SPECIFICATION AllSpec
SYMMETRY Symmetry
INVARIANTS OneCpu NoLostChild ParentAlive InterruptsRight NoCycle
