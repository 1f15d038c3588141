CONSTANTS
  NPROC = 3
  CPUs = {c1, c2}
  Builds = {"RR", "FCFS"}
  MaxTicks = 2
SPECIFICATION FairSpec
PROPERTIES OldestFirst NoIdling
