CONSTANTS
  CPUs = {c1, c2, c3, c4}
  Len = 2
  MaxPatches = 2
SPECIFICATION FairSpec
INVARIANTS
  MasterAlone
  Coherent
PROPERTIES
  PatchReturns
CHECK_DEADLOCK FALSE
