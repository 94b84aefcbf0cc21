CONSTANTS
  CPUs = {c1, c2, c3}
  None = None
SPECIFICATION FairSpec
INVARIANTS
  NeighboursStable
  LinkedBothWays
PROPERTIES
  LockSpec
  CallsReturn
