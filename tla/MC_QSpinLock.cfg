CONSTANTS
  CPUs = {c1, c2, c3}
  a = a
  b = b
  Locks = {a}
  Levels <- OneLevel
  LockLevel <- TaskLock
  MAX_NODES = 1
  Outer = {0}
  None = None
SPECIFICATION FairSpec
INVARIANTS
  PendingOwned
PROPERTIES
  LockSpec
  NotStarved
