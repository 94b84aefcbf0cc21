CONSTANTS
  CPUs = {c1, c2}
  a = a
  b = b
  Locks = {a, b}
  Levels <- TwoLevels
  LockLevel <- TaskAndIrqLock
  MAX_NODES = 2
  Outer = {0, 1}
  None = None
SPECIFICATION Spec
SYMMETRY Symmetry
INVARIANTS
  NodesLive
PROPERTIES
  LockSpec
