CONSTANTS
  Readers = {r1, r2}
  Updaters = {u1}
  NR_CPUS = 2
  Modulus = 5
  None = None
SPECIFICATION Spec
SYMMETRY Symmetry
INVARIANTS
  NoLostWakeup
PROPERTIES
  LockSpec
