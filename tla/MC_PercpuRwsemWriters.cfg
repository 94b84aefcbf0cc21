CONSTANTS
  Readers = {r1}
  Updaters = {u1, u2}
  NR_CPUS = 1
  Modulus = 3
  None = None
SPECIFICATION FairSpec
INVARIANTS
  BlockOwned
PROPERTIES
  CallsReturn
