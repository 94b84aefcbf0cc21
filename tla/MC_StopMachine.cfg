CONSTANTS
  t1 = t1
  t2 = t2
  CPUs = {1, 2}
  Boot = {1}
  Tasks = {t1, t2}
  Ops <- Calls
  None = None
SPECIFICATION FairSpec
INVARIANTS
  Lockstep
  DoneInUse
PROPERTIES
  Drains
