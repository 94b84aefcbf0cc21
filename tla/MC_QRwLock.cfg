CONSTANTS
  t1 = t1
  t2 = t2
  t3 = t3
  i1 = i1
  i2 = i2
  Tasks = {t1, t2, t3}
  Irqs = {i1, i2}
  Host <- HostOfTwo
  None = None
SPECIFICATION FairSpec
INVARIANTS
  CntsExact
PROPERTIES
  LockSpec
  IrqReadersServed
  TasksServed
