CONSTANTS
  Tasks = {t1, t2, t3}
  InitCount = 2
  MaxSpareUps = 1
SPECIFICATION FairSpec
INVARIANTS
  Conservation
PROPERTIES
  GrantIsKept
  FifoGrant
  DownReturns
