CONSTANTS
  Tasks = {t1, t2, t3}
  None = None
  Modes <- Interruptible
  Kills = {"pending"}
  Killed = {t1, t2}
SPECIFICATION FairSpec
INVARIANTS
  HandoffIsPickedUp
  NoLostWakeup
PROPERTIES
  HandoffHonoured
  LockSpec
  HandoffCompletes
  Progress
