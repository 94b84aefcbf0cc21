CONSTANTS
  Tasks = {t1, t2, t3}
  None = None
  Readers = {t1, t2, t3}
  Writers = {t2, t3}
  ReadStates <- Killable
  WriteStates <- Killable
  Kills = {"fatal"}
  Killed = {t3}
  MAX_READERS_WAKEUP = 2
SPECIFICATION FairSpec
INVARIANTS
  WordExact
  NoLostWakeup
PROPERTIES
  LockSpec
  HandoffToHead
  Drains
