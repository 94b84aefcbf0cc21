CONSTANTS
  Tasks = {t1, t2, t3}
  None = None
  Readers = {t3}
  Writers = {t1, t2}
  ReadStates <- Killable
  WriteStates <- Killable
  Kills = {"fatal"}
  Killed = {t1, t3}
  MAX_READERS_WAKEUP = 1
SPECIFICATION Spec
INVARIANT
  BlocksOnLockersOnly
