CONSTANTS
  Readers = {r1, r2}
  Updaters = {u1, u2, u3}
SPECIFICATION SyncFairSpec
INVARIANTS
  SlowWhileEntered
  CallbackMatchesState
PROPERTIES
  FastAfterGrace
  EnterReturns
  FastPathReturns
