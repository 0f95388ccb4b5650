CONSTANTS
  Hosts = {h1, h2}
  Tokens = {t1, t2}
  NoToken = NoToken
  NoHost = NoHost
  NoMirror = NoMirror
  Kinds <- MainOnly
  LockStale = 1
  ActivityFresh = 0
  PauseDefault = 1
  MaxTime = 2
  MaxStops = 1
  MaxOutages = 1
CHECK_DEADLOCK FALSE
SPECIFICATION Spec
SYMMETRY LockSymmetry
INVARIANTS NoOverlap IdleRowAtRest
PROPERTIES LockMovesFairly DeadLockAges PauseHolds
