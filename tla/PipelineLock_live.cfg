CONSTANTS
  Hosts = {h1, h2}
  Tokens = {t1}
  NoToken = NoToken
  NoHost = NoHost
  NoMirror = NoMirror
  Kinds <- BothKinds
  LockStale = 1
  ActivityFresh = 0
  PauseDefault = 1
  MaxTime = 0
  MaxStops = 1
  MaxOutages = 1
CHECK_DEADLOCK FALSE
SPECIFICATION FairSpec

PROPERTIES AbortedRunEnds
