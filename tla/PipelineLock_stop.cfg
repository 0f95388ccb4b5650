CONSTANTS
  Hosts = {h1, h2}
  Tokens = {t1}
  NoToken = NoToken
  NoHost = NoHost
  NoMirror = NoMirror
  Kinds <- MainOnly
  LockStale = 1
  ActivityFresh = 0
  PauseDefault = 1
  MaxTime = 1
  MaxStops = 1
  MaxOutages = 0
CHECK_DEADLOCK FALSE
SPECIFICATION FairSpec

PROPERTIES StopReachesOwner
