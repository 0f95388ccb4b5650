SPECIFICATION MCSpec
CONSTANTS
  c1 = c1
  c2 = c2
  Card = {c1, c2}
  Structured = {c2}
  Worker = {w1, w2}
  None = None
  Gone = Gone
  MaxTries = 2
  MaxWaits = 2
  MaxMoves = 1
  MaxFaults = 1
CHECK_DEADLOCK FALSE
INVARIANTS LeasesFit
PROPERTIES OvertakenWritesNothing CardsSettle
