SPECIFICATION Spec
CONSTANTS
  Turns = {t1, t2}
  None = None
  Pages = 2
  TurnPages = 2
  LeaseLen = 1
  Cadence = 1
  Retry = 1
  Lookback = 1
  Overlap = 1
  MaxCatchUp = 2
  ThreeDays = 2
  Week = 2
  Month = 3
  Start = 3
  MaxTime = 5
  MaxFaults = 1
  MaxBlocks = 2
  MaxDeploys = 1
  Hours = 2
  Days = 3
  DayLimit = 3
  MonthLimit = 5
SYMMETRY Symmetric
CHECK_DEADLOCK FALSE
INVARIANTS WatermarkCovered RetiredIdle BudgetHolds
PROPERTIES WatermarkMonotone SearchKept WakesInTime
