SPECIFICATION FairSpec
CONSTANTS
  Claims = {c1, c2}
  Procs = {p1}
  None = None
  Jobs = 2
  PageSize = 2
  Chunk = 2
  SegmentSize = 2
  SealPerPass = 1
  ClaimLease = 1
  SegmentLease = 1
  MaxGlitches = 0
  MaxErrors = 1
INVARIANTS CountersAgree
PROPERTIES BoardCloses OnlyOwnerMovesBatch ImplementsCycle
