SPECIFICATION Spec
CONSTANTS
  Claims = {c1, c2}
  Procs = {p1}
  None = None
  Jobs = 1
  PageSize = 1
  Chunk = 1
  SegmentSize = 1
  SealPerPass = 1
  ClaimLease = 1
  SegmentLease = 1
  MaxGlitches = 0
  MaxErrors = 0
SYMMETRY Symmetric
INVARIANTS NotStranded
