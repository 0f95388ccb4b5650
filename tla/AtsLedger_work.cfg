SPECIFICATION Spec
CONSTANTS
  Claims = {c1}
  Procs = {p1, p2}
  None = None
  Jobs = 3
  PageSize = 2
  Chunk = 1
  SegmentSize = 2
  SealPerPass = 1
  ClaimLease = 1
  SegmentLease = 1
  MaxGlitches = 1
  MaxErrors = 2
SYMMETRY Symmetric
INVARIANTS ManifestsFinal PhaseMatchesWork CursorBehindJobs ClosedMeansDone
PROPERTIES EvidenceOnlyGrows
