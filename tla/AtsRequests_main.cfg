SPECIFICATION Spec
CONSTANTS
  Requests = {r1, r2, r3}
  Procs = {p1, p2, p3}
  Boards = {b1}
  None = None
  Cooldown = 1
  Lease = 2
  RequestMax = 1
  RetryAfters = {2}
  MaxTime = 3
  MaxFaults = 1
  MaxRefusals = 1
SYMMETRY Symmetric
CHECK_DEADLOCK FALSE
INVARIANTS AtMostTwo FenceHolds NoLeak
PROPERTIES ProtectionKept
