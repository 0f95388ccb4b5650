SPECIFICATION Spec
CONSTANTS
  Job = {1, 2}
  RunId = {r1, r2}
  Session = {s1, s2}
  Exporter = {e1}
  Slots = 2
  ChildSize = 1
  Text = {t1, t2}
  File <- Files
  None = None
  MaxEdits = 1
SYMMETRY Symmetric
CHECK_DEADLOCK FALSE
INVARIANTS OneLease PaidOnce OneFile RunSettled
PROPERTIES ShownIsDone ScoreFits DecisionStands
