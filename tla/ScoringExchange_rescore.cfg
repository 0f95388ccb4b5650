SPECIFICATION Spec
CONSTANTS
  Job = {1}
  RunId = {r1, r2}
  Session = {s1}
  Exporter = {e1}
  Slots = 2
  ChildSize = 1
  Text = {t1}
  File <- Files
  None = None
  MaxEdits = 1
CHECK_DEADLOCK FALSE
INVARIANTS FreshResultLands
