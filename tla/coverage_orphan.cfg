SPECIFICATION Spec
CONSTANTS
  Periods = {p1}
  Students = {s1}
  Excuses = {e1}
  Workers = {w1, w2}
  MaxEdits = 2
  Crashes = FALSE
INVARIANTS QuietRowHasAbsence
CHECK_DEADLOCK FALSE
