SPECIFICATION FairSpec
CONSTANTS
  Periods = {p1, p2}
  Students = {s1}
  Excuses = {e1, e2}
  Workers = {w1, w2}
  MaxEdits = 1
  Crashes = FALSE
PROPERTIES RequestsEnd
CHECK_DEADLOCK FALSE
