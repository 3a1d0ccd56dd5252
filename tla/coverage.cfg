SPECIFICATION Spec
CONSTANTS
  Periods = {p1, p2}
  Students = {s1}
  Excuses = {e1, e2}
  Workers = {w1, w2}
  MaxEdits = 2
  Crashes = TRUE
SYMMETRY CoverageSymmetry
INVARIANTS TypeOK ActiveIsBacked DirectDisjoint QuietAbsenceCovered
PROPERTIES ApprovedAsPreviewed DecidedIsFinal
CHECK_DEADLOCK FALSE
