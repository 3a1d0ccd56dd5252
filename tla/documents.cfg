SPECIFICATION DocFairSpec
CONSTANTS
  Days = {d1}
  Warnings = {i1}
  Workers = {w1}
  NumLevels = 1
  MaxThreshold = 1
  DefaultThresholds <- OneLevel
  Documents = {f1, f2}
  Clerks = {c1, c2, c3}
  RenderSlots = 2
INVARIANT DocInvariant
PROPERTIES PendingEnds
CHECK_DEADLOCK FALSE
