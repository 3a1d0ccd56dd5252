SPECIFICATION RecordsSpec
CONSTANTS
  Days = {x1, x2}
  Warnings = {y1, y2}
  Workers = {z1, z2}
  NumLevels = 2
  MaxThreshold = 3
  DefaultThresholds <- TwoLevels
  Periods = {x1, x2}
  Students = {s1}
  Expected = 2
  Recalculators = {y1, y2}
  SummaryChanges = 3
  Admins = {x1, x2}
  MaxContracts = 2
  LastDay = 2
  LastEnd = 3
  Askers = {x1, x2}
  ContractChanges = 3
SYMMETRY Interchangeable
INVARIANTS
  RecordsTypeOK WarningsInvariant RowsInvariant ContractsInvariant
PROPERTY RecordsKept
CHECK_DEADLOCK FALSE
