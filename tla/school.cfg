SPECIFICATION SchoolSpec
CONSTANTS
  Events <- MCEvents
  Malformed <- MCMalformed
  ManualTimes <- MCManualTimes
  Students = {s1}
  Requests = {x1, x2}
  Managers = {m1}
  BatchSize = 2
  MaxAttempts = 2
  MaxFaults = 1
  UnitsPerMinute = 2
  DayStart = 1
  Grace = 1
  Pupils = {p1, p2, p3}
  NoPupil = np
  Sections = {c1}
  NoSection = nc
  Desks = {d1, d2}
  PurgeJobs = {j1, j2}
  SeatLimit = 2
  RecordSteps = 4
  Imports = {x1, x2}
  NoImport = ni
  Browsers = {b1, b2}
  ImportSteps = 6
  ImportFaults = 1
  MaxYears = 2
  LastDay = 6
  YearSpans <- MCYearSpans
  TermSpans <- MCTermSpans
  Snapshots <- MCSnapshots
  CalendarSteps = 4
SYMMETRY Interchangeable
INVARIANTS SchoolTypeOK IngestInvariant StudentsInvariant ImportsInvariant CalendarInvariant
PROPERTY SchoolKept
CHECK_DEADLOCK FALSE
