SPECIFICATION DrainSpec
CONSTANTS
  Events <- MCEvents
  Malformed <- MCMalformed
  ManualTimes = {}
  Students = {s1}
  Requests = {r1, r2}
  Managers = {m1}
  BatchSize = 2
  MaxAttempts = 1
  MaxFaults = 1
  UnitsPerMinute = 2
  DayStart = 1
  Grace = 1
PROPERTIES EventsDrain
CHECK_DEADLOCK FALSE
