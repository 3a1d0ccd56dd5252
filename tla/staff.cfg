SPECIFICATION MCStaffSpec
CONSTANTS
  People = {p1, p2, p3}
  NoOne = np
  Classes = {c1}
  Tabs = {t1, t2}
  StaffJobs = {j1}
  StaffLimit = 2
  StaffSteps = 3
SYMMETRY PeopleAlike
INVARIANTS StaffInvariant
PROPERTY StaffKept
CHECK_DEADLOCK FALSE
