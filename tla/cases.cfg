SPECIFICATION Spec
CONSTANTS
  Teachers = {x1, x2}
  Vices = {y1, y2}
  Counselors = {z1, z2}
  Principal = pr
  Nobody = none
  MaxReferrals = 2
  CaseReferrals = {x1, x2}
  Plans = {y1, y2}
  Clerks = {z1, z2}
  CaseSteps = 6
  Leaves = {l1, l2, l3}
  Desk = {z1, z2}
  LeaveDays = 2
  Relatives = {x1, x2}
  Lessons = {y1, y2}
  Petitions = {z1, z2}
  Office = office
  MaxFiles = 1
  FamilyEvents = 2
  Parents = {x1, x2}
  Alerts = {w1}
  Bulletins = {b1}
  FirstReviewers = {r1}
  SecondReviewers = {r2}
  Clerk = k
  BindingRefs = {e1}
  NumberRefs = {e2}
  MaxVersion = 4
SYMMETRY Interchangeable
INVARIANTS
  CasesTypeOK CounselingInvariant LeavesInvariant PortalInvariant ReviewInvariant
PROPERTY EndedRests
CHECK_DEADLOCK FALSE
