SPECIFICATION AccessSpec
CONSTANTS
  Students = {s1, s2}
  Applications = {a1, a2}
  Links = {l1, l2, l3}
  Invitations = {i1}
  MaxRevision = 2
  MaxEvents = 2
SYMMETRY RowSymmetry
INVARIANTS BoundIsVouched LinksInvariant
CHECK_DEADLOCK FALSE
