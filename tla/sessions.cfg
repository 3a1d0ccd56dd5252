SPECIFICATION Spec
CONSTANTS
  Periods = {p1}
  Students = {s1}
  Teachers = {t1}
  Admins = {a1, a2}
  MaxVersion = 4
SYMMETRY AdminSymmetry
INVARIANTS TypeOK ChangeLogExplains FormIsCurrent
PROPERTIES NoLostUpdate ImplementsSheet
