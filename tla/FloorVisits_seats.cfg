SPECIFICATION MCSpec
CONSTANTS
  Tables = {t1, t2}
  Visits = {v1, v2}
  Keys = {k1}
  Calls = {c1, c2}
  MaxVersions = 3
  None = None
SYMMETRY Symmetry
CHECK_DEADLOCK FALSE
INVARIANTS
  TypeOK
  NumbersDense
PROPERTIES
  QrRetired
  Promised
