SPECIFICATION MCSpec
CONSTANTS
  Units = {1, 2}
  Dimension <- MCDimension
  Categories = {g1}
  Items = {i1, i2}
  Precisions = {0, 1}
  Factors = {f1}
  Allowance = 1
  Calls = {c1, c2}
  Keys = {k1, k2}
  MaxSaved = 2
  Keep = Keep
  None = None
SYMMETRY Symmetry
CHECK_DEADLOCK FALSE
INVARIANTS
  TypeOK
  QuotaHolds
  MinimumFits
  OneAnswerPerKey
  NobodyWaitsInACircle
PROPERTIES
  Serializable
