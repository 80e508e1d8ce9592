SPECIFICATION Spec
CONSTANTS
  Orders = {1, 2}
  Visits = {v1}
  Shifts = {s1}
  Cashiers = {u1}
  Calls = {c1, c2, c3}
  Keys = {k1, k2}
  Rates = {1}
  Total <- MCTotal
  Methods = {"CASH", "TRANSFER"}
  Amounts = {}
  Openings = {0}
  Progress = {}
  None = None
SYMMETRY Symmetry
CHECK_DEADLOCK FALSE
INVARIANTS
  TypeOK
  PaidOrdersStand
  SettledOnce
  OneClaimPerVisit
  ClosedVisitSettled
  AnswerBacked
PROPERTIES
  NoClaimOnClosedVisit
