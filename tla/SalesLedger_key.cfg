SPECIFICATION Spec
CONSTANTS
  Orders = {1, 2}
  Visits = {}
  Shifts = {s1}
  Cashiers = {u1}
  Calls = {c1, c2}
  Keys = {k1}
  Rates = {1}
  Total <- MCTotal
  Methods = {"CASH", "TRANSFER"}
  Amounts = {}
  Openings = {0}
  Progress = {}
  None = None
SYMMETRY Symmetry
CHECK_DEADLOCK FALSE
INVARIANTS
  AnswerIsOwn
