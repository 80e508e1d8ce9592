SPECIFICATION Spec
CONSTANTS
  Orders = {2}
  Visits = {}
  Shifts = {s1}
  Cashiers = {u1}
  Calls = {c1, c2, c3}
  Keys = {k1, k2}
  Rates = {1}
  Total <- MCTotal
  Methods = {"CASH", "TRANSFER"}
  Amounts = {2}
  Openings = {0}
  Progress = {}
  None = None
SYMMETRY Symmetry
CHECK_DEADLOCK FALSE
INVARIANTS
  DrawerNotOverdrawn
