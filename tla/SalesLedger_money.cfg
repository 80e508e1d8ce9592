SPECIFICATION Spec
CONSTRAINT Instances
CONSTANTS
  Orders = {1, 2}
  Visits = {v1}
  Shifts = {s1, s2}
  Cashiers = {u1}
  Calls = {c1, c2, c3}
  Keys = {k1, k2}
  Rates = {1, 2}
  Total <- MCTotal
  Methods = {"CASH", "TRANSFER"}
  Amounts = {1, 2}
  Openings = {1}
  Progress = {"READY"}
  None = None
SYMMETRY Symmetry
CHECK_DEADLOCK FALSE
INVARIANTS
  PaymentFullyAllocated
  SaleNumbersDense
  RefundsWithinSale
  ClosedShiftBalanced
PROPERTIES
  Promised
