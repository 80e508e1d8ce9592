SPECIFICATION Spec
CONSTANTS
  Orders = {o1}
  Dispatchers = {d1, d2}
  MaxFailures = 0
CHECK_DEADLOCK FALSE
INVARIANTS
  NoCanceledTicketOpen
