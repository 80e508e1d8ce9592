SPECIFICATION FairSpec
CONSTANTS
  Orders = {o1}
  Dispatchers = {d1, d2}
  MaxFailures = 2
CHECK_DEADLOCK FALSE
INVARIANTS
  CanceledTicketClosed
  TicketsCounted
  OrderFollowsTicket
PROPERTIES
  OnlyForward
  ServedIsSeen
  ApprovedIsCooked
  CancellationArrives
