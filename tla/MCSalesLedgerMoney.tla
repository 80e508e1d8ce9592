------------------------- MODULE MCSalesLedgerMoney -------------------------
(* Instances of SalesLedger about amounts: an outlet whose charges change   *)
(* while orders and visits are paid, or the cash of two shifts while what   *)
(* was paid is refunded. Together they are too many, so only states of one  *)
(* or the other are explored.                                               *)
EXTENDS MCSalesLedger

FirstShift == CHOOSE s \in Shifts : TRUE

\* Two requests in progress or done, in one shift that stays open, without cash;
\* one order may be canceled or cooked, the other is the visit's and only paid.
Charges ==
  /\ Cardinality({c \in Calls : calls[c] # Idle}) <= 2
  /\ \A c \in Calls :
       /\ calls[c].op \notin {"refund", "cash"}
       /\ calls[c].pc = "running" => calls[c].method # "CASH"
       /\ payments[c].status # "NONE" => payments[c].method # "CASH"
  /\ shifts[FirstShift].status # "CLOSED"
  /\ orders[2] # NoOrder => orders[2].visit # None /\ orders[2].status = "SUBMITTED"
  /\ \A s \in Shifts \ {FirstShift} : shifts[s] = NoShift

\* One order at the counter that the kitchen leaves alone, and fixed charges.
Cash ==
  /\ rate = 1
  /\ \A v \in Visits : visits[v] = "OPEN"
  /\ orders[1] = NoOrder
  /\ orders[2].visit = None /\ orders[2].status # "READY"

Instances == Charges \/ Cash
=============================================================================
