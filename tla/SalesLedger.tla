---------------------------- MODULE SalesLedger ----------------------------
(***************************************************************************)
(* Orders, bills, payments, guest payment claims, sales, refunds and cash   *)
(* shifts of one outlet of one workspace.                                   *)
(*                                                                          *)
(* A request to the API first reads the database without a lock and decides *)
(* on what it read (the services), then runs one database transaction (the  *)
(* repositories). The transaction takes the visit's advisory lock, the      *)
(* shift row, the order rows and the sale row before it decides anything,   *)
(* so transactions that touch the same rows are serial and each is one step *)
(* here. What lies between the reads and the transaction is kept: a request *)
(* of call c is a Begin step that stores what it read in calls[c], and a    *)
(* Commit step, any time later, that rechecks only what the code rechecks.  *)
(* A process that dies between the two never takes its Commit step.         *)
(*                                                                          *)
(* A row is identified by what made it: a bill and a sale by their order    *)
(* (unique per order), a payment by the call that inserted it, a refund by  *)
(* its idempotency key (unique per outlet).                                 *)
(***************************************************************************)
EXTENDS Integers, FiniteSets, FiniteSetsExt

CONSTANTS
  Orders,    \* order rows that may be submitted
  Visits,    \* table visits (floor_table_sessions)
  Shifts,    \* register sessions that may be opened
  Cashiers,  \* the users who open them
  Calls,     \* API requests that take two steps
  Keys,      \* idempotency keys a client may send
  Rates,     \* settings of the outlet's tax and service charges
  Total,     \* Total[r][S]: what the orders S cost together under charges r
  Methods,   \* payment methods in use, "CASH" among them
  Amounts,   \* positive amounts of refunds and cash movements
  Openings,  \* opening cash of a shift
  Progress,  \* kitchen announcements that may arrive
  None       \* an absent reference (SQL NULL)

ASSUME NoneAssumption ==
  None \notin (Orders \cup Visits \cup Shifts \cup Cashiers \cup Calls \cup Keys)

ASSUME FiniteAssumption == IsFiniteSet(Orders)

\* computeCharges never gives a negative total, and an order may be free of
\* charge; sessionBills charges every order by itself and adds the totals up.
ASSUME TotalAssumption ==
  /\ Total \in [Rates -> [SUBSET Orders -> Nat]]
  /\ \A r \in Rates :
       /\ Total[r][{}] = 0
       /\ \A S \in SUBSET Orders : \A o \in Orders \ S :
            Total[r][S \cup {o}] = Total[r][S] + Total[r][{o}]

ASSUME AmountAssumption ==
  /\ Amounts \subseteq Nat \ {0}
  /\ Openings \subseteq Nat
  /\ "CASH" \in Methods
  /\ Progress \subseteq {"PREPARING", "READY", "SERVED"}

VARIABLES
  rate,         \* the outlet's charges as they are now
  visits,       \* floor_table_sessions.status
  orders,       \* order_orders
  bills,        \* billing_bills, at most one per order
  payments,     \* billing_payments: payments taken and guests' claims
  allocations,  \* billing_payment_allocations
  sales,        \* sales_sales, at most one per bill
  saleNumber,   \* sales_number_counters.last_number
  refunds,      \* sales_refunds: the order a key refunded
  shifts,       \* pos_register_sessions with the sums of the rows naming them
  movements,    \* pos_cash_movements
  calls         \* requests under way and what they read

vars == <<rate, visits, orders, bills, payments, allocations, sales, saleNumber,
          refunds, shifts, movements, calls>>

ledger == <<bills, payments, allocations, sales, saleNumber>>

-----------------------------------------------------------------------------
(* Row types                                                                 *)

OrderStatuses == {"NONE", "SUBMITTED", "PREPARING", "READY", "SERVED", "CANCELED"}

Order == [status     : OrderStatuses,
          moderation : {"NOT_REQUIRED", "PENDING", "ACCEPTED", "REJECTED"},
          visit      : Visits \cup {None}]

Bill == [status : {"NONE", "UNPAID", "PAID"}, total : Nat, paid : Nat,
         visit  : Visits \cup {None}]

Payment == [status : {"NONE", "VERIFYING", "PAID", "FAILED"},
            key    : Keys \cup {None}, amount : Nat, method : Methods,
            visit  : Visits \cup {None}, shift : Shifts \cup {None}]

Allocation == [payment : Calls, order : Orders, amount : Nat]

Sale == [status : {"NONE", "COMPLETED", "PARTIALLY_REFUNDED", "REFUNDED"},
         number : Nat, total : Nat, refunded : Nat]

\* taken, refunded and moved are the sums of the shift's cash payments, cash
\* refunds and cash movements. Those rows are only ever inserted, so the sums
\* the code reads are running totals.
Shift == [status : {"NONE", "OPEN", "CLOSED"}, cashier : Cashiers \cup {None},
          opening : Nat, taken : Nat, refunded : Nat, moved : Int, expected : Int]

Movement == [shift : Shifts, key : Keys, amount : Int]

Operations == {"none", "payOrder", "payVisit", "claim", "refund", "cash"}

\* lines: the orders the request is about; answer: the orders of the checkout
\* it was answered with, {} when it was refused.
Call == [pc     : {"idle", "running", "done"}, op : Operations,
         key    : Keys \cup {None}, lines : SUBSET Orders,
         visit  : Visits \cup {None}, rate : Rates \cup {None}, shift : Shifts \cup {None},
         method : Methods, amount : Int, claim : Calls \cup {None},
         answer : SUBSET Orders]

TypeOK ==
  /\ rate \in Rates
  /\ visits \in [Visits -> {"OPEN", "CLOSED"}]
  /\ orders \in [Orders -> Order]
  /\ bills \in [Orders -> Bill]
  /\ payments \in [Calls -> Payment]
  /\ allocations \subseteq Allocation
  /\ sales \in [Orders -> Sale]
  /\ saleNumber \in Nat
  /\ refunds \in [Keys -> Orders \cup {None}]
  /\ shifts \in [Shifts -> Shift]
  /\ movements \subseteq Movement
  /\ calls \in [Calls -> Call]

-----------------------------------------------------------------------------
(* What the code reads                                                       *)

Submitted(o) == orders[o].status # "NONE"

isOrderApproved(o) == orders[o].moderation \in {"NOT_REQUIRED", "ACCEPTED"}

\* isOrderPaid and paidOrders: the order's bill is paid.
Paid(o) == bills[o].status = "PAID"

\* The visit's orders that still have to be paid or canceled.
UnpaidOrders(v) ==
  {o \in Orders : /\ Submitted(o)
                  /\ orders[o].visit = v
                  /\ orders[o].status # "CANCELED"
                  /\ ~Paid(o)}

\* expectedCashMinor: opening + sales - refunds + in - out.
totalCash(s) ==
  shifts[s].opening + shifts[s].taken - shifts[s].refunded + shifts[s].moved

\* The payments holding an idempotency key; the unique index allows one.
KeyHolders(k) == {p \in Calls : payments[p].status # "NONE" /\ payments[p].key = k}

\* The orders whose bills a payment was allocated to.
Allocated(p) == {a.order : a \in {b \in allocations : b.payment = p}}

\* The orders of the checkout saved under a key; {} when there is none, or only
\* a claim, which has no allocation.
findSessionCheckoutByIdempotencyKey(k) == UNION {Allocated(p) : p \in KeyHolders(k)}

\* The single-order lookup takes one allocation of the payment, any of them.
findCheckoutByIdempotencyKey(k) ==
  LET found == findSessionCheckoutByIdempotencyKey(k)
  IN  IF found = {} THEN {{}} ELSE {{o} : o \in found}

\* The payments an order's bill was paid with.
PaidBy(o) == {a.payment : a \in {b \in allocations : b.order = o}}

\* A guest's claim still waiting on a cashier.
verifyingClaims(v) ==
  {p \in Calls : payments[p].status = "VERIFYING" /\ payments[p].visit = v}

\* Slip: new rounds are let through.
ensureVisitOrders_ApprovedOnly(v, expected) == \A o \in UnpaidOrders(v) : isOrderApproved(o)

\* Recheck under the visit lock: the visit's unpaid orders are approved and are
\* exactly the ones the request was made for.
ensureVisitOrders(v, expected) ==
  /\ \A o \in UnpaidOrders(v) : isOrderApproved(o)
  /\ UnpaidOrders(v) = expected

\* The guards of sessionBills: something to pay, all of it approved.
sessionBills(S, r) ==
  /\ S # {}
  /\ \A o \in S : isOrderApproved(o)
  /\ Total[r][S] > 0

\* ensureSettled: every order of the visit is canceled, or approved and paid.
ensureSettled(v) ==
  \A o \in Orders : Submitted(o) /\ orders[o].visit = v /\ orders[o].status # "CANCELED"
                      => isOrderApproved(o) /\ Paid(o)

-----------------------------------------------------------------------------
(* Orders, visits and the outlet's charges: requests whose transaction       *)
(* rechecks all they read are one step.                                      *)

NoOrder == [status |-> "NONE", moderation |-> "NOT_REQUIRED", visit |-> None]
NoBill == [status |-> "NONE", total |-> 0, paid |-> 0, visit |-> None]
NoPayment == [status |-> "NONE", key |-> None, amount |-> 0, method |-> "CASH",
              visit |-> None, shift |-> None]
NoSale == [status |-> "NONE", number |-> 0, total |-> 0, refunded |-> 0]
NoShift == [status |-> "NONE", cashier |-> None, opening |-> 0, taken |-> 0,
            refunded |-> 0, moved |-> 0, expected |-> 0]

Idle == [pc |-> "idle", op |-> "none", key |-> None, lines |-> {}, visit |-> None,
         rate |-> None, shift |-> None, method |-> "CASH", amount |-> 0,
         claim |-> None, answer |-> {}]

Init ==
  /\ rate \in Rates
  /\ visits = [v \in Visits |-> "OPEN"]
  /\ orders = [o \in Orders |-> NoOrder]
  /\ bills = [o \in Orders |-> NoBill]
  /\ payments = [c \in Calls |-> NoPayment]
  /\ allocations = {}
  /\ sales = [o \in Orders |-> NoSale]
  /\ saleNumber = 0
  /\ refunds = [k \in Keys |-> None]
  /\ shifts = [s \in Shifts |-> NoShift]
  /\ movements = {}
  /\ calls = [c \in Calls |-> Idle]

\* The owner changes the outlet's tax or service rates.
SetCharges(r) ==
  /\ rate # r
  /\ rate' = r
  /\ UNCHANGED <<visits, orders, ledger, refunds, shifts, movements, calls>>

\* Slip: the visit is not checked again under its lock.
createSubmitted_NoVisitGuard(o, v, source) ==
  /\ orders[o].status = "NONE"
  /\ source = "SELF_ORDER" => v # None
  /\ orders' = [orders EXCEPT ![o] =
       [status     |-> "SUBMITTED",
        moderation |-> IF source = "SELF_ORDER" THEN "PENDING" ELSE "NOT_REQUIRED",
        visit      |-> v]]
  /\ UNCHANGED <<rate, visits, ledger, refunds, shifts, movements, calls>>

\* An order at the counter (v = None) or of a visit that is open; guests order
\* for a visit only, and staff decide about what they order.
createSubmitted(o, v, source) ==
  /\ orders[o].status = "NONE"
  /\ v # None => visits[v] = "OPEN"
  /\ source = "SELF_ORDER" => v # None
  /\ orders' = [orders EXCEPT ![o] =
       [status     |-> "SUBMITTED",
        moderation |-> IF source = "SELF_ORDER" THEN "PENDING" ELSE "NOT_REQUIRED",
        visit      |-> v]]
  /\ UNCHANGED <<rate, visits, ledger, refunds, shifts, movements, calls>>

decideGuestOrder(o, decision) ==
  /\ orders[o].status = "SUBMITTED"
  /\ orders[o].moderation = "PENDING"
  /\ orders[o].visit # None
  /\ visits[orders[o].visit] = "OPEN"
  /\ orders' = [orders EXCEPT
       ![o].moderation = decision,
       ![o].status = IF decision = "REJECTED" THEN "CANCELED" ELSE @]
  /\ UNCHANGED <<rate, visits, ledger, refunds, shifts, movements, calls>>

cancel(o) ==
  /\ Submitted(o)
  /\ orders[o].status # "CANCELED"
  /\ ~Paid(o)
  /\ orders' = [orders EXCEPT
       ![o].moderation = IF @ = "PENDING" THEN "REJECTED" ELSE @,
       ![o].status = "CANCELED"]
  /\ UNCHANGED <<rate, visits, ledger, refunds, shifts, movements, calls>>

\* Slip: everything but the status itself, canceled included.
statusesBefore_AnyOther(progress) == OrderStatuses \ {"NONE", progress}

\* The statuses an order may be in to move to a step of the kitchen.
statusesBefore(progress) ==
  CASE progress = "PREPARING" -> {"SUBMITTED"}
    [] progress = "READY"     -> {"SUBMITTED", "PREPARING"}
    [] progress = "SERVED"    -> {"SUBMITTED", "PREPARING", "READY"}

recordKitchenProgress(o, progress) ==
  /\ isOrderApproved(o)
  /\ orders[o].status \in statusesBefore(progress)
  /\ orders' = [orders EXCEPT ![o].status = progress]
  /\ UNCHANGED <<rate, visits, ledger, refunds, shifts, movements, calls>>

closeVisit(v) ==
  /\ visits[v] = "OPEN"
  /\ ensureSettled(v)
  /\ visits' = [visits EXCEPT ![v] = "CLOSED"]
  /\ UNCHANGED <<rate, orders, ledger, refunds, shifts, movements, calls>>

-----------------------------------------------------------------------------
(* Shifts                                                                    *)

\* The partial unique index allows a cashier one open shift.
openShift(s, cashier, opening) ==
  /\ shifts[s].status = "NONE"
  /\ \A t \in Shifts : ~(shifts[t].status = "OPEN" /\ shifts[t].cashier = cashier)
  /\ shifts' = [shifts EXCEPT
       ![s] = [NoShift EXCEPT !.status = "OPEN", !.cashier = cashier, !.opening = opening]]
  /\ UNCHANGED <<rate, visits, orders, ledger, refunds, movements, calls>>

\* Closing totals the cash under the shift lock and keeps the total for good.
closeShift(s) ==
  /\ shifts[s].status = "OPEN"
  /\ shifts' = [shifts EXCEPT ![s].status = "CLOSED", ![s].expected = totalCash(s)]
  /\ UNCHANGED <<rate, visits, orders, ledger, refunds, movements, calls>>

-----------------------------------------------------------------------------
(* Calls                                                                     *)

Request(op, key, lines) ==
  [Idle EXCEPT !.pc = "running", !.op = op, !.key = key, !.lines = lines]

\* A request whose reads let it go on to its transaction.
Start(c, request) ==
  /\ calls[c].pc = "idle"
  /\ calls' = [calls EXCEPT ![c] = request]

\* Slip: the client is told yes whatever the transaction did.
Finish_Optimistic(c, request, answer) ==
  calls' = [calls EXCEPT ![c] =
    [Request(request.op, request.key, request.lines) EXCEPT
       !.pc = "done", !.answer = request.lines]]

\* The request is over; what it was about and its answer are kept.
Finish(c, request, answer) ==
  calls' = [calls EXCEPT ![c] =
    [Request(request.op, request.key, request.lines) EXCEPT !.pc = "done", !.answer = answer]]

Running(c, op) == calls[c].pc = "running" /\ calls[c].op = op

\* payOrderInFull: a saved checkout of the key is returned when it is this
\* order's; otherwise the order must be payable as it was read.
BeginPayOrder(c, k, o, s, m) ==
  LET request == [Request("payOrder", k, {o}) EXCEPT !.rate = rate, !.shift = s, !.method = m]
  IN  /\ Submitted(o)
      /\ shifts[s].status = "OPEN"
      /\ calls[c].pc = "idle"
      /\ \E replayed \in findCheckoutByIdempotencyKey(k) :
           \/ /\ replayed = {o}
              /\ Finish(c, request, replayed)
           \/ /\ replayed = {}
              /\ orders[o].status # "CANCELED"
              /\ isOrderApproved(o)
              /\ Total[rate][{o}] > 0
              /\ Start(c, request)
      /\ UNCHANGED <<rate, visits, orders, ledger, refunds, shifts, movements>>

\* payTableSessionInFull for the visit's unpaid orders; with a claim, the
\* amount claimed is the total the cashier expects (confirmClaim).
BeginPayVisit(c, k, v, s, m, claim) ==
  LET request == [Request("payVisit", k, UnpaidOrders(v)) EXCEPT
                    !.rate = rate, !.visit = v, !.shift = s, !.method = m, !.claim = claim]
      replayed == findSessionCheckoutByIdempotencyKey(k)
  IN  /\ shifts[s].status = "OPEN"
      /\ claim # None => claim \in verifyingClaims(v) /\ payments[claim].method = m
      /\ calls[c].pc = "idle"
      /\ \/ /\ replayed # {}
            /\ \A o \in replayed : bills[o].visit = v
            /\ Finish(c, request, replayed)
         \/ /\ replayed = {}
            /\ sessionBills(UnpaidOrders(v), rate)
            /\ claim # None => payments[claim].amount = Total[rate][UnpaidOrders(v)]
            /\ Start(c, request)
      /\ UNCHANGED <<rate, visits, orders, ledger, refunds, shifts, movements>>

\* The guests of an open visit say they paid it by transfer or QRIS. A claim
\* already waiting is returned instead of a second one.
BeginClaim(c, k, v, m) ==
  LET request == [Request("claim", k, UnpaidOrders(v)) EXCEPT
                    !.visit = v, !.method = m, !.amount = Total[rate][UnpaidOrders(v)]]
  IN  /\ m # "CASH"
      /\ visits[v] = "OPEN"
      /\ sessionBills(UnpaidOrders(v), rate)
      /\ verifyingClaims(v) = {}
      /\ Start(c, request)
      /\ UNCHANGED <<rate, visits, orders, ledger, refunds, shifts, movements>>

\* A refund of a paid order: a cash refund may not exceed what the drawer
\* holds at this moment; the rest is decided in the transaction.
BeginRefund(c, k, o, s, amount) ==
  LET request == [Request("refund", k, {o}) EXCEPT !.shift = s, !.amount = amount]
  IN  /\ shifts[s].status = "OPEN"
      /\ Paid(o)
      /\ calls[c].pc = "idle"
      /\ \E p \in PaidBy(o) :
           /\ payments[p].method = "CASH" => amount <= totalCash(s)
           /\ \/ /\ refunds[k] = o
                 /\ Finish(c, request, {o})
              \/ /\ refunds[k] = None
                 /\ Start(c, [request EXCEPT !.method = payments[p].method])
      /\ UNCHANGED <<rate, visits, orders, ledger, refunds, shifts, movements>>

\* Cash put into the drawer (amount > 0) or taken out of it (amount < 0); what
\* is taken out may not exceed what the drawer holds at this moment.
BeginCashMovement(c, k, s, amount) ==
  LET request == [Request("cash", k, {}) EXCEPT !.shift = s, !.amount = amount]
      same == {x \in movements : x.shift = s /\ x.key = k}
  IN  /\ shifts[s].status = "OPEN"
      /\ calls[c].pc = "idle"
      /\ \/ /\ same # {}
            /\ \A x \in same : x.amount = amount
            /\ Finish(c, request, {})
         \/ /\ same = {}
            /\ amount < 0 => -amount <= totalCash(s)
            /\ Start(c, request)
      /\ UNCHANGED <<rate, visits, orders, ledger, refunds, shifts, movements>>

-----------------------------------------------------------------------------
(* The transactions                                                          *)

\* Slip: the shift read before the transaction is trusted.
lockShift_Trusting(s) == TRUE

\* The shift row is locked if it is still open.
lockShift(s) == shifts[s].status = "OPEN"

\* Slip: the settling update is not guarded by the bill's status.
Settleable_Unguarded(o, r) == TRUE

\* The bill is made now, or an earlier one has this total and is unpaid.
Settleable(o, r) ==
  \/ bills[o].status = "NONE"
  \/ bills[o].status = "UNPAID" /\ bills[o].total = Total[r][{o}]

\* Slip: a payment does not look at the order's status again.
Payable_IgnoresCancel(o) == Submitted(o) /\ isOrderApproved(o)

\* Order and status of a row the transaction locks before it writes.
Payable(o) == Submitted(o) /\ orders[o].status # "CANCELED" /\ isOrderApproved(o)

\* Slip: the counter is read before it is incremented.
Numberings_ReadFirst(S) ==
  {f \in [S -> saleNumber .. (saleNumber + Cardinality(S) - 1)] :
     \A a, b \in S : f[a] = f[b] => a = b}

\* Sale numbers for the orders S, drawn one by one from the outlet's counter.
Numberings(S) ==
  {f \in [S -> (saleNumber + 1) .. (saleNumber + Cardinality(S))] :
     \A a, b \in S : f[a] = f[b] => a = b}

\* Settles the bills of S from payment p: bill, allocation and sale per order,
\* and the cash in the shift. The visit is kept on the bill when given.
RecordPayment(p, row, S, r, v) ==
  /\ bills' = [o \in Orders |->
       IF o \in S
         THEN [status |-> "PAID", total |-> Total[r][{o}], paid |-> Total[r][{o}],
               visit |-> v]
         ELSE bills[o]]
  /\ payments' = [payments EXCEPT ![p] = row]
  /\ allocations' = allocations \cup
       {[payment |-> p, order |-> o, amount |-> Total[r][{o}]] : o \in S}
  /\ \E number \in Numberings(S) :
       sales' = [o \in Orders |->
         IF o \in S THEN [status |-> "COMPLETED", number |-> number[o],
                          total |-> Total[r][{o}], refunded |-> 0]
                    ELSE sales[o]]
  /\ saleNumber' = saleNumber + Cardinality(S)
  /\ shifts' = [shifts EXCEPT ![row.shift].taken =
       IF row.method = "CASH" THEN @ + row.amount ELSE @]

\* Slip: the payment is for the total at the charges of this moment.
PaidRow_TodaysCharges(q, amount) ==
  [status |-> "PAID", key |-> q.key, amount |-> Total[rate][q.lines], method |-> q.method,
   visit |-> None, shift |-> q.shift]

\* The payment row a call inserts.
PaidRow(q, amount) ==
  [status |-> "PAID", key |-> q.key, amount |-> amount, method |-> q.method,
   visit |-> None, shift |-> q.shift]

\* recordFullPayment. A key that is taken undoes the transaction; the answer is
\* then the checkout saved under the key, whichever order it belongs to.
CommitPayOrder(c, o) ==
  LET q == calls[c]
      accepted == /\ lockShift(q.shift)
                  /\ Payable(o)
                  /\ Settleable(o, q.rate)
  IN  /\ Running(c, "payOrder")
      /\ q.lines = {o}
      /\ \/ /\ ~accepted
            /\ Finish(c, q, {})
            /\ UNCHANGED <<ledger, shifts>>
         \/ /\ accepted
            /\ KeyHolders(q.key) # {}
            /\ \E replayed \in findCheckoutByIdempotencyKey(q.key) : Finish(c, q, replayed)
            /\ UNCHANGED <<ledger, shifts>>
         \/ /\ accepted
            /\ KeyHolders(q.key) = {}
            /\ RecordPayment(c, PaidRow(q, Total[q.rate][{o}]), {o}, q.rate, None)
            /\ Finish(c, q, {o})
      /\ UNCHANGED <<rate, visits, orders, refunds, movements>>

\* The claim is still as the cashier saw it and waits to be confirmed.
Confirmable(q) ==
  /\ payments[q.claim].status = "VERIFYING"
  /\ payments[q.claim].amount = Total[q.rate][q.lines]
  /\ payments[q.claim].method = q.method
  /\ payments[q.claim].visit = q.visit

\* recordSessionPayment. The visit's orders must be the ones read, all of them
\* are paid or none; a confirmed claim becomes the payment and takes the key of
\* the confirmation. An allocation of nothing is refused by the database.
\* Another visit's payment under the same key is noticed when it committed
\* before the first read of the transaction; when it commits after that, the
\* insert fails on the key and the answer is that payment's checkout.
CommitPayVisit(c) ==
  LET q == calls[c]
      replayed == findSessionCheckoutByIdempotencyKey(q.key)
      accepted == /\ ensureVisitOrders(q.visit, q.lines)
                  /\ lockShift(q.shift)
                  /\ \A o \in q.lines : Payable(o) /\ Settleable(o, q.rate)
                  /\ \A o \in q.lines : Total[q.rate][{o}] > 0
                  /\ q.claim # None => Confirmable(q)
      ownVisit == \A o \in replayed : bills[o].visit = q.visit
      free == KeyHolders(q.key) \subseteq {q.claim}
  IN  /\ Running(c, "payVisit")
      /\ \/ /\ replayed # {}
            /\ \/ Finish(c, q, IF ownVisit THEN replayed ELSE {})
               \/ ~ownVisit /\ accepted /\ Finish(c, q, replayed)
            /\ UNCHANGED <<ledger, shifts>>
         \/ /\ replayed = {}
            /\ ~(accepted /\ free)
            /\ Finish(c, q, {})
            /\ UNCHANGED <<ledger, shifts>>
         \/ /\ replayed = {}
            /\ accepted /\ free
            /\ \/ /\ q.claim = None
                  /\ RecordPayment(c, PaidRow(q, Total[q.rate][q.lines]), q.lines, q.rate, q.visit)
               \/ /\ q.claim # None
                  /\ RecordPayment(q.claim,
                       [payments[q.claim] EXCEPT !.status = "PAID", !.key = q.key,
                                                 !.shift = q.shift],
                       q.lines, q.rate, q.visit)
            /\ Finish(c, q, q.lines)
      /\ UNCHANGED <<rate, visits, orders, refunds, movements>>

\* Slip: no index keeps a second claim out.
ClaimSlotFree_Unchecked(v) == TRUE

\* The partial unique index: one VERIFYING payment per visit.
ClaimSlotFree(v) == verifyingClaims(v) = {}

\* claimPayment: under the visit lock; the visit may have been closed since it
\* was read. A claim already waiting, or a key in use, leaves what is there.
CommitClaim(c) ==
  LET q == calls[c]
      accepted == /\ ensureVisitOrders(q.visit, q.lines)
                  /\ ClaimSlotFree(q.visit)
                  /\ KeyHolders(q.key) = {}
  IN  /\ Running(c, "claim")
      /\ \/ /\ ~accepted
            /\ UNCHANGED payments
         \/ /\ accepted
            /\ payments' = [payments EXCEPT ![c] =
                 [status |-> "VERIFYING", key |-> q.key, amount |-> q.amount,
                  method |-> q.method, visit |-> q.visit, shift |-> None]]
      /\ Finish(c, q, {})
      /\ UNCHANGED <<rate, visits, orders, bills, allocations, sales, saleNumber, refunds,
                     shifts, movements>>

\* Slip: a status the table does not know.
rejectClaim_Misnamed(p) ==
  /\ payments[p].status = "VERIFYING"
  /\ payments' = [payments EXCEPT ![p].status = "REJECTED"]
  /\ UNCHANGED <<rate, visits, orders, bills, allocations, sales, saleNumber, refunds,
                 shifts, movements, calls>>

\* The cashier did not receive the money of a claim.
rejectClaim(p) ==
  /\ payments[p].status = "VERIFYING"
  /\ payments' = [payments EXCEPT ![p].status = "FAILED"]
  /\ UNCHANGED <<rate, visits, orders, bills, allocations, sales, saleNumber, refunds,
                 shifts, movements, calls>>

\* Slip: refunds already given are forgotten.
refundable_Whole(o) == sales[o].total

\* What is left of a sale to give back.
refundable(o) == sales[o].total - sales[o].refunded

\* recordRefund: the shift and the sale are locked, and the amount is checked
\* against what is left of the sale; the drawer is not looked at again.
CommitRefund(c, o) ==
  LET q == calls[c]
      accepted == /\ lockShift(q.shift)
                  /\ q.amount <= refundable(o)
  IN  /\ Running(c, "refund")
      /\ q.lines = {o}
      /\ \/ /\ ~accepted
            /\ Finish(c, q, {})
            /\ UNCHANGED <<sales, refunds, shifts>>
         \/ /\ accepted
            /\ refunds[q.key] # None
            /\ Finish(c, q, {refunds[q.key]})
            /\ UNCHANGED <<sales, refunds, shifts>>
         \/ /\ accepted
            /\ refunds[q.key] = None
            /\ refunds' = [refunds EXCEPT ![q.key] = o]
            /\ sales' = [sales EXCEPT
                 ![o].refunded = @ + q.amount,
                 ![o].status = IF q.amount = refundable(o) THEN "REFUNDED"
                                                           ELSE "PARTIALLY_REFUNDED"]
            /\ shifts' = [shifts EXCEPT ![q.shift].refunded =
                 IF q.method = "CASH" THEN @ + q.amount ELSE @]
            /\ Finish(c, q, {o})
      /\ UNCHANGED <<rate, visits, orders, bills, payments, allocations, saleNumber, movements>>

\* appendCashMovement: under the shift lock; a key of the shift that is taken
\* leaves the movement that is there.
CommitCashMovement(c) ==
  LET q == calls[c]
      accepted == /\ lockShift(q.shift)
                  /\ \A x \in movements : ~(x.shift = q.shift /\ x.key = q.key)
  IN  /\ Running(c, "cash")
      /\ \/ /\ ~accepted
            /\ UNCHANGED <<shifts, movements>>
         \/ /\ accepted
            /\ movements' = movements \cup
                 {[shift |-> q.shift, key |-> q.key, amount |-> q.amount]}
            /\ shifts' = [shifts EXCEPT ![q.shift].moved = @ + q.amount]
      /\ Finish(c, q, {})
      /\ UNCHANGED <<rate, visits, orders, ledger, refunds>>

-----------------------------------------------------------------------------

OrderNext ==
  \/ \E r \in Rates : SetCharges(r)
  \/ \E o \in Orders :
       \/ \E v \in Visits \cup {None}, source \in {"POS", "SELF_ORDER"} :
            createSubmitted(o, v, source)
       \/ \E decision \in {"ACCEPTED", "REJECTED"} : decideGuestOrder(o, decision)
       \/ \E progress \in Progress : recordKitchenProgress(o, progress)
       \/ cancel(o)
  \/ \E v \in Visits : closeVisit(v)

ShiftNext ==
  \E s \in Shifts :
    \/ \E cashier \in Cashiers, opening \in Openings : openShift(s, cashier, opening)
    \/ closeShift(s)

CallNext ==
  \E c \in Calls :
    \/ \E k \in Keys, o \in Orders, s \in Shifts, m \in Methods : BeginPayOrder(c, k, o, s, m)
    \/ \E k \in Keys, v \in Visits, s \in Shifts, m \in Methods, claim \in Calls \cup {None} :
         BeginPayVisit(c, k, v, s, m, claim)
    \/ \E k \in Keys, v \in Visits, m \in Methods : BeginClaim(c, k, v, m)
    \/ \E k \in Keys, o \in Orders, s \in Shifts, amount \in Amounts :
         BeginRefund(c, k, o, s, amount)
    \/ \E k \in Keys, s \in Shifts, amount \in Amounts \cup {-a : a \in Amounts} :
         BeginCashMovement(c, k, s, amount)
    \/ \E o \in Orders : CommitPayOrder(c, o) \/ CommitRefund(c, o)
    \/ CommitPayVisit(c)
    \/ CommitClaim(c)
    \/ rejectClaim(c)
    \/ CommitCashMovement(c)

Next == OrderNext \/ ShiftNext \/ CallNext

Spec == Init /\ [][Next]_vars

-----------------------------------------------------------------------------
(* Properties                                                                *)

\* A paid order is never canceled, and guests' orders are paid only once staff
\* accepted them: recordFullPayment and recordSessionPayment take the rows that
\* cancel and decideGuestOrder take, so whichever comes first wins.
PaidOrdersStand ==
  \A o \in Orders : Paid(o) => orders[o].status \notin {"NONE", "CANCELED"} /\ isOrderApproved(o)

\* Every bill is paid by exactly one PAID payment with an allocation of exactly
\* its total, and is one sale; no bill is left unpaid by a transaction.
SettledOnce ==
  \A o \in Orders :
    LET rows == {a \in allocations : a.order = o}
    IN  IF bills[o].status = "NONE"
          THEN rows = {} /\ sales[o].status = "NONE"
          ELSE /\ Paid(o) /\ bills[o].paid = bills[o].total
               /\ Cardinality(rows) = 1
               /\ \A a \in rows : /\ a.amount = bills[o].total
                                  /\ payments[a.payment].status = "PAID"
               /\ sales[o].status # "NONE" /\ sales[o].total = bills[o].total

\* A visit waits on at most one claim at a time, whichever of two taps is first
\* (claimPayment); a claim is in no shift before a cashier confirms it.
OneClaimPerVisit ==
  \A p \in Calls : payments[p].status = "VERIFYING" =>
    payments[p].shift = None /\ verifyingClaims(payments[p].visit) = {p}

\* A closed visit has nothing left to pay or to decide: orders, decisions and
\* closing take the visit's lock (lockTableVisit) and check again under it.
ClosedVisitSettled ==
  \A v \in Visits : visits[v] = "CLOSED" => UnpaidOrders(v) = {}

\* Guests never claim to have paid a visit that is closed, although claimPayment
\* reads the visit before its transaction and not in it.
NoClaimOnClosedVisit ==
  [][\A p \in Calls : payments[p].status = "NONE" /\ payments'[p].status = "VERIFYING"
                        => visits[payments'[p].visit] = "OPEN"]_vars

\* What was refunded never exceeds the sale, and the sale's status says how much
\* of it is left, however the refunds of several cashiers interleave.
RefundsWithinSale ==
  \A o \in Orders :
    /\ sales[o].refunded <= sales[o].total
    /\ sales[o].status = "REFUNDED" => sales[o].refunded = sales[o].total
    /\ sales[o].status = "PARTIALLY_REFUNDED" => sales[o].refunded \in 1 .. (sales[o].total - 1)
    /\ sales[o].status \in {"NONE", "COMPLETED"} => sales[o].refunded = 0

\* The cash a closed shift was closed with is the cash of its rows for good: no
\* payment, refund or movement is added to it after it was totalled.
ClosedShiftBalanced ==
  \A s \in Shifts : shifts[s].status = "CLOSED" => shifts[s].expected = totalCash(s)

\* Sale numbers run from 1 without a gap or a repeat.
SaleNumbersDense ==
  LET sold == {o \in Orders : sales[o].status # "NONE"}
  IN  /\ {sales[o].number : o \in sold} = 1 .. saleNumber
      /\ \A a, b \in sold : sales[a].number = sales[b].number => a = b

\* A paid bill and a sale's number and total never change, refunds only grow,
\* and a canceled order is never brought back, not by a late kitchen event.
FinalFactsStay ==
  [][\A o \in Orders :
       /\ Paid(o) => /\ bills'[o] = bills[o]
                     /\ sales'[o].number = sales[o].number
                     /\ sales'[o].total = sales[o].total
                     /\ sales'[o].refunded >= sales[o].refunded
       /\ orders[o].status = "CANCELED" => orders'[o] = orders[o]]_vars

\* A payment request that was answered with a checkout is answered with one the
\* ledger holds: orders paid by a PAID payment under the request's key.
AnswerBacked ==
  \A c \in Calls : calls[c].op \in {"payOrder", "payVisit"} /\ calls[c].answer # {} =>
    \E p \in KeyHolders(calls[c].key) :
      payments[p].status = "PAID" /\ calls[c].answer \subseteq Allocated(p)

\* Every PAID payment is allocated to the last unit, and nothing else is, though
\* the charges may change between the reads and the write (sessionBills).
PaymentFullyAllocated ==
  \A p \in Calls :
    MapThenSumSet(LAMBDA a : a.amount, {a \in allocations : a.payment = p})
      = IF payments[p].status = "PAID" THEN payments[p].amount ELSE 0

\* Where an order is for who placed it and who pays it.
standing(o) ==
  IF ~Submitted(o) THEN "none"
  ELSE IF Paid(o) THEN "paid"
  ELSE IF orders[o].status = "CANCELED" THEN "canceled"
  ELSE IF isOrderApproved(o) THEN "agreed" ELSE "asked"

Outlet == INSTANCE Settlement WITH
  account   <- [o \in Orders |-> standing(o)],
  party     <- [o \in Orders |-> orders[o].visit],
  left      <- {v \in Visits : visits[v] = "CLOSED"},
  sale      <- [o \in Orders |-> [number |-> sales[o].number, total |-> sales[o].total,
                                  refunded |-> sales[o].refunded]],
  checkouts <- {[orders |-> Allocated(p), total |-> payments[p].amount] :
                  p \in {x \in Calls : payments[x].status = "PAID"}}

\* Orders, bills, payments, allocations, sales and visits are rows of their own,
\* written by requests that read them earlier; together they always tell of
\* orders that are placed, paid or canceled, settled and given back one step at
\* a time (recordFullPayment, recordSessionPayment, cancel, decideGuestOrder,
\* recordRefund, close).
Promised == Outlet!Spec

\* A key used again for something else is refused: a payment request is never
\* answered with the checkout of an order it was not made for.
AnswerIsOwn ==
  \A c \in Calls : calls[c].op = "payOrder" => calls[c].answer \subseteq calls[c].lines

\* Cash given back or taken out never exceeds what the drawer should hold.
DrawerNotOverdrawn ==
  \A s \in Shifts : shifts[s].status # "NONE" => totalCash(s) >= 0

=============================================================================
