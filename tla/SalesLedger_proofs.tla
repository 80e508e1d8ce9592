------------------------ MODULE SalesLedger_proofs ------------------------
(* Safety of SalesLedger for any number of orders, visits, shifts, cashiers, *)
(* requests, keys and charges. The inductive invariant is TypeOK, what a     *)
(* request under way remembers of its reads (RequestsTyped), and the safety  *)
(* properties themselves, each of which is inductive on top of those two;    *)
(* but what the rows of one payment say of each other, with what requests    *)
(* about to pay know of them, is one invariant (Backed).                     *)
(* From these invariants it follows, step by step, that SalesLedger          *)
(* implements Settlement.                                                    *)
EXTENDS SalesLedger, FiniteSetTheorems, WellFoundedInduction, TLAPS

\* What the reads of a request leave in it for its transaction.
RequestTyped(q) ==
  /\ q.op \in {"payOrder", "payVisit"} => q.rate \in Rates /\ q.shift \in Shifts
  /\ q.op = "payVisit" => q.visit \in Visits /\ q.lines # {}
  /\ q.op = "claim" => /\ q.visit \in Visits /\ q.key \in Keys
                       /\ q.amount \in Nat /\ q.lines # {}
  /\ q.op = "refund" => q.amount \in Nat \ {0} /\ q.key \in Keys
  /\ q.op = "cash" => q.shift \in Shifts /\ q.key \in Keys

RequestsTyped == \A c \in Calls : calls[c].pc = "running" => RequestTyped(calls[c])

Typed == TypeOK /\ RequestsTyped

-----------------------------------------------------------------------------
(* Facts about the operators                                                 *)

\* A total of charges is a natural number.
LEMMA TotalType == \A r \in Rates, S \in SUBSET Orders : Total[r][S] \in Nat
  BY TotalAssumption

\* A fresh request has the type of a call.
LEMMA RequestType ==
  ASSUME NEW op \in Operations, NEW key \in Keys \cup {None}, NEW lines \in SUBSET Orders
  PROVE  /\ Request(op, key, lines) \in Call
         /\ Request(op, key, lines).op = op
         /\ Request(op, key, lines).pc = "running"
         /\ Request(op, key, lines).lines = lines
         /\ Request(op, key, lines).key = key
<1> DEFINE r(q) == [q EXCEPT !.pc = "running", !.op = op, !.key = key, !.lines = lines]
<1>1. Idle \in Call
  BY AmountAssumption DEF Idle, Call, Operations
<1>2. ASSUME NEW q \in Call
      PROVE  /\ r(q) \in Call /\ r(q).op = op /\ r(q).pc = "running"
             /\ r(q).lines = lines /\ r(q).key = key
  BY DEF Call
<1> QED
  BY <1>1, <1>2 DEF Request

\* A request that goes on to its transaction keeps the calls typed.
LEMMA StartTyped ==
  ASSUME Typed, NEW c \in Calls, NEW q \in Call, RequestTyped(q), Start(c, q)
  PROVE  calls' \in [Calls -> Call] /\ RequestsTyped'
  BY DEF Typed, TypeOK, RequestsTyped, RequestTyped, Start

\* An answered request keeps the calls typed.
LEMMA FinishTyped ==
  ASSUME Typed, NEW c \in Calls, NEW q, q.op \in Operations, q.key \in Keys \cup {None},
         q.lines \in SUBSET Orders, NEW answer \in SUBSET Orders, Finish(c, q, answer)
  PROVE  calls' \in [Calls -> Call] /\ RequestsTyped'
<1> DEFINE done == [Request(q.op, q.key, q.lines) EXCEPT !.pc = "done", !.answer = answer]
<1>1. Request(q.op, q.key, q.lines) \in Call
  BY RequestType
<1>2. done \in Call /\ done.pc = "done"
  BY <1>1 DEF Call
<1>3. calls' = [calls EXCEPT ![c] = done]
  BY DEF Finish
<1> QED
  BY <1>2, <1>3 DEF Typed, TypeOK, RequestsTyped, RequestTyped

\* Settling bills keeps the ledger and the shifts typed.
LEMMA RecordPaymentTyped ==
  ASSUME TypeOK, NEW p \in Calls, NEW row \in Payment, NEW S \in SUBSET Orders,
         NEW r \in Rates, NEW v \in Visits \cup {None}, RecordPayment(p, row, S, r, v)
  PROVE  /\ bills' \in [Orders -> Bill]
         /\ payments' \in [Calls -> Payment]
         /\ allocations' \subseteq Allocation
         /\ sales' \in [Orders -> Sale]
         /\ saleNumber' \in Nat
         /\ shifts' \in [Shifts -> Shift]
<1>1. \A o \in Orders : Total[r][{o}] \in Nat
  BY TotalType
<1>2. Cardinality(S) \in Nat
  BY FiniteAssumption, FS_Subset, FS_CardinalityType
<1>3. bills' \in [Orders -> Bill]
  BY <1>1 DEF RecordPayment, TypeOK, Bill
<1>4. payments' \in [Calls -> Payment]
  BY DEF RecordPayment, TypeOK
<1>5. allocations' \subseteq Allocation
  <2>1. allocations' = allocations \cup
          {[payment |-> p, order |-> o, amount |-> Total[r][{o}]] : o \in S}
    BY DEF RecordPayment
  <2>2. \A o \in S : [payment |-> p, order |-> o, amount |-> Total[r][{o}]] \in Allocation
    BY <1>1 DEF Allocation
  <2> QED
    BY <2>1, <2>2 DEF TypeOK
<1>6. sales' \in [Orders -> Sale]
  <2>1. PICK number \in Numberings(S) :
          sales' = [o \in Orders |->
            IF o \in S THEN [status |-> "COMPLETED", number |-> number[o],
                             total |-> Total[r][{o}], refunded |-> 0]
                       ELSE sales[o]]
    BY DEF RecordPayment
  <2>2. \A o \in S : number[o] \in Nat
    BY <1>2 DEF Numberings, TypeOK
  <2> QED
    BY <1>1, <2>1, <2>2 DEF TypeOK, Sale
<1>7. saleNumber' \in Nat
  BY <1>2 DEF RecordPayment, TypeOK
<1>8. shifts' \in [Shifts -> Shift]
  <2>1. \A s \in Shifts : shifts[s] \in Shift /\ shifts[s].taken \in Nat
    BY DEF TypeOK, Shift
  <2>2. row.amount \in Nat
    BY DEF Payment
  <2>3. shifts' = [shifts EXCEPT ![row.shift].taken =
          IF row.method = "CASH" THEN @ + row.amount ELSE @]
    BY DEF RecordPayment
  <2>4. shifts \in [Shifts -> Shift]
    BY DEF TypeOK
  <2>5. ASSUME NEW s \in Shifts, NEW n \in Nat
        PROVE  [shifts[s] EXCEPT !.taken = n] \in Shift
    BY <2>1 DEF Shift
  <2>6. shifts' = [s \in Shifts |-> IF s = row.shift
          THEN [shifts[s] EXCEPT !.taken =
                  IF row.method = "CASH" THEN @ + row.amount ELSE @]
          ELSE shifts[s]]
    BY <2>3, <2>4
  <2>7. \A s \in Shifts : shifts[s].taken + row.amount \in Nat
    BY <2>1, <2>2
  <2> QED
    BY <2>1, <2>5, <2>6, <2>7
<1> QED
  BY <1>3, <1>4, <1>5, <1>6, <1>7, <1>8

\* The checkouts a key looks up are sets of orders.
LEMMA CheckoutType ==
  ASSUME TypeOK, NEW k
  PROVE  /\ findSessionCheckoutByIdempotencyKey(k) \in SUBSET Orders
         /\ findCheckoutByIdempotencyKey(k) \subseteq SUBSET Orders
<1>1. \A p : Allocated(p) \subseteq Orders
  BY DEF Allocated, TypeOK, Allocation
<1>2. findSessionCheckoutByIdempotencyKey(k) \in SUBSET Orders
  BY <1>1 DEF findSessionCheckoutByIdempotencyKey
<1> QED
  BY <1>2 DEF findCheckoutByIdempotencyKey

-----------------------------------------------------------------------------
(* Type correctness, one lemma per group of actions                          *)

\* A request that only reads changes nothing but its call.
LEMMA BeginTyped ==
  ASSUME Typed, NEW c \in Calls, NEW q \in Call, NEW answer \in SUBSET Orders,
         (Start(c, q) /\ RequestTyped(q)) \/ Finish(c, q, answer),
         UNCHANGED <<rate, visits, orders, ledger, refunds, shifts, movements>>
  PROVE  Typed'
<1>1. q.op \in Operations /\ q.key \in Keys \cup {None} /\ q.lines \in SUBSET Orders
  BY DEF Call
<1>2. calls' \in [Calls -> Call] /\ RequestsTyped'
  BY <1>1, StartTyped, FinishTyped
<1> QED
  BY <1>2 DEF Typed, TypeOK, ledger

LEMMA BeginPayOrderTyped ==
  ASSUME Typed, NEW c \in Calls, NEW k \in Keys, NEW o \in Orders, NEW s \in Shifts,
         NEW m \in Methods, BeginPayOrder(c, k, o, s, m)
  PROVE  Typed'
<1> DEFINE q == [Request("payOrder", k, {o}) EXCEPT !.rate = rate, !.shift = s, !.method = m]
<1>1. Request("payOrder", k, {o}) \in Call /\ Request("payOrder", k, {o}).op = "payOrder"
  BY RequestType DEF Operations
<1>2. q \in Call /\ q.op = "payOrder" /\ q.rate = rate /\ q.shift = s
  BY <1>1 DEF Call, Typed, TypeOK
<1>3. RequestTyped(q)
  BY <1>2 DEF RequestTyped, Typed, TypeOK
<1>4. \E answer \in SUBSET Orders : Start(c, q) \/ Finish(c, q, answer)
  BY CheckoutType DEF BeginPayOrder, Typed
<1>5. UNCHANGED <<rate, visits, orders, ledger, refunds, shifts, movements>>
  BY DEF BeginPayOrder
<1> QED
  BY <1>2, <1>3, <1>4, <1>5, BeginTyped

LEMMA BeginPayVisitTyped ==
  ASSUME Typed, NEW c \in Calls, NEW k \in Keys, NEW v \in Visits, NEW s \in Shifts,
         NEW m \in Methods, NEW claim \in Calls \cup {None},
         BeginPayVisit(c, k, v, s, m, claim)
  PROVE  Typed'
<1> DEFINE request == Request("payVisit", k, UnpaidOrders(v))
           q == [request EXCEPT !.rate = rate, !.visit = v, !.shift = s, !.method = m,
                                !.claim = claim]
<1>1. request \in Call /\ request.op = "payVisit"
  BY RequestType DEF Operations, UnpaidOrders
<1>2. /\ q \in Call /\ q.op = "payVisit" /\ q.rate = rate /\ q.shift = s /\ q.visit = v
      /\ q.lines = UnpaidOrders(v)
  <2>1. request.lines = UnpaidOrders(v)
    BY RequestType DEF Operations, UnpaidOrders
  <2> QED
    BY <1>1, <2>1 DEF Call, Typed, TypeOK
<1>3. UnpaidOrders(v) # {} => RequestTyped(q)
  BY <1>2 DEF RequestTyped, Typed, TypeOK
<1>4. \E answer \in SUBSET Orders : (Start(c, q) /\ RequestTyped(q)) \/ Finish(c, q, answer)
  BY <1>3, CheckoutType DEF BeginPayVisit, sessionBills, Typed
<1>5. UNCHANGED <<rate, visits, orders, ledger, refunds, shifts, movements>>
  BY DEF BeginPayVisit
<1> QED
  BY <1>2, <1>3, <1>4, <1>5, BeginTyped

LEMMA BeginClaimTyped ==
  ASSUME Typed, NEW c \in Calls, NEW k \in Keys, NEW v \in Visits, NEW m \in Methods,
         BeginClaim(c, k, v, m)
  PROVE  Typed'
<1> DEFINE S == UnpaidOrders(v)
           q == [Request("claim", k, S) EXCEPT !.visit = v, !.method = m,
                                               !.amount = Total[rate][S]]
<1>1. S \in SUBSET Orders /\ S # {}
  BY DEF BeginClaim, sessionBills, UnpaidOrders
<1>2. Total[rate][S] \in Nat /\ Total[rate][S] \in Int
  BY <1>1, TotalType DEF Typed, TypeOK
<1>3. /\ Request("claim", k, S) \in Call
      /\ Request("claim", k, S).op = "claim"
      /\ Request("claim", k, S).key = k
      /\ Request("claim", k, S).lines = S
  BY <1>1, RequestType DEF Operations
<1>4. /\ q \in Call
      /\ q.op = "claim" /\ q.visit = v /\ q.key = k /\ q.amount \in Nat /\ q.lines # {}
  BY <1>1, <1>2, <1>3 DEF Call
<1>5. RequestTyped(q)
  BY <1>4 DEF RequestTyped
<1>6. Start(c, q) /\ UNCHANGED <<rate, visits, orders, ledger, refunds, shifts, movements>>
  BY DEF BeginClaim
<1> QED
  BY <1>4, <1>5, <1>6, BeginTyped

LEMMA BeginRefundTyped ==
  ASSUME Typed, NEW c \in Calls, NEW k \in Keys, NEW o \in Orders, NEW s \in Shifts,
         NEW amount \in Amounts, BeginRefund(c, k, o, s, amount)
  PROVE  Typed'
<1> DEFINE request == [Request("refund", k, {o}) EXCEPT !.shift = s, !.amount = amount]
           paidBy(p) == [request EXCEPT !.method = payments[p].method]
<1>1. /\ Request("refund", k, {o}) \in Call
      /\ Request("refund", k, {o}).op = "refund"
      /\ Request("refund", k, {o}).key = k
  BY RequestType DEF Operations
<1>2. amount \in Nat \ {0} /\ amount \in Int
  BY AmountAssumption
<1>3. request \in Call /\ request.op = "refund" /\ request.key = k /\ request.amount = amount
  BY <1>1, <1>2 DEF Call
<1>4. \A p \in PaidBy(o) : payments[p].method \in Methods
  BY DEF PaidBy, Typed, TypeOK, Allocation, Payment
<1>5. ASSUME NEW m \in Methods
      PROVE  LET q == [request EXCEPT !.method = m]
             IN  q \in Call /\ q.op = "refund" /\ q.key = k /\ q.amount = amount
  BY <1>3 DEF Call
<1>6. PICK p \in PaidBy(o) : Start(c, paidBy(p)) \/ Finish(c, request, {o})
  BY DEF BeginRefund
<1>7. RequestTyped(request) /\ RequestTyped(paidBy(p)) /\ paidBy(p) \in Call
  BY <1>2, <1>3, <1>4, <1>5 DEF RequestTyped
<1>8. UNCHANGED <<rate, visits, orders, ledger, refunds, shifts, movements>>
  BY DEF BeginRefund
<1>9. {o} \in SUBSET Orders
  OBVIOUS
<1> QED
  BY <1>3, <1>6, <1>7, <1>8, <1>9, BeginTyped

LEMMA BeginCashMovementTyped ==
  ASSUME Typed, NEW c \in Calls, NEW k \in Keys, NEW s \in Shifts, NEW amount \in Int,
         BeginCashMovement(c, k, s, amount)
  PROVE  Typed'
<1> DEFINE q == [Request("cash", k, {}) EXCEPT !.shift = s, !.amount = amount]
<1>1. /\ Request("cash", k, {}) \in Call
      /\ Request("cash", k, {}).op = "cash"
      /\ Request("cash", k, {}).key = k
  BY RequestType DEF Operations
<1>2. q \in Call /\ q.op = "cash" /\ q.shift = s /\ q.key = k
  BY <1>1 DEF Call
<1>3. RequestTyped(q)
  BY <1>2 DEF RequestTyped
<1>4. Start(c, q) \/ Finish(c, q, {})
  BY DEF BeginCashMovement
<1>5. UNCHANGED <<rate, visits, orders, ledger, refunds, shifts, movements>>
  BY DEF BeginCashMovement
<1> QED
  BY <1>2, <1>3, <1>4, <1>5, BeginTyped

\* A request under way is a typed call.
LEMMA RunningTyped ==
  ASSUME Typed, NEW c \in Calls, NEW op, Running(c, op)
  PROVE  /\ calls[c] \in Call /\ calls[c].op = op /\ RequestTyped(calls[c])
         /\ calls[c].op \in Operations /\ calls[c].key \in Keys \cup {None}
         /\ calls[c].lines \in SUBSET Orders
<1>1. calls[c] \in Call /\ calls[c].op = op /\ RequestTyped(calls[c])
  BY DEF Typed, TypeOK, RequestsTyped, Running
<1> QED
  BY <1>1 DEF Call

LEMMA CommitPayOrderTyped ==
  ASSUME Typed, NEW c \in Calls, NEW o \in Orders, CommitPayOrder(c, o)
  PROVE  Typed'
<1> DEFINE q == calls[c]
<1>1. Running(c, "payOrder")
  BY DEF CommitPayOrder
<1>2. /\ q \in Call /\ q.rate \in Rates /\ q.op \in Operations
      /\ q.key \in Keys \cup {None} /\ q.lines \in SUBSET Orders
  BY <1>1, RunningTyped DEF RequestTyped
<1>3. \E answer \in SUBSET Orders : Finish(c, q, answer)
  BY CheckoutType DEF CommitPayOrder, Typed
<1>4. calls' \in [Calls -> Call] /\ RequestsTyped'
  BY <1>2, <1>3, FinishTyped
<1>5. UNCHANGED <<rate, visits, orders, refunds, movements>>
  BY DEF CommitPayOrder
<1>6. CASE UNCHANGED <<ledger, shifts>>
  BY <1>4, <1>5, <1>6 DEF Typed, TypeOK, ledger
<1>7. CASE RecordPayment(c, PaidRow(q, Total[q.rate][{o}]), {o}, q.rate, None)
  <2>1. PaidRow(q, Total[q.rate][{o}]) \in Payment
    BY <1>2, TotalType DEF PaidRow, Payment, Call
  <2> QED
    BY <1>2, <1>4, <1>5, <1>7, <2>1, RecordPaymentTyped DEF Typed, TypeOK
<1> QED
  BY <1>6, <1>7 DEF CommitPayOrder

LEMMA CommitPayVisitTyped ==
  ASSUME Typed, NEW c \in Calls, CommitPayVisit(c)
  PROVE  Typed'
<1> DEFINE q == calls[c]
           confirmed == [payments[q.claim] EXCEPT !.status = "PAID", !.key = q.key,
                                                  !.shift = q.shift]
<1>1. Running(c, "payVisit")
  BY DEF CommitPayVisit
<1>2. /\ q \in Call /\ q.rate \in Rates /\ q.op \in Operations /\ q.visit \in Visits
      /\ q.key \in Keys \cup {None} /\ q.lines \in SUBSET Orders
      /\ q.claim \in Calls \cup {None} /\ q.shift \in Shifts
  BY <1>1, RunningTyped DEF RequestTyped, Call
<1>3. \E answer \in SUBSET Orders : Finish(c, q, answer)
  <2>1. findSessionCheckoutByIdempotencyKey(q.key) \in SUBSET Orders /\ {} \in SUBSET Orders
    BY CheckoutType DEF Typed
  <2> QED
    BY <1>2, <2>1 DEF CommitPayVisit
<1>4. calls' \in [Calls -> Call] /\ RequestsTyped'
  BY <1>2, <1>3, FinishTyped
<1>5. UNCHANGED <<rate, visits, orders, refunds, movements>>
  BY DEF CommitPayVisit
<1>6. CASE UNCHANGED <<ledger, shifts>>
  BY <1>4, <1>5, <1>6 DEF Typed, TypeOK, ledger
<1>7. CASE RecordPayment(c, PaidRow(q, Total[q.rate][q.lines]), q.lines, q.rate, q.visit)
  <2>1. PaidRow(q, Total[q.rate][q.lines]) \in Payment
    BY <1>2, TotalType DEF PaidRow, Payment, Call
  <2> QED
    BY <1>2, <1>4, <1>5, <1>7, <2>1, RecordPaymentTyped DEF Typed, TypeOK
<1>8. CASE /\ q.claim # None
           /\ RecordPayment(q.claim, confirmed, q.lines, q.rate, q.visit)
  <2>1. q.claim \in Calls /\ payments[q.claim] \in Payment
    BY <1>2, <1>8 DEF Typed, TypeOK
  <2>2. confirmed \in Payment
    BY <1>2, <2>1 DEF Payment
  <2> QED
    BY <1>2, <1>4, <1>5, <1>8, <2>1, <2>2, RecordPaymentTyped DEF Typed, TypeOK
<1> QED
  BY <1>6, <1>7, <1>8 DEF CommitPayVisit

LEMMA CommitClaimTyped ==
  ASSUME Typed, NEW c \in Calls, CommitClaim(c)
  PROVE  Typed'
<1> DEFINE q == calls[c]
           row == [status |-> "VERIFYING", key |-> q.key, amount |-> q.amount,
                   method |-> q.method, visit |-> q.visit, shift |-> None]
<1>1. Running(c, "claim")
  BY DEF CommitClaim
<1>2. /\ q \in Call /\ q.op \in Operations /\ q.visit \in Visits /\ q.amount \in Nat
      /\ q.key \in Keys \cup {None} /\ q.lines \in SUBSET Orders /\ q.method \in Methods
  BY <1>1, RunningTyped DEF RequestTyped, Call
<1>3. Finish(c, q, {}) /\ {} \in SUBSET Orders
  BY DEF CommitClaim
<1>4. calls' \in [Calls -> Call] /\ RequestsTyped'
  BY <1>2, <1>3, FinishTyped
<1>5. row \in Payment
  BY <1>2 DEF Payment
<1>6. payments' \in [Calls -> Payment]
  BY <1>5 DEF CommitClaim, Typed, TypeOK
<1>7. UNCHANGED <<rate, visits, orders, bills, allocations, sales, saleNumber, refunds,
                  shifts, movements>>
  BY DEF CommitClaim
<1> QED
  BY <1>4, <1>6, <1>7 DEF Typed, TypeOK

LEMMA RejectClaimTyped ==
  ASSUME Typed, NEW p \in Calls, rejectClaim(p)
  PROVE  Typed'
<1>1. payments[p] \in Payment
  BY DEF Typed, TypeOK
<1>2. [payments[p] EXCEPT !.status = "FAILED"] \in Payment
  BY <1>1 DEF Payment
<1> QED
  BY <1>2 DEF Typed, TypeOK, RequestsTyped, rejectClaim

LEMMA CommitRefundTyped ==
  ASSUME Typed, NEW c \in Calls, NEW o \in Orders, CommitRefund(c, o)
  PROVE  Typed'
<1> DEFINE q == calls[c]
<1>1. Running(c, "refund")
  BY DEF CommitRefund
<1>2. /\ q \in Call /\ q.op \in Operations /\ q.key \in Keys /\ q.amount \in Nat \ {0}
      /\ q.key \in Keys \cup {None} /\ q.lines \in SUBSET Orders
  BY <1>1, RunningTyped DEF RequestTyped
<1>3. refunds[q.key] # None => {refunds[q.key]} \in SUBSET Orders
  BY <1>2 DEF Typed, TypeOK
<1>4. \E answer \in SUBSET Orders : Finish(c, q, answer)
  BY <1>3 DEF CommitRefund
<1>5. calls' \in [Calls -> Call] /\ RequestsTyped'
  BY <1>2, <1>4, FinishTyped
<1>6. UNCHANGED <<rate, visits, orders, bills, payments, allocations, saleNumber, movements>>
  BY DEF CommitRefund
<1>7. refunds' \in [Keys -> Orders \cup {None}]
  BY DEF CommitRefund, Typed, TypeOK
<1>8. sales' \in [Orders -> Sale]
  <2>1. sales[o] \in Sale /\ sales[o].refunded + q.amount \in Nat
    BY <1>2 DEF Typed, TypeOK, Sale
  <2>2. ASSUME NEW n \in Nat, NEW status \in {"PARTIALLY_REFUNDED", "REFUNDED"}
        PROVE  [sales[o] EXCEPT !.refunded = n, !.status = status] \in Sale
    BY <2>1 DEF Sale
  <2> DEFINE status == IF q.amount = refundable(o) THEN "REFUNDED" ELSE "PARTIALLY_REFUNDED"
  <2>3. \/ sales' = sales
        \/ sales' = [sales EXCEPT ![o] =
             [sales[o] EXCEPT !.refunded = sales[o].refunded + q.amount, !.status = status]]
    BY DEF CommitRefund, Typed, TypeOK
  <2>4. status \in {"PARTIALLY_REFUNDED", "REFUNDED"}
    OBVIOUS
  <2> QED
    BY <2>1, <2>2, <2>3, <2>4 DEF Typed, TypeOK
<1>9. shifts' \in [Shifts -> Shift]
  <2>1. \A s \in Shifts : shifts[s] \in Shift /\ shifts[s].refunded + q.amount \in Nat
                         /\ shifts[s].refunded \in Nat
    BY <1>2 DEF Typed, TypeOK, Shift
  <2>2. ASSUME NEW s \in Shifts, NEW n \in Nat
        PROVE  [shifts[s] EXCEPT !.refunded = n] \in Shift
    BY <2>1 DEF Shift
  <2> QED
    BY <2>1, <2>2 DEF CommitRefund, Typed, TypeOK
<1> QED
  BY <1>5, <1>6, <1>7, <1>8, <1>9 DEF Typed, TypeOK

LEMMA CommitCashMovementTyped ==
  ASSUME Typed, NEW c \in Calls, CommitCashMovement(c)
  PROVE  Typed'
<1> DEFINE q == calls[c]
<1>1. Running(c, "cash")
  BY DEF CommitCashMovement
<1>2. /\ q \in Call /\ q.op \in Operations /\ q.shift \in Shifts /\ q.key \in Keys
      /\ q.amount \in Int /\ q.key \in Keys \cup {None} /\ q.lines \in SUBSET Orders
  BY <1>1, RunningTyped DEF RequestTyped, Call
<1>3. Finish(c, q, {}) /\ {} \in SUBSET Orders
  BY DEF CommitCashMovement
<1>4. calls' \in [Calls -> Call] /\ RequestsTyped'
  BY <1>2, <1>3, FinishTyped
<1>5. [shift |-> q.shift, key |-> q.key, amount |-> q.amount] \in Movement
  BY <1>2 DEF Movement
<1>6. movements' \subseteq Movement
  BY <1>5 DEF CommitCashMovement, Typed, TypeOK
<1>7. shifts' \in [Shifts -> Shift]
  <2>1. shifts[q.shift] \in Shift /\ shifts[q.shift].moved + q.amount \in Int
    BY <1>2 DEF Typed, TypeOK, Shift
  <2>2. ASSUME NEW n \in Int
        PROVE  [shifts[q.shift] EXCEPT !.moved = n] \in Shift
    BY <2>1 DEF Shift
  <2> QED
    BY <2>1, <2>2 DEF CommitCashMovement, Typed, TypeOK
<1>8. UNCHANGED <<rate, visits, orders, ledger, refunds>>
  BY DEF CommitCashMovement
<1> QED
  BY <1>4, <1>6, <1>7, <1>8 DEF Typed, TypeOK, ledger

LEMMA OrderNextTyped ==
  ASSUME Typed, OrderNext
  PROVE  Typed'
<1>1. ASSUME NEW r \in Rates, SetCharges(r)
      PROVE  Typed'
  BY <1>1 DEF Typed, TypeOK, RequestsTyped, SetCharges, ledger
<1>2. ASSUME NEW o \in Orders, NEW v \in Visits \cup {None}, NEW source \in {"POS", "SELF_ORDER"},
             createSubmitted(o, v, source)
      PROVE  Typed'
  <2>1. [status     |-> "SUBMITTED",
         moderation |-> IF source = "SELF_ORDER" THEN "PENDING" ELSE "NOT_REQUIRED",
         visit      |-> v] \in Order
    BY DEF Order, OrderStatuses
  <2> QED
    BY <1>2, <2>1 DEF Typed, TypeOK, RequestsTyped, createSubmitted, ledger
<1>3. ASSUME NEW o \in Orders, NEW row \in Order, orders' = [orders EXCEPT ![o] = row],
             UNCHANGED <<rate, visits, ledger, refunds, shifts, movements, calls>>
      PROVE  Typed'
  BY <1>3 DEF Typed, TypeOK, RequestsTyped, ledger
<1>4. ASSUME NEW o \in Orders, NEW status \in OrderStatuses,
             NEW moderation \in {"NOT_REQUIRED", "PENDING", "ACCEPTED", "REJECTED"}
      PROVE  [orders[o] EXCEPT !.moderation = moderation, !.status = status] \in Order
  BY DEF Typed, TypeOK, Order
<1>5. \A o \in Orders : /\ orders[o].status \in OrderStatuses
                        /\ orders[o].moderation \in {"NOT_REQUIRED", "PENDING", "ACCEPTED", "REJECTED"}
  BY DEF Typed, TypeOK, Order
<1>6. ASSUME NEW o \in Orders, NEW decision \in {"ACCEPTED", "REJECTED"},
             decideGuestOrder(o, decision)
      PROVE  Typed'
  <2> DEFINE status == IF decision = "REJECTED" THEN "CANCELED" ELSE orders[o].status
  <2>1. orders' = [orders EXCEPT ![o] =
          [orders[o] EXCEPT !.moderation = decision, !.status = status]]
    BY <1>6 DEF decideGuestOrder, Typed, TypeOK
  <2>2. status \in OrderStatuses
    BY <1>5 DEF OrderStatuses
  <2> QED
    BY <1>3, <1>4, <1>6, <2>1, <2>2 DEF decideGuestOrder
<1>7. ASSUME NEW o \in Orders, cancel(o)
      PROVE  Typed'
  <2> DEFINE moderation == IF orders[o].moderation = "PENDING" THEN "REJECTED"
                                                             ELSE orders[o].moderation
  <2>1. orders' = [orders EXCEPT ![o] =
          [orders[o] EXCEPT !.moderation = moderation, !.status = "CANCELED"]]
    BY <1>7 DEF cancel, Typed, TypeOK
  <2>2. moderation \in {"NOT_REQUIRED", "PENDING", "ACCEPTED", "REJECTED"}
    BY <1>5
  <2>3. "CANCELED" \in OrderStatuses
    BY DEF OrderStatuses
  <2> QED
    BY <1>3, <1>4, <1>7, <2>1, <2>2, <2>3 DEF cancel
<1>8. ASSUME NEW o \in Orders, NEW progress \in Progress, recordKitchenProgress(o, progress)
      PROVE  Typed'
  <2>1. progress \in OrderStatuses
    BY AmountAssumption DEF OrderStatuses
  <2>2. [orders[o] EXCEPT !.status = progress] \in Order
    BY <2>1 DEF Typed, TypeOK, Order
  <2> QED
    BY <1>3, <1>8, <2>2 DEF recordKitchenProgress
<1>9. ASSUME NEW v \in Visits, closeVisit(v)
      PROVE  Typed'
  BY <1>9 DEF Typed, TypeOK, RequestsTyped, closeVisit, ledger
<1> QED
  BY <1>1, <1>2, <1>6, <1>7, <1>8, <1>9 DEF OrderNext

LEMMA ShiftNextTyped ==
  ASSUME Typed, ShiftNext
  PROVE  Typed'
<1>1. ASSUME NEW s \in Shifts, NEW row \in Shift, shifts' = [shifts EXCEPT ![s] = row],
             UNCHANGED <<rate, visits, orders, ledger, refunds, movements, calls>>
      PROVE  Typed'
  BY <1>1 DEF Typed, TypeOK, RequestsTyped, ledger
<1>2. ASSUME NEW s \in Shifts, NEW cashier \in Cashiers, NEW opening \in Openings,
             openShift(s, cashier, opening)
      PROVE  Typed'
  <2>1. NoShift \in Shift /\ opening \in Nat
    BY AmountAssumption DEF NoShift, Shift
  <2>2. [NoShift EXCEPT !.status = "OPEN", !.cashier = cashier, !.opening = opening] \in Shift
    BY <2>1 DEF Shift
  <2> QED
    BY <1>1, <1>2, <2>2 DEF openShift
<1>3. ASSUME NEW s \in Shifts, closeShift(s)
      PROVE  Typed'
  <2>1. shifts[s] \in Shift
    BY DEF Typed, TypeOK
  <2>2. totalCash(s) \in Int
    <3>1. /\ shifts[s].opening \in Int /\ shifts[s].taken \in Int
          /\ shifts[s].refunded \in Int /\ shifts[s].moved \in Int
      BY <2>1 DEF Shift
    <3> QED
      BY <3>1 DEF totalCash
  <2>3. [shifts[s] EXCEPT !.status = "CLOSED", !.expected = totalCash(s)] \in Shift
    BY <2>1, <2>2 DEF Shift
  <2>4. shifts' = [shifts EXCEPT ![s] =
          [shifts[s] EXCEPT !.status = "CLOSED", !.expected = totalCash(s)]]
    BY <1>3 DEF closeShift, Typed, TypeOK
  <2> QED
    BY <1>1, <1>3, <2>3, <2>4 DEF closeShift
<1> QED
  BY <1>2, <1>3 DEF ShiftNext

LEMMA TypedStep ==
  ASSUME Typed, [Next]_vars
  PROVE  Typed'
<1>1. CASE OrderNext
  BY <1>1, OrderNextTyped
<1>2. CASE ShiftNext
  BY <1>2, ShiftNextTyped
<1>3. CASE CallNext
  <2>1. Amounts \cup {-a : a \in Amounts} \subseteq Int
    <3>1. \A a \in Amounts : a \in Int /\ -a \in Int
      BY AmountAssumption
    <3> QED
      BY <3>1
  <2> QED
    BY <1>3, <2>1, BeginPayOrderTyped, BeginPayVisitTyped, BeginClaimTyped, BeginRefundTyped,
       BeginCashMovementTyped, CommitPayOrderTyped, CommitPayVisitTyped, CommitClaimTyped,
       RejectClaimTyped, CommitRefundTyped, CommitCashMovementTyped DEF CallNext
<1>4. CASE UNCHANGED vars
  BY <1>4 DEF Typed, TypeOK, RequestsTyped, vars
<1> QED
  BY <1>1, <1>2, <1>3, <1>4 DEF Next

LEMMA TypedInit == Init => Typed
<1> SUFFICES ASSUME Init PROVE Typed
  OBVIOUS
<1>1. NoOrder \in Order /\ NoBill \in Bill /\ NoPayment \in Payment /\ NoSale \in Sale
      /\ NoShift \in Shift
  BY AmountAssumption
     DEF NoOrder, NoBill, NoPayment, NoSale, NoShift, Order, OrderStatuses, Bill, Payment, Sale, Shift
<1>2. Idle \in Call /\ Idle.pc = "idle"
  BY AmountAssumption DEF Idle, Call, Operations
<1> QED
  BY <1>1, <1>2 DEF Init, Typed, TypeOK, RequestsTyped

\* Rows, totals and requests keep their types: no sum of cash, refund or sale
\* number leaves the numbers, and a request under way still names what it read.
THEOREM TypeCorrect == Spec => []TypeOK
<1>1. Spec => []Typed
  BY TypedInit, TypedStep, PTL DEF Spec
<1>2. Typed => TypeOK
  BY DEF Typed
<1> QED
  BY <1>1, <1>2, PTL

-----------------------------------------------------------------------------
(* How the tables change: the frame of the steps, used by every property     *)

\* A payment that settles the orders S, with what its transaction checked.
Settles(p, row, S, r, v) ==
  /\ RecordPayment(p, row, S, r, v)
  /\ \A o \in S : Payable(o) /\ Settleable(o, r)
  /\ lockShift(row.shift)
  /\ row.status = "PAID"

SomePayment ==
  \E p \in Calls, row \in Payment, S \in SUBSET Orders, r \in Rates, v \in Visits \cup {None} :
    Settles(p, row, S, r, v)

\* Requests leave orders, visits and charges alone; a step of a request that
\* changes a table is one of the transactions, and bills, allocations and sale
\* numbers change by payments only.
LEMMA CallStep ==
  ASSUME Typed, CallNext
  PROVE  /\ UNCHANGED <<rate, visits, orders>>
         /\ \/ UNCHANGED <<ledger, refunds, shifts, movements>>
            \/ SomePayment /\ UNCHANGED <<refunds, movements>>
            \/ \E c \in Calls : CommitClaim(c) \/ rejectClaim(c) \/ CommitCashMovement(c)
            \/ \E c \in Calls, o \in Orders : CommitRefund(c, o)
         /\ UNCHANGED <<bills, allocations, saleNumber>> \/ SomePayment
<1>1. ASSUME NEW c \in Calls, NEW o \in Orders, CommitPayOrder(c, o)
      PROVE  /\ UNCHANGED <<rate, visits, orders, refunds, movements>>
             /\ UNCHANGED <<ledger, shifts>> \/ SomePayment
  <2> DEFINE q == calls[c]
             row == PaidRow(q, Total[q.rate][{o}])
  <2>1. UNCHANGED <<rate, visits, orders, refunds, movements>>
    BY <1>1 DEF CommitPayOrder
  <2>2. CASE UNCHANGED <<ledger, shifts>>
    BY <2>1, <2>2
  <2>3. CASE ~UNCHANGED <<ledger, shifts>>
    <3>1. /\ RecordPayment(c, row, {o}, q.rate, None)
          /\ lockShift(q.shift) /\ Payable(o) /\ Settleable(o, q.rate)
      BY <1>1, <2>3 DEF CommitPayOrder
    <3>2. q \in Call /\ q.rate \in Rates
      BY <1>1, RunningTyped DEF CommitPayOrder, RequestTyped
    <3>3. row \in Payment /\ row.shift = q.shift /\ row.status = "PAID"
      BY <3>2, TotalType DEF PaidRow, Payment, Call
    <3>4. Settles(c, row, {o}, q.rate, None)
      BY <3>1, <3>3 DEF Settles
    <3> QED
      BY <2>1, <3>2, <3>3, <3>4 DEF SomePayment
  <2> QED
    BY <2>2, <2>3
<1>2. ASSUME NEW c \in Calls, CommitPayVisit(c)
      PROVE  /\ UNCHANGED <<rate, visits, orders, refunds, movements>>
             /\ UNCHANGED <<ledger, shifts>> \/ SomePayment
  <2> DEFINE q == calls[c]
             row == PaidRow(q, Total[q.rate][q.lines])
             confirmed == [payments[q.claim] EXCEPT !.status = "PAID", !.key = q.key,
                                                    !.shift = q.shift]
  <2>1. UNCHANGED <<rate, visits, orders, refunds, movements>>
    BY <1>2 DEF CommitPayVisit
  <2>2. /\ q \in Call /\ q.rate \in Rates /\ q.visit \in Visits /\ q.shift \in Shifts
        /\ q.lines \in SUBSET Orders /\ q.key \in Keys \cup {None}
        /\ q.claim \in Calls \cup {None}
    BY <1>2, RunningTyped DEF CommitPayVisit, RequestTyped, Call
  <2>3. CASE UNCHANGED <<ledger, shifts>>
    BY <2>1, <2>3
  <2>4. CASE ~UNCHANGED <<ledger, shifts>>
    <3>1. /\ \A o \in q.lines : Payable(o) /\ Settleable(o, q.rate)
          /\ lockShift(q.shift)
          /\ \/ RecordPayment(c, row, q.lines, q.rate, q.visit)
             \/ /\ q.claim # None
                /\ RecordPayment(q.claim, confirmed, q.lines, q.rate, q.visit)
      BY <1>2, <2>4 DEF CommitPayVisit
    <3>2. row \in Payment /\ row.shift = q.shift /\ row.status = "PAID"
      BY <2>2, TotalType DEF PaidRow, Payment, Call
    <3>3. CASE RecordPayment(c, row, q.lines, q.rate, q.visit)
      <4>1. Settles(c, row, q.lines, q.rate, q.visit)
        BY <3>1, <3>2, <3>3 DEF Settles
      <4> QED
        BY <2>1, <2>2, <3>2, <4>1 DEF SomePayment
    <3>4. CASE q.claim # None /\ RecordPayment(q.claim, confirmed, q.lines, q.rate, q.visit)
      <4>1. q.claim \in Calls /\ payments[q.claim] \in Payment
        BY <2>2, <3>4 DEF Typed, TypeOK
      <4>2. confirmed \in Payment /\ confirmed.shift = q.shift /\ confirmed.status = "PAID"
        BY <2>2, <4>1 DEF Payment
      <4>3. Settles(q.claim, confirmed, q.lines, q.rate, q.visit)
        BY <3>1, <3>4, <4>2 DEF Settles
      <4> QED
        BY <2>1, <2>2, <4>1, <4>2, <4>3 DEF SomePayment
    <3> QED
      BY <3>1, <3>3, <3>4
  <2> QED
    BY <2>3, <2>4
<1>3. ASSUME NEW c \in Calls, NEW k, NEW o, NEW v, NEW s, NEW m, NEW claim, NEW amount,
             \/ BeginPayOrder(c, k, o, s, m)
             \/ BeginPayVisit(c, k, v, s, m, claim)
             \/ BeginClaim(c, k, v, m)
             \/ BeginRefund(c, k, o, s, amount)
             \/ BeginCashMovement(c, k, s, amount)
      PROVE  UNCHANGED <<rate, visits, orders, ledger, refunds, shifts, movements>>
  BY <1>3 DEF BeginPayOrder, BeginPayVisit, BeginClaim, BeginRefund, BeginCashMovement
<1>4. ASSUME NEW c \in Calls, CommitClaim(c) \/ rejectClaim(c) \/ CommitCashMovement(c)
      PROVE  UNCHANGED <<rate, visits, orders, bills, allocations, saleNumber>>
  BY <1>4 DEF CommitClaim, rejectClaim, CommitCashMovement, ledger
<1>5. ASSUME NEW c \in Calls, NEW o \in Orders, CommitRefund(c, o)
      PROVE  UNCHANGED <<rate, visits, orders, bills, allocations, saleNumber>>
  BY <1>5 DEF CommitRefund
<1>6. ASSUME UNCHANGED ledger
      PROVE  UNCHANGED <<bills, allocations, saleNumber>>
  BY <1>6 DEF ledger
<1> QED
  BY <1>1, <1>2, <1>3, <1>4, <1>5, <1>6 DEF CallNext

\* What a payment does to the bills: those it settles were not paid before.
LEMMA SettledBills ==
  ASSUME Typed, NEW p, NEW row, NEW S \in SUBSET Orders, NEW r, NEW v, Settles(p, row, S, r, v)
  PROVE  \A o \in Orders : /\ o \in S => Payable(o) /\ ~Paid(o) /\ bills'[o].status = "PAID"
                           /\ o \notin S => bills'[o] = bills[o] /\ sales'[o] = sales[o]
<1>1. \A o \in S : Payable(o) /\ ~Paid(o)
  BY DEF Settles, Settleable, Paid
<1>2. \A o \in Orders : /\ o \in S => bills'[o].status = "PAID"
                        /\ o \notin S => bills'[o] = bills[o]
  BY DEF Settles, RecordPayment
<1>3. \A o \in Orders : o \notin S => sales'[o] = sales[o]
  BY DEF Settles, RecordPayment
<1> QED
  BY <1>1, <1>2, <1>3

-----------------------------------------------------------------------------
(* Paid orders stand                                                         *)

LEMMA PaidOrdersStandStep ==
  ASSUME Typed, PaidOrdersStand, [Next]_vars
  PROVE  PaidOrdersStand'
<1>1. CASE OrderNext
  <2>1. bills' = bills
    BY <1>1 DEF OrderNext, SetCharges, createSubmitted, decideGuestOrder, cancel,
       recordKitchenProgress, closeVisit, ledger
  <2>2. ASSUME NEW o \in Orders, Paid(o)
        PROVE  /\ orders'[o].status \notin {"NONE", "CANCELED"}
               /\ orders'[o].moderation \in {"NOT_REQUIRED", "ACCEPTED"}
    <3>1. /\ orders[o].status \notin {"NONE", "CANCELED"}
          /\ orders[o].moderation \in {"NOT_REQUIRED", "ACCEPTED"}
          /\ orders \in [Orders -> Order]
      BY <2>2 DEF PaidOrdersStand, isOrderApproved, Typed, TypeOK
    <3>2. CASE orders' = orders
      BY <3>1, <3>2
    <3>3. ASSUME NEW x \in Orders, NEW progress \in Progress, recordKitchenProgress(x, progress)
          PROVE  /\ orders'[o].status \notin {"NONE", "CANCELED"}
                 /\ orders'[o].moderation \in {"NOT_REQUIRED", "ACCEPTED"}
      BY <3>1, <3>3, AmountAssumption DEF recordKitchenProgress, Order
    <3>4. ASSUME NEW x \in Orders, cancel(x)
          PROVE  orders'[o] = orders[o]
      BY <2>2, <3>1, <3>4 DEF cancel
    <3>5. ASSUME NEW x \in Orders, NEW v, NEW source, createSubmitted(x, v, source)
          PROVE  orders'[o] = orders[o]
      BY <3>1, <3>5 DEF createSubmitted
    <3>6. ASSUME NEW x \in Orders, NEW decision, decideGuestOrder(x, decision)
          PROVE  orders'[o] = orders[o]
      BY <3>1, <3>6 DEF decideGuestOrder
    <3> QED
      BY <1>1, <3>1, <3>2, <3>3, <3>4, <3>5, <3>6 DEF OrderNext, SetCharges, closeVisit
  <2> QED
    BY <2>1, <2>2 DEF PaidOrdersStand, Paid, isOrderApproved
<1>2. CASE ShiftNext
  BY <1>2 DEF ShiftNext, openShift, closeShift, ledger, PaidOrdersStand, Paid, isOrderApproved
<1>3. CASE CallNext
  <2>1. orders' = orders
    BY <1>3, CallStep
  <2>2. CASE bills' = bills
    BY <2>1, <2>2 DEF PaidOrdersStand, Paid, isOrderApproved
  <2>3. CASE SomePayment
    <3>1. PICK p \in Calls, row \in Payment, S \in SUBSET Orders, r \in Rates,
               v \in Visits \cup {None} : Settles(p, row, S, r, v)
      BY <2>3 DEF SomePayment
    <3>2. \A o \in Orders : /\ o \in S => Payable(o)
                            /\ o \notin S => bills'[o] = bills[o]
      BY <3>1, SettledBills
    <3> QED
      BY <2>1, <3>2 DEF PaidOrdersStand, Paid, Payable, Submitted, isOrderApproved
  <2> QED
    BY <1>3, <2>2, <2>3, CallStep
<1>4. CASE UNCHANGED vars
  BY <1>4 DEF vars, PaidOrdersStand, Paid, isOrderApproved
<1> QED
  BY <1>1, <1>2, <1>3, <1>4 DEF Next

\* An order whose bill is paid is never canceled or left undecided, whatever
\* cancel, decideGuestOrder and the two payment transactions do at once.
THEOREM PaidOrdersAlwaysStand == Spec => []PaidOrdersStand
<1>1. Init => PaidOrdersStand
  BY DEF Init, PaidOrdersStand, Paid, NoBill
<1>2. Typed /\ PaidOrdersStand /\ [Next]_vars => Typed' /\ PaidOrdersStand'
  BY TypedStep, PaidOrdersStandStep
<1> QED
  BY <1>1, <1>2, TypedInit, PTL DEF Spec

-----------------------------------------------------------------------------
(* Closed visits are settled, and nobody claims to have paid one             *)

LEMMA ClosedVisitSettledStep ==
  ASSUME Typed, ClosedVisitSettled, [Next]_vars
  PROVE  ClosedVisitSettled'
<1> DEFINE Owed(v, o) == /\ Submitted(o) /\ orders[o].visit = v
                         /\ orders[o].status # "CANCELED" /\ ~Paid(o)
<1>1. \A v \in Visits : visits[v] = "CLOSED" => \A o \in Orders : ~Owed(v, o)
  BY DEF ClosedVisitSettled, UnpaidOrders
<1>2. SUFFICES ASSUME NEW v \in Visits, visits'[v] = "CLOSED", NEW o \in Orders
               PROVE  ~Owed(v, o)'
  BY DEF ClosedVisitSettled, UnpaidOrders
<1>3. CASE UNCHANGED <<visits, orders>> /\ (bills' = bills \/ bills'[o].status = "PAID")
  BY <1>1, <1>2, <1>3 DEF Submitted, Paid
<1>4. CASE OrderNext
  <2>1. bills' = bills
    BY <1>4 DEF OrderNext, SetCharges, createSubmitted, decideGuestOrder, cancel,
       recordKitchenProgress, closeVisit, ledger
  <2>2. orders \in [Orders -> Order] /\ visits \in [Visits -> {"OPEN", "CLOSED"}]
    BY DEF Typed, TypeOK
  <2>3. ASSUME NEW w \in Visits, closeVisit(w)
        PROVE  ~Owed(v, o)'
    BY <1>1, <1>2, <2>1, <2>2, <2>3 DEF closeVisit, ensureSettled, Submitted, Paid
  <2>4. ASSUME NEW x \in Orders, NEW w \in Visits \cup {None}, NEW source, createSubmitted(x, w, source)
        PROVE  ~Owed(v, o)'
    BY <1>1, <1>2, <2>1, <2>2, <2>4, NoneAssumption DEF createSubmitted, Submitted, Paid
  <2>5. ASSUME NEW x \in Orders, NEW decision, decideGuestOrder(x, decision)
        PROVE  ~Owed(v, o)'
    BY <1>1, <1>2, <2>1, <2>2, <2>5 DEF decideGuestOrder, Submitted, Paid, Order
  <2>6. ASSUME NEW x \in Orders, cancel(x)
        PROVE  ~Owed(v, o)'
    BY <1>1, <1>2, <2>1, <2>2, <2>6 DEF cancel, Submitted, Paid, Order
  <2>7. ASSUME NEW x \in Orders, NEW progress \in Progress, recordKitchenProgress(x, progress)
        PROVE  ~Owed(v, o)'
    <3>1. orders[x].status \notin {"NONE", "CANCELED"}
      BY <2>7, AmountAssumption DEF recordKitchenProgress, statusesBefore
    <3> QED
      BY <1>1, <1>2, <2>1, <2>2, <2>7, <3>1 DEF recordKitchenProgress, Submitted, Paid, Order
  <2> QED
    BY <1>3, <1>4, <2>1, <2>3, <2>4, <2>5, <2>6, <2>7 DEF OrderNext, SetCharges
<1>5. CASE ShiftNext
  BY <1>3, <1>5 DEF ShiftNext, openShift, closeShift, ledger
<1>6. CASE CallNext
  <2>1. CASE SomePayment
    <3>1. bills'[o] = bills[o] \/ bills'[o].status = "PAID"
      BY <2>1, SettledBills DEF SomePayment
    <3> QED
      BY <1>1, <1>2, <1>6, <3>1, CallStep DEF Submitted, Paid
  <2> QED
    BY <1>3, <1>6, <2>1, CallStep
<1>7. CASE UNCHANGED vars
  BY <1>3, <1>7 DEF vars
<1> QED
  BY <1>4, <1>5, <1>6, <1>7 DEF Next

LEMMA ClosedVisitSettledInit == Init => ClosedVisitSettled
  BY DEF Init, ClosedVisitSettled

\* A visit closes with every order canceled or paid and stays that way: an order
\* sent, decided or paid at the same moment comes before the closing or not at all.
THEOREM ClosedVisitsAlwaysSettled == Spec => []ClosedVisitSettled
<1>1. Typed /\ ClosedVisitSettled /\ [Next]_vars => Typed' /\ ClosedVisitSettled'
  BY TypedStep, ClosedVisitSettledStep
<1> QED
  BY <1>1, TypedInit, ClosedVisitSettledInit, PTL DEF Spec

\* A claim is only ever recorded for a visit that is still open. claimPayment
\* does not read the visit again under its lock; what keeps it out is that the
\* orders it read are still unpaid, and a closed visit has none of those.
THEOREM ClaimsOnOpenVisitsOnly == Spec => NoClaimOnClosedVisit
<1> DEFINE Claims == \A p \in Calls :
             payments[p].status = "NONE" /\ payments'[p].status = "VERIFYING"
               => visits[payments'[p].visit] = "OPEN"
<1>1. ASSUME Typed, ClosedVisitSettled, [Next]_vars
      PROVE  Claims
  <2> SUFFICES ASSUME NEW p \in Calls, payments[p].status = "NONE",
                      payments'[p].status = "VERIFYING"
               PROVE  visits[payments'[p].visit] = "OPEN"
    OBVIOUS
  <2>1. payments' # payments /\ payments \in [Calls -> Payment]
    BY <1>1 DEF Typed, TypeOK
  <2>2. CallNext
    BY <1>1, <2>1 DEF Next, vars, OrderNext, SetCharges, createSubmitted, decideGuestOrder, cancel,
       recordKitchenProgress, closeVisit, ShiftNext, openShift, closeShift, ledger
  <2>3. ~SomePayment
    <3>1. ASSUME NEW c \in Calls, NEW row \in Payment, NEW S, NEW r, NEW v, Settles(c, row, S, r, v)
          PROVE  FALSE
      BY <2>1, <3>1 DEF Settles, RecordPayment
    <3> QED
      BY <3>1 DEF SomePayment
  <2>4. PICK c \in Calls : CommitClaim(c) \/ rejectClaim(c)
    BY <1>1, <2>1, <2>2, <2>3, CallStep DEF CommitCashMovement, CommitRefund, ledger
  <2>5. ~rejectClaim(c)
    BY <2>1 DEF rejectClaim
  <2>6. /\ c = p /\ payments'[p].visit = calls[c].visit
        /\ UnpaidOrders(calls[c].visit) = calls[c].lines
        /\ Running(c, "claim")
    BY <2>1, <2>4, <2>5 DEF CommitClaim, ensureVisitOrders
  <2>7. calls[c].visit \in Visits /\ calls[c].lines # {}
    BY <1>1, <2>6, RunningTyped DEF RequestTyped
  <2>8. visits[calls[c].visit] # "CLOSED"
    BY <1>1, <2>6, <2>7 DEF ClosedVisitSettled
  <2> QED
    BY <1>1, <2>6, <2>7, <2>8 DEF Typed, TypeOK
<1>2. Typed /\ ClosedVisitSettled /\ [Next]_vars => Typed' /\ ClosedVisitSettled'
  BY TypedStep, ClosedVisitSettledStep
<1>3. Typed /\ ClosedVisitSettled /\ [Next]_vars => [Claims]_vars
  BY <1>1
<1> QED
  BY <1>2, <1>3, TypedInit, ClosedVisitSettledInit, PTL DEF Spec, NoClaimOnClosedVisit

-----------------------------------------------------------------------------
(* Money that was counted stays counted                                      *)

LEMMA ClosedShiftBalancedStep ==
  ASSUME Typed, ClosedShiftBalanced, [Next]_vars
  PROVE  ClosedShiftBalanced'
<1> SUFFICES ASSUME NEW s \in Shifts, shifts'[s].status = "CLOSED"
             PROVE  shifts'[s].expected = totalCash(s)'
  BY DEF ClosedShiftBalanced
<1>1. shifts \in [Shifts -> Shift]
  BY DEF Typed, TypeOK
<1>2. CASE shifts'[s] = shifts[s]
  BY <1>2 DEF ClosedShiftBalanced, totalCash
<1>3. CASE shifts'[s] # shifts[s]
  <2>1. ASSUME NEW t \in Shifts, closeShift(t)
        PROVE  shifts'[s].expected = totalCash(s)'
    BY <1>1, <1>3, <2>1 DEF closeShift, totalCash, Shift
  <2>2. ASSUME NEW t \in Shifts, NEW cashier, NEW opening, openShift(t, cashier, opening)
        PROVE  FALSE
    BY <1>1, <1>3, <2>2 DEF openShift, NoShift
  <2>3. CASE SomePayment
    <3>1. PICK p \in Calls, row \in Payment, S \in SUBSET Orders, r \in Rates,
               v \in Visits \cup {None} : Settles(p, row, S, r, v)
      BY <2>3 DEF SomePayment
    <3>2. s = row.shift /\ shifts[s].status = "OPEN" /\ shifts'[s].status = shifts[s].status
      BY <1>1, <1>3, <3>1 DEF Settles, RecordPayment, lockShift, Shift
    <3> QED
      BY <3>2
  <2>4. ASSUME NEW c \in Calls, NEW o \in Orders, CommitRefund(c, o)
        PROVE  FALSE
    BY <1>1, <1>3, <2>4 DEF CommitRefund, lockShift, Shift
  <2>5. ASSUME NEW c \in Calls, CommitCashMovement(c)
        PROVE  FALSE
    BY <1>1, <1>3, <2>5 DEF CommitCashMovement, lockShift, Shift
  <2>6. \/ ShiftNext \/ CallNext
    BY <1>3 DEF Next, vars, OrderNext, SetCharges, createSubmitted, decideGuestOrder, cancel,
       recordKitchenProgress, closeVisit
  <2> QED
    BY <1>3, <2>1, <2>2, <2>3, <2>4, <2>5, <2>6, CallStep DEF ShiftNext, CommitClaim, rejectClaim
<1> QED
  BY <1>2, <1>3

\* A closed shift keeps the cash it was closed with: whatever request was under
\* way when it closed finds it closed under the shift's lock.
THEOREM ClosedShiftsAlwaysBalanced == Spec => []ClosedShiftBalanced
<1>1. Init => ClosedShiftBalanced
  BY DEF Init, ClosedShiftBalanced, NoShift
<1>2. Typed /\ ClosedShiftBalanced /\ [Next]_vars => Typed' /\ ClosedShiftBalanced'
  BY TypedStep, ClosedShiftBalancedStep
<1> QED
  BY <1>1, <1>2, TypedInit, PTL DEF Spec

LEMMA RefundsWithinSaleStep ==
  ASSUME Typed, RefundsWithinSale, [Next]_vars
  PROVE  RefundsWithinSale'
<1> DEFINE Within(sale) ==
      /\ sale.refunded <= sale.total
      /\ sale.status = "REFUNDED" => sale.refunded = sale.total
      /\ sale.status = "PARTIALLY_REFUNDED" => sale.refunded \in 1 .. (sale.total - 1)
      /\ sale.status \in {"NONE", "COMPLETED"} => sale.refunded = 0
<1>1. \A o \in Orders : Within(sales[o])
  BY DEF RefundsWithinSale
<1>2. SUFFICES ASSUME NEW o \in Orders PROVE Within(sales'[o])
  BY DEF RefundsWithinSale
<1>3. sales \in [Orders -> Sale]
  BY DEF Typed, TypeOK
<1>4. CASE sales'[o] = sales[o]
  BY <1>1, <1>4
<1>5. CASE sales'[o] # sales[o]
  <2>1. CASE SomePayment
    <3>1. PICK p \in Calls, row \in Payment, S \in SUBSET Orders, r \in Rates,
               v \in Visits \cup {None} : Settles(p, row, S, r, v)
      BY <2>1 DEF SomePayment
    <3>2. sales'[o].status = "COMPLETED" /\ sales'[o].refunded = 0
          /\ sales'[o].total = Total[r][{o}]
      BY <1>5, <3>1 DEF Settles, RecordPayment
    <3>3. Total[r][{o}] \in Nat
      BY TotalType
    <3> QED
      BY <3>2, <3>3
  <2>2. ASSUME NEW c \in Calls, NEW x \in Orders, CommitRefund(c, x)
        PROVE  Within(sales'[o])
    <3> DEFINE q == calls[c]
    <3>1. q.amount \in Nat \ {0}
      BY <2>2, RunningTyped DEF CommitRefund, RequestTyped
    <3>2. sales[o] \in Sale /\ sales[o].total \in Nat /\ sales[o].refunded \in Nat
      BY <1>3 DEF Sale
    <3>3. /\ o = x /\ q.amount <= refundable(o)
          /\ sales'[o] = [sales[o] EXCEPT
               !.refunded = sales[o].refunded + q.amount,
               !.status = IF q.amount = refundable(o) THEN "REFUNDED" ELSE "PARTIALLY_REFUNDED"]
      BY <1>3, <1>5, <2>2 DEF CommitRefund
    <3>4. /\ sales'[o].refunded = sales[o].refunded + q.amount
          /\ sales'[o].total = sales[o].total
          /\ sales'[o].status = IF q.amount = refundable(o) THEN "REFUNDED"
                                                            ELSE "PARTIALLY_REFUNDED"
      BY <3>2, <3>3 DEF Sale
    <3> QED
      BY <3>1, <3>2, <3>3, <3>4 DEF refundable
  <2>3. CallNext
    BY <1>5 DEF Next, vars, OrderNext, SetCharges, createSubmitted, decideGuestOrder, cancel,
       recordKitchenProgress, closeVisit, ShiftNext, openShift, closeShift, ledger
  <2> QED
    BY <1>5, <2>1, <2>2, <2>3, CallStep DEF CommitClaim, rejectClaim, CommitCashMovement, ledger
<1> QED
  BY <1>4, <1>5

\* However many cashiers refund a sale at once, they never give back more than
\* it was sold for, and its status says whether anything is left.
THEOREM RefundsAlwaysWithinSale == Spec => []RefundsWithinSale
<1>1. Init => RefundsWithinSale
  BY DEF Init, RefundsWithinSale, NoSale
<1>2. Typed /\ RefundsWithinSale /\ [Next]_vars => Typed' /\ RefundsWithinSale'
  BY TypedStep, RefundsWithinSaleStep
<1> QED
  BY <1>1, <1>2, TypedInit, PTL DEF Spec

-----------------------------------------------------------------------------
(* One claim at a time                                                       *)

LEMMA OneClaimPerVisitStep ==
  ASSUME Typed, OneClaimPerVisit, [Next]_vars
  PROVE  OneClaimPerVisit'
<1> DEFINE Waiting(p) == payments[p].status = "VERIFYING"
<1>1. \A p \in Calls : Waiting(p) => payments[p].shift = None
  BY DEF OneClaimPerVisit
<1>2. \A p, x \in Calls : Waiting(p) /\ Waiting(x) /\ payments[p].visit = payments[x].visit => p = x
  BY DEF OneClaimPerVisit, verifyingClaims
<1>3. payments \in [Calls -> Payment]
  BY DEF Typed, TypeOK
<1>4. SUFFICES /\ \A p \in Calls : Waiting(p)' => payments'[p].shift = None
               /\ \A p, x \in Calls : Waiting(p)' /\ Waiting(x)'
                    /\ payments'[p].visit = payments'[x].visit => p = x
  BY DEF OneClaimPerVisit, verifyingClaims
<1>5. CASE \A p \in Calls : Waiting(p)' => payments'[p] = payments[p]
  BY <1>1, <1>2, <1>5
<1>6. ASSUME NEW c \in Calls, CommitClaim(c), payments' # payments
      PROVE  /\ \A p \in Calls : Waiting(p)' => payments'[p].shift = None
             /\ \A p, x \in Calls : Waiting(p)' /\ Waiting(x)'
                  /\ payments'[p].visit = payments'[x].visit => p = x
  <2> DEFINE q == calls[c]
  <2>1. /\ payments' = [payments EXCEPT ![c] =
             [status |-> "VERIFYING", key |-> q.key, amount |-> q.amount,
              method |-> q.method, visit |-> q.visit, shift |-> None]]
        /\ \A p \in Calls : Waiting(p) => payments[p].visit # q.visit
    BY <1>6 DEF CommitClaim, ClaimSlotFree, verifyingClaims
  <2> QED
    BY <1>1, <1>2, <1>3, <2>1
<1>7. CASE SomePayment
  <2>1. PICK p \in Calls, row \in Payment, S \in SUBSET Orders, r \in Rates,
             v \in Visits \cup {None} : Settles(p, row, S, r, v)
    BY <1>7 DEF SomePayment
  <2> QED
    BY <1>3, <1>5, <2>1 DEF Settles, RecordPayment
<1>8. ASSUME NEW c \in Calls, rejectClaim(c)
      PROVE  \A p \in Calls : Waiting(p)' => payments'[p] = payments[p]
  BY <1>3, <1>8 DEF rejectClaim, Payment
<1>9. payments' = payments \/ CallNext
  BY DEF Next, vars, OrderNext, SetCharges, createSubmitted, decideGuestOrder, cancel,
     recordKitchenProgress, closeVisit, ShiftNext, openShift, closeShift, ledger
<1> QED
  BY <1>5, <1>6, <1>7, <1>8, <1>9, CallStep DEF CommitRefund, CommitCashMovement, ledger

\* Two guests of a visit who both say they paid leave one claim for the cashier
\* to confirm or to reject.
THEOREM OneClaimPerVisitAlways == Spec => []OneClaimPerVisit
<1>1. Init => OneClaimPerVisit
  BY DEF Init, OneClaimPerVisit, NoPayment
<1>2. Typed /\ OneClaimPerVisit /\ [Next]_vars => Typed' /\ OneClaimPerVisit'
  BY TypedStep, OneClaimPerVisitStep
<1> QED
  BY <1>1, <1>2, TypedInit, PTL DEF Spec

-----------------------------------------------------------------------------
(* Facts that are final                                                      *)

\* A paid bill, the sale it became and a canceled order do not change any more,
\* but for refunds, which only grow.
THEOREM FinalFactsAlwaysStay == Spec => FinalFactsStay
<1> DEFINE Kept(o) == /\ bills'[o] = bills[o]
                      /\ sales'[o].number = sales[o].number
                      /\ sales'[o].total = sales[o].total
                      /\ sales'[o].refunded >= sales[o].refunded
           Final == \A o \in Orders : /\ Paid(o) => Kept(o)
                                      /\ orders[o].status = "CANCELED" => orders'[o] = orders[o]
<1>1. ASSUME Typed, [Next]_vars, NEW o \in Orders, Paid(o)
      PROVE  Kept(o)
  <2>1. sales \in [Orders -> Sale] /\ sales[o].refunded \in Nat
    BY <1>1 DEF Typed, TypeOK, Sale
  <2>2. CASE bills'[o] = bills[o] /\ sales'[o] = sales[o]
    BY <2>1, <2>2
  <2>3. CASE SomePayment
    BY <1>1, <2>2, <2>3, SettledBills DEF SomePayment
  <2>4. ASSUME NEW c \in Calls, NEW x \in Orders, CommitRefund(c, x)
        PROVE  Kept(o)
    <3>1. calls[c].amount \in Nat
      BY <1>1, <2>4, RunningTyped DEF CommitRefund, RequestTyped
    <3> QED
      BY <2>1, <2>4, <3>1 DEF CommitRefund, Sale
  <2>5. (bills' = bills /\ sales' = sales) \/ CallNext
    BY <1>1 DEF Next, vars, OrderNext, SetCharges, createSubmitted, decideGuestOrder, cancel,
       recordKitchenProgress, closeVisit, ShiftNext, openShift, closeShift, ledger
  <2> QED
    BY <1>1, <2>2, <2>3, <2>4, <2>5, CallStep DEF CommitClaim, rejectClaim, CommitCashMovement, ledger
<1>2. ASSUME Typed, [Next]_vars, NEW o \in Orders, orders[o].status = "CANCELED"
      PROVE  orders'[o] = orders[o]
  <2>1. orders \in [Orders -> Order]
    BY <1>2 DEF Typed, TypeOK
  <2>2. ASSUME NEW x \in Orders, NEW progress \in Progress, recordKitchenProgress(x, progress)
        PROVE  x # o
    BY <1>2, <2>2, AmountAssumption DEF recordKitchenProgress, statusesBefore
  <2>3. ASSUME OrderNext
        PROVE  orders'[o] = orders[o]
    BY <1>2, <2>1, <2>2, <2>3 DEF OrderNext, SetCharges, createSubmitted, decideGuestOrder, cancel,
       recordKitchenProgress, closeVisit
  <2> QED
    BY <1>2, <2>3, CallStep DEF Next, vars, ShiftNext, openShift, closeShift
<1>3. Typed /\ [Next]_vars => [Final]_vars
  BY <1>1, <1>2
<1>4. Typed /\ [Next]_vars => Typed'
  BY TypedStep
<1> QED
  BY <1>3, <1>4, TypedInit, PTL DEF Spec, FinalFactsStay

-----------------------------------------------------------------------------
(* The rows of the ledger agree, and answers are backed by them              *)

\* A request has no payment before its transaction ran.
Unspent == \A c \in Calls : calls[c].pc # "done" => payments[c].status = "NONE"

\* A refund is under way for a paid order only.
RefundsOfPaid ==
  \A c \in Calls : Running(c, "refund") => \A o \in calls[c].lines : Paid(o)

\* The unique index on the key: no two payments hold one.
KeyUnique ==
  \A p, x \in Calls : /\ payments[p].status # "NONE" /\ payments[x].status # "NONE"
                      /\ payments[p].key = payments[x].key
                      => p = x

AllocationsOf(o) == {a \in allocations : a.order = o}

\* SettledOnce with its one allocation named.
SettledRow ==
  \A o \in Orders :
    \/ bills[o].status = "NONE" /\ AllocationsOf(o) = {} /\ sales[o].status = "NONE"
    \/ /\ Paid(o) /\ bills[o].paid = bills[o].total
       /\ \E a \in allocations : /\ AllocationsOf(o) = {a} /\ a.amount = bills[o].total
                                 /\ payments[a.payment].status = "PAID"
       /\ sales[o].status # "NONE" /\ sales[o].total = bills[o].total

\* A PAID payment is what its orders cost together under the charges of one
\* moment, and each of them is allocated what it cost by itself.
PaymentAllocated ==
  \A p \in Calls : payments[p].status = "PAID" =>
    \E r \in Rates :
      /\ payments[p].amount = Total[r][Allocated(p)]
      /\ \A a \in allocations : a.payment = p => a.amount = Total[r][{a.order}]

Rows == KeyUnique /\ SettledRow /\ SaleNumbersDense /\ PaymentAllocated

Backed == Unspent /\ RefundsOfPaid /\ Rows /\ AnswerBacked

\* Numbers drawn for the orders S leave none out.
LEMMA NumberingsCover ==
  ASSUME NEW S \in SUBSET Orders, saleNumber \in Nat, NEW f \in Numberings(S)
  PROVE  /\ {f[o] : o \in S} = (saleNumber + 1) .. (saleNumber + Cardinality(S))
         /\ \A a, b \in S : f[a] = f[b] => a = b
         /\ Cardinality(S) \in Nat
<1> DEFINE n == Cardinality(S)
           T == (saleNumber + 1) .. (saleNumber + n)
<1>1. IsFiniteSet(S) /\ n \in Nat
  BY FiniteAssumption, FS_Subset, FS_CardinalityType
<1>2. f \in [S -> T] /\ \A a, b \in S : f[a] = f[b] => a = b
  BY DEF Numberings
<1>3. IsFiniteSet(T) /\ Cardinality(T) = n
  <2>1. saleNumber + 1 \in Int /\ saleNumber + n \in Int
    BY <1>1
  <2>2. /\ IsFiniteSet(T)
        /\ Cardinality(T) = IF saleNumber + 1 > saleNumber + n THEN 0
                            ELSE (saleNumber + n) - (saleNumber + 1) + 1
    BY <2>1, FS_Interval
  <2>3. (IF saleNumber + 1 > saleNumber + n THEN 0
         ELSE (saleNumber + n) - (saleNumber + 1) + 1) = n
    BY <1>1
  <2> QED
    BY <2>2, <2>3
<1> HIDE DEF n, T
<1>4. f \in Injection(S, T)
  BY <1>2 DEF Injection, IsInjective
<1>5. f \in Surjection(S, T)
  BY <1>1, <1>3, <1>4, FS_Injection DEF n
<1>6. {f[o] : o \in S} = T
  BY <1>2, <1>5 DEF Surjection
<1> QED
  BY <1>1, <1>2, <1>6 DEF n, T

\* An allocation belongs to a paid bill and to a PAID payment.
LEMMA AllocationPaid ==
  ASSUME Typed, SettledRow, NEW a \in allocations
  PROVE  a.payment \in Calls /\ a.order \in Orders /\ payments[a.payment].status = "PAID"
<1>1. a.payment \in Calls /\ a.order \in Orders
  BY DEF Typed, TypeOK, Allocation
<1>2. a \in AllocationsOf(a.order)
  BY DEF AllocationsOf
<1> QED
  BY <1>1, <1>2 DEF SettledRow

\* The checkout a key looks up is backed by the payment that holds the key.
LEMMA LookupBacked ==
  ASSUME Typed, KeyUnique, SettledRow, NEW k, NEW answer, answer # {},
         answer = findSessionCheckoutByIdempotencyKey(k) \/ answer \in findCheckoutByIdempotencyKey(k)
  PROVE  \E p \in Calls : payments[p].status = "PAID" /\ payments[p].key = k
                          /\ answer \subseteq Allocated(p)
<1>1. answer \subseteq UNION {Allocated(p) : p \in KeyHolders(k)}
  BY DEF findSessionCheckoutByIdempotencyKey, findCheckoutByIdempotencyKey
<1>2. PICK o \in answer : TRUE
  OBVIOUS
<1>3. PICK p \in KeyHolders(k) : o \in Allocated(p)
  BY <1>1, <1>2
<1>4. p \in Calls /\ payments[p].status # "NONE" /\ payments[p].key = k
  BY <1>3 DEF KeyHolders
<1>5. \A x \in KeyHolders(k) : x = p
  BY <1>4 DEF KeyHolders, KeyUnique
<1>6. payments[p].status = "PAID"
  BY <1>3, AllocationPaid DEF Allocated
<1> QED
  BY <1>1, <1>4, <1>5, <1>6

-----------------------------------------------------------------------------
(* What a step does to the rows                                              *)

\* A payment as its transaction records it, with all it checked.
Checked(p, row, S, r, v) ==
  /\ Settles(p, row, S, r, v)
  /\ payments[p].status \in {"NONE", "VERIFYING"}
  /\ KeyHolders(row.key) \subseteq {p}
  /\ row.amount = Total[r][S]

\* The allocations after f[o] was added for each order o of S.
LEMMA Added ==
  ASSUME NEW A, NEW B, NEW p, NEW S, NEW f,
         \A o \in S : f[o].payment = p /\ f[o].order = o,
         \A a : a \in B <=> a \in A \/ \E o \in S : a = f[o],
         \A a \in A : a.payment # p
  PROVE  /\ {b \in B : b.payment = p} = {f[o] : o \in S}
         /\ \A x : x # p => {b \in B : b.payment = x} = {b \in A : b.payment = x}
         /\ \A o : o \notin S => {b \in B : b.order = o} = {b \in A : b.order = o}
         /\ \A o \in S : {b \in A : b.order = o} = {} => {b \in B : b.order = o} = {f[o]}
  OBVIOUS

LEMMA PaymentRows ==
  ASSUME Typed, Rows, NEW p \in Calls, NEW row \in Payment, NEW S \in SUBSET Orders,
         NEW r \in Rates, NEW v \in Visits \cup {None}, Checked(p, row, S, r, v)
  PROVE  /\ Rows' /\ payments' = [payments EXCEPT ![p] = row] /\ row.status = "PAID"
         /\ \A x \in Calls : payments[x].status = "PAID" =>
              payments'[x] = payments[x] /\ Allocated(x) \subseteq Allocated(x)'
         /\ \A o \in Orders : Paid(o) => Paid(o)'
         /\ S \subseteq Allocated(p)'
         /\ Allocated(p)' = S /\ \A x \in Calls \ {p} : Allocated(x)' = Allocated(x)
<1>1. /\ bills' = [o \in Orders |->
           IF o \in S
             THEN [status |-> "PAID", total |-> Total[r][{o}], paid |-> Total[r][{o}],
                   visit |-> v]
             ELSE bills[o]]
      /\ payments' = [payments EXCEPT ![p] = row]
      /\ allocations' = allocations \cup
           {[payment |-> p, order |-> o, amount |-> Total[r][{o}]] : o \in S}
      /\ saleNumber' = saleNumber + Cardinality(S)
  BY DEF Checked, Settles, RecordPayment
<1>2. PICK number \in Numberings(S) :
        sales' = [o \in Orders |->
          IF o \in S THEN [status |-> "COMPLETED", number |-> number[o],
                           total |-> Total[r][{o}], refunded |-> 0]
                     ELSE sales[o]]
  BY DEF Checked, Settles, RecordPayment
<1>3. /\ row.status = "PAID" /\ row.amount = Total[r][S]
      /\ payments[p].status \in {"NONE", "VERIFYING"}
      /\ \A x \in Calls : payments[x].status # "NONE" /\ payments[x].key = row.key => x = p
      /\ \A o \in S : bills[o].status \in {"NONE", "UNPAID"}
  BY DEF Checked, Settles, Settleable, KeyHolders
<1>4. /\ payments \in [Calls -> Payment] /\ saleNumber \in Nat /\ sales \in [Orders -> Sale]
      /\ bills \in [Orders -> Bill]
  BY DEF Typed, TypeOK
<1>5. payments'[p] = row /\ \A x \in Calls \ {p} : payments'[x] = payments[x]
  BY <1>1, <1>4
<1>6. \A o \in S : bills[o].status = "NONE" /\ AllocationsOf(o) = {} /\ sales[o].status = "NONE"
  BY <1>3 DEF Rows, SettledRow, Paid
<1>7. \A a \in allocations : a.payment # p /\ a.payment \in Calls /\ a.order \in Orders
                             /\ payments[a.payment].status = "PAID"
  BY <1>3, AllocationPaid DEF Rows
<1>30. PICK entry :
        /\ \A o \in S : entry[o].payment = p /\ entry[o].order = o /\ entry[o].amount = Total[r][{o}]
        /\ \A a : a \in allocations' <=> a \in allocations \/ \E o \in S : a = entry[o]
  <2> DEFINE row0(o) == [payment |-> p, order |-> o, amount |-> Total[r][{o}]]
             added == [o \in S |-> row0(o)]
  <2>1. \A o \in S : /\ added[o].payment = p /\ added[o].order = o
                      /\ added[o].amount = Total[r][{o}]
    OBVIOUS
  <2>2. \A a : a \in allocations' <=> a \in allocations \/ \E o \in S : a = added[o]
    BY <1>1
  <2> HIDE DEF added
  <2> QED
    BY <2>1, <2>2
<1>8. \A o \in S : entry[o].payment = p /\ entry[o].order = o
  BY <1>30
<1>31. \A o \in S : entry[o].amount = Total[r][{o}]
  BY <1>30
<1>17. \A a : a \in allocations' <=> a \in allocations \/ \E o \in S : a = entry[o]
  BY <1>30
<1>18. /\ {b \in allocations' : b.payment = p} = {entry[o] : o \in S}
       /\ \A x : x # p => {b \in allocations' : b.payment = x} = {b \in allocations : b.payment = x}
       /\ \A o : o \notin S => {b \in allocations' : b.order = o} = {b \in allocations : b.order = o}
       /\ \A o \in S : {b \in allocations : b.order = o} = {} => {b \in allocations' : b.order = o} = {entry[o]}
  BY <1>7, <1>8, <1>17, Added
<1>9. /\ \A o \in Orders \ S : AllocationsOf(o)' = AllocationsOf(o)
      /\ \A o \in S : AllocationsOf(o)' = {entry[o]} /\ entry[o] \in allocations'
  BY <1>6, <1>17, <1>18 DEF AllocationsOf
<1>10. Allocated(p)' = S /\ \A x \in Calls \ {p} : Allocated(x)' = Allocated(x)
  <2>1. {a.order : a \in {entry[o] : o \in S}} = S
    BY <1>8
  <2> QED
    BY <1>18, <2>1 DEF Allocated
<1>11. KeyUnique'
  BY <1>3, <1>5 DEF Rows, KeyUnique
<1>12. SettledRow'
  <2> SUFFICES ASSUME NEW o \in Orders
               PROVE
    \/ bills'[o].status = "NONE" /\ AllocationsOf(o)' = {} /\ sales'[o].status = "NONE"
    \/ /\ bills'[o].status = "PAID" /\ bills'[o].paid = bills'[o].total
       /\ \E a \in allocations' : /\ AllocationsOf(o)' = {a} /\ a.amount = bills'[o].total
                                  /\ payments'[a.payment].status = "PAID"
       /\ sales'[o].status # "NONE" /\ sales'[o].total = bills'[o].total
    BY DEF SettledRow, Paid
  <2>1. CASE o \in S
    <3>1. /\ bills'[o].status = "PAID" /\ bills'[o].paid = Total[r][{o}]
          /\ bills'[o].total = Total[r][{o}]
      BY <1>1, <2>1
    <3>2. sales'[o].status = "COMPLETED" /\ sales'[o].total = Total[r][{o}]
      BY <1>2, <2>1
    <3> QED
      BY <1>3, <1>5, <1>8, <1>31, <1>9, <2>1, <3>1, <3>2
  <2>2. CASE o \notin S
    <3>1. bills'[o] = bills[o] /\ sales'[o] = sales[o] /\ AllocationsOf(o)' = AllocationsOf(o)
      BY <1>1, <1>2, <1>9, <2>2
    <3>2. \A a \in allocations : payments'[a.payment] = payments[a.payment] /\ a \in allocations'
      BY <1>1, <1>5, <1>7
    <3> QED
      BY <3>1, <3>2 DEF Rows, SettledRow, Paid
  <2> QED
    BY <2>1, <2>2
<1>13. SaleNumbersDense'
  <2> DEFINE sold == {o \in Orders : sales[o].status # "NONE"}
             n == Cardinality(S)
  <2>1. /\ {sales[o].number : o \in sold} = 1 .. saleNumber
        /\ \A a, b \in sold : sales[a].number = sales[b].number => a = b
    BY DEF Rows, SaleNumbersDense
  <2>2. /\ {number[o] : o \in S} = (saleNumber + 1) .. (saleNumber + n)
        /\ \A a, b \in S : number[a] = number[b] => a = b
        /\ n \in Nat
    BY <1>4, NumberingsCover
  <2>3. {o \in Orders : sales'[o].status # "NONE"} = sold \cup S /\ sold \cap S = {}
    BY <1>2, <1>6
  <2>4. /\ \A o \in sold : sales'[o].number = sales[o].number
        /\ \A o \in S : sales'[o].number = number[o]
    BY <1>2, <2>3
  <2>5. \A i \in 1 .. saleNumber, j \in (saleNumber + 1) .. (saleNumber + n) : i # j
    BY <1>4, <2>2
  <2>6. (1 .. saleNumber) \cup ((saleNumber + 1) .. (saleNumber + n)) = 1 .. (saleNumber + n)
    BY <1>4, <2>2
  <2> HIDE DEF sold, n
  <2>7. {sales'[o].number : o \in sold \cup S} = 1 .. (saleNumber + n)
    <3>1. {sales'[o].number : o \in sold \cup S}
            = {sales[o].number : o \in sold} \cup {number[o] : o \in S}
      BY <2>4
    <3> QED
      BY <2>1, <2>2, <2>6, <3>1
  <2>8. ASSUME NEW a \in sold \cup S, NEW b \in sold \cup S, sales'[a].number = sales'[b].number
        PROVE  a = b
    <3>1. \A o \in sold : sales'[o].number \in 1 .. saleNumber
      BY <2>1, <2>4
    <3>2. \A o \in S : sales'[o].number \in (saleNumber + 1) .. (saleNumber + n)
      BY <2>2, <2>4
    <3> QED
      BY <2>1, <2>2, <2>4, <2>5, <2>8, <3>1, <3>2
  <2> QED
    BY <1>1, <2>3, <2>7, <2>8 DEF SaleNumbersDense, n
<1>14. PaymentAllocated'
  <2> SUFFICES ASSUME NEW x \in Calls, payments'[x].status = "PAID"
               PROVE  \E y \in Rates :
                        /\ payments'[x].amount = Total[y][Allocated(x)']
                        /\ \A a \in allocations' : a.payment = x => a.amount = Total[y][{a.order}]
    BY DEF PaymentAllocated
  <2>1. CASE x = p
    <3>1. payments'[x].amount = Total[r][Allocated(x)']
      BY <1>3, <1>5, <1>10, <2>1
    <3>2. \A a \in allocations' : a.payment = x => a.amount = Total[r][{a.order}]
      BY <1>7, <1>8, <1>17, <1>31, <2>1
    <3> QED
      BY <3>1, <3>2
  <2>2. CASE x # p
    <3>1. payments'[x] = payments[x] /\ Allocated(x)' = Allocated(x)
      BY <1>5, <1>10, <2>2
    <3>2. \A a \in allocations' : a.payment = x => a \in allocations
      BY <1>8, <1>17, <2>2
    <3> QED
      BY <3>1, <3>2 DEF Rows, PaymentAllocated
  <2> QED
    BY <2>1, <2>2
<1>15. \A o \in Orders : Paid(o) => Paid(o)'
  BY <1>1 DEF Paid
<1>16. \A x \in Calls : payments[x].status = "PAID" =>
         payments'[x] = payments[x] /\ Allocated(x) \subseteq Allocated(x)'
  BY <1>3, <1>5, <1>10
<1> QED
  BY <1>1, <1>3, <1>10, <1>11, <1>12, <1>13, <1>14, <1>15, <1>16 DEF Rows

\* Nothing the rows are made of changed, but payments that are not PAID.
LEMMA ClaimRows ==
  ASSUME Typed, Rows, UNCHANGED <<bills, allocations, sales, saleNumber>>,
         NEW p \in Calls, NEW row, payments' = [payments EXCEPT ![p] = row],
         row.status # "PAID", payments[p].status # "PAID",
         row.status # "NONE" =>
           \A x \in Calls \ {p} : payments[x].status # "NONE" => payments[x].key # row.key
  PROVE  /\ Rows'
         /\ \A x \in Calls : payments[x].status = "PAID" =>
              payments'[x] = payments[x] /\ Allocated(x) \subseteq Allocated(x)'
         /\ \A o \in Orders : Paid(o) => Paid(o)'
<1>1. payments'[p] = row /\ \A x \in Calls \ {p} : payments'[x] = payments[x]
  BY DEF Typed, TypeOK
<1>2. \A x : Allocated(x)' = Allocated(x) /\ AllocationsOf(x)' = AllocationsOf(x)
  BY DEF Allocated, AllocationsOf
<1>3. KeyUnique'
  BY <1>1 DEF Rows, KeyUnique
<1>4. SettledRow'
  <2>1. \A a \in allocations : payments'[a.payment] = payments[a.payment]
    BY <1>1, AllocationPaid DEF Rows
  <2> QED
    BY <1>2, <2>1 DEF Rows, SettledRow, Paid
<1>5. SaleNumbersDense'
  BY DEF Rows, SaleNumbersDense
<1>6. PaymentAllocated'
  BY <1>1, <1>2 DEF Rows, PaymentAllocated
<1> QED
  BY <1>1, <1>2, <1>3, <1>4, <1>5, <1>6 DEF Rows, Paid

\* A refund of a paid order leaves its sale one of the same number and total.
LEMMA RefundRows ==
  ASSUME Typed, Rows, NEW c \in Calls, NEW o \in Orders, CommitRefund(c, o), Paid(o)
  PROVE  /\ Rows'
         /\ UNCHANGED <<bills, payments, allocations>>
<1>1. UNCHANGED <<bills, payments, allocations, saleNumber>>
  BY DEF CommitRefund
<1>2. sales \in [Orders -> Sale] /\ sales[o].status # "NONE"
  BY DEF Typed, TypeOK, Rows, SettledRow, Paid
<1>3. \A x \in Orders : /\ sales'[x].number = sales[x].number
                        /\ sales'[x].total = sales[x].total
                        /\ (sales'[x].status = "NONE") = (sales[x].status = "NONE")
  <2>1. CASE sales' = sales
    BY <2>1
  <2>2. CASE sales' # sales
    <3>1. PICK n, t : sales' = [sales EXCEPT ![o].refunded = n, ![o].status = t]
                      /\ t \in {"REFUNDED", "PARTIALLY_REFUNDED"}
      BY <2>2 DEF CommitRefund
    <3>2. /\ \A x \in Orders \ {o} : sales'[x] = sales[x]
          /\ sales'[o] = [sales[o] EXCEPT !.refunded = n, !.status = t]
      BY <1>2, <3>1
    <3>3. PICK old \in Sale : old = sales[o]
      BY <1>2
    <3>4. /\ [old EXCEPT !.refunded = n, !.status = t].number = old.number
          /\ [old EXCEPT !.refunded = n, !.status = t].total = old.total
          /\ [old EXCEPT !.refunded = n, !.status = t].status = t
      BY DEF Sale
    <3> QED
      BY <1>2, <3>1, <3>2, <3>3, <3>4
  <2> QED
    BY <2>1, <2>2
<1>4. SettledRow'
  BY <1>1, <1>3 DEF Rows, SettledRow, Paid, AllocationsOf
<1>5. SaleNumbersDense'
  <2>1. {x \in Orders : sales'[x].status # "NONE"} = {x \in Orders : sales[x].status # "NONE"}
    BY <1>3
  <2> QED
    BY <1>1, <1>3, <2>1 DEF Rows, SaleNumbersDense
<1>6. KeyUnique' /\ PaymentAllocated'
  BY <1>1 DEF Rows, KeyUnique, PaymentAllocated, Allocated
<1> QED
  BY <1>1, <1>4, <1>5, <1>6 DEF Rows

-----------------------------------------------------------------------------
(* What a step does to the requests                                          *)

LEMMA FinishFields ==
  ASSUME Typed, NEW c \in Calls, NEW q, q.op \in Operations, q.key \in Keys \cup {None},
         q.lines \in SUBSET Orders, NEW answer \in SUBSET Orders, Finish(c, q, answer)
  PROVE  /\ \A x \in Calls \ {c} : calls'[x] = calls[x]
         /\ calls'[c].pc = "done" /\ calls'[c].op = q.op /\ calls'[c].key = q.key
         /\ calls'[c].answer = answer
<1>1. PICK r \in Call : r = Request(q.op, q.key, q.lines) /\ r.op = q.op /\ r.key = q.key
  BY RequestType
<1>2. calls' = [calls EXCEPT ![c] = [r EXCEPT !.pc = "done", !.answer = answer]]
  BY <1>1 DEF Finish
<1>3. /\ [r EXCEPT !.pc = "done", !.answer = answer].pc = "done"
      /\ [r EXCEPT !.pc = "done", !.answer = answer].op = r.op
      /\ [r EXCEPT !.pc = "done", !.answer = answer].key = r.key
      /\ [r EXCEPT !.pc = "done", !.answer = answer].answer = answer
  BY DEF Call
<1> QED
  BY <1>1, <1>2, <1>3 DEF Typed, TypeOK

\* The answer of request c is backed by a payment under its key.
AnswerOf(c) ==
  calls[c].op \in {"payOrder", "payVisit"} /\ calls[c].answer # {} =>
    \E p \in Calls : /\ payments[p].status = "PAID" /\ payments[p].key = calls[c].key
                     /\ calls[c].answer \subseteq Allocated(p)

LEMMA AnswersOf == AnswerBacked <=> \A c \in Calls : AnswerOf(c)
  BY DEF AnswerBacked, AnswerOf, KeyHolders

\* The requests other than c stand still; c was answered, or began.
Requests(c) ==
  /\ \A x \in Calls \ {c} : calls'[x] = calls[x]
  /\ \/ calls'[c].pc = "done"
     \/ /\ calls[c].pc = "idle"
        /\ calls'[c].op = "refund" => \A o \in calls'[c].lines : o \in Orders /\ Paid(o)
        /\ calls'[c].answer = {}

\* What has to be shown of a step of request c.
Goes(c) ==
  /\ Rows'
  /\ \A x \in Calls : payments[x].status = "PAID" =>
       payments'[x] = payments[x] /\ Allocated(x) \subseteq Allocated(x)'
  /\ \A o \in Orders : Paid(o) => Paid(o)'
  /\ \A x \in Calls : payments'[x].status # "NONE" =>
       payments[x].status # "NONE" \/ (x = c /\ calls'[c].pc = "done")
  /\ Requests(c)
  /\ AnswerOf(c)'

LEMMA GoesBacked ==
  ASSUME Typed, Backed, NEW c \in Calls, Goes(c)
  PROVE  Backed'
<1>1. Unspent'
  BY DEF Backed, Unspent, Goes, Requests
<1>2. RefundsOfPaid'
  <2> SUFFICES ASSUME NEW x \in Calls, calls'[x].pc = "running", calls'[x].op = "refund",
                      NEW o \in calls'[x].lines
               PROVE  Paid(o)'
    BY DEF RefundsOfPaid, Running
  <2>1. calls \in [Calls -> Call] /\ \A y \in Calls : calls[y].lines \subseteq Orders
    BY DEF Typed, TypeOK, Call
  <2>2. CASE x # c
    BY <2>1, <2>2 DEF Backed, RefundsOfPaid, Running, Goes, Requests, Paid
  <2>3. CASE x = c
    BY <2>3 DEF Goes, Requests, Paid
  <2> QED
    BY <2>2, <2>3
<1>3. AnswerBacked'
  <2> SUFFICES ASSUME NEW x \in Calls PROVE AnswerOf(x)'
    BY DEF AnswerBacked, AnswerOf, KeyHolders
  <2>1. CASE x # c
    <3>1. calls'[x] = calls[x]
      BY <2>1 DEF Goes, Requests
    <3>2. AnswerOf(x)
      BY AnswersOf DEF Backed
    <3> QED
      BY <3>1, <3>2 DEF AnswerOf, Goes
  <2> QED
    BY <2>1 DEF Goes
<1> QED
  BY <1>1, <1>2, <1>3 DEF Backed, Goes

-----------------------------------------------------------------------------
(* The steps of a request, one by one                                        *)

\* A step that leaves the ledger alone.
LEMMA QuietGoes ==
  ASSUME Typed, Backed, NEW c \in Calls, UNCHANGED ledger, Requests(c),
         calls'[c].op \in {"payOrder", "payVisit"} /\ calls'[c].answer # {} =>
           \E p \in Calls : /\ payments[p].status = "PAID" /\ payments[p].key = calls'[c].key
                            /\ calls'[c].answer \subseteq Allocated(p)
  PROVE  Goes(c)
<1>2. /\ payments' = payments /\ bills' = bills
      /\ \A x : Allocated(x)' = Allocated(x)
  BY DEF ledger, Allocated
<1>1. Rows'
  <2>1. Rows /\ UNCHANGED <<bills, payments, allocations, sales, saleNumber>>
    BY DEF Backed, ledger
  <2>2. KeyUnique'
    BY <2>1 DEF Rows, KeyUnique
  <2>3. SettledRow'
    BY <2>1 DEF Rows, SettledRow, Paid, AllocationsOf
  <2>4. SaleNumbersDense'
    BY <2>1 DEF Rows, SaleNumbersDense
  <2>5. PaymentAllocated'
    BY <1>2, <2>1 DEF Rows, PaymentAllocated
  <2> QED
    BY <2>2, <2>3, <2>4, <2>5 DEF Rows
<1> QED
  BY <1>1, <1>2 DEF Goes, Paid, AnswerOf

\* A request that is answered and leaves the ledger alone: with nothing, or with
\* what was saved under its key.
LEMMA AnsweredGoes ==
  ASSUME Typed, Backed, NEW c \in Calls, UNCHANGED ledger,
         NEW q, q.op \in Operations, q.key \in Keys \cup {None}, q.lines \in SUBSET Orders,
         NEW answer \in SUBSET Orders, Finish(c, q, answer),
         \/ answer = {} \/ q.op \notin {"payOrder", "payVisit"}
         \/ answer = findSessionCheckoutByIdempotencyKey(q.key)
         \/ answer \in findCheckoutByIdempotencyKey(q.key)
  PROVE  Goes(c)
<1>1. /\ \A x \in Calls \ {c} : calls'[x] = calls[x]
      /\ calls'[c].pc = "done" /\ calls'[c].op = q.op /\ calls'[c].key = q.key
      /\ calls'[c].answer = answer
  BY FinishFields
<1>2. Requests(c)
  BY <1>1 DEF Requests
<1>3. q.op \in {"payOrder", "payVisit"} /\ answer # {} =>
        \E p \in Calls : /\ payments[p].status = "PAID" /\ payments[p].key = q.key
                         /\ answer \subseteq Allocated(p)
  <2> SUFFICES ASSUME q.op \in {"payOrder", "payVisit"}, answer # {}
               PROVE  \E p \in Calls : /\ payments[p].status = "PAID" /\ payments[p].key = q.key
                                       /\ answer \subseteq Allocated(p)
    OBVIOUS
  <2>1. KeyUnique /\ SettledRow
    BY DEF Backed, Rows
  <2>2. PICK k : k = q.key
    OBVIOUS
  <2>3. answer = findSessionCheckoutByIdempotencyKey(k) \/ answer \in findCheckoutByIdempotencyKey(k)
    BY <2>2
  <2> QED
    BY <2>1, <2>2, <2>3, LookupBacked
<1> QED
  BY <1>1, <1>2, <1>3, QuietGoes

\* A request that begins.
LEMMA BeginsGoes ==
  ASSUME Typed, Backed, NEW c \in Calls, UNCHANGED ledger, NEW q, Start(c, q), q.answer = {},
         q.op = "refund" => \A o \in q.lines : o \in Orders /\ Paid(o)
  PROVE  Goes(c)
<1>1. calls[c].pc = "idle" /\ calls'[c] = q /\ \A x \in Calls \ {c} : calls'[x] = calls[x]
  BY DEF Start, Typed, TypeOK
<1> QED
  BY <1>1, QuietGoes DEF Requests

\* A payment that was recorded.
LEMMA PaidGoes ==
  ASSUME Typed, Backed, NEW c \in Calls, calls[c].pc = "running",
         NEW p \in Calls, NEW row \in Payment, NEW S \in SUBSET Orders, NEW r \in Rates,
         NEW v \in Visits \cup {None}, Settles(p, row, S, r, v),
         p = c \/ payments[p].status = "VERIFYING",
         KeyHolders(row.key) \subseteq {p}, row.amount = Total[r][S],
         NEW q, q.op \in Operations, q.key = row.key, q.key \in Keys \cup {None},
         q.lines = S, Finish(c, q, S)
  PROVE  Goes(c)
<1>1. Checked(p, row, S, r, v)
  BY DEF Checked, Backed, Unspent
<1>2. /\ Rows' /\ payments' = [payments EXCEPT ![p] = row] /\ row.status = "PAID"
      /\ \A x \in Calls : payments[x].status = "PAID" =>
           payments'[x] = payments[x] /\ Allocated(x) \subseteq Allocated(x)'
      /\ \A o \in Orders : Paid(o) => Paid(o)'
      /\ S \subseteq Allocated(p)'
  <2>1. Rows
    BY DEF Backed
  <2>2. Rows' /\ payments' = [payments EXCEPT ![p] = row] /\ row.status = "PAID"
    BY <1>1, <2>1, PaymentRows
  <2>3. \A x \in Calls : payments[x].status = "PAID" =>
          payments'[x] = payments[x] /\ Allocated(x) \subseteq Allocated(x)'
    BY <1>1, <2>1, PaymentRows
  <2>4. \A o \in Orders : Paid(o) => Paid(o)'
    BY <1>1, <2>1, PaymentRows
  <2>5. S \subseteq Allocated(p)'
    BY <1>1, <2>1, PaymentRows
  <2> QED
    BY <2>2, <2>3, <2>4, <2>5
<1>3. /\ \A x \in Calls \ {c} : calls'[x] = calls[x]
      /\ calls'[c].pc = "done" /\ calls'[c].op = q.op /\ calls'[c].key = q.key
      /\ calls'[c].answer = S
  BY FinishFields
<1>4. payments'[p] = row /\ \A x \in Calls \ {p} : payments'[x] = payments[x]
  BY <1>2 DEF Typed, TypeOK
<1>5. \A x \in Calls : payments'[x].status # "NONE" =>
        payments[x].status # "NONE" \/ (x = c /\ calls'[c].pc = "done")
  BY <1>3, <1>4
<1>6. AnswerOf(c)'
  BY <1>2, <1>3, <1>4 DEF AnswerOf
<1>7. Requests(c)
  BY <1>3 DEF Requests
<1> QED
  BY <1>2, <1>5, <1>6, <1>7 DEF Goes

LEMMA PayOrderGoes ==
  ASSUME Typed, Backed, NEW c \in Calls, NEW o \in Orders, CommitPayOrder(c, o)
  PROVE  Goes(c)
<1>1. PICK q : q = calls[c]
  OBVIOUS
<1>2. /\ q \in Call /\ q.rate \in Rates /\ q.op \in Operations /\ q.key \in Keys \cup {None}
      /\ q.lines \in SUBSET Orders /\ q.pc = "running"
  BY <1>1, RunningTyped DEF CommitPayOrder, RequestTyped, Running
<1>3. CASE UNCHANGED <<ledger, shifts>> /\ Finish(c, q, {})
  <2>1. {} \in SUBSET Orders
    OBVIOUS
  <2> QED
    BY <1>2, <1>3, <2>1, AnsweredGoes
<1>4. CASE UNCHANGED <<ledger, shifts>> /\ \E replayed \in findCheckoutByIdempotencyKey(q.key) : Finish(c, q, replayed)
  <2>1. PICK replayed \in findCheckoutByIdempotencyKey(q.key) : Finish(c, q, replayed)
    BY <1>4
  <2>2. replayed \in SUBSET Orders
    BY <2>1, CheckoutType DEF Typed
  <2> QED
    BY <1>2, <1>4, <2>1, <2>2, AnsweredGoes
<1>5. CASE /\ lockShift(q.shift) /\ Payable(o) /\ Settleable(o, q.rate)
           /\ KeyHolders(q.key) = {}
           /\ RecordPayment(c, PaidRow(q, Total[q.rate][{o}]), {o}, q.rate, None)
           /\ Finish(c, q, {o}) /\ q.lines = {o}
  <2>1. PICK row : row = PaidRow(q, Total[q.rate][{o}])
    OBVIOUS
  <2>2. row \in Payment /\ row.shift = q.shift /\ row.status = "PAID" /\ row.key = q.key
        /\ row.amount = Total[q.rate][{o}]
    BY <1>2, <2>1, TotalType DEF PaidRow, Payment, Call
  <2>3. Settles(c, row, {o}, q.rate, None)
    BY <1>5, <2>1, <2>2 DEF Settles
  <2>4. {o} \in SUBSET Orders /\ None \in Visits \cup {None}
    OBVIOUS
  <2> QED
    BY <1>1, <1>2, <1>5, <2>2, <2>3, <2>4, PaidGoes
<1> QED
  BY <1>1, <1>3, <1>4, <1>5 DEF CommitPayOrder

LEMMA PayVisitGoes ==
  ASSUME Typed, Backed, NEW c \in Calls, CommitPayVisit(c)
  PROVE  Goes(c)
<1>1. PICK q : q = calls[c]
  OBVIOUS
<1>2. /\ q \in Call /\ q.rate \in Rates /\ q.op \in Operations /\ q.key \in Keys \cup {None}
      /\ q.lines \in SUBSET Orders /\ q.pc = "running" /\ q.visit \in Visits \cup {None}
      /\ q.shift \in Shifts /\ q.claim \in Calls \cup {None}
  BY <1>1, RunningTyped DEF CommitPayVisit, RequestTyped, Running, Call
<1>3. CASE UNCHANGED <<ledger, shifts>> /\ Finish(c, q, {})
  <2>1. {} \in SUBSET Orders
    OBVIOUS
  <2> QED
    BY <1>2, <1>3, <2>1, AnsweredGoes
<1>4. CASE UNCHANGED <<ledger, shifts>> /\ Finish(c, q, findSessionCheckoutByIdempotencyKey(q.key))
  <2>1. findSessionCheckoutByIdempotencyKey(q.key) \in SUBSET Orders
    BY CheckoutType DEF Typed
  <2> QED
    BY <1>2, <1>4, <2>1, AnsweredGoes
<1>5. ASSUME /\ lockShift(q.shift) /\ \A o \in q.lines : Payable(o) /\ Settleable(o, q.rate)
             /\ Finish(c, q, q.lines),
             NEW p \in Calls, NEW row \in Payment,
             p = c \/ payments[p].status = "VERIFYING",
             RecordPayment(p, row, q.lines, q.rate, q.visit), KeyHolders(q.key) \subseteq {p},
             row.shift = q.shift, row.status = "PAID", row.key = q.key,
             row.amount = Total[q.rate][q.lines]
      PROVE  Goes(c)
  <2>1. Settles(p, row, q.lines, q.rate, q.visit)
    BY <1>5 DEF Settles
  <2> QED
    BY <1>1, <1>2, <1>5, <2>1, PaidGoes
<1>6. CASE /\ lockShift(q.shift) /\ \A o \in q.lines : Payable(o) /\ Settleable(o, q.rate)
           /\ Finish(c, q, q.lines) /\ q.claim = None /\ KeyHolders(q.key) \subseteq {q.claim}
           /\ RecordPayment(c, PaidRow(q, Total[q.rate][q.lines]), q.lines, q.rate, q.visit)
  <2>1. PICK row : row = PaidRow(q, Total[q.rate][q.lines])
    OBVIOUS
  <2>2. row \in Payment /\ row.shift = q.shift /\ row.status = "PAID" /\ row.key = q.key
        /\ row.amount = Total[q.rate][q.lines]
    BY <1>2, <2>1, TotalType DEF PaidRow, Payment, Call
  <2>3. KeyHolders(q.key) \subseteq {c}
    BY <1>6, NoneAssumption DEF KeyHolders
  <2> QED
    BY <1>5, <1>6, <2>1, <2>2, <2>3
<1>7. CASE /\ lockShift(q.shift) /\ \A o \in q.lines : Payable(o) /\ Settleable(o, q.rate)
           /\ Finish(c, q, q.lines) /\ q.claim # None /\ KeyHolders(q.key) \subseteq {q.claim}
           /\ Confirmable(q)
           /\ RecordPayment(q.claim,
                [payments[q.claim] EXCEPT !.status = "PAID", !.key = q.key, !.shift = q.shift],
                q.lines, q.rate, q.visit)
  <2>1. PICK p \in Calls, old \in Payment : p = q.claim /\ old = payments[p]
    BY <1>2, <1>7 DEF Typed, TypeOK
  <2>2. old.status = "VERIFYING" /\ old.amount = Total[q.rate][q.lines]
    BY <1>7, <2>1 DEF Confirmable
  <2>3. PICK k \in Keys \cup {None}, s \in Shifts : k = q.key /\ s = q.shift
    BY <1>2
  <2> DEFINE row == [old EXCEPT !.status = "PAID", !.key = k, !.shift = s]
  <2>4. row \in Payment /\ row.shift = s /\ row.status = "PAID" /\ row.key = k
        /\ row.amount = old.amount
    BY DEF Payment
  <2>5. RecordPayment(p, row, q.lines, q.rate, q.visit)
    BY <1>7, <2>1, <2>3
  <2> HIDE DEF row
  <2> QED
    BY <1>5, <1>7, <2>1, <2>2, <2>3, <2>4, <2>5
<1> QED
  <2>1. \/ /\ UNCHANGED <<ledger, shifts>>
           /\ \/ Finish(c, q, {}) \/ Finish(c, q, findSessionCheckoutByIdempotencyKey(q.key))
        \/ /\ lockShift(q.shift) /\ \A o \in q.lines : Payable(o) /\ Settleable(o, q.rate)
           /\ Finish(c, q, q.lines) /\ KeyHolders(q.key) \subseteq {q.claim}
           /\ q.claim # None => Confirmable(q)
           /\ \/ /\ q.claim = None
                 /\ RecordPayment(c, PaidRow(q, Total[q.rate][q.lines]), q.lines, q.rate, q.visit)
              \/ /\ q.claim # None
                 /\ RecordPayment(q.claim,
                      [payments[q.claim] EXCEPT !.status = "PAID", !.key = q.key,
                                                !.shift = q.shift],
                      q.lines, q.rate, q.visit)
    BY <1>1 DEF CommitPayVisit
  <2> QED
    BY <1>3, <1>4, <1>6, <1>7, <2>1

\* A claim that is made or rejected.
LEMMA ClaimGoes ==
  ASSUME Typed, Backed, NEW c \in Calls, CommitClaim(c) \/ rejectClaim(c)
  PROVE  Goes(c)
<1>1. CASE CommitClaim(c)
  <2>1. PICK q : q = calls[c]
    OBVIOUS
  <2>2. /\ q.op = "claim" /\ q.op \in Operations /\ q.key \in Keys \cup {None}
        /\ q.lines \in SUBSET Orders /\ q.pc = "running" /\ Finish(c, q, {})
        /\ {} \in SUBSET Orders
    BY <1>1, <2>1, RunningTyped DEF CommitClaim, Running
  <2>3. CASE payments' = payments
    <3>1. UNCHANGED ledger
      BY <1>1, <2>3 DEF CommitClaim, ledger
    <3> QED
      BY <2>2, <3>1, AnsweredGoes
  <2>4. CASE payments' # payments
    <3> DEFINE row == [status |-> "VERIFYING", key |-> q.key, amount |-> q.amount,
                       method |-> q.method, visit |-> q.visit, shift |-> None]
    <3>1. /\ payments' = [payments EXCEPT ![c] = row] /\ KeyHolders(q.key) = {}
          /\ UNCHANGED <<bills, allocations, sales, saleNumber>>
      BY <1>1, <2>1, <2>4 DEF CommitClaim
    <3>2. row.status = "VERIFYING" /\ row.key = q.key
      OBVIOUS
    <3> HIDE DEF row
    <3>3. payments[c].status = "NONE"
      BY <2>1, <2>2 DEF Backed, Unspent
    <3>4. \A x \in Calls \ {c} : payments[x].status # "NONE" => payments[x].key # row.key
      BY <3>1, <3>2 DEF KeyHolders
    <3>5. Rows
      BY DEF Backed
    <3>6. /\ Rows'
          /\ \A x \in Calls : payments[x].status = "PAID" =>
               payments'[x] = payments[x] /\ Allocated(x) \subseteq Allocated(x)'
          /\ \A o \in Orders : Paid(o) => Paid(o)'
      <4>1. UNCHANGED <<bills, allocations, sales, saleNumber>>
        BY <3>1, <3>2, <3>3, <3>4, <3>5
      <4>2. Rows'
        BY <4>1, <3>1, <3>2, <3>3, <3>4, <3>5, ClaimRows
      <4>3. \A x \in Calls : payments[x].status = "PAID" =>
             payments'[x] = payments[x] /\ Allocated(x) \subseteq Allocated(x)'
        BY <4>1, <3>1, <3>2, <3>3, <3>4, <3>5, ClaimRows
      <4>4. \A o \in Orders : Paid(o) => Paid(o)'
        BY <4>1, <3>1, <3>2, <3>3, <3>4, <3>5, ClaimRows
      <4> QED
        BY <4>2, <4>3, <4>4
    <3>7. /\ \A x \in Calls \ {c} : calls'[x] = calls[x]
          /\ calls'[c].pc = "done" /\ calls'[c].op = "claim"
      BY <2>2, FinishFields
    <3>8. \A x \in Calls \ {c} : payments'[x] = payments[x]
      BY <3>1 DEF Typed, TypeOK
    <3> QED
      BY <3>6, <3>7, <3>8 DEF Goes, Requests, AnswerOf
  <2> QED
    BY <2>3, <2>4
<1>2. CASE rejectClaim(c)
  <2>1. PICK old \in Payment : old = payments[c]
    BY DEF Typed, TypeOK
  <2> DEFINE row == [old EXCEPT !.status = "FAILED"]
  <2>2. row.status = "FAILED" /\ row.key = old.key
    BY DEF Payment
  <2>3. /\ old.status = "VERIFYING" /\ payments' = [payments EXCEPT ![c] = row]
        /\ UNCHANGED <<bills, allocations, sales, saleNumber, calls>>
    BY <1>2, <2>1 DEF rejectClaim, Typed, TypeOK
  <2> HIDE DEF row
  <2>4. \A x \in Calls \ {c} : payments[x].status # "NONE" => payments[x].key # row.key
    BY <2>1, <2>2, <2>3 DEF Backed, Rows, KeyUnique
  <2>5. Rows
    BY DEF Backed
  <2>6. /\ Rows'
        /\ \A x \in Calls : payments[x].status = "PAID" =>
             payments'[x] = payments[x] /\ Allocated(x) \subseteq Allocated(x)'
        /\ \A o \in Orders : Paid(o) => Paid(o)'
    <3>1. UNCHANGED <<bills, allocations, sales, saleNumber>>
      BY <2>1, <2>2, <2>3, <2>4, <2>5
    <3>2. Rows'
      BY <3>1, <2>1, <2>2, <2>3, <2>4, <2>5, ClaimRows
    <3>3. \A x \in Calls : payments[x].status = "PAID" =>
           payments'[x] = payments[x] /\ Allocated(x) \subseteq Allocated(x)'
      BY <3>1, <2>1, <2>2, <2>3, <2>4, <2>5, ClaimRows
    <3>4. \A o \in Orders : Paid(o) => Paid(o)'
      BY <3>1, <2>1, <2>2, <2>3, <2>4, <2>5, ClaimRows
    <3> QED
      BY <3>2, <3>3, <3>4
  <2>7. calls[c].pc = "done"
    BY <2>1, <2>3 DEF Backed, Unspent
  <2>8. \A x \in Calls \ {c} : payments'[x] = payments[x]
    BY <2>3 DEF Typed, TypeOK
  <2>9. AnswerOf(c)'
    <3>1. AnswerOf(c)
      BY AnswersOf DEF Backed
    <3> QED
      BY <2>3, <2>6, <3>1 DEF AnswerOf
  <2> QED
    BY <2>3, <2>6, <2>7, <2>8, <2>9 DEF Goes, Requests
<1> QED
  BY <1>1, <1>2

LEMMA RefundGoes ==
  ASSUME Typed, Backed, NEW c \in Calls, NEW o \in Orders, CommitRefund(c, o)
  PROVE  Goes(c)
<1>1. PICK q : q = calls[c]
  OBVIOUS
<1>2. /\ q.op = "refund" /\ q.op \in Operations /\ q.key \in Keys \cup {None}
      /\ q.lines \in SUBSET Orders /\ q.pc = "running" /\ q.lines = {o}
  BY <1>1, RunningTyped DEF CommitRefund, Running
<1>3. Paid(o)
  BY <1>1, <1>2 DEF Backed, RefundsOfPaid, Running
<1>4. PICK answer \in SUBSET Orders : Finish(c, q, answer)
  <2>1. refunds[q.key] # None => refunds[q.key] \in Orders \/ q.key \notin Keys
    BY DEF Typed, TypeOK
  <2>2. q.key \in Keys
    BY <1>1, RunningTyped DEF CommitRefund, RequestTyped
  <2> QED
    BY <1>1, <2>1, <2>2 DEF CommitRefund
<1>5. /\ \A x \in Calls \ {c} : calls'[x] = calls[x]
      /\ calls'[c].pc = "done" /\ calls'[c].op = "refund"
  BY <1>2, <1>4, FinishFields
<1>6. Rows
  BY DEF Backed
<1>7. Rows' /\ UNCHANGED <<bills, payments, allocations>>
  BY <1>3, <1>6, RefundRows
<1> QED
  BY <1>5, <1>7 DEF Goes, Requests, AnswerOf, Paid, Allocated

LEMMA CashGoes ==
  ASSUME Typed, Backed, NEW c \in Calls, CommitCashMovement(c)
  PROVE  Goes(c)
<1>1. PICK q : q = calls[c]
  OBVIOUS
<1>2. /\ q.op = "cash" /\ q.op \in Operations /\ q.key \in Keys \cup {None}
      /\ q.lines \in SUBSET Orders /\ Finish(c, q, {}) /\ {} \in SUBSET Orders
      /\ UNCHANGED ledger
  BY <1>1, RunningTyped DEF CommitCashMovement
<1> QED
  BY <1>2, AnsweredGoes

\* The requests as they begin, with their fields.
LEMMA RequestFields ==
  ASSUME NEW op \in Operations, NEW k \in Keys, NEW lines \in SUBSET Orders, NEW r, NEW s, NEW m,
         NEW v, NEW claim, NEW amount
  PROVE  LET q == Request(op, k, lines)
             kept(x) == /\ x.op = op /\ x.key = k /\ x.lines = lines /\ x.answer = {}
         IN  /\ kept([q EXCEPT !.rate = r, !.shift = s, !.method = m])
             /\ kept([q EXCEPT !.rate = r, !.visit = v, !.shift = s, !.method = m, !.claim = claim])
             /\ kept([q EXCEPT !.visit = v, !.method = m, !.amount = amount])
             /\ kept([q EXCEPT !.shift = s, !.amount = amount])
             /\ kept([[q EXCEPT !.shift = s, !.amount = amount] EXCEPT !.method = m])
<1> DEFINE kept(x) == /\ x.op = op /\ x.key = k /\ x.lines = lines /\ x.answer = {}
<1>1. Request(op, k, lines) \in Call /\ kept(Request(op, k, lines))
  <2>1. Idle \in Call /\ Idle.answer = {}
    BY AmountAssumption DEF Idle, Call, Operations
  <2>2. \A x \in Call : [x EXCEPT !.pc = "running", !.op = op, !.key = k, !.lines = lines].answer = x.answer
    BY DEF Call
  <2>3. Request(op, k, lines).answer = {}
    BY <2>1, <2>2 DEF Request
  <2> QED
    BY <2>3, RequestType
<1>2. ASSUME NEW q \in Call, kept(q)
      PROVE  /\ kept([q EXCEPT !.rate = r, !.shift = s, !.method = m])
             /\ kept([q EXCEPT !.rate = r, !.visit = v, !.shift = s, !.method = m, !.claim = claim])
             /\ kept([q EXCEPT !.visit = v, !.method = m, !.amount = amount])
             /\ kept([q EXCEPT !.shift = s, !.amount = amount])
             /\ kept([[q EXCEPT !.shift = s, !.amount = amount] EXCEPT !.method = m])
  BY <1>2 DEF Call
<1> QED
  BY <1>1, <1>2

LEMMA BeginGoes ==
  ASSUME Typed, Backed, NEW c \in Calls, NEW k \in Keys, NEW s \in Shifts, NEW m \in Methods,
         \/ \E o \in Orders : BeginPayOrder(c, k, o, s, m)
         \/ \E v \in Visits, claim \in Calls \cup {None} : BeginPayVisit(c, k, v, s, m, claim)
         \/ \E o \in Orders, amount \in Amounts : BeginRefund(c, k, o, s, amount)
         \/ \E amount \in Amounts \cup {-a : a \in Amounts} : BeginCashMovement(c, k, s, amount)
  PROVE  Goes(c)
<1>1. /\ {"payOrder", "payVisit", "claim", "refund", "cash"} \subseteq Operations
      /\ {} \in SUBSET Orders /\ k \in Keys \cup {None}
      /\ \A x : findSessionCheckoutByIdempotencyKey(x) \in SUBSET Orders
      /\ \A x : \A y \in findCheckoutByIdempotencyKey(x) : y \in SUBSET Orders
  BY CheckoutType DEF Operations, Typed
<1>2. ASSUME NEW o \in Orders, BeginPayOrder(c, k, o, s, m)
      PROVE  Goes(c)
  <2> DEFINE q == [Request("payOrder", k, {o}) EXCEPT !.rate = rate, !.shift = s, !.method = m]
  <2>1. q.op = "payOrder" /\ q.key = k /\ q.lines = {o} /\ q.answer = {}
    BY <1>1, RequestFields
  <2>2. /\ UNCHANGED ledger
        /\ \/ \E replayed \in findCheckoutByIdempotencyKey(k) : Finish(c, q, replayed)
           \/ Start(c, q)
    BY <1>2 DEF BeginPayOrder
  <2> HIDE DEF q
  <2> QED
    BY <1>1, <2>1, <2>2, AnsweredGoes, BeginsGoes
<1>3. ASSUME NEW v \in Visits, NEW claim \in Calls \cup {None}, BeginPayVisit(c, k, v, s, m, claim)
      PROVE  Goes(c)
  <2> DEFINE S == UnpaidOrders(v)
             q == [Request("payVisit", k, S) EXCEPT
                     !.rate = rate, !.visit = v, !.shift = s, !.method = m, !.claim = claim]
  <2>1. S \in SUBSET Orders
    BY DEF UnpaidOrders
  <2>2. /\ UNCHANGED ledger
        /\ Finish(c, q, findSessionCheckoutByIdempotencyKey(k)) \/ Start(c, q)
    BY <1>3 DEF BeginPayVisit
  <2> HIDE DEF S
  <2>3. q.op = "payVisit" /\ q.key = k /\ q.lines = S /\ q.answer = {}
    BY <1>1, <2>1, RequestFields
  <2> HIDE DEF q
  <2> QED
    BY <1>1, <2>1, <2>2, <2>3, AnsweredGoes, BeginsGoes
<1>5. ASSUME NEW o \in Orders, NEW amount \in Amounts, BeginRefund(c, k, o, s, amount)
      PROVE  Goes(c)
  <2> DEFINE q == [Request("refund", k, {o}) EXCEPT !.shift = s, !.amount = amount]
             started(x) == [q EXCEPT !.method = payments[x].method]
  <2>1. q.op = "refund" /\ q.key = k /\ q.lines = {o} /\ q.answer = {}
    BY <1>1, RequestFields
  <2>2. PICK x : Finish(c, q, {o}) \/ Start(c, started(x))
    BY <1>5 DEF BeginRefund
  <2>3. UNCHANGED ledger /\ Paid(o)
    BY <1>5 DEF BeginRefund
  <2>4. started(x).op = "refund" /\ started(x).lines = {o} /\ started(x).answer = {}
    BY <1>1, RequestFields
  <2>5. CASE Finish(c, q, {o})
    <3> HIDE DEF q
    <3>1. {o} \in SUBSET Orders
      OBVIOUS
    <3> QED
      BY <1>1, <2>1, <2>3, <2>5, <3>1, AnsweredGoes
  <2>6. CASE Start(c, started(x))
    <3> HIDE DEF started
    <3> QED
      BY <2>3, <2>4, <2>6, BeginsGoes
  <2> QED
    BY <2>2, <2>5, <2>6
<1>6. ASSUME NEW amount, BeginCashMovement(c, k, s, amount)
      PROVE  Goes(c)
  <2> DEFINE q == [Request("cash", k, {}) EXCEPT !.shift = s, !.amount = amount]
  <2>1. q.op = "cash" /\ q.key = k /\ q.lines = {} /\ q.answer = {}
    BY <1>1, RequestFields
  <2>2. UNCHANGED ledger /\ (Finish(c, q, {}) \/ Start(c, q))
    BY <1>6 DEF BeginCashMovement
  <2> HIDE DEF q
  <2> QED
    BY <1>1, <2>1, <2>2, AnsweredGoes, BeginsGoes
<1> QED
  BY <1>2, <1>3, <1>5, <1>6

LEMMA BeginClaimGoes ==
  ASSUME Typed, Backed, NEW c \in Calls, NEW k \in Keys, NEW v \in Visits, NEW m \in Methods,
         BeginClaim(c, k, v, m)
  PROVE  Goes(c)
<1> DEFINE S == UnpaidOrders(v)
           q == [Request("claim", k, S) EXCEPT !.visit = v, !.method = m, !.amount = Total[rate][S]]
<1>1. S \in SUBSET Orders
  BY DEF UnpaidOrders
<1>2. UNCHANGED ledger /\ Start(c, q)
  BY DEF BeginClaim
<1> HIDE DEF S
<1>3. q.op = "claim" /\ q.answer = {}
  BY <1>1, RequestFields DEF Operations
<1> HIDE DEF q
<1> QED
  BY <1>2, <1>3, BeginsGoes

LEMMA BackedStep ==
  ASSUME Typed, Backed, [Next]_vars
  PROVE  Backed'
<1>1. CASE UNCHANGED <<ledger, calls>>
  <2>1. Rows /\ UNCHANGED <<bills, payments, allocations, sales, saleNumber, calls>>
    BY <1>1 DEF Backed, ledger
  <2>2. KeyUnique'
    BY <2>1 DEF Rows, KeyUnique
  <2>3. SettledRow'
    BY <2>1 DEF Rows, SettledRow, Paid, AllocationsOf
  <2>4. SaleNumbersDense'
    BY <2>1 DEF Rows, SaleNumbersDense
  <2>5. PaymentAllocated'
    BY <2>1 DEF Rows, PaymentAllocated, Allocated
  <2>6. Unspent' /\ RefundsOfPaid'
    BY <2>1 DEF Backed, Unspent, RefundsOfPaid, Running, Paid
  <2>7. AnswerBacked'
    BY <2>1 DEF Backed, AnswerBacked, KeyHolders, Allocated
  <2> QED
    BY <2>2, <2>3, <2>4, <2>5, <2>6, <2>7 DEF Backed, Rows
<1>2. CASE OrderNext
  BY <1>1, <1>2 DEF OrderNext, SetCharges, createSubmitted, decideGuestOrder, cancel,
     recordKitchenProgress, closeVisit, ledger
<1>3. CASE ShiftNext
  BY <1>1, <1>3 DEF ShiftNext, openShift, closeShift, ledger
<1>4. CASE CallNext
  <2>1. \E c \in Calls : Goes(c)
    <3>1. PICK m \in Methods : TRUE
      BY AmountAssumption
    <3>2. ASSUME NEW c \in Calls, NEW k \in Keys, NEW o \in Orders, NEW s \in Shifts,
                 NEW n \in Methods, BeginPayOrder(c, k, o, s, n)
          PROVE  Goes(c)
      BY <3>2, BeginGoes
    <3>3. ASSUME NEW c \in Calls, NEW k \in Keys, NEW v \in Visits, NEW s \in Shifts,
                 NEW n \in Methods, NEW claim \in Calls \cup {None},
                 BeginPayVisit(c, k, v, s, n, claim)
          PROVE  Goes(c)
      BY <3>3, BeginGoes
    <3>5. ASSUME NEW c \in Calls, NEW k \in Keys, NEW o \in Orders, NEW s \in Shifts,
                 NEW amount \in Amounts, BeginRefund(c, k, o, s, amount)
          PROVE  Goes(c)
      BY <3>1, <3>5, BeginGoes
    <3>6. ASSUME NEW c \in Calls, NEW k \in Keys, NEW s \in Shifts,
                 NEW amount \in Amounts \cup {-a : a \in Amounts}, BeginCashMovement(c, k, s, amount)
          PROVE  Goes(c)
      BY <3>1, <3>6, BeginGoes
    <3> QED
      BY <1>4, <3>2, <3>3, <3>5, <3>6, PayOrderGoes, PayVisitGoes, ClaimGoes, RefundGoes, CashGoes, BeginClaimGoes
         DEF CallNext
  <2> QED
    BY <2>1, GoesBacked
<1>5. CASE UNCHANGED vars
  BY <1>1, <1>5 DEF vars, ledger
<1> QED
  BY <1>2, <1>3, <1>4, <1>5 DEF Next

LEMMA BackedInit == Init => Backed
<1> SUFFICES ASSUME Init PROVE Backed
  OBVIOUS
<1>1. Unspent /\ RefundsOfPaid /\ AnswerBacked
  BY DEF Init, Unspent, RefundsOfPaid, Running, AnswerBacked, Idle, NoPayment
<1>2. KeyUnique /\ PaymentAllocated
  BY DEF Init, KeyUnique, PaymentAllocated, NoPayment
<1>3. SettledRow
  BY DEF Init, SettledRow, AllocationsOf, NoBill, NoSale
<1>4. SaleNumbersDense
  <2>1. {o \in Orders : sales[o].status # "NONE"} = {} /\ saleNumber = 0
    BY DEF Init, NoSale
  <2>2. 1 .. 0 = {}
    OBVIOUS
  <2> QED
    BY <2>1, <2>2 DEF SaleNumbersDense
<1> QED
  BY <1>1, <1>2, <1>3, <1>4 DEF Backed, Rows

LEMMA BackedHolds == Spec => [](Typed /\ Backed)
<1>1. Typed /\ Backed /\ [Next]_vars => Typed' /\ Backed'
  BY TypedStep, BackedStep
<1> QED
  BY <1>1, TypedInit, BackedInit, PTL DEF Spec

\* No bill is paid twice and none is left half paid: it has one allocation of
\* its total, from one payment that is PAID, and one sale of the same total
\* (recordFullPayment, recordSessionPayment).
THEOREM BillsAlwaysSettledOnce == Spec => []SettledOnce
<1>1. SettledRow => SettledOnce
  <2> SUFFICES ASSUME SettledRow, NEW o \in Orders
               PROVE  IF bills[o].status = "NONE"
                        THEN AllocationsOf(o) = {} /\ sales[o].status = "NONE"
                        ELSE /\ Paid(o) /\ bills[o].paid = bills[o].total
                             /\ Cardinality(AllocationsOf(o)) = 1
                             /\ \A a \in AllocationsOf(o) : /\ a.amount = bills[o].total
                                                            /\ payments[a.payment].status = "PAID"
                             /\ sales[o].status # "NONE" /\ sales[o].total = bills[o].total
    BY DEF SettledOnce, AllocationsOf
  <2>1. CASE bills[o].status = "NONE"
    BY <2>1 DEF SettledRow, Paid
  <2>2. CASE bills[o].status # "NONE"
    <3>1. /\ Paid(o) /\ bills[o].paid = bills[o].total
          /\ sales[o].status # "NONE" /\ sales[o].total = bills[o].total
      BY <2>2 DEF SettledRow
    <3>2. PICK a : /\ AllocationsOf(o) = {a} /\ a.amount = bills[o].total
                   /\ payments[a.payment].status = "PAID"
      BY <2>2 DEF SettledRow
    <3>3. Cardinality(AllocationsOf(o)) = 1
      BY <3>2, FS_Singleton
    <3> QED
      BY <2>2, <3>1, <3>2, <3>3
  <2> QED
    BY <2>1, <2>2
<1>2. Backed => SettledRow
  BY DEF Backed, Rows
<1> QED
  BY <1>1, <1>2, BackedHolds, PTL

\* Sale numbers run from 1 without a gap or a repeat, however payments of one
\* order and of whole visits interleave (sales_number_counters).
THEOREM SaleNumbersAlwaysDense == Spec => []SaleNumbersDense
<1>1. Backed => SaleNumbersDense
  BY DEF Backed, Rows
<1> QED
  BY <1>1, BackedHolds, PTL

\* Whoever is answered with a checkout, also on a repeated request, is answered
\* with one that a PAID payment under the request's key stands for.
THEOREM AnswersAlwaysBacked == Spec => []AnswerBacked
<1>1. Backed => AnswerBacked
  BY DEF Backed
<1> QED
  BY <1>1, BackedHolds, PTL

\* No two payments or claims hold an idempotency key, whatever becomes of them.
THEOREM KeysAlwaysUnique == Spec => []KeyUnique
<1>1. Backed => KeyUnique
  BY DEF Backed, Rows
<1> QED
  BY <1>1, BackedHolds, PTL

\* A payment is what its orders cost together at the charges of one moment, and
\* every order is allocated its own cost at them, although the charges may have
\* changed since the request read them (sessionBills, confirmClaim).
THEOREM PaymentsAlwaysAllocated == Spec => []PaymentAllocated
<1>1. Backed => PaymentAllocated
  BY DEF Backed, Rows
<1> QED
  BY <1>1, BackedHolds, PTL

-----------------------------------------------------------------------------
(* The allocations of a payment added up                                     *)

\* Two functions that add up the elements of a set one by one agree.
LEMMA SumIsUnique ==
  ASSUME NEW A, IsFiniteSet(A), NEW f, NEW g,
         \A S \in SUBSET A : S # {} => \E x \in S : /\ f[S] = x.amount + f[S \ {x}]
                                                 /\ g[S] = x.amount + g[S \ {x}],
         f[{}] = g[{}]
  PROVE  f[A] = g[A]
<1> DEFINE Bad == {S \in SUBSET A : f[S] # g[S]}
<1>1. SUFFICES ASSUME Bad # {} PROVE FALSE
  OBVIOUS
<1>2. IsWellFoundedOn(StrictSubsetOrdering(A), FiniteSubsetsOf(A)) /\ FiniteSubsetsOf(A) = SUBSET A
  BY FS_StrictSubsetOrderingWellFounded, FS_FiniteSubsetsOfFinite
<1>3. \E S \in Bad : \A R \in Bad : <<R, S>> \notin StrictSubsetOrdering(A)
  <2>1. Bad \subseteq FiniteSubsetsOf(A)
    BY <1>2
  <2> HIDE DEF Bad
  <2> QED
    BY <1>1, <1>2, <2>1, WFMin
<1>4. PICK S \in Bad : \A R \in Bad : <<R, S>> \notin StrictSubsetOrdering(A)
  BY <1>3
<1>5. S \in SUBSET A /\ f[S] # g[S] /\ S # {}
  OBVIOUS
<1>6. PICK x \in S : f[S] = x.amount + f[S \ {x}] /\ g[S] = x.amount + g[S \ {x}]
  BY <1>5
<1>7. <<S \ {x}, S>> \in StrictSubsetOrdering(A)
  BY <1>5 DEF StrictSubsetOrdering
<1>8. S \ {x} \in SUBSET A /\ f[S \ {x}] = g[S \ {x}]
  BY <1>4, <1>5, <1>7
<1> QED
  BY <1>5, <1>6, <1>8

\* The sum that a function adds up.
LEMMA SumSetIs ==
  ASSUME NEW A, IsFiniteSet(A), NEW h \in [SUBSET A -> Nat], h[{}] = 0,
         \A S \in SUBSET A : \A x \in S : h[S] = x.amount + h[S \ {x}]
  PROVE  MapThenSumSet(LAMBDA a : a.amount, A) = h[A]
<1> DEFINE F(it) == [s \in SUBSET A |-> IF s = {} THEN 0 ELSE (CHOOSE x \in s : TRUE).amount + it[s \ {CHOOSE x \in s : TRUE}]]
<1> DEFINE iter == CHOOSE it : it = F(it)
<1>1. MapThenSumSet(LAMBDA a : a.amount, A) = iter[A]
  BY DEF MapThenSumSet, MapThenFoldSet
<1>2. h = F(h)
  OBVIOUS
<1>3. iter = F(iter)
  <2> HIDE DEF F
  <2>1. \E it : it = F(it)
    BY <1>2
  <2> QED
    BY <2>1
<1>4. /\ iter[{}] = 0
      /\ \A S \in SUBSET A : S # {} =>
           iter[S] = (CHOOSE x \in S : TRUE).amount + iter[S \ {CHOOSE x \in S : TRUE}]
  <2> HIDE DEF iter
  <2> QED
    BY <1>3
<1> HIDE DEF iter, F
<1>5. \A S \in SUBSET A : S # {} => \E x \in S : /\ iter[S] = x.amount + iter[S \ {x}]
                                               /\ h[S] = x.amount + h[S \ {x}]
  <2> SUFFICES ASSUME NEW S \in SUBSET A, S # {}
               PROVE  \E x \in S : /\ iter[S] = x.amount + iter[S \ {x}]
                                   /\ h[S] = x.amount + h[S \ {x}]
    OBVIOUS
  <2> DEFINE x == CHOOSE y \in S : TRUE
  <2>1. x \in S
    OBVIOUS
  <2>2. iter[S] = x.amount + iter[S \ {x}] /\ h[S] = x.amount + h[S \ {x}]
    BY <1>4, <2>1
  <2> HIDE DEF x
  <2> QED
    BY <2>1, <2>2
<1>6. iter[{}] = h[{}]
  BY <1>4
<1>7. iter[A] = h[A]
  BY <1>5, <1>6, SumIsUnique
<1> QED
  BY <1>1, <1>7

\* The allocations of a PAID payment are a finite set of one per order, so that
\* they add up to what its orders cost together.
LEMMA AllocationsAddUp ==
  ASSUME Typed, SettledRow, PaymentAllocated, NEW p \in Calls, payments[p].status = "PAID"
  PROVE  MapThenSumSet(LAMBDA a : a.amount, {a \in allocations : a.payment = p})
           = payments[p].amount
<1> DEFINE A == {a \in allocations : a.payment = p}
           OrdersOf(S) == {a.order : a \in S}
<1>1. \A a \in A : a \in allocations /\ a.order \in Orders /\ a.amount \in Nat
  BY DEF Typed, TypeOK, Allocation
<1>2. \A a, b \in A : a.order = b.order => a = b
  <2> SUFFICES ASSUME NEW a \in A, NEW b \in A, a.order = b.order PROVE a = b
    OBVIOUS
  <2>1. a \in AllocationsOf(a.order) /\ b \in AllocationsOf(a.order) /\ a.order \in Orders
    BY <1>1 DEF AllocationsOf
  <2>2. PICK x : AllocationsOf(a.order) = {x}
    BY <2>1 DEF SettledRow
  <2> QED
    BY <2>1, <2>2
<1>3. IsFiniteSet(A)
  <2> DEFINE f == [a \in A |-> a.order]
  <2>1. f \in Injection(A, Orders)
    BY <1>1, <1>2 DEF Injection, IsInjective
  <2> HIDE DEF A, f
  <2> QED
    BY <2>1, FiniteAssumption, FS_Injection
<1>4. PICK r \in Rates : /\ payments[p].amount = Total[r][Allocated(p)]
                         /\ \A a \in A : a.amount = Total[r][{a.order}]
  BY DEF PaymentAllocated
<1> DEFINE h == [S \in SUBSET A |-> Total[r][OrdersOf(S)]]
<1>5. h \in [SUBSET A -> Nat]
  BY <1>1, TotalType
<1>6. h[{}] = 0
  <2>1. OrdersOf({}) = {}
    OBVIOUS
  <2> QED
    BY <2>1, TotalAssumption
<1>7. \A S \in SUBSET A : \A x \in S : h[S] = x.amount + h[S \ {x}]
  <2> SUFFICES ASSUME NEW S \in SUBSET A, NEW x \in S PROVE h[S] = x.amount + h[S \ {x}]
    OBVIOUS
  <2> DEFINE R == OrdersOf(S \ {x})
  <2>1. x \in A /\ x.order \in Orders /\ x.amount = Total[r][{x.order}] /\ x.amount \in Nat
    BY <1>1, <1>4
  <2>2. R \in SUBSET Orders /\ x.order \notin R /\ OrdersOf(S) = R \cup {x.order}
    BY <1>1, <1>2, <2>1
  <2>3. h[S] = Total[r][OrdersOf(S)] /\ h[S \ {x}] = Total[r][R]
    OBVIOUS
  <2> HIDE DEF h, R, OrdersOf, A
  <2>4. Total[r][R \cup {x.order}] = Total[r][R] + Total[r][{x.order}]
    BY <2>1, <2>2, TotalAssumption
  <2>5. Total[r][R] \in Nat
    BY <2>2, TotalType
  <2> QED
    BY <2>1, <2>2, <2>3, <2>4, <2>5
<1>8. h[A] = Total[r][Allocated(p)]
  BY DEF Allocated
<1> HIDE DEF A, h
<1>9. MapThenSumSet(LAMBDA a : a.amount, A) = h[A]
  BY <1>3, <1>5, <1>6, <1>7, SumSetIs
<1> QED
  BY <1>4, <1>8, <1>9 DEF A

\* The allocations of a PAID payment add up to it, and no other payment has one,
\* for any number of orders and any charges (recordFullPayment, recordSessionPayment).
THEOREM PaymentsAlwaysFullyAllocated == Spec => []PaymentFullyAllocated
<1>1. Typed /\ Backed => PaymentFullyAllocated
  <2> SUFFICES ASSUME Typed, Backed, NEW p \in Calls
               PROVE  MapThenSumSet(LAMBDA a : a.amount, {a \in allocations : a.payment = p})
                        = IF payments[p].status = "PAID" THEN payments[p].amount ELSE 0
    BY DEF PaymentFullyAllocated
  <2> DEFINE A == {a \in allocations : a.payment = p}
  <2>1. SettledRow /\ PaymentAllocated
    BY DEF Backed, Rows
  <2>2. CASE payments[p].status = "PAID"
    BY <2>1, <2>2, AllocationsAddUp
  <2>3. CASE payments[p].status # "PAID"
    <3>1. A = {}
      <4> SUFFICES ASSUME NEW a \in A PROVE FALSE
        OBVIOUS
      <4>1. a.order \in Orders /\ a \in AllocationsOf(a.order)
        BY DEF Typed, TypeOK, Allocation, AllocationsOf
      <4> QED
        BY <2>1, <2>3, <4>1 DEF SettledRow
    <3>2. IsFiniteSet({})
      BY FS_EmptySet
    <3> DEFINE h == [S \in SUBSET {} |-> 0]
    <3>3. /\ h \in [SUBSET {} -> Nat] /\ h[{}] = 0
          /\ \A S \in SUBSET {} : \A x \in S : h[S] = x.amount + h[S \ {x}]
      OBVIOUS
    <3> HIDE DEF h
    <3>4. MapThenSumSet(LAMBDA a : a.amount, {}) = h[{}]
      BY <3>2, <3>3, SumSetIs
    <3> QED
      BY <2>3, <3>1, <3>3, <3>4
  <2> QED
    BY <2>2, <2>3
<1> QED
  BY <1>1, BackedHolds, PTL
-----------------------------------------------------------------------------
(* SalesLedger implements Settlement                                         *)

\* The refinement mapping.
Accounts == [o \in Orders |-> standing(o)]
Parties == [o \in Orders |-> orders[o].visit]
Left == {v \in Visits : visits[v] = "CLOSED"}
Sold == [o \in Orders |-> [number |-> sales[o].number, total |-> sales[o].total,
                           refunded |-> sales[o].refunded]]
Taken == {x \in Calls : payments[x].status = "PAID"}
Checkouts == {[orders |-> Allocated(p), total |-> payments[p].amount] : p \in Taken}

\* What the refinement needs to know of the rows.
Told == Typed /\ PaidOrdersStand /\ Backed

\* Where an order stands, in terms of its rows.
LEMMA Standing ==
  ASSUME Told, NEW o \in Orders
  PROVE  /\ standing(o) = "none" <=> orders[o].status = "NONE"
         /\ standing(o) = "paid" <=> Paid(o)
         /\ standing(o) = "canceled" <=> orders[o].status = "CANCELED"
         /\ standing(o) \in {"asked", "agreed"} <=>
              Submitted(o) /\ orders[o].status # "CANCELED" /\ ~Paid(o)
         /\ standing(o) = "agreed" <=> Payable(o) /\ ~Paid(o)
<1>1. Paid(o) => Submitted(o) /\ orders[o].status # "CANCELED" /\ isOrderApproved(o)
  BY DEF Told, PaidOrdersStand, Submitted
<1>2. CASE ~Submitted(o)
  BY <1>1, <1>2 DEF standing, Payable, Submitted
<1>3. CASE Submitted(o) /\ Paid(o)
  BY <1>1, <1>3 DEF standing, Payable, Submitted
<1>4. CASE Submitted(o) /\ ~Paid(o) /\ orders[o].status = "CANCELED"
  BY <1>4 DEF standing, Payable, Submitted
<1>5. CASE Submitted(o) /\ ~Paid(o) /\ orders[o].status # "CANCELED" /\ isOrderApproved(o)
  BY <1>5 DEF standing, Payable, Submitted
<1>6. CASE Submitted(o) /\ ~Paid(o) /\ orders[o].status # "CANCELED" /\ ~isOrderApproved(o)
  BY <1>6 DEF standing, Payable, Submitted
<1> QED
  BY <1>2, <1>3, <1>4, <1>5, <1>6

\* What a visit owes.
LEMMA OwedIs ==
  ASSUME Told, NEW v \in Visits
  PROVE  Outlet!Owed(v) = UnpaidOrders(v)
BY Standing DEF Outlet!Owed, UnpaidOrders

\* Nothing that shows has changed.
LEMMA NothingShows ==
  ASSUME UNCHANGED <<visits, orders, ledger>>
  PROVE  UNCHANGED Outlet!vars
<1>1. UNCHANGED <<visits, orders, bills, payments, allocations, sales>>
  BY DEF ledger
<1>2. \A o \in Orders : standing(o)' = standing(o)
  BY <1>1 DEF standing, Submitted, Paid, isOrderApproved
<1>3. \A p : Allocated(p)' = Allocated(p)
  BY <1>1 DEF Allocated
<1>4. Accounts' = Accounts /\ Parties' = Parties /\ Left' = Left
  BY <1>1, <1>2 DEF Accounts, Parties, Left
<1>5. Sold' = Sold /\ Checkouts' = Checkouts
  BY <1>1, <1>3 DEF Sold, Checkouts, Taken
<1> QED
  BY <1>4, <1>5 DEF Outlet!vars, Accounts, Parties, Left, Sold, Checkouts, Taken

\* An order moves on while the ledger and the visits stand still.
LEMMA OrderMoves ==
  ASSUME Told, NEW x \in Orders, NEW row, orders' = [orders EXCEPT ![x] = row],
         UNCHANGED <<visits, ledger>>
  PROVE  /\ Accounts' = [Accounts EXCEPT ![x] = standing(x)']
         /\ Parties' = [Parties EXCEPT ![x] = row.visit]
         /\ orders'[x] = row
         /\ Left' = Left /\ Sold' = Sold /\ Checkouts' = Checkouts
<1>1. UNCHANGED <<visits, bills, payments, allocations, sales>>
  BY DEF ledger
<1>2. orders'[x] = row /\ \A o \in Orders \ {x} : orders'[o] = orders[o]
  BY DEF Told, Typed, TypeOK
<1>3. \A o \in Orders \ {x} : standing(o)' = standing(o)
  BY <1>1, <1>2 DEF standing, Submitted, Paid, isOrderApproved
<1>4. Accounts' = [Accounts EXCEPT ![x] = standing(x)']
  BY <1>3 DEF Accounts
<1>5. Parties' = [Parties EXCEPT ![x] = row.visit]
  <2>1. \A o \in Orders : orders'[o].visit = IF o = x THEN row.visit ELSE orders[o].visit
    BY <1>2
  <2>2. Parties' = [o \in Orders |-> IF o = x THEN row.visit ELSE orders[o].visit]
    BY <2>1 DEF Parties
  <2> QED
    BY <2>2 DEF Parties
<1>6. \A p : Allocated(p)' = Allocated(p)
  BY <1>1 DEF Allocated
<1>7. Left' = Left /\ Sold' = Sold /\ Checkouts' = Checkouts
  BY <1>1, <1>6 DEF Left, Sold, Checkouts, Taken
<1> QED
  BY <1>2, <1>4, <1>5, <1>7

\* An order moves without its visit.
LEMMA OrderMovesInPlace ==
  ASSUME Told, NEW x \in Orders, NEW row, orders' = [orders EXCEPT ![x] = row],
         row.visit = orders[x].visit, UNCHANGED <<visits, ledger>>
  PROVE  /\ Accounts' = [Accounts EXCEPT ![x] = standing(x)']
         /\ orders'[x] = row
         /\ Parties' = Parties /\ Left' = Left /\ Sold' = Sold /\ Checkouts' = Checkouts
<1>1. Parties = [Parties EXCEPT ![x] = row.visit]
  BY DEF Parties
<1> QED
  BY <1>1, OrderMoves
\* What is done to an order: placed, decided about, canceled, cooked.
LEMMA OrderShown ==
  ASSUME Told, Told', OrderNext
  PROVE  [Outlet!Next]_(Outlet!vars)
<1>1. orders \in [Orders -> Order] /\ visits \in [Visits -> {"OPEN", "CLOSED"}]
  BY DEF Told, Typed, TypeOK
<1>2. ASSUME NEW x \in Orders, NEW v \in Visits \cup {None}, NEW source \in {"POS", "SELF_ORDER"},
             createSubmitted(x, v, source)
      PROVE  Outlet!Next
  <2> DEFINE row == [status     |-> "SUBMITTED",
                     moderation |-> IF source = "SELF_ORDER" THEN "PENDING" ELSE "NOT_REQUIRED",
                     visit      |-> v]
             state == IF source = "SELF_ORDER" THEN "asked" ELSE "agreed"
  <2>1. orders[x].status = "NONE" /\ orders' = [orders EXCEPT ![x] = row] /\ UNCHANGED <<visits, ledger>>
    BY <1>2 DEF createSubmitted
  <2>2. /\ Accounts' = [Accounts EXCEPT ![x] = standing(x)']
        /\ Parties' = [Parties EXCEPT ![x] = row.visit]
        /\ orders'[x] = row
        /\ Left' = Left /\ Sold' = Sold /\ Checkouts' = Checkouts
    <3> HIDE DEF row
    <3> QED
      BY <2>1, OrderMoves
  <2>3. standing(x) = "none" /\ ~Paid(x)
    BY <2>1, Standing DEF Told, PaidOrdersStand
  <2>4. standing(x)' = state
    <3>1. ~Paid(x)'
      BY <2>1, <2>3 DEF Paid, ledger
    <3> QED
      BY <2>2, <3>1 DEF standing, Submitted, isOrderApproved
  <2>5. v \notin Left /\ (state = "asked" => v # None)
    BY <1>2, NoneAssumption DEF createSubmitted, Left
  <2> HIDE DEF state
  <2>6. Outlet!Place(x, v, state)
    BY <2>2, <2>3, <2>4, <2>5 DEF Outlet!Place, Accounts, Parties, Left, Sold, Checkouts, Taken
  <2> QED
    BY <2>6 DEF Outlet!Next, state
<1>3. ASSUME NEW x \in Orders, NEW decision \in {"ACCEPTED", "REJECTED"},
             decideGuestOrder(x, decision)
      PROVE  Outlet!Agree(x) \/ Outlet!Withdraw(x)
  <2> DEFINE row == [orders[x] EXCEPT
               !.moderation = decision,
               !.status = IF decision = "REJECTED" THEN "CANCELED" ELSE @]
  <2>1. /\ orders[x].status = "SUBMITTED" /\ orders[x].moderation = "PENDING"
        /\ orders' = [orders EXCEPT ![x] = row] /\ UNCHANGED <<visits, ledger>>
    BY <1>1, <1>3 DEF decideGuestOrder
  <2>2. /\ row.visit = orders[x].visit /\ row.moderation = decision
        /\ row.status = IF decision = "REJECTED" THEN "CANCELED" ELSE orders[x].status
    BY <1>1 DEF Order
  <2> HIDE DEF row
  <2>3. /\ Accounts' = [Accounts EXCEPT ![x] = standing(x)']
        /\ orders'[x] = row
        /\ Parties' = Parties /\ Left' = Left /\ Sold' = Sold /\ Checkouts' = Checkouts
    BY <2>1, <2>2, OrderMovesInPlace
  <2>4. standing(x) = "asked" /\ ~Paid(x)'
    BY <2>1, Standing DEF Told, PaidOrdersStand, standing, Submitted, isOrderApproved, Paid, ledger
  <2>5. standing(x)' = IF decision = "REJECTED" THEN "canceled" ELSE "agreed"
    BY <2>1, <2>2, <2>3, <2>4 DEF standing, Submitted, isOrderApproved
  <2> QED
    BY <2>3, <2>4, <2>5 DEF Outlet!Agree, Outlet!Withdraw, Accounts, Parties, Left, Sold,
       Checkouts, Taken
<1>4. ASSUME NEW x \in Orders, cancel(x)
      PROVE  Outlet!Withdraw(x)
  <2> DEFINE row == [orders[x] EXCEPT
               !.moderation = IF @ = "PENDING" THEN "REJECTED" ELSE @,
               !.status = "CANCELED"]
  <2>1. /\ Submitted(x) /\ orders[x].status # "CANCELED" /\ ~Paid(x)
        /\ orders' = [orders EXCEPT ![x] = row] /\ UNCHANGED <<visits, ledger>>
    BY <1>1, <1>4 DEF cancel
  <2>2. row.visit = orders[x].visit /\ row.status = "CANCELED"
    BY <1>1 DEF Order
  <2> HIDE DEF row
  <2>3. /\ Accounts' = [Accounts EXCEPT ![x] = standing(x)']
        /\ orders'[x] = row
        /\ Parties' = Parties /\ Left' = Left /\ Sold' = Sold /\ Checkouts' = Checkouts
    BY <2>1, <2>2, OrderMovesInPlace
  <2>4. standing(x) \in {"asked", "agreed"}
    BY <2>1, Standing
  <2>5. standing(x)' = "canceled"
    BY <2>1, <2>2, <2>3 DEF standing, Submitted, Paid, ledger
  <2> QED
    BY <2>3, <2>4, <2>5 DEF Outlet!Withdraw, Accounts, Parties, Left, Sold, Checkouts, Taken
<1>5. ASSUME NEW x \in Orders, NEW progress \in Progress, recordKitchenProgress(x, progress)
      PROVE  UNCHANGED Outlet!vars
  <2> DEFINE row == [orders[x] EXCEPT !.status = progress]
  <2>1. /\ isOrderApproved(x) /\ orders[x].status \in {"SUBMITTED", "PREPARING", "READY"}
        /\ progress \in {"PREPARING", "READY", "SERVED"}
        /\ orders' = [orders EXCEPT ![x] = row] /\ UNCHANGED <<visits, ledger>>
    BY <1>1, <1>5, AmountAssumption DEF recordKitchenProgress, statusesBefore
  <2>2. /\ row.visit = orders[x].visit /\ row.status = progress
        /\ row.moderation = orders[x].moderation
    BY <1>1 DEF Order
  <2> HIDE DEF row
  <2>3. /\ Accounts' = [Accounts EXCEPT ![x] = standing(x)']
        /\ orders'[x] = row
        /\ Parties' = Parties /\ Left' = Left /\ Sold' = Sold /\ Checkouts' = Checkouts
    BY <2>1, <2>2, OrderMovesInPlace
  <2>4. standing(x)' = standing(x)
    BY <2>1, <2>2, <2>3 DEF standing, Submitted, Paid, isOrderApproved, ledger
  <2>5. Accounts' = Accounts
    BY <2>3, <2>4 DEF Accounts
  <2> QED
    BY <2>3, <2>5 DEF Outlet!vars, Accounts, Parties, Left, Sold, Checkouts, Taken
<1>6. ASSUME NEW v \in Visits, closeVisit(v)
      PROVE  Outlet!Leave(v)
  <2>1. UNCHANGED <<orders, bills, payments, allocations, sales>> /\ v \notin Left
    BY <1>6 DEF closeVisit, ledger, Left
  <2>2. UnpaidOrders(v) = {}
    BY <1>6 DEF closeVisit, ensureSettled, UnpaidOrders
  <2>3. Left' = Left \cup {v}
    BY <1>1, <1>6 DEF closeVisit, Left
  <2>4. \A o \in Orders : standing(o)' = standing(o)
    BY <2>1 DEF standing, Submitted, Paid, isOrderApproved
  <2>5. Accounts' = Accounts /\ Parties' = Parties /\ Sold' = Sold /\ Checkouts' = Checkouts
    BY <2>1, <2>4 DEF Accounts, Parties, Sold, Checkouts, Taken, Allocated
  <2> QED
    BY <2>1, <2>2, <2>3, <2>5, OwedIs DEF Outlet!Leave, Accounts, Parties, Left, Sold, Checkouts, Taken
<1>7. ASSUME NEW r \in Rates, SetCharges(r)
      PROVE  UNCHANGED Outlet!vars
  BY <1>7, NothingShows DEF SetCharges
<1> QED
  BY <1>2, <1>3, <1>4, <1>5, <1>6, <1>7 DEF OrderNext, Outlet!Next
\* Settlement counts as SalesLedger does.
LEMMA SameCardinality == ASSUME NEW S PROVE Outlet!Cardinality(S) = Cardinality(S)
  BY DEF Outlet!Cardinality, Cardinality

\* The numbers given so far are as many as the orders sold.
LEMMA SoldAreNumbered ==
  ASSUME Told
  PROVE  Outlet!Cardinality(Outlet!Sold) = saleNumber
<1> DEFINE sold == {o \in Orders : sales[o].status # "NONE"}
           number == [o \in sold |-> sales[o].number]
<1>1. Outlet!Sold = sold
  <2>1. \A o \in Orders : Paid(o) <=> sales[o].status # "NONE"
    BY DEF Told, Backed, Rows, SettledRow, Paid
  <2> QED
    BY <2>1, Standing DEF Outlet!Sold
<1>2. /\ saleNumber \in Nat /\ {sales[o].number : o \in sold} = 1 .. saleNumber
      /\ \A a, b \in sold : sales[a].number = sales[b].number => a = b
  BY DEF Told, Typed, TypeOK, Backed, Rows, SaleNumbersDense
<1>3. IsFiniteSet(sold)
  BY FiniteAssumption, FS_Subset
<1> HIDE DEF sold
<1>4. number \in Bijection(sold, 1 .. saleNumber)
  BY <1>2 DEF Bijection, Injection, IsInjective, Surjection
<1>5. Cardinality(1 .. saleNumber) = saleNumber
  <2>1. 1 \in Int /\ saleNumber \in Int
    BY <1>2
  <2>2. Cardinality(1 .. saleNumber) = IF 1 > saleNumber THEN 0 ELSE saleNumber - 1 + 1
    BY <2>1, FS_Interval
  <2> QED
    BY <1>2, <2>2
<1>6. Cardinality(sold) = Cardinality(1 .. saleNumber)
  <2>1. ExistsBijection(sold, 1 .. saleNumber)
    BY <1>4 DEF ExistsBijection
  <2> QED
    BY <1>3, <2>1, FS_Bijection
<1> QED
  BY <1>1, <1>5, <1>6, SameCardinality

\* A checkout as its transaction records it: one order, or all a visit owes.
Whole(S) ==
  S # {} /\ ((\E o \in S : S = {o}) \/ (\E v \in Visits : S = UnpaidOrders(v)))

\* What is recorded is a step of Settlement.
LEMMA PaymentShown ==
  ASSUME Told, Told', UNCHANGED <<visits, orders>>, NEW p \in Calls, NEW row \in Payment,
         NEW S \in SUBSET Orders, NEW r \in Rates, NEW v \in Visits \cup {None},
         Checked(p, row, S, r, v), Whole(S)
  PROVE  Outlet!Settle(S, r)
<1>1. /\ payments' = [payments EXCEPT ![p] = row] /\ row.status = "PAID"
      /\ Allocated(p)' = S /\ \A x \in Calls \ {p} : Allocated(x)' = Allocated(x)
  BY PaymentRows DEF Told, Backed
<1>2. \A o \in Orders : /\ o \in S => Payable(o) /\ ~Paid(o) /\ Paid(o)'
                        /\ o \notin S => bills'[o] = bills[o] /\ sales'[o] = sales[o]
  BY SettledBills DEF Checked, Paid, Told
<1>3. \A o \in S : standing(o) = "agreed"
  BY <1>2, Standing
<1>4. \A o \in Orders : standing(o)' = IF o \in S THEN "paid" ELSE standing(o)
  BY <1>2 DEF standing, Payable, Submitted, isOrderApproved, Paid
<1>5. Accounts' = [o \in Orders |-> IF o \in S THEN "paid" ELSE standing(o)]
  BY <1>4 DEF Accounts
<1>6. Parties' = Parties /\ Left' = Left
  BY DEF Parties, Left
<1>7. \E number \in Outlet!NextNumbers(S) :
        Sold' = [o \in Orders |->
          IF o \in S THEN [number |-> number[o], total |-> Total[r][{o}], refunded |-> 0]
                     ELSE Sold[o]]
  <2>1. PICK number \in Numberings(S) :
          sales' = [o \in Orders |->
            IF o \in S THEN [status |-> "COMPLETED", number |-> number[o],
                             total |-> Total[r][{o}], refunded |-> 0]
                       ELSE sales[o]]
    BY DEF Checked, Settles, RecordPayment
  <2>2. number \in Outlet!NextNumbers(S)
    BY SoldAreNumbered, SameCardinality DEF Numberings, Outlet!NextNumbers
  <2>3. Sold' = [o \in Orders |->
          IF o \in S THEN [number |-> number[o], total |-> Total[r][{o}], refunded |-> 0]
                     ELSE Sold[o]]
    BY <2>1 DEF Sold
  <2> QED
    BY <2>2, <2>3
<1>8. Checkouts' = Checkouts \cup {[orders |-> S, total |-> Total[r][S]]}
  <2>1. /\ payments'[p] = row /\ \A x \in Calls \ {p} : payments'[x] = payments[x]
    BY <1>1 DEF Told, Typed, TypeOK
  <2>2. row.amount = Total[r][S] /\ p \notin Taken
    BY DEF Checked, Taken
  <2>3. Taken' = Taken \cup {p}
    BY <1>1, <2>1 DEF Taken
  <2>4. \A x \in Taken : payments'[x] = payments[x] /\ Allocated(x)' = Allocated(x)
    BY <1>1, <2>1, <2>2 DEF Taken
  <2> DEFINE checkout(x) == [orders |-> Allocated(x), total |-> payments[x].amount]
  <2>5. Checkouts' = {checkout(x)' : x \in Taken'}
    BY DEF Checkouts
  <2>6. \A x \in Taken : checkout(x)' = checkout(x)
    BY <2>4
  <2>7. checkout(p)' = [orders |-> S, total |-> Total[r][S]]
    BY <1>1, <2>1, <2>2
  <2>8. Checkouts = {checkout(x) : x \in Taken}
    BY DEF Checkouts
  <2> HIDE DEF checkout
  <2> QED
    BY <2>3, <2>5, <2>6, <2>7, <2>8
<1>9. (\E o \in S : S = {o}) \/ (\E w \in Visits : S = Outlet!Owed(w))
  BY OwedIs DEF Whole
<1> QED
  BY <1>3, <1>5, <1>6, <1>7, <1>8, <1>9
     DEF Outlet!Settle, Whole, Accounts, Parties, Left, Sold, Checkouts, Taken

\* A whole checkout is recorded by this step.
WholePayment ==
  \E p \in Calls, row \in Payment, S \in SUBSET Orders, r \in Rates, v \in Visits \cup {None} :
    Checked(p, row, S, r, v) /\ Whole(S)

\* The payment of one order records that order, or nothing.
LEMMA PayOrderWhole ==
  ASSUME Told, NEW c \in Calls, NEW o \in Orders, CommitPayOrder(c, o)
  PROVE  UNCHANGED ledger \/ WholePayment
<1>1. PICK q : q = calls[c]
  OBVIOUS
<1>2. q \in Call /\ q.rate \in Rates /\ q.shift \in Shifts /\ q.pc = "running"
  BY <1>1, RunningTyped DEF CommitPayOrder, RequestTyped, Running, Told
<1>3. \/ UNCHANGED ledger
      \/ /\ lockShift(q.shift) /\ Payable(o) /\ Settleable(o, q.rate) /\ KeyHolders(q.key) = {}
         /\ RecordPayment(c, PaidRow(q, Total[q.rate][{o}]), {o}, q.rate, None)
  BY <1>1 DEF CommitPayOrder
<1>4. CASE /\ lockShift(q.shift) /\ Payable(o) /\ Settleable(o, q.rate) /\ KeyHolders(q.key) = {}
           /\ RecordPayment(c, PaidRow(q, Total[q.rate][{o}]), {o}, q.rate, None)
  <2>1. PICK row : row = PaidRow(q, Total[q.rate][{o}])
    OBVIOUS
  <2>2. row \in Payment /\ row.shift = q.shift /\ row.status = "PAID" /\ row.key = q.key
        /\ row.amount = Total[q.rate][{o}]
    BY <1>2, <2>1, TotalType DEF PaidRow, Payment, Call
  <2>3. payments[c].status = "NONE"
    BY <1>1, <1>2 DEF Told, Backed, Unspent
  <2>4. Settles(c, row, {o}, q.rate, None)
    BY <1>4, <2>1, <2>2 DEF Settles
  <2>5. Checked(c, row, {o}, q.rate, None)
    BY <1>4, <2>2, <2>3, <2>4 DEF Checked
  <2>6. Whole({o}) /\ {o} \in SUBSET Orders
    BY DEF Whole
  <2> QED
    BY <1>2, <2>2, <2>5, <2>6 DEF WholePayment
<1> QED
  BY <1>3, <1>4

\* The payment of a visit records all the visit owes, or nothing.
LEMMA PayVisitWhole ==
  ASSUME Told, NEW c \in Calls, CommitPayVisit(c)
  PROVE  UNCHANGED ledger \/ WholePayment
<1>1. PICK q : q = calls[c]
  OBVIOUS
<1>2. /\ q \in Call /\ q.rate \in Rates /\ q.shift \in Shifts /\ q.pc = "running"
      /\ q.visit \in Visits /\ q.lines # {} /\ q.lines \in SUBSET Orders
      /\ q.key \in Keys \cup {None} /\ q.claim \in Calls \cup {None}
  BY <1>1, RunningTyped DEF CommitPayVisit, RequestTyped, Running, Told, Call
<1> DEFINE accepted == /\ ensureVisitOrders(q.visit, q.lines)
                       /\ lockShift(q.shift)
                       /\ \A o \in q.lines : Payable(o) /\ Settleable(o, q.rate)
                       /\ q.claim # None => Confirmable(q)
                       /\ KeyHolders(q.key) \subseteq {q.claim}
           confirmed == [payments[q.claim] EXCEPT !.status = "PAID", !.key = q.key,
                                                  !.shift = q.shift]
<1>3. \/ UNCHANGED ledger
      \/ /\ accepted /\ q.claim = None
         /\ RecordPayment(c, PaidRow(q, Total[q.rate][q.lines]), q.lines, q.rate, q.visit)
      \/ /\ accepted /\ q.claim # None
         /\ RecordPayment(q.claim, confirmed, q.lines, q.rate, q.visit)
  BY <1>1 DEF CommitPayVisit
<1>4. ASSUME accepted, NEW p \in Calls, NEW row \in Payment,
             payments[p].status \in {"NONE", "VERIFYING"},
             RecordPayment(p, row, q.lines, q.rate, q.visit), KeyHolders(q.key) \subseteq {p},
             row.shift = q.shift, row.status = "PAID", row.key = q.key,
             row.amount = Total[q.rate][q.lines]
      PROVE  WholePayment
  <2>1. Checked(p, row, q.lines, q.rate, q.visit)
    BY <1>4 DEF Checked, Settles
  <2>2. Whole(q.lines)
    BY <1>2, <1>4 DEF Whole, ensureVisitOrders
  <2> QED
    BY <1>2, <2>1, <2>2 DEF WholePayment
<1>5. CASE /\ accepted /\ q.claim = None
           /\ RecordPayment(c, PaidRow(q, Total[q.rate][q.lines]), q.lines, q.rate, q.visit)
  <2>1. PICK row : row = PaidRow(q, Total[q.rate][q.lines])
    OBVIOUS
  <2>2. row \in Payment /\ row.shift = q.shift /\ row.status = "PAID" /\ row.key = q.key
        /\ row.amount = Total[q.rate][q.lines]
    BY <1>2, <2>1, TotalType DEF PaidRow, Payment, Call
  <2>3. KeyHolders(q.key) \subseteq {c}
    BY <1>5, NoneAssumption DEF KeyHolders
  <2>4. payments[c].status = "NONE"
    BY <1>1, <1>2 DEF Told, Backed, Unspent
  <2> QED
    BY <1>4, <1>5, <2>1, <2>2, <2>3, <2>4
<1>6. CASE /\ accepted /\ q.claim # None
           /\ RecordPayment(q.claim, confirmed, q.lines, q.rate, q.visit)
  <2>1. PICK p \in Calls, old \in Payment : p = q.claim /\ old = payments[p]
    BY <1>2, <1>6 DEF Told, Typed, TypeOK
  <2>2. old.status = "VERIFYING" /\ old.amount = Total[q.rate][q.lines]
    BY <1>6, <2>1 DEF Confirmable
  <2>3. PICK k \in Keys \cup {None}, s \in Shifts : k = q.key /\ s = q.shift
    BY <1>2
  <2> DEFINE row == [old EXCEPT !.status = "PAID", !.key = k, !.shift = s]
  <2>4. row \in Payment /\ row.shift = s /\ row.status = "PAID" /\ row.key = k
        /\ row.amount = old.amount
    BY DEF Payment
  <2>5. RecordPayment(p, row, q.lines, q.rate, q.visit)
    BY <1>6, <2>1, <2>3
  <2> HIDE DEF row
  <2> QED
    BY <1>4, <1>6, <2>1, <2>2, <2>3, <2>4, <2>5
<1> QED
  BY <1>3, <1>5, <1>6

\* A refund gives something back of a paid order, or nothing happens.
LEMMA RefundShown ==
  ASSUME Told, NEW c \in Calls, NEW o \in Orders, CommitRefund(c, o)
  PROVE  Outlet!GiveBack(o) \/ UNCHANGED Outlet!vars
<1>1. PICK n \in Nat \ {0} : n = calls[c].amount
  BY RunningTyped DEF CommitRefund, RequestTyped, Told
<1>2. UNCHANGED <<visits, orders, bills, payments, allocations, saleNumber>>
  BY DEF CommitRefund
<1>3. CASE sales' = sales
  BY <1>2, <1>3, NothingShows DEF ledger
<1>4. CASE sales' # sales
  <2>1. PICK t : sales' = [sales EXCEPT ![o].refunded = @ + n, ![o].status = t]
    BY <1>1, <1>4 DEF CommitRefund
  <2>2. n <= sales[o].total - sales[o].refunded /\ calls[c].lines = {o}
        /\ Running(c, "refund")
    BY <1>1, <1>4 DEF CommitRefund, refundable
  <2>3. standing(o) = "paid"
    BY <2>2, Standing DEF Told, Backed, RefundsOfPaid
  <2>4. PICK old \in Sale : old = sales[o]
    BY DEF Told, Typed, TypeOK
  <2>5. /\ \A x \in Orders \ {o} : sales'[x] = sales[x]
        /\ sales'[o] = [old EXCEPT !.refunded = old.refunded + n, !.status = t]
    BY <2>1, <2>4 DEF Told, Typed, TypeOK
  <2>6. /\ sales'[o].number = old.number /\ sales'[o].total = old.total
        /\ sales'[o].refunded = old.refunded + n
    BY <2>5 DEF Sale
  <2>7. old.refunded + n \in (old.refunded + 1) .. old.total
    BY <2>2, <2>4 DEF Sale
  <2>8. Sold' = [Sold EXCEPT ![o].refunded = old.refunded + n]
    <3>1. \A x \in Orders :
            [number |-> sales'[x].number, total |-> sales'[x].total,
             refunded |-> sales'[x].refunded]
              = IF x = o THEN [number |-> old.number, total |-> old.total,
                               refunded |-> old.refunded + n]
                         ELSE [number |-> sales[x].number, total |-> sales[x].total,
                               refunded |-> sales[x].refunded]
      BY <2>5, <2>6
    <3>2. Sold' = [x \in Orders |->
                     IF x = o THEN [number |-> old.number, total |-> old.total,
                                    refunded |-> old.refunded + n]
                              ELSE Sold[x]]
      BY <3>1 DEF Sold
    <3>3. [Sold[o] EXCEPT !.refunded = old.refunded + n]
            = [number |-> old.number, total |-> old.total, refunded |-> old.refunded + n]
      BY <2>4 DEF Sold
    <3> QED
      BY <3>2, <3>3 DEF Sold
  <2>9. \A x \in Orders : standing(x)' = standing(x)
    BY <1>2 DEF standing, Submitted, Paid, isOrderApproved
  <2>10. Accounts' = Accounts /\ Parties' = Parties /\ Left' = Left /\ Checkouts' = Checkouts
    BY <1>2, <2>9 DEF Accounts, Parties, Left, Checkouts, Taken, Allocated
  <2>11. Sold[o].refunded = old.refunded /\ Sold[o].total = old.total
    BY <2>4 DEF Sold
  <2> QED
    BY <2>3, <2>7, <2>8, <2>10, <2>11
       DEF Outlet!GiveBack, Accounts, Parties, Left, Sold, Checkouts, Taken
<1> QED
  BY <1>3, <1>4

\* A claim of guests does not show before it is confirmed.
LEMMA ClaimShown ==
  ASSUME Told, NEW c \in Calls, CommitClaim(c) \/ rejectClaim(c)
  PROVE  UNCHANGED Outlet!vars
<1>1. UNCHANGED <<visits, orders, bills, allocations, sales, saleNumber>>
  BY DEF CommitClaim, rejectClaim
<1>2. CASE payments' = payments
  BY <1>1, <1>2, NothingShows DEF ledger
<1>3. CASE payments' # payments
  <2>1. payments[c].status # "PAID"
    BY <1>3 DEF CommitClaim, rejectClaim, Running, Told, Backed, Unspent
  <2>2. \E row : payments' = [payments EXCEPT ![c] = row] /\ row.status # "PAID"
    <3>1. CASE CommitClaim(c)
      <4> DEFINE row == [status |-> "VERIFYING", key |-> calls[c].key,
                         amount |-> calls[c].amount, method |-> calls[c].method,
                         visit |-> calls[c].visit, shift |-> None]
      <4>1. payments' = [payments EXCEPT ![c] = row]
        BY <1>3, <3>1 DEF CommitClaim
      <4>2. row.status # "PAID"
        OBVIOUS
      <4> HIDE DEF row
      <4> QED
        BY <4>1, <4>2
    <3>2. CASE rejectClaim(c)
      <4>1. PICK old \in Payment : old = payments[c]
        BY DEF Told, Typed, TypeOK
      <4>2. [old EXCEPT !.status = "FAILED"].status = "FAILED"
        BY DEF Payment
      <4>3. payments' = [payments EXCEPT ![c] = [old EXCEPT !.status = "FAILED"]]
        BY <3>2, <4>1 DEF rejectClaim
      <4> QED
        BY <4>2, <4>3
    <3> QED
      BY <3>1, <3>2
  <2>3. payments'[c].status # "PAID" /\ \A x \in Calls \ {c} : payments'[x] = payments[x]
    BY <2>2 DEF Told, Typed, TypeOK
  <2>4. Taken' = Taken /\ \A x \in Taken : payments'[x] = payments[x]
    BY <2>1, <2>3 DEF Taken
  <2>5. \A x : Allocated(x)' = Allocated(x)
    BY <1>1 DEF Allocated
  <2>6. Checkouts' = Checkouts
    BY <2>4, <2>5 DEF Checkouts
  <2>7. \A x \in Orders : standing(x)' = standing(x)
    BY <1>1 DEF standing, Submitted, Paid, isOrderApproved
  <2>8. Accounts' = Accounts /\ Parties' = Parties /\ Left' = Left /\ Sold' = Sold
    BY <1>1, <2>7 DEF Accounts, Parties, Left, Sold
  <2> QED
    BY <2>6, <2>8 DEF Outlet!vars, Accounts, Parties, Left, Sold, Checkouts, Taken
<1> QED
  BY <1>2, <1>3

\* What a step of a request shows.
LEMMA CallShown ==
  ASSUME Told, Told', CallNext
  PROVE  [Outlet!Next]_(Outlet!vars)
<1>1. UNCHANGED <<visits, orders>>
  BY CallStep DEF Told
<1>2. CASE UNCHANGED ledger
  BY <1>1, <1>2, NothingShows
<1>3. CASE WholePayment
  <2>1. PICK p \in Calls, row \in Payment, S \in SUBSET Orders, r \in Rates,
             v \in Visits \cup {None} : Checked(p, row, S, r, v) /\ Whole(S)
    BY <1>3 DEF WholePayment
  <2>2. Outlet!Settle(S, r)
    BY <1>1, <2>1, PaymentShown
  <2> QED
    BY <2>2 DEF Outlet!Next
<1>4. ASSUME NEW c \in Calls, NEW o \in Orders, CommitRefund(c, o)
      PROVE  [Outlet!Next]_(Outlet!vars)
  BY <1>4, RefundShown DEF Outlet!Next
<1>5. ASSUME NEW c \in Calls, CommitClaim(c) \/ rejectClaim(c)
      PROVE  [Outlet!Next]_(Outlet!vars)
  BY <1>5, ClaimShown
<1>6. \/ UNCHANGED ledger \/ WholePayment
      \/ \E c \in Calls, o \in Orders : CommitRefund(c, o)
      \/ \E c \in Calls : CommitClaim(c) \/ rejectClaim(c)
  <2>1. ASSUME NEW c \in Calls, NEW k \in Keys, NEW o \in Orders, NEW s \in Shifts,
               NEW m \in Methods, BeginPayOrder(c, k, o, s, m)
        PROVE  UNCHANGED ledger
    BY <2>1 DEF BeginPayOrder
  <2>2. ASSUME NEW c \in Calls, NEW k \in Keys, NEW v \in Visits, NEW s \in Shifts,
               NEW m \in Methods, NEW claim \in Calls \cup {None},
               BeginPayVisit(c, k, v, s, m, claim)
        PROVE  UNCHANGED ledger
    BY <2>2 DEF BeginPayVisit
  <2>3. ASSUME NEW c \in Calls, NEW k \in Keys, NEW v \in Visits, NEW m \in Methods,
               BeginClaim(c, k, v, m)
        PROVE  UNCHANGED ledger
    BY <2>3 DEF BeginClaim
  <2>4. ASSUME NEW c \in Calls, NEW k \in Keys, NEW o \in Orders, NEW s \in Shifts,
               NEW amount \in Amounts, BeginRefund(c, k, o, s, amount)
        PROVE  UNCHANGED ledger
    BY <2>4 DEF BeginRefund
  <2>5. ASSUME NEW c \in Calls, NEW k \in Keys, NEW s \in Shifts,
               NEW amount \in Amounts \cup {-a : a \in Amounts}, BeginCashMovement(c, k, s, amount)
        PROVE  UNCHANGED ledger
    BY <2>5 DEF BeginCashMovement
  <2>6. ASSUME NEW c \in Calls, CommitCashMovement(c)
        PROVE  UNCHANGED ledger
    BY <2>6 DEF CommitCashMovement
  <2> QED
    BY <2>1, <2>2, <2>3, <2>4, <2>5, <2>6, PayOrderWhole, PayVisitWhole DEF CallNext
<1> QED
  BY <1>2, <1>3, <1>4, <1>5, <1>6

\* What any step shows.
LEMMA StepShown ==
  ASSUME Told, Told', [Next]_vars
  PROVE  [Outlet!Next]_(Outlet!vars)
<1>1. CASE OrderNext
  BY <1>1, OrderShown
<1>2. CASE CallNext
  BY <1>2, CallShown
<1>3. CASE ShiftNext
  <2>1. UNCHANGED <<visits, orders, ledger>>
    BY <1>3 DEF ShiftNext, openShift, closeShift
  <2> QED
    BY <2>1, NothingShows
<1>4. CASE UNCHANGED vars
  <2>1. UNCHANGED <<visits, orders, ledger>>
    BY <1>4 DEF vars, ledger
  <2> QED
    BY <2>1, NothingShows
<1> QED
  BY <1>1, <1>2, <1>3, <1>4 DEF Next

\* An outlet begins with nothing ordered and nobody gone.
LEMMA InitShown == Init => Outlet!Init
<1> SUFFICES ASSUME Init PROVE Outlet!Init
  OBVIOUS
<1>1. Accounts = [o \in Orders |-> "none"] /\ Parties = [o \in Orders |-> None]
  BY DEF Init, NoOrder, Accounts, Parties, standing, Submitted
<1>2. Left = {}
  BY DEF Init, Left
<1>3. Sold = [o \in Orders |-> Outlet!Unsold]
  BY DEF Init, NoSale, Sold, Outlet!Unsold
<1>4. Taken = {}
  BY DEF Init, NoPayment, Taken
<1>5. Checkouts = {}
  BY <1>4 DEF Checkouts
<1> QED
  BY <1>1, <1>2, <1>3, <1>5 DEF Outlet!Init, Accounts, Parties, Left, Sold, Checkouts, Taken

\* Whatever its requests read before their transactions and however these
\* interleave, the rows of the outlet tell of orders that are placed, paid once
\* and whole, numbered, given back from or canceled one step at a time, as
\* Settlement says (recordFullPayment, recordSessionPayment, recordRefund,
\* createSubmitted, decideGuestOrder, cancel, close).
THEOREM PromisedTheorem == Spec => Promised
<1>1. Spec => [](Typed /\ Backed)
  BY BackedHolds
<1>2. Spec => []PaidOrdersStand
  BY PaidOrdersAlwaysStand
<1>3. Spec => []Told
  <2>1. Typed /\ Backed /\ PaidOrdersStand => Told
    BY DEF Told
  <2> QED
    BY <1>1, <1>2, <2>1, PTL
<1>4. Told /\ Told' /\ [Next]_vars => [Outlet!Next]_(Outlet!vars)
  BY StepShown
<1> QED
  BY <1>3, <1>4, InitShown, PTL DEF Spec, Promised, Outlet!Spec
=============================================================================
