---------------------------- MODULE Settlement ----------------------------
(* What an outlet promises of an order and its money, whoever asks for what *)
(* at once: an order is paid once, by a checkout that covers it alone or    *)
(* everything its visit still owes, at the charges of one moment; it is the *)
(* next sale; it is never canceled after that, and no more is given back    *)
(* than was paid. Guests who left owe nothing. SalesLedger is shown to keep *)
(* this.                                                                    *)
EXTENDS Integers, FiniteSets

CONSTANTS
  Orders,  \* orders of one outlet
  Visits,  \* visits of guests
  Rates,   \* what the outlet may charge
  Total,   \* Total[r][S]: what the orders S cost together under charges r
  None     \* no visit: an order at the counter

VARIABLES
  account,   \* where each order is between being placed and being paid
  party,     \* the visit it belongs to
  left,      \* the visits that are over
  sale,      \* number and total of the sale it became, and what was given back
  checkouts  \* the payments taken: what for, and how much

vars == <<account, party, left, sale, checkouts>>

Unsold == [number |-> 0, total |-> 0, refunded |-> 0]

Init ==
  /\ account = [o \in Orders |-> "none"]
  /\ party = [o \in Orders |-> None]
  /\ left = {}
  /\ sale = [o \in Orders |-> Unsold]
  /\ checkouts = {}

\* What a visit still owes.
Owed(v) == {o \in Orders : party[o] = v /\ account[o] \in {"asked", "agreed"}}

Sold == {o \in Orders : account[o] = "paid"}

\* Staff place an order they agree to; guests at a table ask for one.
Place(o, v, state) ==
  /\ account[o] = "none"
  /\ v \notin left
  /\ state = "asked" => v # None
  /\ account' = [account EXCEPT ![o] = state]
  /\ party' = [party EXCEPT ![o] = v]
  /\ UNCHANGED <<left, sale, checkouts>>

Agree(o) ==
  /\ account[o] = "asked"
  /\ account' = [account EXCEPT ![o] = "agreed"]
  /\ UNCHANGED <<party, left, sale, checkouts>>

Withdraw(o) ==
  /\ account[o] \in {"asked", "agreed"}
  /\ account' = [account EXCEPT ![o] = "canceled"]
  /\ UNCHANGED <<party, left, sale, checkouts>>

\* The numbers after those of the orders sold so far, one each.
NextNumbers(S) ==
  {f \in [S -> (Cardinality(Sold) + 1) .. (Cardinality(Sold) + Cardinality(S))] :
     \A a, b \in S : f[a] = f[b] => a = b}

\* One order, or all that a visit owes, is paid at once under charges r.
Settle(S, r) ==
  /\ S # {} /\ \A o \in S : account[o] = "agreed"
  /\ (\E o \in S : S = {o}) \/ (\E v \in Visits : S = Owed(v))
  /\ account' = [o \in Orders |-> IF o \in S THEN "paid" ELSE account[o]]
  /\ \E number \in NextNumbers(S) :
       sale' = [o \in Orders |->
         IF o \in S THEN [number |-> number[o], total |-> Total[r][{o}], refunded |-> 0]
                    ELSE sale[o]]
  /\ checkouts' = checkouts \cup {[orders |-> S, total |-> Total[r][S]]}
  /\ UNCHANGED <<party, left>>

\* Something of what was paid is given back.
GiveBack(o) ==
  /\ account[o] = "paid"
  /\ \E refunded \in (sale[o].refunded + 1) .. sale[o].total :
       sale' = [sale EXCEPT ![o].refunded = refunded]
  /\ UNCHANGED <<account, party, left, checkouts>>

Leave(v) ==
  /\ v \notin left
  /\ Owed(v) = {}
  /\ left' = left \cup {v}
  /\ UNCHANGED <<account, party, sale, checkouts>>

Next ==
  \/ \E o \in Orders :
       \/ \E v \in Visits \cup {None}, state \in {"asked", "agreed"} : Place(o, v, state)
       \/ Agree(o) \/ Withdraw(o) \/ GiveBack(o)
  \/ \E S \in SUBSET Orders, r \in Rates : Settle(S, r)
  \/ \E v \in Visits : Leave(v)

Spec == Init /\ [][Next]_vars
=============================================================================
