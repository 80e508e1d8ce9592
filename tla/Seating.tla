------------------------------ MODULE Seating ------------------------------
(* What the floor promises to staff and guests: guests sit at one table     *)
(* from the moment they are seated until they leave, nobody else is seated  *)
(* there, and a table they left is only free again once it was cleaned when *)
(* the outlet asks for that. FloorVisits is shown to keep this.             *)
EXTENDS Naturals

CONSTANTS
  Tables,  \* the tables of one outlet
  Visits,  \* visits of guests
  None     \* no table

VARIABLE
  place  \* where each visit is in its life, and the table it keeps busy

\* A visit that has no table: nobody came yet, or everything is over.
NoTable(state) == [state |-> state, table |-> None]

At(state, t) == [state |-> state, table |-> t]

Free(t) == \A v \in Visits : place[v].table # t

Init == place = [v \in Visits |-> NoTable("EXPECTED")]

Seat(v, t) ==
  /\ place[v].state = "EXPECTED"
  /\ Free(t)
  /\ place' = [place EXCEPT ![v] = At("OCCUPIED", t)]

Move(v, t) ==
  /\ place[v].state = "OCCUPIED"
  /\ Free(t)
  /\ place' = [place EXCEPT ![v] = At("OCCUPIED", t)]

\* The guests leave; the table is free at once or waits to be cleaned.
Leave(v) ==
  /\ place[v].state = "OCCUPIED"
  /\ place' \in {[place EXCEPT ![v] = NoTable("OVER")],
                 [place EXCEPT ![v] = At("CLEANING", place[v].table)]}

Clean(v) ==
  /\ place[v].state = "CLEANING"
  /\ place' = [place EXCEPT ![v] = NoTable("OVER")]

Next ==
  \E v \in Visits :
    \/ \E t \in Tables : Seat(v, t) \/ Move(v, t)
    \/ Leave(v)
    \/ Clean(v)

Spec == Init /\ [][Next]_place
=============================================================================
