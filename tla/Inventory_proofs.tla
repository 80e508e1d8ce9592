-------------------------- MODULE Inventory_proofs --------------------------
(* Safety of Inventory for any number of rows, keys, requests and commands. *)
(* The heart of the inductive invariant is Checked: what a command found     *)
(* when it had locked its rows is still so when it writes them, whatever     *)
(* other commands did since. It holds because two transactions never hold    *)
(* one row (Apart) and every write stays within the rows its command locked. *)
(* It is also why commands that lock row by row work as if each were a       *)
(* single step: Inventory implements MasterCommands.                         *)
EXTENDS Inventory, FiniteSetTheorems, SequenceTheorems, WellFoundedInduction, TLAPS

InFlight(c) == call[c].pc \in {"claim", "lock", "write"}

\* The rows a command in flight names stay, as rows are never deleted, and it
\* locks them one after the other.
Underway ==
  \A c \in Calls : InFlight(c) =>
    /\ Known(call[c].cmd)
    /\ call[c].held <= Len(Locks(call[c].cmd))
    /\ call[c].pc = "claim" => call[c].held = 0
    /\ call[c].pc = "write" => call[c].held = Len(Locks(call[c].cmd))

\* Two transactions never hold one row or one key.
Apart ==
  \A c, d \in Calls : c # d /\ InTransaction(c) /\ InTransaction(d) =>
    /\ ~SameKey(call[c], call[d])
    /\ \A m \in 1 .. call[c].held, n \in 1 .. call[d].held :
         Locks(call[c].cmd)[m] # Locks(call[d].cmd)[n]

\* What a command found is still so when it writes.
Checked == \A c \in Calls : call[c].pc = "write" => Allowed(call[c].cmd)

\* What is referred to is there and locked.
Referenced == MinimumFits /\ \A u \in Units : unit[u].locked => unit[u].precision # None

Counted == IsFiniteSet(Existing) /\ QuotaHolds

\* A key is saved once, after its transaction; whoever is done was answered
\* what is saved.
Remembered ==
  /\ IsFiniteSet(saved)
  /\ \A s, t \in saved : SameKey(s, t) => s = t
  /\ \A c \in Calls, s \in saved : InTransaction(c) => ~SameKey(s, call[c])
  /\ \A c \in Calls : call[c].pc = "done" =>
       \E s \in saved : /\ SameKey(s, call[c])
                        /\ s.cmd = call[c].cmd /\ s.answer = call[c].answer

Inv == TypeOK /\ Underway /\ Apart /\ Checked /\ Referenced /\ Counted /\ Remembered

-----------------------------------------------------------------------------
(* Commands and what they lock                                               *)

LEMMA CommandFields ==
  ASSUME NEW cmd \in Command
  PROVE  /\ cmd.kind \in {"unit.create", "unit.update", "category.create", "category.status",
                          "item.create", "item.update", "conversion.create", "conversion.update"}
         /\ cmd.kind \in {"unit.create", "unit.update"} =>
              cmd.unit \in Units /\ cmd.precision \in Precisions
         /\ cmd.kind \in {"category.create", "category.status"} => cmd.category \in Categories
         /\ cmd.kind = "category.status" => cmd.status \in {"ACTIVE", "INACTIVE"}
         /\ cmd.kind = "item.create" =>
              /\ cmd.unit \in Units
              /\ cmd.category \in Categories \cup {None}
              /\ cmd.minimum \in Precisions \cup {None}
         /\ cmd.kind = "item.update" =>
              /\ cmd.item \in Items
              /\ cmd.category \in Categories \cup {None, Keep}
              /\ cmd.minimum \in Precisions \cup {None, Keep}
         /\ cmd.kind \in {"conversion.create", "conversion.update"} =>
              cmd.pair \in Pairs /\ cmd.factor \in Factors
  BY DEF Command

\* A pair of units has a smaller and a larger number.
LEMMA PairOrder ==
  ASSUME NEW p \in Pairs
  PROVE  /\ p[1] \in Units /\ p[2] \in Units /\ p[1] \in Nat /\ p[2] \in Nat
         /\ {Min({p[1], p[2]}), Max({p[1], p[2]})} = {p[1], p[2]}
         /\ Min({p[1], p[2]}) < Max({p[1], p[2]})
<1>1. p[1] \in Units /\ p[2] \in Units /\ p[1] # p[2]
  BY DEF Pairs
<1>2. p[1] \in Nat /\ p[2] \in Nat
  BY <1>1, NumbersAssumption
<1>3. \A a, b \in Nat : a < b => Min({a, b}) = a /\ Max({a, b}) = b
  <2> SUFFICES ASSUME NEW a \in Nat, NEW b \in Nat, a < b PROVE Min({a, b}) = a /\ Max({a, b}) = b
    OBVIOUS
  <2>1. \A x \in {a, b} : (\A y \in {a, b} : x <= y) <=> x = a
    OBVIOUS
  <2>2. \A x \in {a, b} : (\A y \in {a, b} : x >= y) <=> x = b
    OBVIOUS
  <2> QED
    BY <2>1, <2>2 DEF Min, Max
<1>4. CASE p[1] < p[2]
  BY <1>1, <1>2, <1>3, <1>4
<1>5. CASE p[2] < p[1]
  <2>1. {p[1], p[2]} = {p[2], p[1]}
    OBVIOUS
  <2>2. Min({p[2], p[1]}) = p[2] /\ Max({p[2], p[1]}) = p[1]
    BY <1>2, <1>3, <1>5
  <2> QED
    BY <1>1, <1>2, <1>5, <2>1, <2>2
<1> QED
  BY <1>1, <1>2, <1>4, <1>5

LEMMA Snoc ==
  ASSUME NEW S, NEW s \in Seq(S), NEW z \in S, NEW t \in Seq(S), Len(t) = Len(s) + 1,
         t[Len(s) + 1] = z, \A i \in 1 .. Len(s) : t[i] = s[i]
  PROVE  s \o <<z>> = t
<1>1. <<z>> \in Seq(S) /\ Len(<<z>>) = 1 /\ <<z>>[1] = z
  OBVIOUS
<1>2. s \o <<z>> \in Seq(S) /\ Len(s \o <<z>>) = Len(t)
  BY <1>1
<1>3. \A i \in 1 .. Len(t) : (s \o <<z>>)[i] = t[i]
  BY <1>1
<1> QED
  BY <1>2, <1>3, SeqEqual

\* Short sequences put together.
LEMMA ShortSequences ==
  ASSUME NEW x, NEW y, NEW z, NEW w
  PROVE  /\ <<x, y>> \o << >> = <<x, y>>
         /\ <<x, y>> \o <<z>> = <<x, y, z>>
         /\ <<x, y, z>> \o <<w>> = <<x, y, z, w>>
<1> DEFINE S == {x, y, z, w}
<1>1. <<x, y>> \in Seq(S) /\ <<x, y, z>> \in Seq(S) /\ <<x, y, z, w>> \in Seq(S)
  OBVIOUS
<1>2. /\ Len(<<x, y>>) = 2 /\ Len(<<x, y, z>>) = 3 /\ Len(<<x, y, z, w>>) = 4
      /\ \A i \in 1 .. 2 : <<x, y, z>>[i] = <<x, y>>[i]
      /\ \A i \in 1 .. 3 : <<x, y, z, w>>[i] = <<x, y, z>>[i]
  <2>1. \A i \in 1 .. 2 : i = 1 \/ i = 2
    OBVIOUS
  <2>2. \A i \in 1 .. 3 : i = 1 \/ i = 2 \/ i = 3
    OBVIOUS
  <2> QED
    BY <2>1, <2>2
<1>3. z \in S /\ w \in S /\ <<x, y, z>>[3] = z /\ <<x, y, z, w>>[4] = w
  OBVIOUS
<1> HIDE DEF S
<1>4. <<x, y>> \o <<z>> = <<x, y, z>>
  <2> DEFINE s == <<x, y>>
             t == <<x, y, z>>
  <2>1. Len(t) = Len(s) + 1 /\ t[Len(s) + 1] = z /\ \A i \in 1 .. Len(s) : t[i] = s[i]
    BY <1>2, <1>3
  <2>2. s \in Seq(S) /\ t \in Seq(S)
    BY <1>1
  <2> HIDE DEF s, t
  <2>3. s \o <<z>> = t
    BY <1>3, <2>1, <2>2, Snoc
  <2> QED
    BY <2>3 DEF s, t
<1>5. <<x, y, z>> \o <<w>> = <<x, y, z, w>>
  <2> DEFINE s == <<x, y, z>>
             t == <<x, y, z, w>>
  <2>1. Len(t) = Len(s) + 1 /\ t[Len(s) + 1] = w /\ \A i \in 1 .. Len(s) : t[i] = s[i]
    BY <1>2, <1>3
  <2>2. s \in Seq(S) /\ t \in Seq(S)
    BY <1>1
  <2> HIDE DEF s, t
  <2>3. s \o <<w>> = t
    BY <1>3, <2>1, <2>2, Snoc
  <2> QED
    BY <2>3 DEF s, t
<1> QED
  BY <1>1, <1>4, <1>5, ConcatEmptySeq

\* What a command locks, row by row.
LEMMA LocksAre ==
  ASSUME NEW cmd \in Command
  PROVE  /\ cmd.kind = "unit.update" => Locks(cmd) = << <<"unit", cmd.unit>> >>
         /\ cmd.kind = "category.status" => Locks(cmd) = << <<"category", cmd.category>> >>
         /\ cmd.kind = "item.create" => Locks(cmd) =
              IF cmd.category \in Categories
                THEN << <<"items", None>>, <<"unit", cmd.unit>>, <<"category", cmd.category>> >>
                ELSE << <<"items", None>>, <<"unit", cmd.unit>> >>
         /\ cmd.kind = "item.update" => Locks(cmd) =
              IF cmd.category \in Categories
                THEN << <<"items", None>>, <<"unit", item[cmd.item].unit>>,
                        <<"category", cmd.category>>, <<"item", cmd.item>> >>
                ELSE << <<"items", None>>, <<"unit", item[cmd.item].unit>>, <<"item", cmd.item>> >>
         /\ cmd.kind = "conversion.create" => Locks(cmd) =
              << <<"unit", Min({cmd.pair[1], cmd.pair[2]})>>,
                 <<"unit", Max({cmd.pair[1], cmd.pair[2]})>> >>
         /\ cmd.kind = "conversion.update" => Locks(cmd) =
              << <<"unit", Min({cmd.pair[1], cmd.pair[2]})>>,
                 <<"unit", Max({cmd.pair[1], cmd.pair[2]})>>, <<"conversion", cmd.pair>> >>
         /\ cmd.kind \in {"unit.create", "category.create"} => Locks(cmd) = << >>
<1>1. \A g : CategoryLock(g) = IF g \in Categories THEN << <<"category", g>> >> ELSE << >>
  BY DEF CategoryLock
<1>2. \A p : UnitLocks(p) = << <<"unit", Min({p[1], p[2]})>>, <<"unit", Max({p[1], p[2]})>> >>
  BY DEF UnitLocks
<1>3. \A x, y, z, w : /\ <<x, y>> \o << >> = <<x, y>>
                      /\ <<x, y>> \o <<z>> = <<x, y, z>>
                      /\ <<x, y, z>> \o <<w>> = <<x, y, z, w>>
  BY ShortSequences
<1>4. cmd.kind = "item.create" => Locks(cmd) =
        << <<"items", None>>, <<"unit", cmd.unit>> >> \o CategoryLock(cmd.category)
  BY DEF Locks
<1>5. cmd.kind = "item.update" => Locks(cmd) =
        << <<"items", None>>, <<"unit", item[cmd.item].unit>> >>
           \o CategoryLock(cmd.category) \o << <<"item", cmd.item>> >>
  BY DEF Locks
<1>6. cmd.kind = "conversion.update" =>
        Locks(cmd) = UnitLocks(cmd.pair) \o << <<"conversion", cmd.pair>> >>
  BY DEF Locks
<1>7. cmd.kind = "conversion.create" => Locks(cmd) = UnitLocks(cmd.pair)
  BY DEF Locks
<1>8. /\ cmd.kind = "unit.update" => Locks(cmd) = << <<"unit", cmd.unit>> >>
      /\ cmd.kind = "category.status" => Locks(cmd) = CategoryLock(cmd.category)
      /\ cmd.kind \in {"unit.create", "category.create"} => Locks(cmd) = << >>
  BY DEF Locks
<1>9. cmd.kind = "category.status" => cmd.category \in Categories
  BY CommandFields
<1>10. cmd.kind = "item.create" => Locks(cmd) =
         IF cmd.category \in Categories
           THEN << <<"items", None>>, <<"unit", cmd.unit>>, <<"category", cmd.category>> >>
           ELSE << <<"items", None>>, <<"unit", cmd.unit>> >>
  BY <1>1, <1>3, <1>4
<1>11. cmd.kind = "item.update" => Locks(cmd) =
         IF cmd.category \in Categories
           THEN << <<"items", None>>, <<"unit", item[cmd.item].unit>>,
                   <<"category", cmd.category>>, <<"item", cmd.item>> >>
           ELSE << <<"items", None>>, <<"unit", item[cmd.item].unit>>, <<"item", cmd.item>> >>
  <2> DEFINE x == <<"items", None>>
             y == <<"unit", item[cmd.item].unit>>
             z == <<"category", cmd.category>>
             w == <<"item", cmd.item>>
  <2>1. /\ (<<x, y>> \o <<z>>) \o <<w>> = <<x, y, z, w>>
        /\ (<<x, y>> \o << >>) \o <<w>> = <<x, y, w>>
    <3> HIDE DEF x, y, z, w
    <3>1. /\ <<x, y>> \o << >> = <<x, y>> /\ <<x, y>> \o <<z>> = <<x, y, z>>
          /\ <<x, y>> \o <<w>> = <<x, y, w>> /\ <<x, y, z>> \o <<w>> = <<x, y, z, w>>
      BY ShortSequences
    <3> QED
      BY <3>1
  <2>2. cmd.kind = "item.update" => Locks(cmd) = (<<x, y>> \o CategoryLock(cmd.category)) \o <<w>>
    BY <1>5
  <2>3. CategoryLock(cmd.category) = IF cmd.category \in Categories THEN <<z>> ELSE << >>
    BY <1>1
  <2> HIDE DEF x, y, z, w
  <2>4. cmd.kind = "item.update" => Locks(cmd) =
          IF cmd.category \in Categories THEN <<x, y, z, w>> ELSE <<x, y, w>>
    BY <2>1, <2>2, <2>3
  <2> QED
    BY <2>4 DEF x, y, z, w
<1> QED
  BY <1>1, <1>2, <1>3, <1>6, <1>7, <1>8, <1>9, <1>10, <1>11

\* No command locks more than four rows.
LEMMA FewLocks ==
  ASSUME NEW cmd \in Command
  PROVE  Len(Locks(cmd)) \in 0 .. 4
<1>1. \A x, y, z, w : /\ Len(<<x>>) = 1 /\ Len(<<x, y>>) = 2 /\ Len(<<x, y, z>>) = 3
                      /\ Len(<<x, y, z, w>>) = 4
  OBVIOUS
<1> DEFINE items == <<"items", None>>
           unitRow == <<"unit", cmd.unit>>
           categoryRow == <<"category", cmd.category>>
           itemRow == <<"item", cmd.item>>
           itemUnit == <<"unit", item[cmd.item].unit>>
           low == <<"unit", Min({cmd.pair[1], cmd.pair[2]})>>
           high == <<"unit", Max({cmd.pair[1], cmd.pair[2]})>>
           pairRow == <<"conversion", cmd.pair>>
<1>2. /\ cmd.kind = "unit.update" => Locks(cmd) = <<unitRow>>
      /\ cmd.kind = "category.status" => Locks(cmd) = <<categoryRow>>
      /\ cmd.kind = "item.create" => Locks(cmd) \in {<<items, unitRow, categoryRow>>, <<items, unitRow>>}
      /\ cmd.kind = "item.update" =>
           Locks(cmd) \in {<<items, itemUnit, categoryRow, itemRow>>, <<items, itemUnit, itemRow>>}
      /\ cmd.kind = "conversion.create" => Locks(cmd) = <<low, high>>
      /\ cmd.kind = "conversion.update" => Locks(cmd) = <<low, high, pairRow>>
      /\ cmd.kind \in {"unit.create", "category.create"} => Locks(cmd) = << >>
  BY LocksAre
<1> HIDE DEF items, unitRow, categoryRow, itemRow, itemUnit, low, high, pairRow
<1> QED
  BY <1>1, <1>2, CommandFields

-----------------------------------------------------------------------------
(* Requests                                                                  *)

\* What the record of a request in flight is.
LEMMA FlightFields ==
  ASSUME TypeOK, NEW c \in Calls
  PROVE  /\ InFlight(c) => /\ call[c].cmd \in Command /\ call[c].key \in Keys
                           /\ call[c].held \in 0 .. 4
                           /\ call[c] = [pc |-> call[c].pc, cmd |-> call[c].cmd,
                                         key |-> call[c].key, held |-> call[c].held]
         /\ call[c].pc = "done" => /\ call[c].cmd \in Command /\ call[c].key \in Keys
                                   /\ call[c].answer \in Answer
         /\ call[c].pc \in {"idle", "claim", "lock", "write", "done"}
<1>1. call[c] \in Call
  BY DEF TypeOK
<1> QED
  BY <1>1 DEF Call, Idle, InFlight

\* One request goes on, and nothing but requests changes.
LEMMA OneCall ==
  ASSUME TypeOK, NEW c \in Calls, NEW q \in Call, call' = [call EXCEPT ![c] = q]
  PROVE  /\ call' \in [Calls -> Call] /\ call'[c] = q
         /\ \A d \in Calls \ {c} : call'[d] = call[d]
  BY DEF TypeOK

\* The states a request may go to, as records.
LEMMA CallStates ==
  ASSUME NEW cmd \in Command, NEW k \in Keys
  PROVE  /\ \A p \in {"claim", "lock", "write"}, n \in 0 .. 4 :
              [pc |-> p, cmd |-> cmd, key |-> k, held |-> n] \in Call
         /\ \A a \in Answer : [pc |-> "done", cmd |-> cmd, key |-> k, answer |-> a] \in Call
         /\ Idle \in Call
  BY DEF Call

-----------------------------------------------------------------------------
(* What a command writes                                                     *)

\* A unit is defined, or defined anew while nothing refers to it.
UnitStep(u, p) ==
  /\ unit' = [unit EXCEPT ![u].precision = p]
  /\ unit[u].locked => p = unit[u].precision
  /\ UNCHANGED <<category, item, conversion>>

CategoryStep(g, status) ==
  /\ category' = [category EXCEPT ![g] = status]
  /\ UNCHANGED <<unit, item, conversion>>

\* An item is written and its unit latched.
ItemStep(i, row) ==
  /\ item' = [item EXCEPT ![i] = row]
  /\ item[i] # None => row.unit = item[i].unit
  /\ unit[row.unit].precision # None
  /\ Fits(row.minimum, row.unit)
  /\ unit' = Latched({row.unit})
  /\ UNCHANGED <<category, conversion>>

ConversionStep(p, factor) ==
  /\ conversion' = [conversion EXCEPT ![p] = factor]
  /\ unit[p[1]].precision # None /\ unit[p[2]].precision # None
  /\ unit' = Latched({p[1], p[2]})
  /\ UNCHANGED <<category, item>>

\* What the rows may become in one step.
RowsStep ==
  \/ UNCHANGED <<unit, category, item, conversion>>
  \/ \E u \in Units, p \in Precisions : UnitStep(u, p)
  \/ \E g \in Categories, status \in {"ACTIVE", "INACTIVE"} : CategoryStep(g, status)
  \/ \E i \in Items, row \in ItemRow : ItemStep(i, row)
  \/ \E p \in Pairs, factor \in Factors : ConversionStep(p, factor)

\* The row a patch leads to.
LEMMA PatchedRow ==
  ASSUME NEW row \in ItemRow, NEW cmd \in Command, cmd.kind = "item.update"
  PROVE  /\ Patched(row, cmd) \in ItemRow
         /\ Patched(row, cmd).unit = row.unit
         /\ Patched(row, cmd).category = IF cmd.category = Keep THEN row.category ELSE cmd.category
         /\ Patched(row, cmd).minimum = IF cmd.minimum = Keep THEN row.minimum ELSE cmd.minimum
<1>1. /\ cmd.category \in Categories \cup {None, Keep}
      /\ cmd.minimum \in Precisions \cup {None, Keep}
  BY CommandFields
<1>2. row.category \in Categories \cup {None} /\ row.minimum \in Precisions \cup {None}
  BY DEF ItemRow
<1>3. ASSUME NEW g \in Categories \cup {None}, NEW m \in Precisions \cup {None}
      PROVE  /\ [row EXCEPT !.category = g, !.minimum = m] \in ItemRow
             /\ [row EXCEPT !.category = g, !.minimum = m].unit = row.unit
             /\ [row EXCEPT !.category = g, !.minimum = m].category = g
             /\ [row EXCEPT !.category = g, !.minimum = m].minimum = m
  BY DEF ItemRow
<1> DEFINE g == IF cmd.category = Keep THEN row.category ELSE cmd.category
           m == IF cmd.minimum = Keep THEN row.minimum ELSE cmd.minimum
<1>4. g \in Categories \cup {None} /\ m \in Precisions \cup {None}
  BY <1>1, <1>2
<1>5. Patched(row, cmd) = [row EXCEPT !.category = g, !.minimum = m]
  BY DEF Patched, ItemRow
<1> HIDE DEF g, m
<1>6. /\ Patched(row, cmd) \in ItemRow
      /\ Patched(row, cmd).unit = row.unit
      /\ Patched(row, cmd).category = g
      /\ Patched(row, cmd).minimum = m
  <2> DEFINE r == [row EXCEPT !.category = g, !.minimum = m]
  <2>1. r \in ItemRow /\ r.unit = row.unit /\ r.category = g /\ r.minimum = m
    BY <1>3, <1>4
  <2>2. Patched(row, cmd) = r
    BY <1>5
  <2> HIDE DEF r
  <2> QED
    BY <2>1, <2>2
<1> QED
  BY <1>6 DEF g, m

\* What the tables accept of each command. A new item has a row nobody had.
LEMMA Writes ==
  ASSUME TypeOK, Referenced, NEW cmd \in Command, Known(cmd), Kept(cmd),
         NEW answer \in Answers(cmd), Write(cmd, answer)
  PROVE  /\ answer \in Answer
         /\ \/ /\ cmd.kind \in {"unit.create", "unit.update"}
               /\ cmd.kind = "unit.create" => unit[cmd.unit].precision = None
               /\ UnitStep(cmd.unit, cmd.precision)
            \/ /\ cmd.kind = "category.create"
               /\ category[cmd.category] = None
               /\ CategoryStep(cmd.category, "ACTIVE")
            \/ /\ cmd.kind = "category.status"
               /\ CategoryStep(cmd.category, cmd.status)
            \/ /\ cmd.kind = "item.create"
               /\ \E i \in Items, row \in ItemRow :
                    /\ item[i] = None
                    /\ row.unit = cmd.unit /\ row.category = cmd.category
                    /\ ItemStep(i, row)
            \/ /\ cmd.kind = "item.update"
               /\ item[cmd.item] \in ItemRow
               /\ ItemStep(cmd.item, Patched(item[cmd.item], cmd))
            \/ /\ cmd.kind \in {"conversion.create", "conversion.update"}
               /\ ConversionStep(cmd.pair, cmd.factor)
<1>1. CASE cmd.kind \in {"unit.create", "unit.update"}
  <2>1. answer = None
    BY <1>1 DEF Answers
  <2>2. unit' = [unit EXCEPT ![cmd.unit].precision = cmd.precision]
        /\ UNCHANGED <<category, item, conversion>>
    BY <1>1 DEF Write, createUnit, updateUnit, createCategory, setStatus, createItem, updateItem,
       createConversion, updateConversion
  <2>3. /\ cmd.kind = "unit.create" => unit[cmd.unit].precision = None
        /\ unit[cmd.unit].locked => cmd.precision = unit[cmd.unit].precision
    BY <1>1, CommandFields DEF Kept, Referenced
  <2> QED
    BY <1>1, <2>1, <2>2, <2>3 DEF UnitStep, Answer
<1>2. CASE cmd.kind = "category.create"
  BY <1>2 DEF Answers, Answer, Kept, CategoryStep, Write, createUnit, updateUnit, createCategory,
     setStatus, createItem, updateItem, createConversion, updateConversion
<1>3. CASE cmd.kind = "category.status"
  BY <1>3 DEF Answers, Answer, CategoryStep, Write, createUnit, updateUnit, createCategory,
     setStatus, createItem, updateItem, createConversion, updateConversion
<1>4. CASE cmd.kind = "item.create"
  <2> DEFINE row == [unit |-> cmd.unit, category |-> cmd.category, minimum |-> cmd.minimum]
  <2>1. row \in ItemRow
    BY <1>4, CommandFields DEF ItemRow
  <2>2. PICK i \in Items \ Existing : answer = <<i, row>>
    BY <1>4 DEF Answers
  <2>3. answer[1] = i /\ answer[2] = row /\ item[i] = None /\ answer \in Answer
    BY <2>1, <2>2 DEF Existing, Answer
  <2>4. createItem(cmd, answer)
    BY <1>4 DEF Write, createUnit, updateUnit, createCategory, setStatus, updateItem,
       createConversion, updateConversion
  <2>5. Fits(cmd.minimum, cmd.unit) /\ unit[cmd.unit].precision # None
    BY <1>4 DEF Kept, Known
  <2>6. row.unit = cmd.unit /\ row.category = cmd.category /\ row.minimum = cmd.minimum
    OBVIOUS
  <2> HIDE DEF row
  <2>7. ItemStep(i, row)
    BY <2>3, <2>4, <2>5, <2>6 DEF createItem, ItemStep
  <2> QED
    BY <1>4, <2>1, <2>3, <2>6, <2>7
<1>5. CASE cmd.kind = "item.update"
  <2> DEFINE row == Patched(item[cmd.item], cmd)
  <2>1. cmd.item \in Items /\ item[cmd.item] \in ItemRow
    BY <1>5, CommandFields DEF Known, TypeOK
  <2>2. row \in ItemRow /\ row.unit = item[cmd.item].unit
    BY <1>5, <2>1, PatchedRow
  <2>3. answer = <<cmd.item, row>>
    BY <1>5 DEF Answers
  <2>4. updateItem(cmd, answer)
    BY <1>5 DEF Write, createUnit, updateUnit, createCategory, setStatus, createItem,
       createConversion, updateConversion
  <2>5. Fits(row.minimum, item[cmd.item].unit)
    BY <1>5 DEF Kept
  <2>6. cmd.item \in Existing /\ unit[item[cmd.item].unit].precision # None
    <3>1. item[cmd.item] # None
      BY <1>5 DEF Known
    <3>2. item[cmd.item].unit \in Units
      BY <2>1 DEF ItemRow
    <3> QED
      BY <2>1, <3>1, <3>2 DEF Existing, Referenced, MinimumFits
  <2> HIDE DEF row
  <2>7. ItemStep(cmd.item, row) /\ answer \in Answer
    BY <2>1, <2>2, <2>3, <2>4, <2>5, <2>6 DEF updateItem, ItemStep, Answer
  <2> QED
    BY <1>5, <2>1, <2>7 DEF row
<1>6. CASE cmd.kind \in {"conversion.create", "conversion.update"}
  <2>1. cmd.pair \in Pairs /\ cmd.pair[1] \in Units /\ cmd.pair[2] \in Units
    BY <1>6, CommandFields, PairOrder
  <2>2. unit[cmd.pair[1]].precision # None /\ unit[cmd.pair[2]].precision # None
    <3>1. CASE cmd.kind = "conversion.create"
      BY <3>1 DEF Known
    <3>2. CASE cmd.kind = "conversion.update"
      BY <2>1, <3>2 DEF Known, Referenced, MinimumFits
    <3> QED
      BY <1>6, <3>1, <3>2
  <2>3. createConversion(cmd) \/ updateConversion(cmd)
    BY <1>6 DEF Write, createUnit, updateUnit, createCategory, setStatus, createItem, updateItem
  <2>4. answer = None
    BY <1>6 DEF Answers
  <2> QED
    BY <1>6, <2>2, <2>3, <2>4 DEF createConversion, updateConversion, ConversionStep, Answer
<1> QED
  BY <1>1, <1>2, <1>3, <1>4, <1>5, <1>6, CommandFields

-----------------------------------------------------------------------------
(* The rows                                                                  *)

\* A latched unit keeps its definition.
LEMMA LatchedRows ==
  ASSUME TypeOK, NEW S \in SUBSET Units, unit' = Latched(S)
  PROVE  /\ unit' \in [Units -> UnitRow]
         /\ \A u \in Units : /\ unit'[u].precision = unit[u].precision
                             /\ unit'[u].locked <=> unit[u].locked \/ u \in S
                             /\ u \notin S => unit'[u] = unit[u]
<1>1. unit \in [Units -> UnitRow]
  BY DEF TypeOK
<1>2. \A r \in UnitRow : LET q == [r EXCEPT !.locked = TRUE]
                         IN  q \in UnitRow /\ q.precision = r.precision /\ q.locked
  BY DEF UnitRow
<1>3. \A u \in Units : unit'[u] = IF u \in S THEN [unit[u] EXCEPT !.locked = TRUE] ELSE unit[u]
  BY DEF Latched
<1>4. unit' \in [Units -> UnitRow]
  <2>1. \A u \in Units : (IF u \in S THEN [unit[u] EXCEPT !.locked = TRUE] ELSE unit[u]) \in UnitRow
    BY <1>1, <1>2
  <2> QED
    BY <2>1 DEF Latched
<1>5. ASSUME NEW u \in Units
      PROVE  /\ unit'[u].precision = unit[u].precision
             /\ unit'[u].locked <=> unit[u].locked \/ u \in S
             /\ u \notin S => unit'[u] = unit[u]
  <2>1. unit[u] \in UnitRow
    BY <1>1
  <2>2. CASE u \in S
    BY <1>2, <1>3, <2>1, <2>2
  <2>3. CASE u \notin S
    BY <1>3, <2>3
  <2> QED
    BY <2>2, <2>3
<1> QED
  BY <1>4, <1>5

\* What a unit's new definition changes.
LEMMA DefinedRows ==
  ASSUME TypeOK, NEW u \in Units, NEW p \in Precisions, UnitStep(u, p)
  PROVE  /\ unit' \in [Units -> UnitRow]
         /\ unit'[u].precision = p /\ (unit'[u].locked <=> unit[u].locked)
         /\ \A w \in Units \ {u} : unit'[w] = unit[w]
<1>1. unit \in [Units -> UnitRow] /\ unit[u] \in UnitRow
  BY DEF TypeOK
<1>2. LET q == [unit[u] EXCEPT !.precision = p]
      IN  q \in UnitRow /\ q.precision = p /\ (q.locked <=> unit[u].locked)
  BY <1>1 DEF UnitRow
<1>3. unit' = [unit EXCEPT ![u] = [unit[u] EXCEPT !.precision = p]]
  BY DEF UnitStep
<1> QED
  BY <1>1, <1>2, <1>3

\* Rows are never deleted.
RowsStay ==
  /\ \A u \in Units : /\ unit[u].precision # None => unit'[u].precision # None
                      /\ unit[u].locked => unit'[u].locked
  /\ \A g \in Categories : category[g] # None => category'[g] # None
  /\ \A i \in Items : item[i] # None => item'[i] # None /\ item'[i].unit = item[i].unit
  /\ \A p \in Pairs : conversion[p] # None => conversion'[p] # None

LEMMA RowsNext ==
  ASSUME TypeOK, RowsStep
  PROVE  /\ unit' \in [Units -> UnitRow]
         /\ category' \in [Categories -> {"ACTIVE", "INACTIVE", None}]
         /\ item' \in [Items -> ItemRow \cup {None}]
         /\ conversion' \in [Pairs -> Factors \cup {None}]
         /\ RowsStay
<1>1. /\ unit \in [Units -> UnitRow]
      /\ category \in [Categories -> {"ACTIVE", "INACTIVE", None}]
      /\ item \in [Items -> ItemRow \cup {None}]
      /\ conversion \in [Pairs -> Factors \cup {None}]
  BY DEF TypeOK
<1>2. CASE UNCHANGED <<unit, category, item, conversion>>
  BY <1>1, <1>2 DEF RowsStay
<1>3. ASSUME NEW u \in Units, NEW p \in Precisions, UnitStep(u, p)
      PROVE  unit' \in [Units -> UnitRow] /\ RowsStay
  <2>1. p # None
    BY AbsentAssumption
  <2> QED
    BY <1>3, <2>1, DefinedRows DEF UnitStep, RowsStay
<1>4. ASSUME NEW g \in Categories, NEW status \in {"ACTIVE", "INACTIVE"}, CategoryStep(g, status)
      PROVE  category' \in [Categories -> {"ACTIVE", "INACTIVE", None}] /\ RowsStay
  <2>1. status # None
    BY AbsentAssumption
  <2> QED
    BY <1>1, <1>4, <2>1 DEF CategoryStep, RowsStay
<1>5. ASSUME NEW i \in Items, NEW row \in ItemRow, ItemStep(i, row)
      PROVE  /\ unit' \in [Units -> UnitRow] /\ item' \in [Items -> ItemRow \cup {None}]
             /\ RowsStay
  <2>1. row # None /\ {row.unit} \in SUBSET Units
    BY AbsentAssumption DEF ItemRow
  <2>2. /\ unit' \in [Units -> UnitRow]
        /\ \A u \in Units : /\ unit'[u].precision = unit[u].precision
                            /\ unit[u].locked => unit'[u].locked
    BY <1>5, <2>1, LatchedRows DEF ItemStep
  <2>3. item' \in [Items -> ItemRow \cup {None}]
    BY <1>1, <1>5 DEF ItemStep
  <2>4. \A j \in Items : item[j] # None => item'[j] # None /\ item'[j].unit = item[j].unit
    BY <1>1, <1>5, <2>1 DEF ItemStep
  <2> QED
    BY <1>5, <2>2, <2>3, <2>4 DEF ItemStep, RowsStay
<1>6. ASSUME NEW p \in Pairs, NEW factor \in Factors, ConversionStep(p, factor)
      PROVE  /\ unit' \in [Units -> UnitRow] /\ conversion' \in [Pairs -> Factors \cup {None}]
             /\ RowsStay
  <2>1. factor # None /\ {p[1], p[2]} \in SUBSET Units
    BY AbsentAssumption, PairOrder
  <2>2. /\ unit' \in [Units -> UnitRow]
        /\ \A u \in Units : /\ unit'[u].precision = unit[u].precision
                            /\ unit[u].locked => unit'[u].locked
    BY <1>6, <2>1, LatchedRows DEF ConversionStep
  <2> QED
    BY <1>1, <1>6, <2>1, <2>2 DEF ConversionStep, RowsStay
<1> QED
  BY <1>1, <1>2, <1>3, <1>4, <1>5, <1>6 DEF RowsStep, UnitStep, CategoryStep, ItemStep,
     ConversionStep

-----------------------------------------------------------------------------
(* The locks are enough                                                      *)

RowsOf(cmd) == {Locks(cmd)[n] : n \in 1 .. Len(Locks(cmd))}

\* What a command has locked when it has locked all it locks.
LEMMA RowsOfAre ==
  ASSUME NEW cmd \in Command
  PROVE  /\ cmd.kind = "unit.update" => <<"unit", cmd.unit>> \in RowsOf(cmd)
         /\ cmd.kind = "category.status" => <<"category", cmd.category>> \in RowsOf(cmd)
         /\ cmd.kind = "item.create" =>
              /\ <<"items", None>> \in RowsOf(cmd) /\ <<"unit", cmd.unit>> \in RowsOf(cmd)
              /\ cmd.category \in Categories => <<"category", cmd.category>> \in RowsOf(cmd)
         /\ cmd.kind = "item.update" =>
              /\ <<"items", None>> \in RowsOf(cmd)
              /\ <<"unit", item[cmd.item].unit>> \in RowsOf(cmd)
              /\ cmd.category \in Categories => <<"category", cmd.category>> \in RowsOf(cmd)
         /\ cmd.kind \in {"conversion.create", "conversion.update"} =>
              <<"unit", cmd.pair[1]>> \in RowsOf(cmd) /\ <<"unit", cmd.pair[2]>> \in RowsOf(cmd)
<1>1. ASSUME NEW x, NEW y, NEW z, NEW w
      PROVE  /\ Locks(cmd) = <<x>> => x \in RowsOf(cmd)
             /\ Locks(cmd) = <<x, y>> => {x, y} \subseteq RowsOf(cmd)
             /\ Locks(cmd) = <<x, y, z>> => {x, y, z} \subseteq RowsOf(cmd)
             /\ Locks(cmd) = <<x, y, z, w>> => {x, y, z, w} \subseteq RowsOf(cmd)
  <2>1. \A n \in 1 .. Len(Locks(cmd)) : Locks(cmd)[n] \in RowsOf(cmd)
    BY DEF RowsOf
  <2>2. CASE Locks(cmd) = <<x>>
    BY <2>1, <2>2
  <2>3. CASE Locks(cmd) = <<x, y>>
    <3>1. Len(Locks(cmd)) = 2 /\ Locks(cmd)[1] = x /\ Locks(cmd)[2] = y
      BY <2>3
    <3> QED
      BY <2>1, <2>3, <3>1
  <2>4. CASE Locks(cmd) = <<x, y, z>>
    <3>1. Len(Locks(cmd)) = 3 /\ Locks(cmd)[1] = x /\ Locks(cmd)[2] = y /\ Locks(cmd)[3] = z
      BY <2>4
    <3> QED
      BY <2>1, <2>4, <3>1
  <2>5. CASE Locks(cmd) = <<x, y, z, w>>
    <3>1. /\ Len(Locks(cmd)) = 4 /\ Locks(cmd)[1] = x /\ Locks(cmd)[2] = y /\ Locks(cmd)[3] = z
          /\ Locks(cmd)[4] = w
      BY <2>5
    <3> QED
      BY <2>1, <2>5, <3>1
  <2> QED
    BY <2>2, <2>3, <2>4, <2>5
<1> DEFINE items == <<"items", None>>
           unitRow == <<"unit", cmd.unit>>
           categoryRow == <<"category", cmd.category>>
           itemRow == <<"item", cmd.item>>
           itemUnit == <<"unit", item[cmd.item].unit>>
           first == <<"unit", cmd.pair[1]>>
           second == <<"unit", cmd.pair[2]>>
           low == <<"unit", Min({cmd.pair[1], cmd.pair[2]})>>
           high == <<"unit", Max({cmd.pair[1], cmd.pair[2]})>>
           pairRow == <<"conversion", cmd.pair>>
<1>2. /\ cmd.kind = "unit.update" => Locks(cmd) = <<unitRow>>
      /\ cmd.kind = "category.status" => Locks(cmd) = <<categoryRow>>
      /\ cmd.kind = "item.create" => Locks(cmd) =
           IF cmd.category \in Categories THEN <<items, unitRow, categoryRow>> ELSE <<items, unitRow>>
      /\ cmd.kind = "item.update" => Locks(cmd) =
           IF cmd.category \in Categories
             THEN <<items, itemUnit, categoryRow, itemRow>> ELSE <<items, itemUnit, itemRow>>
      /\ cmd.kind = "conversion.create" => Locks(cmd) = <<low, high>>
      /\ cmd.kind = "conversion.update" => Locks(cmd) = <<low, high, pairRow>>
  BY LocksAre
<1>3. cmd.kind \in {"conversion.create", "conversion.update"} => {low, high} = {first, second}
  <2> SUFFICES ASSUME cmd.kind \in {"conversion.create", "conversion.update"}
               PROVE  {low, high} = {first, second}
    OBVIOUS
  <2> DEFINE a == Min({cmd.pair[1], cmd.pair[2]})
             b == Max({cmd.pair[1], cmd.pair[2]})
  <2>1. {a, b} = {cmd.pair[1], cmd.pair[2]}
    BY CommandFields, PairOrder
  <2> HIDE DEF a, b
  <2>2. {<<"unit", a>>, <<"unit", b>>} = {first, second}
    BY <2>1
  <2> QED
    BY <2>2 DEF a, b
<1> HIDE DEF items, unitRow, categoryRow, itemRow, itemUnit, low, high, pairRow, first, second
<1>4. /\ cmd.kind = "unit.update" => unitRow \in RowsOf(cmd)
      /\ cmd.kind = "category.status" => categoryRow \in RowsOf(cmd)
  BY <1>1, <1>2
<1>5. cmd.kind = "item.create" =>
        /\ items \in RowsOf(cmd) /\ unitRow \in RowsOf(cmd)
        /\ cmd.category \in Categories => categoryRow \in RowsOf(cmd)
  BY <1>1, <1>2
<1>6. cmd.kind = "item.update" =>
        /\ items \in RowsOf(cmd) /\ itemUnit \in RowsOf(cmd)
        /\ cmd.category \in Categories => categoryRow \in RowsOf(cmd)
  BY <1>1, <1>2
<1>7. cmd.kind \in {"conversion.create", "conversion.update"} =>
        first \in RowsOf(cmd) /\ second \in RowsOf(cmd)
  <2>1. cmd.kind \in {"conversion.create", "conversion.update"} => {low, high} \subseteq RowsOf(cmd)
    BY <1>1, <1>2
  <2> QED
    BY <1>3, <2>1
<1> QED
  BY <1>4, <1>5, <1>6, <1>7 DEF items, unitRow, categoryRow, itemUnit, first, second

\* Two commands that have locked all they lock have no row in common.
LEMMA NoCommonRow ==
  ASSUME TypeOK, Underway, Apart, NEW c \in Calls, NEW d \in Calls, c # d,
         call[c].pc = "write", call[d].pc = "write",
         NEW row \in RowsOf(call[c].cmd)
  PROVE  row \notin RowsOf(call[d].cmd)
<1>1. call[c].held = Len(Locks(call[c].cmd)) /\ call[d].held = Len(Locks(call[d].cmd))
  BY DEF Underway, InFlight
<1>2. \A m \in 1 .. call[c].held, n \in 1 .. call[d].held :
        Locks(call[c].cmd)[m] # Locks(call[d].cmd)[n]
  BY DEF Apart, InTransaction
<1> QED
  BY <1>1, <1>2 DEF RowsOf

\* Which rows a write touches, as far as another command depends on them.
LEMMA WritesWithinLocks ==
  ASSUME TypeOK, Referenced, NEW cmd \in Command, Known(cmd), Kept(cmd),
         NEW answer \in Answers(cmd), Write(cmd, answer)
  PROVE  /\ \A u \in Units : unit[u].precision # None /\ <<"unit", u>> \notin RowsOf(cmd) =>
              unit'[u] = unit[u]
         /\ \A g \in Categories : category[g] # None /\ <<"category", g>> \notin RowsOf(cmd) =>
              category'[g] = category[g]
         /\ <<"items", None>> \notin RowsOf(cmd) => item' = item
<1> DEFINE Stays ==
      /\ \A u \in Units : unit[u].precision # None /\ <<"unit", u>> \notin RowsOf(cmd) =>
           unit'[u] = unit[u]
      /\ \A g \in Categories : category[g] # None /\ <<"category", g>> \notin RowsOf(cmd) =>
           category'[g] = category[g]
      /\ <<"items", None>> \notin RowsOf(cmd) => item' = item
<1>1. /\ cmd.kind = "unit.update" => <<"unit", cmd.unit>> \in RowsOf(cmd)
      /\ cmd.kind = "category.status" => <<"category", cmd.category>> \in RowsOf(cmd)
      /\ cmd.kind = "item.create" =>
           <<"items", None>> \in RowsOf(cmd) /\ <<"unit", cmd.unit>> \in RowsOf(cmd)
      /\ cmd.kind = "item.update" =>
           <<"items", None>> \in RowsOf(cmd) /\ <<"unit", item[cmd.item].unit>> \in RowsOf(cmd)
      /\ cmd.kind \in {"conversion.create", "conversion.update"} =>
           <<"unit", cmd.pair[1]>> \in RowsOf(cmd) /\ <<"unit", cmd.pair[2]>> \in RowsOf(cmd)
  BY RowsOfAre
<1>2. CASE /\ cmd.kind \in {"unit.create", "unit.update"}
           /\ cmd.kind = "unit.create" => unit[cmd.unit].precision = None
           /\ UnitStep(cmd.unit, cmd.precision)
  <2>1. cmd.unit \in Units /\ cmd.precision \in Precisions
    BY <1>2, CommandFields
  <2>2. \A u \in Units \ {cmd.unit} : unit'[u] = unit[u]
    BY <1>2, <2>1, DefinedRows
  <2>3. category' = category /\ item' = item
    BY <1>2 DEF UnitStep
  <2> QED
    BY <1>1, <1>2, <2>2, <2>3
<1>3. CASE /\ cmd.kind \in {"category.create", "category.status"}
           /\ cmd.kind = "category.create" => category[cmd.category] = None
           /\ \E s \in {"ACTIVE", "INACTIVE"} : CategoryStep(cmd.category, s)
  <2>1. \A g \in Categories \ {cmd.category} : category'[g] = category[g]
    BY <1>3 DEF CategoryStep, TypeOK
  <2>2. unit' = unit /\ item' = item
    BY <1>3 DEF CategoryStep
  <2> QED
    BY <1>1, <1>3, <2>1, <2>2
<1>4. CASE /\ cmd.kind \in {"item.create", "item.update"}
           /\ \E i \in Items, row \in ItemRow :
                /\ <<"unit", row.unit>> \in RowsOf(cmd)
                /\ ItemStep(i, row)
  <2>1. PICK i \in Items, row \in ItemRow :
          <<"unit", row.unit>> \in RowsOf(cmd) /\ ItemStep(i, row)
    BY <1>4
  <2>2. {row.unit} \in SUBSET Units
    BY DEF ItemRow
  <2>3. \A u \in Units \ {row.unit} : unit'[u] = unit[u]
    BY <2>1, <2>2, LatchedRows DEF ItemStep
  <2>4. category' = category
    BY <2>1 DEF ItemStep
  <2> QED
    BY <1>1, <1>4, <2>1, <2>3, <2>4
<1>5. CASE /\ cmd.kind \in {"conversion.create", "conversion.update"}
           /\ ConversionStep(cmd.pair, cmd.factor)
  <2>1. {cmd.pair[1], cmd.pair[2]} \in SUBSET Units
    BY <1>5, CommandFields, PairOrder
  <2>2. \A u \in Units \ {cmd.pair[1], cmd.pair[2]} : unit'[u] = unit[u]
    BY <1>5, <2>1, LatchedRows DEF ConversionStep
  <2>3. category' = category /\ item' = item
    BY <1>5 DEF ConversionStep
  <2> QED
    BY <1>1, <1>5, <2>2, <2>3
<1>6. \/ /\ cmd.kind \in {"unit.create", "unit.update"}
         /\ cmd.kind = "unit.create" => unit[cmd.unit].precision = None
         /\ UnitStep(cmd.unit, cmd.precision)
      \/ /\ cmd.kind \in {"category.create", "category.status"}
         /\ cmd.kind = "category.create" => category[cmd.category] = None
         /\ \E s \in {"ACTIVE", "INACTIVE"} : CategoryStep(cmd.category, s)
      \/ /\ cmd.kind \in {"item.create", "item.update"}
         /\ \E i \in Items, row \in ItemRow :
              /\ <<"unit", row.unit>> \in RowsOf(cmd)
              /\ ItemStep(i, row)
      \/ /\ cmd.kind \in {"conversion.create", "conversion.update"}
         /\ ConversionStep(cmd.pair, cmd.factor)
  <2>1. CASE cmd.kind \in {"unit.create", "unit.update"}
    BY <2>1, Writes
  <2>2. CASE cmd.kind = "category.create"
    BY <2>2, Writes
  <2>3. CASE cmd.kind = "category.status"
    <3>1. cmd.status \in {"ACTIVE", "INACTIVE"} /\ CategoryStep(cmd.category, cmd.status)
      BY <2>3, Writes, CommandFields
    <3> QED
      BY <2>3, <3>1
  <2>4. CASE cmd.kind = "item.create"
    <3>1. PICK i \in Items, row \in ItemRow : row.unit = cmd.unit /\ ItemStep(i, row)
      BY <2>4, Writes
    <3> QED
      BY <1>1, <2>4, <3>1
  <2>5. CASE cmd.kind = "item.update"
    <3> DEFINE row == Patched(item[cmd.item], cmd)
    <3>1. item[cmd.item] \in ItemRow /\ ItemStep(cmd.item, row) /\ cmd.item \in Items
      BY <2>5, Writes, CommandFields
    <3>2. row \in ItemRow /\ row.unit = item[cmd.item].unit
      BY <2>5, <3>1, PatchedRow
    <3> HIDE DEF row
    <3> QED
      BY <1>1, <2>5, <3>1, <3>2
  <2>6. CASE cmd.kind \in {"conversion.create", "conversion.update"}
    BY <2>6, Writes
  <2> QED
    BY <2>1, <2>2, <2>3, <2>4, <2>5, <2>6, CommandFields
<1>7. Stays
  BY <1>2, <1>3, <1>4, <1>5, <1>6
<1> QED
  BY <1>7

\* What one command found when it had its locks, another cannot undo.
LEMMA AllowedStays ==
  ASSUME TypeOK, Referenced, NEW cmd \in Command, Known(cmd), Allowed(cmd),
         NEW other \in Command, Known(other), Kept(other),
         NEW answer \in Answers(other), Write(other, answer),
         \A row \in RowsOf(cmd) : row \notin RowsOf(other)
  PROVE  Allowed(cmd)'
<1>1. /\ \A u \in Units : unit[u].precision # None /\ <<"unit", u>> \notin RowsOf(other) =>
           unit'[u] = unit[u]
      /\ \A g \in Categories : category[g] # None /\ <<"category", g>> \notin RowsOf(other) =>
           category'[g] = category[g]
      /\ <<"items", None>> \notin RowsOf(other) => item' = item
  BY WritesWithinLocks
<1>2. CASE cmd.kind = "unit.update"
  <2>1. cmd.unit \in Units /\ unit[cmd.unit].precision # None
    BY <1>2, CommandFields DEF Known
  <2>2. unit'[cmd.unit] = unit[cmd.unit]
    BY <1>1, <1>2, <2>1, RowsOfAre
  <2> QED
    BY <1>2, <2>2 DEF Allowed
<1>3. CASE cmd.kind = "item.create"
  <2>1. /\ cmd.unit \in Units /\ unit[cmd.unit].precision # None
        /\ cmd.category \in Categories \cup {None}
        /\ cmd.category \in Categories => category[cmd.category] # None
    BY <1>3, CommandFields DEF Known
  <2>2. unit'[cmd.unit] = unit[cmd.unit] /\ item' = item
    BY <1>1, <1>3, <2>1, RowsOfAre
  <2>3. cmd.category \in Categories => category'[cmd.category] = category[cmd.category]
    BY <1>1, <1>3, <2>1, RowsOfAre
  <2>4. Existing' = Existing
    BY <2>2 DEF Existing
  <2>5. /\ cmd.category # None => category[cmd.category] = "ACTIVE"
        /\ Fits(cmd.minimum, cmd.unit)
        /\ Cardinality(Existing) + 1 <= Allowance
    BY <1>3 DEF Allowed
  <2>6. /\ cmd.category # None => category'[cmd.category] = "ACTIVE"
        /\ Fits(cmd.minimum, cmd.unit)'
        /\ (Cardinality(Existing) + 1 <= Allowance)'
    BY <2>1, <2>2, <2>3, <2>4, <2>5 DEF Fits
  <2> QED
    BY <1>3, <2>6 DEF Allowed
<1>4. CASE cmd.kind = "item.update"
  <2> DEFINE before == item[cmd.item]
             after  == Patched(before, cmd)
  <2>1. cmd.item \in Items /\ before # None /\ before \in ItemRow
    BY <1>4, CommandFields DEF Known, TypeOK
  <2>2. /\ before.unit \in Units
        /\ before.category \in Categories \cup {None}
        /\ unit[before.unit].precision # None
    <3>1. before.unit \in Units /\ before.category \in Categories \cup {None}
      BY <2>1 DEF ItemRow
    <3>2. cmd.item \in Existing
      BY <2>1 DEF Existing
    <3> QED
      BY <3>1, <3>2 DEF Referenced, MinimumFits
  <2>3. item' = item
    BY <1>1, <1>4, RowsOfAre
  <2>4. unit'[before.unit] = unit[before.unit]
    BY <1>1, <1>4, <2>2, RowsOfAre
  <2>5. /\ after.unit = before.unit
        /\ after.category = IF cmd.category = Keep THEN before.category ELSE cmd.category
    BY <1>4, <2>1, PatchedRow
  <2>6. after.category \in Categories \ {before.category} =>
          category'[after.category] = category[after.category]
    <3>1. SUFFICES ASSUME after.category \in Categories \ {before.category}
                   PROVE  category'[after.category] = category[after.category]
      OBVIOUS
    <3>2. cmd.category # Keep /\ after.category = cmd.category /\ cmd.category \in Categories
      BY <2>5, <3>1
    <3>3. category[cmd.category] # None
      BY <1>4, <3>2 DEF Known
    <3>4. <<"category", cmd.category>> \notin RowsOf(other)
      BY <1>4, <3>2, RowsOfAre
    <3> QED
      BY <1>1, <3>2, <3>3, <3>4
  <2>7. /\ Fits(after.minimum, before.unit)
        /\ after.category \in Categories \ {before.category} => category[after.category] = "ACTIVE"
    BY <1>4 DEF Allowed
  <2>8. before' = before /\ after' = after
    BY <2>3 DEF Patched
  <2> HIDE DEF before, after
  <2>9. /\ Fits(after.minimum, before.unit)'
        /\ (after.category \in Categories \ {before.category} =>
             category[after.category] = "ACTIVE")'
    <3>1. after.minimum # None => after.minimum <= unit'[before.unit].precision
      BY <2>4, <2>7 DEF Fits
    <3>2. after.category \in Categories \ {before.category} => category'[after.category] = "ACTIVE"
      BY <2>6, <2>7
    <3> QED
      BY <2>8, <3>1, <3>2 DEF Fits
  <2> QED
    BY <1>4, <2>9 DEF Allowed, before, after
<1>5. CASE cmd.kind \in {"conversion.create", "conversion.update"}
  BY <1>5 DEF Allowed, haveCompatibleInventoryUnitDimensions
<1>6. CASE cmd.kind \in {"unit.create", "category.create", "category.status"}
  BY <1>6 DEF Allowed
<1> QED
  BY <1>2, <1>3, <1>4, <1>5, <1>6, CommandFields

\* A command that is waited for or waiting keeps what it named and the rows it
\* locks, whatever another one writes.
LEMMA NamedStays ==
  ASSUME TypeOK, RowsStay, NEW cmd \in Command, Known(cmd)
  PROVE  Known(cmd)' /\ Locks(cmd)' = Locks(cmd)
<1>1. Known(cmd)'
  <2>1. cmd.kind \in {"unit.update", "item.create"} => unit'[cmd.unit].precision # None
    BY CommandFields DEF Known, RowsStay
  <2>2. cmd.kind \in {"category.status", "item.create", "item.update"} =>
          (cmd.category \in Categories => category'[cmd.category] # None)
    BY DEF Known, RowsStay
  <2>3. cmd.kind = "item.update" => item'[cmd.item] # None
    BY CommandFields DEF Known, RowsStay
  <2>4. cmd.kind = "conversion.create" => \A n \in 1 .. 2 : unit'[cmd.pair[n]].precision # None
    <3> SUFFICES ASSUME cmd.kind = "conversion.create", NEW n \in 1 .. 2
                 PROVE  unit'[cmd.pair[n]].precision # None
      OBVIOUS
    <3>1. cmd.pair[n] \in Units
      <4>1. cmd.pair[1] \in Units /\ cmd.pair[2] \in Units
        BY CommandFields, PairOrder
      <4> QED
        BY <4>1
    <3>2. unit[cmd.pair[n]].precision # None
      BY DEF Known
    <3> QED
      BY <3>1, <3>2 DEF RowsStay
  <2>5. cmd.kind = "conversion.update" => conversion'[cmd.pair] # None
    BY CommandFields DEF Known, RowsStay
  <2> QED
    BY <2>1, <2>2, <2>3, <2>4, <2>5 DEF Known
<1>2. Locks(cmd)' = Locks(cmd)
  <2>1. CASE cmd.kind = "item.update"
    <3>1. item'[cmd.item].unit = item[cmd.item].unit
      BY <2>1, CommandFields DEF Known, RowsStay
    <3> QED
      BY <2>1, <3>1 DEF Locks, CategoryLock
  <2>2. CASE cmd.kind # "item.update"
    BY <2>2 DEF Locks, CategoryLock, UnitLocks
  <2> QED
    BY <2>1, <2>2
<1> QED
  BY <1>1, <1>2

-----------------------------------------------------------------------------
(* What the rows promise of each other                                       *)

LEMMA ReferencedNext ==
  ASSUME TypeOK, Referenced, RowsStep
  PROVE  Referenced'
<1>1. TypeOK /\ unit' \in [Units -> UnitRow]
  BY RowsNext
<1>2. /\ \A i \in Existing : /\ item[i] \in ItemRow /\ item[i].unit \in Units
                             /\ Fits(item[i].minimum, item[i].unit)
                             /\ unit[item[i].unit].locked
      /\ \A p \in Pairs : conversion[p] # None => unit[p[1]].locked /\ unit[p[2]].locked
      /\ \A u \in Units : unit[u].locked => unit[u].precision # None
      /\ \A p \in Pairs : p[1] \in Units /\ p[2] \in Units
  <2>1. \A i \in Existing : item[i] \in ItemRow
    BY DEF TypeOK, Existing
  <2>2. \A r \in ItemRow : r.unit \in Units
    BY DEF ItemRow
  <2>3. \A p \in Pairs : p[1] \in Units /\ p[2] \in Units
    BY PairOrder
  <2> QED
    BY <2>1, <2>2, <2>3 DEF Referenced, MinimumFits
<1>3. CASE UNCHANGED <<unit, category, item, conversion>>
  BY <1>3 DEF Referenced, MinimumFits, Existing, Fits
<1>4. ASSUME NEW u \in Units, NEW p \in Precisions, UnitStep(u, p)
      PROVE  Referenced'
  <2>1. /\ unit'[u].precision = p /\ (unit'[u].locked <=> unit[u].locked)
        /\ \A w \in Units \ {u} : unit'[w] = unit[w]
    BY <1>4, DefinedRows
  <2>2. p # None /\ (unit[u].locked => p = unit[u].precision)
    BY <1>4, AbsentAssumption DEF UnitStep
  <2>3. \A w \in Units : /\ unit[w].locked <=> unit'[w].locked
                         /\ unit[w].locked => unit'[w].precision = unit[w].precision
    BY <2>1, <2>2
  <2>4. item' = item /\ conversion' = conversion /\ Existing' = Existing
    BY <1>4 DEF UnitStep, Existing
  <2>5. \A i \in Existing : unit'[item[i].unit].locked /\ Fits(item[i].minimum, item[i].unit)'
    BY <1>2, <2>3, <2>4 DEF Fits
  <2>6. \A i \in Existing' : unit'[item'[i].unit].locked /\ Fits(item[i].minimum, item[i].unit)'
    BY <2>4, <2>5
  <2>7. \A q \in Pairs : conversion'[q] # None => unit'[q[1]].locked /\ unit'[q[2]].locked
    BY <1>2, <2>3, <2>4
  <2>8. \A w \in Units : unit'[w].locked => unit'[w].precision # None
    BY <1>2, <2>3
  <2> QED
    BY <2>6, <2>7, <2>8 DEF Referenced, MinimumFits
<1>5. ASSUME NEW g \in Categories, NEW status \in {"ACTIVE", "INACTIVE"}, CategoryStep(g, status)
      PROVE  Referenced'
  BY <1>5 DEF CategoryStep, Referenced, MinimumFits, Existing, Fits
<1>6. ASSUME NEW i \in Items, NEW row \in ItemRow, ItemStep(i, row)
      PROVE  Referenced'
  <2>1. row.unit \in Units /\ {row.unit} \in SUBSET Units
    BY DEF ItemRow
  <2>2. \A u \in Units : /\ unit'[u].precision = unit[u].precision
                         /\ unit'[u].locked <=> unit[u].locked \/ u = row.unit
    BY <1>6, <2>1, LatchedRows DEF ItemStep
  <2>3. conversion' = conversion /\ item' = [item EXCEPT ![i] = row]
    BY <1>6 DEF ItemStep
  <2>4. item'[i] = row /\ \A j \in Items \ {i} : item'[j] = item[j]
    BY <2>3 DEF TypeOK
  <2>5. ASSUME NEW j \in Existing'
        PROVE  unit'[item'[j].unit].locked /\ Fits(item[j].minimum, item[j].unit)'
    <3>1. CASE j = i
      <4>1. item'[j] = row /\ Fits(row.minimum, row.unit)
        BY <1>6, <2>4, <3>1 DEF ItemStep
      <4> QED
        BY <2>1, <2>2, <4>1 DEF Fits
    <3>2. CASE j # i
      <4>1. j \in Existing /\ item'[j] = item[j]
        BY <2>4, <3>2 DEF Existing
      <4> QED
        BY <1>2, <2>2, <4>1 DEF Fits
    <3> QED
      BY <3>1, <3>2
  <2>6. \A q \in Pairs : conversion'[q] # None => unit'[q[1]].locked /\ unit'[q[2]].locked
    BY <1>2, <2>2, <2>3
  <2>7. unit[row.unit].precision # None
    BY <1>6 DEF ItemStep
  <2>8. \A w \in Units : unit'[w].locked => unit'[w].precision # None
    BY <1>2, <2>2, <2>7
  <2> QED
    BY <2>5, <2>6, <2>8 DEF Referenced, MinimumFits
<1>7. ASSUME NEW p \in Pairs, NEW factor \in Factors, ConversionStep(p, factor)
      PROVE  Referenced'
  <2>1. {p[1], p[2]} \in SUBSET Units
    BY <1>2
  <2>2. \A u \in Units : /\ unit'[u].precision = unit[u].precision
                         /\ unit'[u].locked <=> unit[u].locked \/ u \in {p[1], p[2]}
    BY <1>7, <2>1, LatchedRows DEF ConversionStep
  <2>3. conversion' = [conversion EXCEPT ![p] = factor] /\ item' = item /\ Existing' = Existing
    BY <1>7 DEF ConversionStep, Existing
  <2>4. \A j \in Existing : unit'[item[j].unit].locked /\ Fits(item[j].minimum, item[j].unit)'
    BY <1>2, <2>2, <2>3 DEF Fits
  <2>5. \A j \in Existing' : unit'[item'[j].unit].locked /\ Fits(item[j].minimum, item[j].unit)'
    BY <2>3, <2>4
  <2>6. \A q \in Pairs \ {p} : conversion'[q] = conversion[q]
    BY <2>3 DEF TypeOK
  <2>7. \A q \in Pairs : conversion'[q] # None => unit'[q[1]].locked /\ unit'[q[2]].locked
    BY <1>2, <2>2, <2>6
  <2>8. unit[p[1]].precision # None /\ unit[p[2]].precision # None
    BY <1>7 DEF ConversionStep
  <2>9. \A w \in Units : unit'[w].locked => unit'[w].precision # None
    BY <1>2, <2>2, <2>8
  <2> QED
    BY <2>5, <2>7, <2>9 DEF Referenced, MinimumFits
<1> QED
  BY <1>3, <1>4, <1>5, <1>6, <1>7 DEF RowsStep

LEMMA WriteIsRowsStep ==
  ASSUME TypeOK, Referenced, NEW cmd \in Command, Known(cmd), Kept(cmd),
         NEW answer \in Answers(cmd), Write(cmd, answer)
  PROVE  RowsStep
<1>1. CASE cmd.kind \in {"unit.create", "unit.update"}
  BY <1>1, Writes, CommandFields DEF RowsStep
<1>2. CASE cmd.kind \in {"category.create", "category.status"}
  BY <1>2, Writes, CommandFields DEF RowsStep
<1>3. CASE cmd.kind = "item.create"
  BY <1>3, Writes DEF RowsStep
<1>4. CASE cmd.kind = "item.update"
  BY <1>4, Writes, CommandFields, PatchedRow DEF RowsStep
<1>5. CASE cmd.kind \in {"conversion.create", "conversion.update"}
  BY <1>5, Writes, CommandFields DEF RowsStep
<1> QED
  BY <1>1, <1>2, <1>3, <1>4, <1>5, CommandFields

\* Only a new item counts, and it was counted before it was written.
LEMMA CountedNext ==
  ASSUME TypeOK, Referenced, Counted, NEW cmd \in Command, Known(cmd), Allowed(cmd), Kept(cmd),
         NEW answer \in Answers(cmd), Write(cmd, answer)
  PROVE  Counted'
<1>1. IsFiniteSet(Existing) /\ Cardinality(Existing) <= Allowance
  BY DEF Counted, QuotaHolds
<1>2. CASE cmd.kind = "item.create"
  <2>1. PICK i \in Items, row \in ItemRow : item[i] = None /\ ItemStep(i, row)
    BY <1>2, Writes
  <2>2. Existing' = Existing \cup {i} /\ i \notin Existing
    BY <2>1, AbsentAssumption DEF ItemStep, Existing, TypeOK
  <2>3. IsFiniteSet(Existing \cup {i}) /\ Cardinality(Existing \cup {i}) = Cardinality(Existing) + 1
    BY <1>1, <2>2, FS_AddElement
  <2>4. Cardinality(Existing) + 1 <= Allowance
    BY <1>2 DEF Allowed
  <2> QED
    BY <2>2, <2>3, <2>4 DEF Counted, QuotaHolds
<1>3. CASE cmd.kind # "item.create"
  <2>1. Existing' = Existing
    <3>1. CASE cmd.kind = "item.update"
      <4> DEFINE row == Patched(item[cmd.item], cmd)
      <4>1. cmd.item \in Items /\ item[cmd.item] # None
        BY <3>1, CommandFields DEF Known
      <4>2. row \in ItemRow /\ ItemStep(cmd.item, row)
        BY <3>1, Writes, PatchedRow
      <4> HIDE DEF row
      <4> QED
        BY <4>1, <4>2, AbsentAssumption DEF ItemStep, Existing, TypeOK
    <3>2. CASE cmd.kind # "item.update"
      BY <1>3, <3>2 DEF Write, createUnit, updateUnit, createCategory, setStatus, createItem,
         updateItem, createConversion, updateConversion, Existing
    <3> QED
      BY <3>1, <3>2
  <2> QED
    BY <1>1, <2>1 DEF Counted, QuotaHolds
<1> QED
  BY <1>2, <1>3

-----------------------------------------------------------------------------
(* The requests                                                              *)

\* What a request in flight keeps while another one goes on.
LEMMA FlightStays ==
  ASSUME TypeOK, Underway, RowsStay, NEW d \in Calls, call'[d] = call[d]
  PROVE  /\ InFlight(d)' <=> InFlight(d)
         /\ InTransaction(d)' <=> InTransaction(d)
         /\ InFlight(d) => /\ Known(call[d].cmd)'
                           /\ Locks(call[d].cmd)' = Locks(call[d].cmd)
<1>1. /\ InFlight(d)' <=> InFlight(d)
      /\ InTransaction(d)' <=> InTransaction(d)
  BY DEF InFlight, InTransaction
<1>2. ASSUME InFlight(d)
      PROVE  Known(call[d].cmd)' /\ Locks(call[d].cmd)' = Locks(call[d].cmd)
  <2>1. PICK cmd \in Command : cmd = call[d].cmd /\ cmd = call'[d].cmd
    BY <1>2, FlightFields
  <2>2. Known(cmd)
    BY <1>2, <2>1 DEF Underway
  <2>3. Known(cmd)' /\ Locks(cmd)' = Locks(cmd)
    BY <2>2, NamedStays
  <2> QED
    BY <2>1, <2>3
<1> QED
  BY <1>1, <1>2

LEMMA TransactionFlies ==
  ASSUME NEW c \in Calls, InTransaction(c)
  PROVE  InFlight(c)
  BY DEF InTransaction, InFlight

LEMMA UnderwayNext ==
  ASSUME TypeOK, Underway, RowsStay, NEW c \in Calls,
         \A d \in Calls \ {c} : call'[d] = call[d],
         InFlight(c)' =>
           /\ Known(call[c].cmd)'
           /\ call'[c].held <= Len(Locks(call[c].cmd)')
           /\ call'[c].pc = "claim" => call'[c].held = 0
           /\ call'[c].pc = "write" => call'[c].held = Len(Locks(call[c].cmd)')
  PROVE  Underway'
<1> SUFFICES ASSUME NEW d \in Calls, InFlight(d)'
             PROVE  /\ Known(call[d].cmd)'
                    /\ call'[d].held <= Len(Locks(call[d].cmd)')
                    /\ call'[d].pc = "claim" => call'[d].held = 0
                    /\ call'[d].pc = "write" => call'[d].held = Len(Locks(call[d].cmd)')
  BY DEF Underway
<1>1. CASE d = c
  BY <1>1
<1>2. CASE d # c
  <2>1. call'[d] = call[d]
    BY <1>2
  <2>2. InFlight(d) /\ Known(call[d].cmd)' /\ Locks(call[d].cmd)' = Locks(call[d].cmd)
    BY <2>1, FlightStays
  <2> QED
    BY <2>1, <2>2 DEF Underway
<1> QED
  BY <1>1, <1>2

\* Two transactions stay apart when the one that goes on stays apart.
LEMMA ApartNext ==
  ASSUME TypeOK, Underway, Apart, RowsStay, NEW c \in Calls,
         \A d \in Calls \ {c} : call'[d] = call[d],
         InTransaction(c)' =>
           \A d \in Calls \ {c} : InTransaction(d) =>
             /\ ~SameKey(call'[c], call[d])
             /\ \A m \in 1 .. call'[c].held, n \in 1 .. call[d].held :
                  Locks(call[c].cmd)'[m] # Locks(call[d].cmd)[n]
  PROVE  Apart'
<1> SUFFICES ASSUME NEW d \in Calls, NEW e \in Calls, d # e, InTransaction(d)', InTransaction(e)'
             PROVE  /\ ~SameKey(call'[d], call'[e])
                    /\ \A m \in 1 .. call'[d].held, n \in 1 .. call'[e].held :
                         Locks(call[d].cmd)'[m] # Locks(call[e].cmd)'[n]
  BY DEF Apart
<1>1. ASSUME NEW x \in Calls \ {c}, InTransaction(x)'
      PROVE  /\ InTransaction(x) /\ call'[x] = call[x]
             /\ Locks(call[x].cmd)' = Locks(call[x].cmd)
  <2>1. call'[x] = call[x] /\ x \in Calls
    OBVIOUS
  <2>2. InTransaction(x) /\ InFlight(x)
    BY <1>1, <2>1, FlightStays, TransactionFlies
  <2> QED
    BY <2>1, <2>2, FlightStays
<1>2. CASE d # c /\ e # c
  BY <1>1, <1>2 DEF Apart
<1>3. CASE d = c
  BY <1>1, <1>3
<1>4. CASE e = c
  <2>1. d \in Calls \ {c} /\ InTransaction(c)'
    BY <1>4
  <2>2. /\ InTransaction(d) /\ call'[d] = call[d] /\ Locks(call[d].cmd)' = Locks(call[d].cmd)
    BY <1>1, <2>1
  <2>3. /\ ~SameKey(call'[c], call[d])
        /\ \A m \in 1 .. call'[c].held, n \in 1 .. call[d].held :
             Locks(call[c].cmd)'[m] # Locks(call[d].cmd)[n]
    BY <2>1, <2>2
  <2>4. ~SameKey(call[d], call'[c])
    BY <2>3 DEF SameKey
  <2> QED
    BY <1>4, <2>2, <2>3, <2>4
<1> QED
  BY <1>2, <1>3, <1>4

\* Rows that no one writes are found as they were.
LEMMA AllowedUnchanged ==
  ASSUME UNCHANGED <<unit, category, item, conversion>>, NEW cmd, Allowed(cmd)
  PROVE  Allowed(cmd)'
<1>1. Existing' = Existing /\ \A m, u : Fits(m, u)' <=> Fits(m, u)
  BY DEF Existing, Fits
<1> QED
  BY <1>1 DEF Allowed, Patched, haveCompatibleInventoryUnitDimensions

\* A request that leaves the rows alone.
LEMMA CheckedNext ==
  ASSUME TypeOK, Checked, UNCHANGED <<unit, category, item, conversion>>, NEW c \in Calls,
         \A d \in Calls \ {c} : call'[d] = call[d],
         call'[c].pc = "write" => Allowed(call'[c].cmd)
  PROVE  Checked'
<1> SUFFICES ASSUME NEW d \in Calls, call'[d].pc = "write"
             PROVE  Allowed(call[d].cmd)'
  BY DEF Checked
<1>1. Allowed(call'[d].cmd)
  BY DEF Checked
<1>2. PICK q : q = call'[d].cmd
  OBVIOUS
<1>3. Allowed(q)
  BY <1>1, <1>2
<1>4. Allowed(q)'
  BY <1>3, AllowedUnchanged
<1> QED
  BY <1>2, <1>4

\* A request that saves nothing.
LEMMA RememberedNext ==
  ASSUME TypeOK, Remembered, saved' = saved, NEW c \in Calls,
         \A d \in Calls \ {c} : call'[d] = call[d],
         InTransaction(c)' => \A s \in saved : ~SameKey(s, call'[c]),
         call'[c].pc = "done" =>
           \E s \in saved : /\ SameKey(s, call'[c])
                            /\ s.cmd = call'[c].cmd /\ s.answer = call'[c].answer
  PROVE  Remembered'
<1>1. ASSUME NEW d \in Calls, NEW s \in saved, InTransaction(d)'
      PROVE  ~SameKey(s, call'[d])
  <2>1. CASE d = c
    BY <1>1, <2>1
  <2>2. CASE d # c
    BY <1>1, <2>2 DEF Remembered, InTransaction
  <2> QED
    BY <2>1, <2>2
<1>2. ASSUME NEW d \in Calls, call'[d].pc = "done"
      PROVE  \E s \in saved : /\ SameKey(s, call'[d])
                              /\ s.cmd = call'[d].cmd /\ s.answer = call'[d].answer
  <2>1. CASE d = c
    BY <1>2, <2>1
  <2>2. CASE d # c
    BY <1>2, <2>2 DEF Remembered
  <2> QED
    BY <2>1, <2>2
<1>3. IsFiniteSet(saved) /\ \A s, t \in saved : SameKey(s, t) => s = t
  BY DEF Remembered
<1> QED
  BY <1>1, <1>2, <1>3 DEF Remembered

\* What is so when the rows do not change.
LEMMA RowsUnchanged ==
  ASSUME Inv, UNCHANGED <<unit, category, item, conversion>>
  PROVE  RowsStay /\ Referenced' /\ Counted'
<1>1. RowsStay /\ Referenced'
  BY RowsNext, ReferencedNext DEF Inv, RowsStep
<1>2. Counted'
  <2>1. Existing' = Existing
    BY DEF Existing
  <2> QED
    BY <2>1 DEF Inv, Counted, QuotaHolds
<1> QED
  BY <1>1, <1>2

\* A request that leaves rows and keys alone: what is left to show.
LEMMA CallNext ==
  ASSUME Inv, UNCHANGED <<unit, category, item, conversion, saved>>,
         NEW c \in Calls, NEW q \in Call, call' = [call EXCEPT ![c] = q],
         q.pc \in {"claim", "lock", "write"} =>
           /\ Known(q.cmd)
           /\ q.held <= Len(Locks(q.cmd))
           /\ q.pc = "claim" => q.held = 0
           /\ q.pc = "write" => q.held = Len(Locks(q.cmd)) /\ Allowed(q.cmd),
         q.pc \in {"lock", "write"} =>
           /\ \A s \in saved : ~SameKey(s, q)
           /\ \A d \in Calls \ {c} : InTransaction(d) =>
                /\ ~SameKey(q, call[d])
                /\ \A m \in 1 .. q.held, n \in 1 .. call[d].held :
                     Locks(q.cmd)[m] # Locks(call[d].cmd)[n],
         q.pc = "done" =>
           \E s \in saved : SameKey(s, q) /\ s.cmd = q.cmd /\ s.answer = q.answer
  PROVE  Inv'
<1>1. /\ call' \in [Calls -> Call] /\ call'[c] = q
      /\ \A d \in Calls \ {c} : call'[d] = call[d]
  BY OneCall DEF Inv
<1>2. RowsStay /\ Referenced' /\ Counted'
  BY RowsUnchanged
<1>3. TypeOK'
  BY <1>1 DEF Inv, TypeOK
<1>4. PICK r : r = q.cmd
  OBVIOUS
<1>5. Locks(r)' = Locks(r) /\ (Known(r)' <=> Known(r))
  BY DEF Locks, CategoryLock, UnitLocks, Known
<1>6. Locks(call[c].cmd)' = Locks(q.cmd) /\ (Known(call[c].cmd)' <=> Known(q.cmd))
  BY <1>1, <1>4, <1>5
<1>7. Underway'
  <2>1. InFlight(c)' =>
           /\ Known(call[c].cmd)'
           /\ call'[c].held <= Len(Locks(call[c].cmd)')
           /\ call'[c].pc = "claim" => call'[c].held = 0
           /\ call'[c].pc = "write" => call'[c].held = Len(Locks(call[c].cmd)')
    BY <1>1, <1>6 DEF InFlight
  <2> QED
    BY <1>1, <1>2, <2>1, UnderwayNext DEF Inv
<1>8. Apart'
  <2>1. InTransaction(c)' =>
           \A d \in Calls \ {c} : InTransaction(d) =>
             /\ ~SameKey(call'[c], call[d])
             /\ \A m \in 1 .. call'[c].held, n \in 1 .. call[d].held :
                  Locks(call[c].cmd)'[m] # Locks(call[d].cmd)[n]
    BY <1>1, <1>6 DEF InTransaction
  <2> QED
    BY <1>1, <1>2, <2>1, ApartNext DEF Inv
<1>9. Checked'
  BY <1>1, CheckedNext DEF Inv
<1>10. Remembered'
  BY <1>1, RememberedNext DEF Inv, InTransaction
<1> QED
  BY <1>2, <1>3, <1>7, <1>8, <1>9, <1>10 DEF Inv

-----------------------------------------------------------------------------
(* Each action                                                               *)

LEMMA BeginKeeps ==
  ASSUME Inv, NEW c \in Calls, NEW cmd \in Command, NEW k \in Keys, Begin(c, cmd, k)
  PROVE  Inv'
<1> DEFINE q == [pc |-> "claim", cmd |-> cmd, key |-> k, held |-> 0]
<1>1. q \in Call
  <2>1. "claim" \in {"claim", "lock", "write"} /\ 0 \in 0 .. 4
    OBVIOUS
  <2> QED
    BY <2>1, CallStates
<1>4. q.pc = "claim" /\ q.cmd = cmd /\ q.held = 0
  OBVIOUS
<1>2. /\ Known(cmd) /\ call' = [call EXCEPT ![c] = q]
      /\ UNCHANGED <<unit, category, item, conversion, saved>>
  BY DEF Begin
<1>3. 0 <= Len(Locks(cmd))
  BY FewLocks
<1> HIDE DEF q
<1> QED
  BY <1>1, <1>2, <1>3, <1>4, CallNext

LEMMA IdleKeeps ==
  ASSUME Inv, NEW c \in Calls, Refused(c), UNCHANGED <<unit, category, item, conversion, saved>>
  PROVE  Inv'
<1>1. Idle \in Call /\ Idle.pc = "idle"
  BY DEF Call, Idle
<1> QED
  BY <1>1, CallNext DEF Refused

LEMMA ClaimKeeps ==
  ASSUME Inv, NEW c \in Calls, Claim(c)
  PROVE  Inv'
<1>1. /\ call[c].pc = "claim" /\ Blockers(c) = {}
      /\ \A s \in saved : ~SameKey(s, call[c])
      /\ call' = [call EXCEPT ![c].pc = "lock"]
      /\ UNCHANGED <<unit, category, item, conversion, saved>>
  BY DEF Claim
<1>2. PICK cmd \in Command, k \in Keys, h \in 0 .. 4 :
        /\ cmd = call[c].cmd /\ k = call[c].key /\ h = call[c].held
        /\ call[c] = [pc |-> "claim", cmd |-> cmd, key |-> k, held |-> h]
  BY <1>1, FlightFields DEF Inv, InFlight
<1>3. Known(cmd) /\ h = 0
  BY <1>1, <1>2 DEF Inv, Underway, InFlight
<1> DEFINE q == [pc |-> "lock", cmd |-> cmd, key |-> k, held |-> h]
<1>4. q \in Call
  BY CallStates
<1>5. q.pc = "lock" /\ q.cmd = cmd /\ q.key = k /\ q.held = h
  OBVIOUS
<1>6. call' = [call EXCEPT ![c] = q]
  <2>1. call' = [call EXCEPT ![c] = [call[c] EXCEPT !.pc = "lock"]]
    BY <1>1 DEF Inv, TypeOK
  <2>2. [call[c] EXCEPT !.pc = "lock"] = q
    BY <1>2
  <2> QED
    BY <2>1, <2>2
<1>7. \A d \in Calls \ {c} : InTransaction(d) => ~SameKey(call[d], call[c])
  BY <1>1 DEF Blockers
<1> HIDE DEF q
<1>8. /\ \A s \in saved : ~SameKey(s, q)
      /\ \A d \in Calls \ {c} : InTransaction(d) => ~SameKey(q, call[d])
  BY <1>1, <1>2, <1>5, <1>7 DEF SameKey
<1>9. \A d \in Calls \ {c} : InTransaction(d) =>
        \A m \in 1 .. q.held, n \in 1 .. call[d].held :
          Locks(q.cmd)[m] # Locks(call[d].cmd)[n]
  BY <1>3, <1>5
<1>10. Known(q.cmd) /\ q.held <= Len(Locks(q.cmd))
  BY <1>3, <1>5, FewLocks
<1> QED
  BY <1>1, <1>4, <1>5, <1>6, <1>8, <1>9, <1>10, CallNext

LEMMA ReplayKeeps ==
  ASSUME Inv, NEW c \in Calls, Replay(c)
  PROVE  Inv'
<1>1. PICK s \in saved :
        /\ SameKey(s, call[c])
        /\ IF s.cmd = call[c].cmd /\ ~s.expired
             THEN call' = [call EXCEPT ![c] =
                    [pc |-> "done", cmd |-> @.cmd, key |-> @.key, answer |-> s.answer]]
             ELSE Refused(c)
  BY DEF Replay
<1>2. call[c].pc = "claim" /\ UNCHANGED <<unit, category, item, conversion, saved>>
  BY DEF Replay
<1>3. CASE Refused(c)
  BY <1>2, <1>3, IdleKeeps
<1>4. CASE s.cmd = call[c].cmd /\ ~s.expired
  <2>1. call[c].cmd \in Command /\ call[c].key \in Keys
    BY <1>2, FlightFields DEF Inv, InFlight
  <2>2. s.answer \in Answer
    BY DEF Inv, TypeOK, Saved
  <2> DEFINE q == [pc |-> "done", cmd |-> call[c].cmd, key |-> call[c].key, answer |-> s.answer]
  <2>3. q \in Call
    BY <2>1, <2>2, CallStates
  <2>4. q.pc = "done" /\ q.cmd = call[c].cmd /\ q.key = call[c].key /\ q.answer = s.answer
    OBVIOUS
  <2>5. call' = [call EXCEPT ![c] = q]
    BY <1>1, <1>4 DEF Inv, TypeOK
  <2> HIDE DEF q
  <2>6. SameKey(s, q) /\ s.cmd = q.cmd /\ s.answer = q.answer
    BY <1>1, <1>4, <2>4 DEF SameKey
  <2> QED
    BY <1>2, <2>3, <2>4, <2>5, <2>6, CallNext
<1> QED
  BY <1>1, <1>3, <1>4

LEMMA LockKeeps ==
  ASSUME Inv, NEW c \in Calls, Lock(c)
  PROVE  Inv'
<1>1. /\ call[c].pc = "lock" /\ call[c].held < Len(Locks(call[c].cmd)) /\ Blockers(c) = {}
      /\ call' = [call EXCEPT ![c].held = @ + 1]
      /\ UNCHANGED <<unit, category, item, conversion, saved>>
  BY DEF Lock
<1>2. PICK cmd \in Command, k \in Keys, h \in 0 .. 4 :
        /\ cmd = call[c].cmd /\ k = call[c].key /\ h = call[c].held
        /\ call[c] = [pc |-> "lock", cmd |-> cmd, key |-> k, held |-> h]
  BY <1>1, FlightFields DEF Inv, InFlight
<1>3. h < Len(Locks(cmd)) /\ Len(Locks(cmd)) \in 0 .. 4 /\ h + 1 \in 0 .. 4 /\ h + 1 <= Len(Locks(cmd))
  <2>1. \A a, b \in 0 .. 4 : a < b => a + 1 \in 0 .. 4 /\ a + 1 <= b
    OBVIOUS
  <2>2. h < Len(Locks(cmd))
    BY <1>1, <1>2
  <2>3. Len(Locks(cmd)) \in 0 .. 4
    BY FewLocks
  <2> QED
    BY <2>1, <2>2, <2>3
<1> DEFINE q == [pc |-> "lock", cmd |-> cmd, key |-> k, held |-> h + 1]
<1>4. q \in Call
  BY <1>3, CallStates
<1>5. q.pc = "lock" /\ q.cmd = cmd /\ q.key = k /\ q.held = h + 1
  OBVIOUS
<1>6. call' = [call EXCEPT ![c] = q]
  <2>1. call' = [call EXCEPT ![c] = [call[c] EXCEPT !.held = call[c].held + 1]]
    BY <1>1 DEF Inv, TypeOK
  <2>2. [call[c] EXCEPT !.held = call[c].held + 1] = [call[c] EXCEPT !.held = h + 1]
    BY <1>2
  <2>3. [call[c] EXCEPT !.held = h + 1] = q
    BY <1>2
  <2> QED
    BY <2>1, <2>2, <2>3
<1>7. \A d \in Calls \ {c} : ~Holds(d, Locks(cmd)[h + 1])
  BY <1>1, <1>2 DEF Blockers, Wanted
<1>8. InTransaction(c) /\ Known(cmd)
  BY <1>1, <1>2 DEF InTransaction, Inv, Underway, InFlight
<1> HIDE DEF q
<1>9. /\ \A s \in saved : ~SameKey(s, q)
      /\ \A d \in Calls \ {c} : InTransaction(d) => ~SameKey(q, call[d])
  BY <1>2, <1>5, <1>8 DEF Inv, Remembered, Apart, SameKey
<1>10. ASSUME NEW d \in Calls \ {c}, InTransaction(d), NEW m \in 1 .. q.held,
              NEW n \in 1 .. call[d].held
       PROVE  Locks(q.cmd)[m] # Locks(call[d].cmd)[n]
  <2>1. m \in 1 .. h \/ m = h + 1
    BY <1>5
  <2>2. CASE m \in 1 .. h
    BY <1>2, <1>5, <1>8, <1>10, <2>2 DEF Inv, Apart
  <2>3. CASE m = h + 1
    BY <1>5, <1>7, <1>10, <2>3 DEF Holds
  <2> QED
    BY <2>1, <2>2, <2>3
<1> QED
  BY <1>1, <1>3, <1>4, <1>5, <1>6, <1>8, <1>9, <1>10, CallNext

LEMMA CheckKeeps ==
  ASSUME Inv, NEW c \in Calls, Check(c)
  PROVE  Inv'
<1>1. /\ call[c].pc = "lock" /\ call[c].held = Len(Locks(call[c].cmd))
      /\ IF Allowed(call[c].cmd) THEN call' = [call EXCEPT ![c].pc = "write"] ELSE Refused(c)
      /\ UNCHANGED <<unit, category, item, conversion, saved>>
  BY DEF Check
<1>2. CASE Refused(c)
  BY <1>1, <1>2, IdleKeeps
<1>3. CASE Allowed(call[c].cmd)
  <2>1. PICK cmd \in Command, k \in Keys, h \in 0 .. 4 :
          /\ cmd = call[c].cmd /\ k = call[c].key /\ h = call[c].held
          /\ call[c] = [pc |-> "lock", cmd |-> cmd, key |-> k, held |-> h]
    BY <1>1, FlightFields DEF Inv, InFlight
  <2> DEFINE q == [pc |-> "write", cmd |-> cmd, key |-> k, held |-> h]
  <2>2. q \in Call
    BY CallStates
  <2>3. q.pc = "write" /\ q.cmd = cmd /\ q.key = k /\ q.held = h
    OBVIOUS
  <2>4. call' = [call EXCEPT ![c] = q]
    BY <1>1, <1>3, <2>1 DEF Inv, TypeOK
  <2>5. InTransaction(c) /\ Known(cmd) /\ h <= Len(Locks(cmd)) /\ h = Len(Locks(cmd)) /\ Allowed(cmd)
    BY <1>1, <1>3, <2>1 DEF InTransaction, Inv, Underway, InFlight
  <2> HIDE DEF q
  <2>6. /\ \A s \in saved : ~SameKey(s, q)
        /\ \A d \in Calls \ {c} : InTransaction(d) => ~SameKey(q, call[d])
    BY <2>1, <2>3, <2>5 DEF Inv, Remembered, Apart, SameKey
  <2>7. ASSUME NEW d \in Calls \ {c}, InTransaction(d), NEW m \in 1 .. q.held,
               NEW n \in 1 .. call[d].held
        PROVE  Locks(q.cmd)[m] # Locks(call[d].cmd)[n]
    <3>1. \A i \in 1 .. call[c].held, j \in 1 .. call[d].held :
            Locks(call[c].cmd)[i] # Locks(call[d].cmd)[j]
      BY <2>5, <2>7 DEF Inv, Apart
    <3>2. m \in 1 .. call[c].held /\ q.cmd = call[c].cmd
      BY <2>1, <2>3, <2>7
    <3> QED
      BY <2>7, <3>1, <3>2
  <2> QED
    BY <1>1, <2>2, <2>3, <2>4, <2>5, <2>6, <2>7, CallNext
<1> QED
  BY <1>1, <1>2, <1>3

LEMMA CommitKeeps ==
  ASSUME Inv, NEW c \in Calls, Commit(c)
  PROVE  Inv'
<1> USE DEF Inv
<1>1. call[c].pc = "write"
  BY DEF Commit
<1>2. PICK cmd \in Command, k \in Keys, h \in 0 .. 4 :
        /\ cmd = call[c].cmd /\ k = call[c].key /\ h = call[c].held
        /\ call[c] = [pc |-> "write", cmd |-> cmd, key |-> k, held |-> h]
  BY <1>1, FlightFields DEF InFlight
<1>3. PICK answer \in Answers(cmd) :
        /\ Kept(cmd) /\ Write(cmd, answer)
        /\ saved' = saved \cup {[key |-> k, cmd |-> cmd, answer |-> answer, expired |-> FALSE]}
        /\ call' = [call EXCEPT ![c] =
             [pc |-> "done", cmd |-> @.cmd, key |-> @.key, answer |-> answer]]
  BY <1>2 DEF Commit, Carry
<1>4. Known(cmd) /\ Allowed(cmd) /\ InTransaction(c)
  BY <1>1, <1>2 DEF Underway, InFlight, Checked, InTransaction
<1>5. answer \in Answer
  BY <1>3, <1>4, Writes
<1>6. RowsStep
  BY <1>3, <1>4, WriteIsRowsStep
<1>7. RowsStay /\ Referenced'
  BY <1>6, RowsNext, ReferencedNext
<1>8. Counted'
  BY <1>3, <1>4, CountedNext
<1> DEFINE q == [pc |-> "done", cmd |-> cmd, key |-> k, answer |-> answer]
           new == [key |-> k, cmd |-> cmd, answer |-> answer, expired |-> FALSE]
<1>9. q \in Call
  BY <1>5, CallStates
<1>10. q.pc = "done" /\ q.cmd = cmd /\ q.key = k /\ q.answer = answer
  OBVIOUS
<1>11. new \in Saved
  BY <1>5 DEF Saved
<1>12. new.cmd = cmd /\ new.key = k /\ new.answer = answer
  OBVIOUS
<1>13. call' = [call EXCEPT ![c] = q]
  BY <1>2, <1>3 DEF TypeOK
<1>14. saved' = saved \cup {new}
  BY <1>3
<1> HIDE DEF q, new
<1>15. /\ call' \in [Calls -> Call] /\ call'[c] = q
       /\ \A d \in Calls \ {c} : call'[d] = call[d]
  BY <1>9, <1>13, OneCall
<1>16. TypeOK'
  <2>1. /\ unit' \in [Units -> UnitRow]
        /\ category' \in [Categories -> {"ACTIVE", "INACTIVE", None}]
        /\ item' \in [Items -> ItemRow \cup {None}]
        /\ conversion' \in [Pairs -> Factors \cup {None}]
    BY <1>6, RowsNext
  <2>2. saved' \subseteq Saved
    BY <1>11, <1>14 DEF TypeOK
  <2> QED
    BY <1>15, <2>1, <2>2 DEF TypeOK
<1>17. ~InFlight(c)' /\ ~InTransaction(c)'
  BY <1>10, <1>15 DEF InFlight, InTransaction
<1>18. Underway' /\ Apart'
  BY <1>7, <1>15, <1>17, UnderwayNext, ApartNext
<1>19. Checked'
  <2> SUFFICES ASSUME NEW d \in Calls, call'[d].pc = "write"
               PROVE  Allowed(call[d].cmd)'
    BY DEF Checked
  <2>1. d # c /\ call'[d] = call[d] /\ call[d].pc = "write"
    BY <1>10, <1>15
  <2>2. PICK other \in Command : other = call[d].cmd /\ other = call'[d].cmd
    BY <2>1, FlightFields DEF InFlight
  <2>3. Known(other) /\ Allowed(other)
    BY <2>1, <2>2 DEF Underway, InFlight, Checked
  <2>4. \A row \in RowsOf(other) : row \notin RowsOf(cmd)
    BY <1>1, <1>2, <2>1, <2>2, NoCommonRow
  <2>5. Allowed(other)'
    BY <1>3, <1>4, <2>3, <2>4, AllowedStays
  <2> QED
    BY <2>2, <2>5
<1>20. Remembered'
  <2>1. \A s \in saved : ~SameKey(s, call[c])
    BY <1>4 DEF Remembered
  <2>2. SameKey(new, q) /\ new.cmd = q.cmd /\ new.answer = q.answer
    BY <1>10, <1>12 DEF SameKey
  <2>3. \A s \in saved : ~SameKey(s, new) /\ ~SameKey(new, s)
    BY <1>2, <1>12, <2>1 DEF SameKey
  <2>4. IsFiniteSet(saved')
    BY <1>14, FS_AddElement DEF Remembered
  <2>5. \A s, t \in saved' : SameKey(s, t) => s = t
    BY <1>14, <2>3 DEF Remembered
  <2>6. ASSUME NEW d \in Calls, NEW s \in saved', InTransaction(d)'
        PROVE  ~SameKey(s, call'[d])
    <3>1. d # c /\ call'[d] = call[d] /\ InTransaction(d)
      BY <1>15, <1>17, <2>6 DEF InTransaction
    <3>2. ~SameKey(call[c], call[d])
      BY <1>4, <3>1 DEF Apart
    <3>3. ~SameKey(new, call[d])
      BY <1>2, <1>12, <3>2 DEF SameKey
    <3> QED
      BY <1>14, <3>1, <3>3 DEF Remembered
  <2>7. ASSUME NEW d \in Calls, call'[d].pc = "done"
        PROVE  \E s \in saved' : /\ SameKey(s, call'[d])
                                 /\ s.cmd = call'[d].cmd /\ s.answer = call'[d].answer
    <3>1. CASE d = c
      BY <1>14, <1>15, <2>2, <3>1
    <3>2. CASE d # c
      BY <1>14, <1>15, <2>7, <3>2 DEF Remembered
    <3> QED
      BY <3>1, <3>2
  <2> QED
    BY <2>4, <2>5, <2>6, <2>7 DEF Remembered
<1> QED
  BY <1>7, <1>8, <1>16, <1>18, <1>19, <1>20

\* What is so when no request goes on either.
LEMMA CallsUnchanged ==
  ASSUME Inv, UNCHANGED <<unit, category, item, conversion, call>>
  PROVE  Underway' /\ Apart' /\ Checked'
<1>1. RowsStay
  BY RowsUnchanged
<1>2. ASSUME NEW c \in Calls, NEW q \in Call, q = call[c]
      PROVE  Underway' /\ Apart' /\ Checked'
  <2>1. \A d \in Calls : call'[d] = call[d]
    OBVIOUS
  <2>2. Checked'
    BY <2>1, CheckedNext DEF Inv, Checked
  <2>3. /\ InFlight(c)' <=> InFlight(c)
        /\ InTransaction(c)' <=> InTransaction(c)
        /\ InFlight(c) => Known(call[c].cmd)' /\ Locks(call[c].cmd)' = Locks(call[c].cmd)
    BY <1>1, <2>1, FlightStays DEF Inv
  <2>4. Underway'
    BY <1>1, <2>1, <2>3, UnderwayNext DEF Inv, Underway
  <2>5. InTransaction(c)' => InFlight(c)
    BY <2>3, TransactionFlies
  <2>6. ASSUME InTransaction(c)', NEW d \in Calls \ {c}, InTransaction(d)
        PROVE  /\ ~SameKey(call'[c], call[d])
               /\ \A m \in 1 .. call'[c].held, n \in 1 .. call[d].held :
                    Locks(call[c].cmd)'[m] # Locks(call[d].cmd)[n]
    <3>1. InTransaction(c) /\ Locks(call[c].cmd)' = Locks(call[c].cmd) /\ call'[c] = call[c]
      BY <2>1, <2>3, <2>5, <2>6
    <3> QED
      BY <2>6, <3>1 DEF Inv, Apart
  <2>7. Apart'
    BY <1>1, <2>1, <2>6, ApartNext DEF Inv
  <2> QED
    BY <2>2, <2>4, <2>7
<1>3. CASE Calls = {}
  BY <1>3 DEF Underway, Apart, Checked
<1> QED
  BY <1>2, <1>3 DEF Inv, TypeOK

LEMMA ExpireKeeps ==
  ASSUME Inv, Expire
  PROVE  Inv'
<1>1. PICK s \in saved : ~s.expired /\ saved' = (saved \ {s}) \cup {[s EXCEPT !.expired = TRUE]}
  BY DEF Expire, Expired, rows
<1>2. UNCHANGED <<unit, category, item, conversion, call>>
  BY DEF Expire, Expired, rows
<1> DEFINE new == [s EXCEPT !.expired = TRUE]
<1>3. s \in Saved /\ saved \subseteq Saved
  BY DEF Inv, TypeOK
<1>4. new \in Saved /\ new.key = s.key /\ new.cmd = s.cmd /\ new.answer = s.answer
  BY <1>3 DEF Saved
<1>5. saved' = (saved \ {s}) \cup {new}
  BY <1>1
<1> HIDE DEF new
<1>6. RowsStay /\ Referenced' /\ Counted'
  BY <1>2, RowsUnchanged
<1>7. TypeOK'
  BY <1>2, <1>3, <1>4, <1>5 DEF Inv, TypeOK
<1>8. Underway' /\ Apart' /\ Checked'
  BY <1>2, CallsUnchanged
<1>9. Remembered'
  <2>1. \A x : (SameKey(new, x) <=> SameKey(s, x)) /\ (SameKey(x, new) <=> SameKey(x, s))
    BY <1>4 DEF SameKey
  <2>2. IsFiniteSet(saved')
    BY <1>5, FS_AddElement, FS_RemoveElement DEF Inv, Remembered
  <2>3. \A x, y \in saved' : SameKey(x, y) => x = y
    BY <1>5, <2>1 DEF Inv, Remembered
  <2>4. \A c \in Calls, x \in saved' : InTransaction(c)' => ~SameKey(x, call'[c])
    BY <1>2, <1>5, <2>1 DEF Inv, Remembered, InTransaction
  <2>5. ASSUME NEW c \in Calls, call'[c].pc = "done"
        PROVE  \E x \in saved' : /\ SameKey(x, call'[c])
                                 /\ x.cmd = call'[c].cmd /\ x.answer = call'[c].answer
    <3>1. PICK x \in saved : /\ SameKey(x, call[c])
                             /\ x.cmd = call[c].cmd /\ x.answer = call[c].answer
      BY <1>2, <2>5 DEF Inv, Remembered
    <3>2. CASE x = s
      BY <1>2, <1>4, <1>5, <2>1, <3>1, <3>2
    <3>3. CASE x # s
      BY <1>2, <1>5, <3>1, <3>3
    <3> QED
      BY <3>2, <3>3
  <2> QED
    BY <2>2, <2>3, <2>4, <2>5 DEF Remembered
<1> QED
  BY <1>6, <1>7, <1>8, <1>9 DEF Inv

LEMMA InitInv == Init => Inv
<1> SUFFICES ASSUME Init PROVE Inv
  OBVIOUS
<1>1. TypeOK
  BY DEF Init, RowsInit, TypeOK, UnitRow, Call
<1>2. Existing = {}
  BY DEF Init, RowsInit, Existing
<1>3. Counted
  BY <1>2, FS_EmptySet, NumbersAssumption DEF Counted, QuotaHolds
<1>4. Referenced
  <2>1. \A u \in Units : ~unit[u].locked
    BY DEF Init, RowsInit
  <2>2. \A p \in Pairs : conversion[p] = None
    BY DEF Init, RowsInit
  <2> QED
    BY <1>2, <2>1, <2>2 DEF Referenced, MinimumFits
<1>5. \A c \in Calls : call[c].pc = "idle"
  BY DEF Init, Idle
<1>6. Underway /\ Apart /\ Checked
  BY <1>5 DEF Underway, Apart, Checked, InFlight, InTransaction
<1>7. Remembered
  BY <1>5, FS_EmptySet DEF Remembered, InTransaction, Init, RowsInit
<1> QED
  BY <1>1, <1>3, <1>4, <1>6, <1>7 DEF Inv

LEMMA StepInv == Inv /\ [Next]_vars => Inv'
<1> SUFFICES ASSUME Inv, [Next]_vars PROVE Inv'
  OBVIOUS
<1>1. ASSUME NEW c \in Calls, NEW cmd \in Command, NEW k \in Keys, Begin(c, cmd, k)
      PROVE  Inv'
  BY <1>1, BeginKeeps
<1>2. ASSUME NEW c \in Calls, Claim(c) PROVE Inv'
  BY <1>2, ClaimKeeps
<1>3. ASSUME NEW c \in Calls, Replay(c) PROVE Inv'
  BY <1>3, ReplayKeeps
<1>4. ASSUME NEW c \in Calls, Lock(c) PROVE Inv'
  BY <1>4, LockKeeps
<1>5. ASSUME NEW c \in Calls, Check(c) PROVE Inv'
  BY <1>5, CheckKeeps
<1>6. ASSUME NEW c \in Calls, Commit(c) PROVE Inv'
  BY <1>6, CommitKeeps
<1>7. ASSUME NEW c \in Calls, Abort(c) PROVE Inv'
  BY <1>7, IdleKeeps DEF Abort
<1>8. CASE Expire
  BY <1>8, ExpireKeeps
<1>9. CASE UNCHANGED vars
  <2>1. UNCHANGED <<unit, category, item, conversion, call>> /\ saved' = saved
    BY <1>9 DEF vars
  <2>2. Referenced' /\ Counted' /\ Underway' /\ Apart' /\ Checked'
    BY <2>1, RowsUnchanged, CallsUnchanged
  <2>3. TypeOK'
    BY <2>1 DEF Inv, TypeOK
  <2>4. Remembered'
    BY <2>1 DEF Inv, Remembered, InTransaction
  <2> QED
    BY <2>2, <2>3, <2>4 DEF Inv
<1> QED
  BY <1>1, <1>2, <1>3, <1>4, <1>5, <1>6, <1>7, <1>8, <1>9 DEF Next

LEMMA InvHolds == Spec => []Inv
  BY InitInv, StepInv, PTL DEF Spec

-----------------------------------------------------------------------------
(* Nobody waits in a circle                                                  *)

\* A finite set has an element no other exceeds.
LEMMA Largest ==
  ASSUME NEW S, IsFiniteSet(S), S # {}, NEW num \in [S -> Nat]
  PROVE  \E x \in S : \A y \in S : num[y] <= num[x]
<1> DEFINE Above(x) == {y \in S : num[y] > num[x]}
           T == {Above(x) : x \in S}
<1>1. T # {}
  <2>1. PICK x : x \in S
    OBVIOUS
  <2>2. Above(x) \in T
    BY <2>1
  <2> QED
    BY <2>2
<1>2. T \subseteq FiniteSubsetsOf(S)
  <2> SUFFICES ASSUME NEW x \in S PROVE Above(x) \in FiniteSubsetsOf(S)
    OBVIOUS
  <2>1. Above(x) \in SUBSET S
    OBVIOUS
  <2>2. IsFiniteSet(Above(x))
    BY <2>1, FS_Subset
  <2> QED
    BY <2>1, <2>2 DEF FiniteSubsetsOf
<1>3. PICK A \in T : \A B \in T : ~(<<B, A>> \in StrictSubsetOrdering(S))
  <2>1. IsWellFoundedOn(StrictSubsetOrdering(S), FiniteSubsetsOf(S))
    BY FS_StrictSubsetOrderingWellFounded
  <2> HIDE DEF T
  <2> QED
    BY <1>1, <1>2, <2>1, WFMin
<1>4. PICK x \in S : A = Above(x)
  OBVIOUS
<1>5. ASSUME NEW y \in S, ~(num[y] <= num[x])
      PROVE  FALSE
  <2>1. num[y] \in Nat /\ num[x] \in Nat /\ num[y] > num[x] /\ \A z \in S : num[z] \in Nat
    BY <1>5
  <2>2. Above(y) \subseteq Above(x) /\ y \in Above(x) /\ y \notin Above(y)
    BY <2>1
  <2>3. <<Above(y), Above(x)>> \in StrictSubsetOrdering(S)
    <3>1. Above(y) \in SUBSET S /\ Above(x) \in SUBSET S /\ Above(y) # Above(x)
      BY <2>2
    <3> HIDE DEF Above
    <3> QED
      BY <2>2, <3>1 DEF StrictSubsetOrdering
  <2> QED
    BY <1>3, <1>4, <2>3
<1> QED
  BY <1>5

\* The order in which all commands lock: the count of items, units by their
\* numbers, a category, the row itself.
Class(row) ==
  CASE row[1] = "items" -> 0 [] row[1] = "unit" -> 1 [] row[1] = "category" -> 2 [] OTHER -> 3

Climbs(a, b) ==
  \/ Class(a) < Class(b)
  \/ a[1] = "unit" /\ b[1] = "unit" /\ a[2] < b[2]

LEMMA LocksClimb ==
  ASSUME TypeOK, NEW cmd \in Command, Known(cmd)
  PROVE  /\ \A m, n \in 1 .. Len(Locks(cmd)) : m < n => Climbs(Locks(cmd)[m], Locks(cmd)[n])
         /\ \A n \in 1 .. Len(Locks(cmd)) :
              Locks(cmd)[n][1] = "unit" => Locks(cmd)[n][2] \in Nat
<1> DEFINE Good(s) ==
      /\ \A m, n \in 1 .. Len(s) : m < n => Climbs(s[m], s[n])
      /\ \A n \in 1 .. Len(s) : s[n][1] = "unit" => s[n][2] \in Nat
    Fine(x) == x[1] = "unit" => x[2] \in Nat
<1>1. ASSUME NEW x, Fine(x) PROVE Good(<<x>>) /\ Good(<< >>)
  BY <1>1
<1>2. ASSUME NEW x, NEW y, Fine(x), Fine(y), Climbs(x, y)
      PROVE  Good(<<x, y>>)
  <2>1. Len(<<x, y>>) = 2 /\ <<x, y>>[1] = x /\ <<x, y>>[2] = y
    OBVIOUS
  <2>2. \A n \in 1 .. 2 : n = 1 \/ n = 2
    OBVIOUS
  <2> QED
    BY <1>2, <2>1, <2>2
<1>3. ASSUME NEW x, NEW y, NEW z, Fine(x), Fine(y), Fine(z),
             Climbs(x, y), Climbs(x, z), Climbs(y, z)
      PROVE  Good(<<x, y, z>>)
  <2> DEFINE s == <<x, y, z>>
  <2>1. Len(s) = 3 /\ s[1] = x /\ s[2] = y /\ s[3] = z
    OBVIOUS
  <2>2. \A n \in 1 .. 3 : n = 1 \/ n = 2 \/ n = 3
    OBVIOUS
  <2> HIDE DEF s
  <2>3. Good(s)
    BY <1>3, <2>1, <2>2
  <2> QED
    BY <2>3 DEF s
<1>4. ASSUME NEW x, NEW y, NEW z, NEW w, Fine(x), Fine(y), Fine(z), Fine(w),
             Climbs(x, y), Climbs(x, z), Climbs(x, w), Climbs(y, z), Climbs(y, w), Climbs(z, w)
      PROVE  Good(<<x, y, z, w>>)
  <2> DEFINE s == <<x, y, z, w>>
  <2>1. Len(s) = 4 /\ s[1] = x /\ s[2] = y /\ s[3] = z /\ s[4] = w
    OBVIOUS
  <2>2. \A n \in 1 .. 4 : n = 1 \/ n = 2 \/ n = 3 \/ n = 4
    OBVIOUS
  <2> HIDE DEF s
  <2>3. Good(s)
    BY <1>4, <2>1, <2>2
  <2> QED
    BY <2>3 DEF s
<1>5. \A a, b, g, i, u :
        /\ Climbs(<<"items", a>>, <<"unit", u>>)
        /\ Climbs(<<"items", a>>, <<"category", g>>)
        /\ Climbs(<<"items", a>>, <<"item", i>>)
        /\ Climbs(<<"unit", u>>, <<"category", g>>)
        /\ Climbs(<<"unit", u>>, <<"item", i>>)
        /\ Climbs(<<"category", g>>, <<"item", i>>)
        /\ Climbs(<<"unit", u>>, <<"conversion", b>>)
  BY DEF Climbs, Class
<1>6. \A a, b \in Nat : a < b => Climbs(<<"unit", a>>, <<"unit", b>>)
  BY DEF Climbs
<1>7. /\ \A a : Fine(<<"items", a>>) /\ Fine(<<"category", a>>) /\ Fine(<<"item", a>>)
                /\ Fine(<<"conversion", a>>)
      /\ \A a \in Nat : Fine(<<"unit", a>>)
  OBVIOUS
<1> DEFINE items == <<"items", None>>
           unitRow == <<"unit", cmd.unit>>
           categoryRow == <<"category", cmd.category>>
           itemRow == <<"item", cmd.item>>
           itemUnit == <<"unit", item[cmd.item].unit>>
           low == <<"unit", Min({cmd.pair[1], cmd.pair[2]})>>
           high == <<"unit", Max({cmd.pair[1], cmd.pair[2]})>>
           pairRow == <<"conversion", cmd.pair>>
<1>8. /\ cmd.kind = "unit.update" => Locks(cmd) = <<unitRow>>
      /\ cmd.kind = "category.status" => Locks(cmd) = <<categoryRow>>
      /\ cmd.kind = "item.create" =>
           Locks(cmd) \in {<<items, unitRow, categoryRow>>, <<items, unitRow>>}
      /\ cmd.kind = "item.update" =>
           Locks(cmd) \in {<<items, itemUnit, categoryRow, itemRow>>, <<items, itemUnit, itemRow>>}
      /\ cmd.kind = "conversion.create" => Locks(cmd) = <<low, high>>
      /\ cmd.kind = "conversion.update" => Locks(cmd) = <<low, high, pairRow>>
      /\ cmd.kind \in {"unit.create", "category.create"} => Locks(cmd) = << >>
  BY LocksAre
<1>9. cmd.kind \in {"unit.update", "item.create"} => cmd.unit \in Nat
  BY CommandFields, NumbersAssumption
<1>10. cmd.kind = "item.update" => item[cmd.item].unit \in Nat
  BY CommandFields, NumbersAssumption DEF Known, TypeOK, ItemRow
<1>11. cmd.kind \in {"conversion.create", "conversion.update"} =>
         Fine(low) /\ Fine(high) /\ Climbs(low, high)
  <2> SUFFICES ASSUME cmd.kind \in {"conversion.create", "conversion.update"}
               PROVE  Fine(low) /\ Fine(high) /\ Climbs(low, high)
    OBVIOUS
  <2> DEFINE a == Min({cmd.pair[1], cmd.pair[2]})
             b == Max({cmd.pair[1], cmd.pair[2]})
  <2>1. a \in Nat /\ b \in Nat /\ a < b
    BY CommandFields, PairOrder
  <2> HIDE DEF a, b
  <2>2. Fine(<<"unit", a>>) /\ Fine(<<"unit", b>>) /\ Climbs(<<"unit", a>>, <<"unit", b>>)
    BY <1>6, <1>7, <2>1
  <2> QED
    BY <2>2 DEF a, b
<1>12. /\ cmd.kind \in {"unit.update", "item.create"} => Fine(unitRow)
       /\ cmd.kind = "item.update" => Fine(itemUnit)
       /\ Fine(items) /\ Fine(categoryRow) /\ Fine(itemRow) /\ Fine(pairRow)
  BY <1>7, <1>9, <1>10
<1>13. /\ Climbs(items, unitRow) /\ Climbs(items, itemUnit)
       /\ Climbs(items, categoryRow) /\ Climbs(items, itemRow)
       /\ Climbs(unitRow, categoryRow) /\ Climbs(itemUnit, categoryRow)
       /\ Climbs(itemUnit, itemRow) /\ Climbs(categoryRow, itemRow)
       /\ Climbs(low, pairRow) /\ Climbs(high, pairRow)
  BY <1>5
<1> HIDE DEF items, unitRow, categoryRow, itemRow, itemUnit, low, high, pairRow, Good, Fine
<1>14. Good(Locks(cmd))
  <2>1. CASE cmd.kind \in {"unit.create", "category.create"}
    BY <1>1, <1>8, <1>12, <2>1
  <2>2. CASE cmd.kind = "unit.update"
    BY <1>1, <1>8, <1>12, <2>2
  <2>3. CASE cmd.kind = "category.status"
    BY <1>1, <1>8, <1>12, <2>3
  <2>4. CASE cmd.kind = "item.create"
    BY <1>2, <1>3, <1>8, <1>12, <1>13, <2>4
  <2>5. CASE cmd.kind = "item.update"
    BY <1>3, <1>4, <1>8, <1>12, <1>13, <2>5
  <2>6. CASE cmd.kind = "conversion.create"
    BY <1>2, <1>8, <1>11, <2>6
  <2>7. CASE cmd.kind = "conversion.update"
    BY <1>3, <1>8, <1>11, <1>12, <1>13, <2>7
  <2> QED
    BY <2>1, <2>2, <2>3, <2>4, <2>5, <2>6, <2>7, CommandFields
<1> QED
  BY <1>14 DEF Good

LEMMA NoCircle ==
  ASSUME Inv
  PROVE  NobodyWaitsInACircle
<1> SUFFICES ASSUME NEW S \in (SUBSET Calls) \ {{}} PROVE \E c \in S : Blockers(c) \cap S = {}
  BY DEF NobodyWaitsInACircle
<1>1. S \subseteq Calls /\ S # {} /\ IsFiniteSet(S)
  <2>1. S \in SUBSET Calls /\ S # {}
    OBVIOUS
  <2>2. IsFiniteSet(Calls)
    BY CallsAssumption
  <2>3. IsFiniteSet(S)
    BY <2>1, <2>2, FS_Subset
  <2> QED
    BY <2>1, <2>3
<1> SUFFICES ASSUME \A c \in S : Blockers(c) \cap S # {} PROVE FALSE
  OBVIOUS
\* Whoever is in a transaction and in S waits for a row.
<1>2. ASSUME NEW c \in S, InTransaction(c)
      PROVE  /\ call[c].pc = "lock" /\ call[c].held < Len(Locks(call[c].cmd))
             /\ \E d \in S : d \in Calls \ {c} /\ Holds(d, Wanted(c))
  <2>1. PICK d : d \in Blockers(c) /\ d \in S
    OBVIOUS
  <2>2. call[c].pc \in {"lock", "write"}
    BY <1>2 DEF InTransaction
  <2>3. call[c].pc = "lock" /\ call[c].held < Len(Locks(call[c].cmd))
    BY <2>1, <2>2 DEF Blockers
  <2>4. d \in Calls \ {c} /\ Holds(d, Wanted(c))
    BY <2>1, <2>3 DEF Blockers
  <2> QED
    BY <2>1, <2>3, <2>4
<1> DEFINE W == {c \in S : InTransaction(c)}
<1>3. W # {} /\ W \subseteq Calls /\ IsFiniteSet(W)
  <2>1. PICK c : c \in S
    BY <1>1
  <2>2. PICK d : d \in Blockers(c) /\ d \in S
    BY <2>1
  <2>3. InTransaction(d)
    BY <2>2 DEF Blockers, Holds
  <2>4. W \in SUBSET S
    OBVIOUS
  <2> QED
    BY <1>1, <2>2, <2>3, <2>4, FS_Subset
\* And it waits for one who waits for a later row.
<1>4. ASSUME NEW c \in W
      PROVE  \E d \in W : Climbs(Wanted(c), Wanted(d))
  <2>1. PICK d \in S : d \in Calls /\ Holds(d, Wanted(c))
    BY <1>2
  <2>2. d \in W /\ InTransaction(d)
    BY <2>1 DEF Holds
  <2>3. PICK n \in 1 .. call[d].held : Locks(call[d].cmd)[n] = Wanted(c)
    BY <2>1 DEF Holds
  <2>4. /\ call[d].cmd \in Command /\ call[d].held \in 0 .. 4 /\ Known(call[d].cmd)
        /\ call[d].held < Len(Locks(call[d].cmd))
    BY <1>2, <2>1, <2>2, FlightFields DEF Inv, Underway, InFlight, InTransaction
  <2>5. Len(Locks(call[d].cmd)) \in 0 .. 4
    BY <2>4, FewLocks
  <2>6. /\ n \in 1 .. Len(Locks(call[d].cmd)) /\ call[d].held + 1 \in 1 .. Len(Locks(call[d].cmd))
        /\ n < call[d].held + 1
    <3>1. \A h, l \in 0 .. 4 : h < l =>
            \A m \in 1 .. h : m \in 1 .. l /\ h + 1 \in 1 .. l /\ m < h + 1
      OBVIOUS
    <3> QED
      BY <2>4, <2>5, <3>1
  <2>7. Climbs(Locks(call[d].cmd)[n], Locks(call[d].cmd)[call[d].held + 1])
    BY <2>4, <2>6, LocksClimb DEF Inv
  <2> QED
    BY <2>2, <2>3, <2>7 DEF Wanted
<1>5. \A c \in W : Wanted(c)[1] = "unit" => Wanted(c)[2] \in Nat
  <2> SUFFICES ASSUME NEW c \in W PROVE Wanted(c)[1] = "unit" => Wanted(c)[2] \in Nat
    OBVIOUS
  <2>1. /\ call[c].cmd \in Command /\ call[c].held \in 0 .. 4 /\ Known(call[c].cmd)
        /\ call[c].held < Len(Locks(call[c].cmd))
    BY <1>2, <1>3, FlightFields DEF Inv, Underway, InFlight, InTransaction
  <2>2. call[c].held + 1 \in 1 .. Len(Locks(call[c].cmd))
    <3>1. \A h, l \in 0 .. 4 : h < l => h + 1 \in 1 .. l
      OBVIOUS
    <3> QED
      BY <2>1, <3>1, FewLocks
  <2> QED
    BY <2>1, <2>2, LocksClimb DEF Inv, Wanted
<1> HIDE DEF W
<1> DEFINE class == [c \in W |-> Class(Wanted(c))]
<1>6. class \in [W -> Nat]
  BY DEF Class
<1>7. PICK x \in W : \A y \in W : class[y] <= class[x]
  <2> HIDE DEF class
  <2> QED
    BY <1>3, <1>6, Largest
<1>8. \A c \in W : class[c] = Class(Wanted(c)) /\ class[c] \in Nat
  BY <1>6
<1> HIDE DEF class
<1>9. PICK y \in W : Climbs(Wanted(x), Wanted(y))
  BY <1>4
<1>10. Wanted(x)[1] = "unit"
  BY <1>7, <1>8, <1>9 DEF Climbs
<1> DEFINE V == {c \in W : Wanted(c)[1] = "unit"}
           num == [c \in V |-> Wanted(c)[2]]
<1>11. x \in V /\ IsFiniteSet(V)
  <2>1. V \in SUBSET W
    OBVIOUS
  <2> QED
    BY <1>3, <1>10, <2>1, FS_Subset
<1>12. num \in [V -> Nat] /\ \A c \in V : num[c] = Wanted(c)[2]
  BY <1>5
<1>13. \A c \in W : c \in V <=> Wanted(c)[1] = "unit"
  OBVIOUS
<1>14. V \subseteq W
  OBVIOUS
<1> HIDE DEF V, num
<1>15. PICK z \in V : \A c \in V : num[c] <= num[z]
  BY <1>11, <1>12, Largest
<1>16. PICK w \in W : Climbs(Wanted(z), Wanted(w))
  BY <1>4, <1>14
<1>17. class[z] = 1 /\ class[x] = 1 /\ class[w] <= class[x]
  BY <1>7, <1>8, <1>10, <1>13, <1>14 DEF Class
<1>18. w \in V /\ Wanted(z)[2] < Wanted(w)[2]
  BY <1>8, <1>13, <1>14, <1>16, <1>17 DEF Climbs
<1> QED
  BY <1>12, <1>15, <1>18

-----------------------------------------------------------------------------
(* Theorems about every instance                                             *)

\* Rows, keys and requests keep their types, whatever is asked at once.
THEOREM TypeCorrect == Spec => []TypeOK
<1>1. Inv => TypeOK
  BY DEF Inv
<1> QED
  BY <1>1, InvHolds, PTL

\* The package's allowance of items holds for any number of commands after the
\* last place.
THEOREM QuotaHoldsTheorem == Spec => []QuotaHolds
<1>1. Inv => QuotaHolds
  BY DEF Inv, Counted
<1> QED
  BY <1>1, InvHolds, PTL

\* No item has a minimum its unit cannot express, and what items and conversions
\* refer to is latched.
THEOREM MinimumFitsTheorem == Spec => []MinimumFits
<1>1. Inv => MinimumFits
  BY DEF Inv, Referenced
<1> QED
  BY <1>1, InvHolds, PTL

\* All who were answered under one key got one answer, for good.
THEOREM OneAnswerPerKeyTheorem == Spec => []OneAnswerPerKey
<1>1. ASSUME Inv PROVE OneAnswerPerKey
  <2>1. ASSUME NEW c \in Calls, NEW d \in Calls, call[c].pc = "done", call[d].pc = "done",
               SameKey(call[c], call[d])
        PROVE  call[c].cmd = call[d].cmd /\ call[c].answer = call[d].answer
    <3>1. PICK s \in saved : SameKey(s, call[c]) /\ s.cmd = call[c].cmd /\ s.answer = call[c].answer
      BY <1>1, <2>1 DEF Inv, Remembered
    <3>2. PICK t \in saved : SameKey(t, call[d]) /\ t.cmd = call[d].cmd /\ t.answer = call[d].answer
      BY <1>1, <2>1 DEF Inv, Remembered
    <3>3. SameKey(s, t)
      BY <2>1, <3>1, <3>2 DEF SameKey
    <3> QED
      BY <1>1, <3>1, <3>2, <3>3 DEF Inv, Remembered
  <2> DEFINE T == {<<s.key, s.cmd.kind>> : s \in saved}
             f == [s \in saved |-> <<s.key, s.cmd.kind>>]
  <2>2. f \in Bijection(saved, T)
    <3>1. f \in [saved -> T]
      OBVIOUS
    <3>2. \A s, t \in saved : f[s] = f[t] => s = t
      BY <1>1 DEF Inv, Remembered, SameKey
    <3>3. \A p \in T : \E s \in saved : f[s] = p
      OBVIOUS
    <3> HIDE DEF f, T
    <3> QED
      BY <3>1, <3>2, <3>3 DEF Bijection, Injection, Surjection, IsInjective
  <2>3. Cardinality(T) = Cardinality(saved)
    <3>1. ExistsBijection(saved, T)
      BY <2>2 DEF ExistsBijection
    <3> HIDE DEF T
    <3> QED
      BY <1>1, <3>1, FS_Bijection DEF Inv, Remembered
  <2> QED
    BY <2>1, <2>3 DEF OneAnswerPerKey
<1> QED
  BY <1>1, InvHolds, PTL

\* However many commands wait for keys and rows, one of them goes on first.
THEOREM NobodyWaitsInACircleTheorem == Spec => []NobodyWaitsInACircle
<1>1. Inv => NobodyWaitsInACircle
  BY NoCircle
<1> QED
  BY <1>1, InvHolds, PTL

\* An item gets only an active category, as the category stays locked from the
\* look at its status to the commit.
THEOREM ChosenCategoryActiveTheorem == Spec => ChosenCategoryActive
<1> DEFINE A == \A i \in Items : item'[i] # item[i] /\ item'[i].category # None =>
             \/ category[item'[i].category] = "ACTIVE"
             \/ item[i] # None /\ item[i].category = item'[i].category
<1>1. ASSUME Inv, [Next]_vars PROVE [A]_vars
  <2>1. CASE item' = item
    BY <2>1
  <2>2. ASSUME item' # item, NEW c \in Calls, Commit(c) PROVE A
    <3>1. PICK cmd \in Command : cmd = call[c].cmd
      BY <1>1, <2>2, FlightFields DEF Inv, InFlight, Commit
    <3>2. PICK answer \in Answers(cmd) : Kept(cmd) /\ Write(cmd, answer)
      BY <2>2, <3>1 DEF Commit, Carry
    <3>3. Known(cmd) /\ Allowed(cmd)
      BY <1>1, <2>2, <3>1 DEF Inv, Underway, InFlight, Checked, Commit
    <3>4. CASE cmd.kind = "item.create"
      <4>1. PICK i \in Items, row \in ItemRow : row.category = cmd.category /\ ItemStep(i, row)
        BY <1>1, <3>2, <3>3, <3>4, Writes DEF Inv
      <4>2. cmd.category # None => category[cmd.category] = "ACTIVE"
        BY <3>3, <3>4 DEF Allowed
      <4>3. item'[i] = row /\ \A j \in Items \ {i} : item'[j] = item[j]
        BY <1>1, <4>1 DEF ItemStep, Inv, TypeOK
      <4> QED
        BY <4>1, <4>2, <4>3
    <3>5. CASE cmd.kind = "item.update"
      <4> DEFINE before == item[cmd.item]
                 after == Patched(before, cmd)
      <4>1. /\ cmd.item \in Items /\ before \in ItemRow /\ before # None
            /\ ItemStep(cmd.item, after) /\ after \in ItemRow
        BY <1>1, <3>2, <3>3, <3>5, Writes, CommandFields, PatchedRow DEF Inv, Known
      <4>2. after.category \in Categories \ {before.category} => category[after.category] = "ACTIVE"
        BY <3>3, <3>5 DEF Allowed
      <4> HIDE DEF after
      <4>3. item'[cmd.item] = after /\ \A j \in Items \ {cmd.item} : item'[j] = item[j]
        BY <1>1, <4>1 DEF ItemStep, Inv, TypeOK
      <4>4. after.category \in Categories \cup {None}
        BY <4>1 DEF ItemRow
      <4> QED
        BY <4>1, <4>2, <4>3, <4>4
    <3>6. CASE cmd.kind \notin {"item.create", "item.update"}
      BY <2>2, <3>2, <3>6 DEF Write, createUnit, updateUnit, createCategory, setStatus, createItem,
         updateItem, createConversion, updateConversion
    <3> QED
      BY <3>4, <3>5, <3>6
  <2>3. item' = item \/ \E c \in Calls : Commit(c)
    BY <1>1 DEF Next, vars, Begin, Claim, Replay, Lock, Check, Abort, Expire, Expired, rows
  <2> QED
    BY <2>1, <2>2, <2>3
<1> QED
  BY <1>1, InvHolds, PTL DEF Spec, ChosenCategoryActive

-----------------------------------------------------------------------------
(* Commands work as if each was one step                                     *)

Sent == [c \in Calls |-> shown(c)]

\* The abstract commands demand, write and answer what these do.
LEMMA SameDemands ==
  ASSUME NEW cmd
  PROVE  /\ AtOnce!Known(cmd) <=> Known(cmd)
         /\ AtOnce!Allowed(cmd) <=> Allowed(cmd)
         /\ AtOnce!Kept(cmd) <=> Kept(cmd)
<1>1. AtOnce!Known(cmd) <=> Known(cmd)
  BY DEF AtOnce!Known, Known
<1>2. AtOnce!Allowed(cmd) <=> Allowed(cmd)
  BY DEF AtOnce!Allowed, Allowed, AtOnce!Fits, Fits, AtOnce!Existing, Existing,
     AtOnce!Patched, Patched, AtOnce!haveCompatibleInventoryUnitDimensions,
     haveCompatibleInventoryUnitDimensions
<1>3. AtOnce!Kept(cmd) <=> Kept(cmd)
  BY DEF AtOnce!Kept, Kept, AtOnce!Fits, Fits, AtOnce!Patched, Patched,
     AtOnce!haveCompatibleInventoryUnitDimensions, haveCompatibleInventoryUnitDimensions
<1> QED
  BY <1>1, <1>2, <1>3

LEMMA SameEffects ==
  ASSUME NEW cmd, NEW k, NEW answer
  PROVE  /\ AtOnce!Answers(cmd) = Answers(cmd)
         /\ AtOnce!Carry(cmd, k, answer) <=> Carry(cmd, k, answer)
<1>1. AtOnce!Answers(cmd) = Answers(cmd)
  BY DEF AtOnce!Answers, Answers, AtOnce!Existing, Existing, AtOnce!Patched, Patched
<1>2. AtOnce!Write(cmd, answer) <=> Write(cmd, answer)
  BY DEF AtOnce!Write, Write, AtOnce!createUnit, createUnit, AtOnce!updateUnit, updateUnit,
     AtOnce!createCategory, createCategory, AtOnce!setStatus, setStatus, AtOnce!createItem,
     createItem, AtOnce!updateItem, updateItem, AtOnce!createConversion, createConversion,
     AtOnce!updateConversion, updateConversion, AtOnce!Latched, Latched
<1> QED
  BY <1>1, <1>2 DEF AtOnce!Carry, Carry

\* How a step of one request shows.
LEMMA SentStep ==
  ASSUME Inv, NEW c \in Calls, NEW q, call' = [call EXCEPT ![c] = q]
  PROVE  Sent' = [Sent EXCEPT ![c] =
           IF q.pc \in {"claim", "lock", "write"}
             THEN [pc |-> "asked", cmd |-> q.cmd, key |-> q.key] ELSE q]
  BY DEF Inv, TypeOK, Sent, shown

LEMMA BeginAsks ==
  ASSUME Inv, NEW c \in Calls, NEW cmd \in Command, NEW k \in Keys, Begin(c, cmd, k)
  PROVE  AtOnce!Ask(c)
<1> DEFINE asked == [pc |-> "asked", cmd |-> cmd, key |-> k]
<1>1. /\ call' = [call EXCEPT ![c] = [pc |-> "claim", cmd |-> cmd, key |-> k, held |-> 0]]
      /\ UNCHANGED <<rows, saved>> /\ call[c].pc \in {"idle", "done"}
  BY DEF Begin, rows
<1>2. Sent' = [Sent EXCEPT ![c] = asked]
  BY <1>1, SentStep
<1>3. Sent'[c] = asked /\ Sent[c].pc \in {"idle", "done"}
  BY <1>1, <1>2 DEF Sent, shown
<1>4. asked \in [pc : {"asked"}, cmd : Command, key : Keys]
  OBVIOUS
<1>5. AtOnce!Command = Command
  BY DEF AtOnce!Command, Command, AtOnce!Pairs, Pairs
<1> QED
  BY <1>1, <1>2, <1>3, <1>4, <1>5 DEF AtOnce!Ask, AtOnce!rows, rows, Sent

\* A request in flight shows as asked.
LEMMA FlightShown ==
  ASSUME NEW c \in Calls, InFlight(c)
  PROVE  Sent[c] = [pc |-> "asked", cmd |-> call[c].cmd, key |-> call[c].key]
  BY DEF InFlight, Sent, shown

LEMMA RefusedRefuses ==
  ASSUME Inv, NEW c \in Calls, InFlight(c), Refused(c), UNCHANGED <<rows, saved>>
  PROVE  AtOnce!Refuse(c)
<1>1. Sent' = [Sent EXCEPT ![c] = [pc |-> "idle"]]
  BY SentStep DEF Refused, Idle
<1> QED
  BY <1>1, FlightShown DEF AtOnce!Refuse, AtOnce!rows, rows, Sent

\* Going from lock to lock shows nothing.
LEMMA LocksShowNothing ==
  ASSUME Inv, NEW c \in Calls, InFlight(c), NEW q,
         call' = [call EXCEPT ![c] = q], q.pc \in {"lock", "write"},
         q.cmd = call[c].cmd, q.key = call[c].key
  PROVE  UNCHANGED Sent
<1>1. Sent' = [Sent EXCEPT ![c] = [pc |-> "asked", cmd |-> q.cmd, key |-> q.key]]
  BY SentStep
<1> QED
  BY <1>1, FlightShown DEF Sent

\* The answer of a request, as the abstract commands give it.
LEMMA AnswerShown ==
  ASSUME NEW c \in Calls, NEW cmd, NEW k, NEW answer,
         Sent[c] = [pc |-> "asked", cmd |-> cmd, key |-> k],
         Sent' = [Sent EXCEPT ![c] = [pc |-> "done", cmd |-> cmd, key |-> k, answer |-> answer]]
  PROVE  AtOnce!Answered(c, answer)
<1>1. Sent[c].cmd = cmd /\ Sent[c].key = k
  OBVIOUS
<1>2. Sent' = [Sent EXCEPT ![c] = [pc |-> "done", cmd |-> Sent[c].cmd, key |-> Sent[c].key,
                                   answer |-> answer]]
  BY <1>1
<1> QED
  BY <1>2 DEF AtOnce!Answered, Sent

LEMMA ReplayRepeats ==
  ASSUME Inv, NEW c \in Calls, Replay(c)
  PROVE  AtOnce!Repeat(c) \/ AtOnce!Refuse(c)
<1>1. InFlight(c) /\ UNCHANGED <<rows, saved>>
  BY DEF Replay, InFlight, rows
<1>2. PICK s \in saved :
        /\ SameKey(s, call[c])
        /\ IF s.cmd = call[c].cmd /\ ~s.expired
             THEN call' = [call EXCEPT ![c] =
                    [pc |-> "done", cmd |-> @.cmd, key |-> @.key, answer |-> s.answer]]
             ELSE Refused(c)
  BY DEF Replay
<1>3. CASE s.cmd = call[c].cmd /\ ~s.expired
  <2> DEFINE q == [pc |-> "done", cmd |-> call[c].cmd, key |-> call[c].key, answer |-> s.answer]
  <2>1. call' = [call EXCEPT ![c] = q]
    BY <1>2, <1>3
  <2>2. Sent' = [Sent EXCEPT ![c] = q]
    BY <2>1, SentStep
  <2>3. Sent[c] = [pc |-> "asked", cmd |-> call[c].cmd, key |-> call[c].key]
    BY <1>1, FlightShown
  <2>4. AtOnce!Answered(c, s.answer)
    BY <2>2, <2>3, AnswerShown
  <2>5. AtOnce!SameKey(s, Sent[c])
    BY <1>2, <2>3 DEF AtOnce!SameKey, SameKey
  <2> QED
    BY <1>1, <1>3, <2>3, <2>4, <2>5 DEF AtOnce!Repeat, AtOnce!rows, rows, Sent
<1>4. CASE ~(s.cmd = call[c].cmd /\ ~s.expired)
  BY <1>1, <1>2, <1>4, RefusedRefuses
<1> QED
  BY <1>3, <1>4

\* What a command found when it locked its rows is so when it commits, and its
\* key is still its own: the commit is the whole command.
LEMMA CommitPerforms ==
  ASSUME Inv, NEW c \in Calls, Commit(c)
  PROVE  AtOnce!Perform(c)
<1> DEFINE cmd == call[c].cmd
           k == call[c].key
<1>1. InFlight(c) /\ InTransaction(c) /\ Kept(cmd)
  BY DEF Commit, InFlight, InTransaction
<1>2. PICK answer \in Answers(cmd) :
        /\ Carry(cmd, k, answer)
        /\ call' = [call EXCEPT ![c] =
             [pc |-> "done", cmd |-> @.cmd, key |-> @.key, answer |-> answer]]
  BY DEF Commit
<1>3. Known(cmd) /\ Allowed(cmd) /\ \A s \in saved : ~SameKey(s, call[c])
  BY <1>1 DEF Inv, Underway, Checked, Remembered, Commit
<1>4. Sent[c] = [pc |-> "asked", cmd |-> cmd, key |-> k]
  BY <1>1, FlightShown
<1> DEFINE q == [pc |-> "done", cmd |-> cmd, key |-> k, answer |-> answer]
<1>5. call' = [call EXCEPT ![c] = q]
  BY <1>2
<1>6. Sent' = [Sent EXCEPT ![c] = q]
  BY <1>5, SentStep
<1>7. AtOnce!Answered(c, answer)
  BY <1>4, <1>6, AnswerShown
<1>8. \A s \in saved : ~AtOnce!SameKey(s, Sent[c])
  BY <1>3, <1>4 DEF AtOnce!SameKey, SameKey
<1> HIDE DEF cmd, k
<1>9. Sent[c].pc = "asked" /\ Sent[c].cmd = cmd /\ Sent[c].key = k
  BY <1>4
<1>10. AtOnce!Known(cmd) /\ AtOnce!Allowed(cmd) /\ AtOnce!Kept(cmd)
  BY <1>1, <1>3, SameDemands
<1>11. answer \in AtOnce!Answers(cmd) /\ AtOnce!Carry(cmd, k, answer)
  BY <1>2, SameEffects
<1> QED
  BY <1>7, <1>8, <1>9, <1>10, <1>11 DEF AtOnce!Perform, Sent

LEMMA ServedNext ==
  ASSUME Inv, [Next]_vars
  PROVE  [AtOnce!Next]_(AtOnce!vars)
<1>1. ASSUME UNCHANGED <<rows, saved>>, UNCHANGED Sent PROVE UNCHANGED AtOnce!vars
  BY <1>1 DEF AtOnce!vars, AtOnce!rows, rows, Sent
<1>2. ASSUME NEW c \in Calls, NEW cmd \in Command, NEW k \in Keys, Begin(c, cmd, k)
      PROVE  AtOnce!Next
  BY <1>2, BeginAsks DEF AtOnce!Next
<1>3. ASSUME NEW c \in Calls, Claim(c) PROVE UNCHANGED AtOnce!vars
  <2> DEFINE q == [call[c] EXCEPT !.pc = "lock"]
  <2>1. InFlight(c) /\ UNCHANGED <<rows, saved>> /\ call' = [call EXCEPT ![c] = q]
    BY <1>3 DEF Claim, InFlight, rows
  <2>2. q.pc = "lock" /\ q.cmd = call[c].cmd /\ q.key = call[c].key
    BY <2>1, FlightFields DEF Inv
  <2> QED
    BY <1>1, <2>1, <2>2, LocksShowNothing
<1>4. ASSUME NEW c \in Calls, Replay(c) PROVE AtOnce!Next
  BY <1>4, ReplayRepeats DEF AtOnce!Next
<1>5. ASSUME NEW c \in Calls, Lock(c) PROVE UNCHANGED AtOnce!vars
  <2> DEFINE q == [call[c] EXCEPT !.held = @ + 1]
  <2>1. /\ InFlight(c) /\ UNCHANGED <<rows, saved>> /\ call[c].pc = "lock"
        /\ call' = [call EXCEPT ![c] = q]
    BY <1>5 DEF Lock, InFlight, rows
  <2>2. q.pc = "lock" /\ q.cmd = call[c].cmd /\ q.key = call[c].key
    BY <2>1, FlightFields DEF Inv
  <2> QED
    BY <1>1, <2>1, <2>2, LocksShowNothing
<1>6. ASSUME NEW c \in Calls, Check(c) PROVE AtOnce!Next \/ UNCHANGED AtOnce!vars
  <2> DEFINE q == [call[c] EXCEPT !.pc = "write"]
  <2>1. InFlight(c) /\ UNCHANGED <<rows, saved>>
    BY <1>6 DEF Check, InFlight, rows
  <2>2. CASE Allowed(call[c].cmd)
    <3>1. call' = [call EXCEPT ![c] = q]
      BY <1>6, <2>2 DEF Check
    <3>2. q.pc = "write" /\ q.cmd = call[c].cmd /\ q.key = call[c].key
      BY <2>1, FlightFields DEF Inv
    <3> QED
      BY <1>1, <2>1, <3>1, <3>2, LocksShowNothing
  <2>3. CASE ~Allowed(call[c].cmd)
    BY <1>6, <2>1, <2>3, RefusedRefuses DEF Check, AtOnce!Next
  <2> QED
    BY <2>2, <2>3
<1>7. ASSUME NEW c \in Calls, Commit(c) PROVE AtOnce!Next
  BY <1>7, CommitPerforms DEF AtOnce!Next
<1>8. ASSUME NEW c \in Calls, Abort(c) PROVE AtOnce!Next
  <2>1. InFlight(c) /\ UNCHANGED <<rows, saved>> /\ Refused(c)
    BY <1>8 DEF Abort, InTransaction, InFlight, rows
  <2> QED
    BY <2>1, RefusedRefuses DEF AtOnce!Next
<1>9. ASSUME Expire PROVE AtOnce!Next
  <2>1. AtOnce!Expired /\ UNCHANGED Sent
    BY <1>9 DEF Expire, Expired, AtOnce!Expired, AtOnce!rows, rows, Sent, shown
  <2> QED
    BY <2>1 DEF AtOnce!Next, Sent
<1>10. ASSUME UNCHANGED vars PROVE UNCHANGED AtOnce!vars
  BY <1>1, <1>10 DEF vars, rows, Sent, shown
<1> QED
  BY <1>2, <1>3, <1>4, <1>5, <1>6, <1>7, <1>8, <1>9, <1>10 DEF Next

\* Transactions that lock row by row are commands that take effect one at a time,
\* each at one moment between its request and its answer (MasterCommands).
THEOREM SerializableTheorem == Spec => Serializable
<1>1. Init => AtOnce!Init
  <2> SUFFICES ASSUME Init PROVE AtOnce!Init
    OBVIOUS
  <2>1. AtOnce!RowsInit
    BY DEF Init, RowsInit, AtOnce!RowsInit, AtOnce!Pairs, Pairs
  <2>2. Sent = [c \in Calls |-> [pc |-> "idle"]]
    BY DEF Init, Idle, Sent, shown
  <2> QED
    BY <2>1, <2>2 DEF AtOnce!Init, Sent
<1>2. Inv /\ [Next]_vars => [AtOnce!Next]_(AtOnce!vars)
  BY ServedNext
<1> QED
  BY <1>1, <1>2, InvHolds, PTL DEF Spec, Serializable, AtOnce!Spec
=============================================================================
