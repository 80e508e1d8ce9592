--------------------------- MODULE MasterRecords ---------------------------
(* The master records of the Inventory module: units with their precision,  *)
(* conversions between units, categories, and items with a base unit, a     *)
(* category and a minimum; and what each command on them demands, writes    *)
(* and answers, whoever runs it and however.                                *)
(*                                                                          *)
(* Left out: names, SKUs and codes (a unit is known by its code), and the   *)
(* audit row of each command. A minimum stands for the number of its        *)
(* decimal places.                                                          *)
EXTENDS Naturals, FiniteSets

CONSTANTS
  Units,       \* numbers: units are locked in the order of their ids
  Dimension,   \* what each unit measures; None for one older than dimensions
  Categories,
  Items,
  Precisions,  \* decimal places of units and minimums
  Factors,
  Allowance,   \* how many active items the package allows
  Keys,        \* idempotency keys of one person
  Keep,        \* a field a patch leaves alone
  None

ASSUME NumbersAssumption ==
  Units \subseteq Nat /\ Precisions \subseteq Nat /\ Allowance \in Nat

VARIABLES
  unit,        \* precision of each unit, and whether something refers to it
  category,    \* status of each category
  item,        \* the items
  conversion,  \* factor of each pair of units
  saved        \* completed idempotency keys

rows == <<unit, category, item, conversion>>

Pairs == {p \in Units \X Units : p[1] # p[2]}

\* What may be asked for.
Command ==
       [kind : {"unit.create", "unit.update"}, unit : Units, precision : Precisions]
  \cup [kind : {"category.create"}, category : Categories]
  \cup [kind : {"category.status"}, category : Categories, status : {"ACTIVE", "INACTIVE"}]
  \cup [kind : {"item.create"}, unit : Units, category : Categories \cup {None},
        minimum : Precisions \cup {None}]
  \cup [kind : {"item.update"}, item : Items, category : Categories \cup {None, Keep},
        minimum : Precisions \cup {None, Keep}]
  \cup [kind : {"conversion.create", "conversion.update"}, pair : Pairs, factor : Factors]

UnitRow == [precision : Precisions \cup {None}, locked : BOOLEAN]
ItemRow == [unit : Units, category : Categories \cup {None}, minimum : Precisions \cup {None}]
ASSUME AbsentAssumption ==
  /\ None \notin Precisions /\ None \notin Categories /\ None \notin Factors
  /\ None \notin {"ACTIVE", "INACTIVE"} /\ None \notin ItemRow
  /\ Keep \notin Precisions /\ Keep \notin Categories /\ Keep # None

\* The item as the command left it. Other rows are as the command asked.
Answer  == Items \X ItemRow \cup {None}
Saved   == [key : Keys, cmd : Command, answer : Answer, expired : BOOLEAN]

\* A workspace whose units and categories may have been entered before.
RowsInit ==
  /\ unit \in [Units -> [precision : Precisions \cup {None}, locked : {FALSE}]]
  /\ \A u \in Units : Dimension[u] = None => unit[u].precision # None
  /\ category \in [Categories -> {"ACTIVE", None}]
  /\ item = [i \in Items |-> None]
  /\ conversion = [p \in Pairs |-> None]
  /\ saved = {}
-----------------------------------------------------------------------------
Existing == {i \in Items : item[i] # None}

\* A minimum has no more decimal places than its unit.
Fits(minimum, u) == minimum # None => minimum <= unit[u].precision

\* Two units measure the same, and it is known what.
haveCompatibleInventoryUnitDimensions(p) ==
  Dimension[p[1]] # None /\ Dimension[p[1]] = Dimension[p[2]]

\* Slip: a patch overwrites the category it leaves alone.
Patched_Whole(row, cmd) ==
  [row EXCEPT !.category = cmd.category,
              !.minimum  = IF cmd.minimum = Keep THEN @ ELSE cmd.minimum]

\* The item a patch makes of an item.
Patched(row, cmd) ==
  [row EXCEPT !.category = IF cmd.category = Keep THEN @ ELSE cmd.category,
              !.minimum  = IF cmd.minimum = Keep THEN @ ELSE cmd.minimum]

\* The rows a request names are there.
Known(cmd) ==
  /\ cmd.kind \in {"unit.update", "item.create"} => unit[cmd.unit].precision # None
  /\ cmd.kind \in {"category.status", "item.create", "item.update"} =>
       (cmd.category \in Categories => category[cmd.category] # None)
  /\ cmd.kind = "item.update" => item[cmd.item] # None
  /\ cmd.kind = "conversion.create" => \A n \in 1..2 : unit[cmd.pair[n]].precision # None
  /\ cmd.kind = "conversion.update" => conversion[cmd.pair] # None

\* Keys belong to one kind of command.
SameKey(a, b) == a.key = b.key /\ a.cmd.kind = b.cmd.kind

\* What the command itself demands of the rows it has locked.
Allowed(cmd) ==
  CASE cmd.kind = "unit.update" ->
         unit[cmd.unit].locked => cmd.precision = unit[cmd.unit].precision
    [] cmd.kind = "item.create" ->
         /\ cmd.category # None => category[cmd.category] = "ACTIVE"
         /\ Fits(cmd.minimum, cmd.unit)
         /\ Cardinality(Existing) + 1 <= Allowance
    [] cmd.kind = "item.update" ->
         LET before == item[cmd.item]
             after  == Patched(before, cmd)
         IN  /\ Fits(after.minimum, before.unit)
             /\ after.category \in Categories \ {before.category} =>
                  category[after.category] = "ACTIVE"
    [] cmd.kind \in {"conversion.create", "conversion.update"} ->
         haveCompatibleInventoryUnitDimensions(cmd.pair)
    [] OTHER -> TRUE

\* What the tables demand of a write: unique codes and pairs, definitions of
\* units in use that stay, minimums that fit, dimensions that agree.
Kept(cmd) ==
  CASE cmd.kind = "unit.create" -> unit[cmd.unit].precision = None /\ Dimension[cmd.unit] # None
    [] cmd.kind = "unit.update" ->
         unit[cmd.unit].locked => cmd.precision = unit[cmd.unit].precision
    [] cmd.kind = "category.create" -> category[cmd.category] = None
    [] cmd.kind = "item.create" -> Fits(cmd.minimum, cmd.unit)
    [] cmd.kind = "item.update" ->
         Fits(Patched(item[cmd.item], cmd).minimum, item[cmd.item].unit)
    [] cmd.kind = "conversion.create" ->
         conversion[cmd.pair] = None /\ haveCompatibleInventoryUnitDimensions(cmd.pair)
    [] cmd.kind = "conversion.update" -> haveCompatibleInventoryUnitDimensions(cmd.pair)
    [] OTHER -> TRUE

\* Slip: a reference leaves no trace at the unit.
Latched_Not(S) == unit

\* A unit something refers to keeps its definition from now on.
Latched(S) == [u \in Units |-> IF u \in S THEN [unit[u] EXCEPT !.locked = TRUE] ELSE unit[u]]

\* What the rows become, command by command.
createUnit(cmd) ==
  /\ cmd.kind = "unit.create"
  /\ unit' = [unit EXCEPT ![cmd.unit].precision = cmd.precision]
  /\ UNCHANGED <<category, item, conversion>>

updateUnit(cmd) ==
  /\ cmd.kind = "unit.update"
  /\ unit' = [unit EXCEPT ![cmd.unit].precision = cmd.precision]
  /\ UNCHANGED <<category, item, conversion>>

createCategory(cmd) ==
  /\ cmd.kind = "category.create"
  /\ category' = [category EXCEPT ![cmd.category] = "ACTIVE"]
  /\ UNCHANGED <<unit, item, conversion>>

setStatus(cmd) ==
  /\ cmd.kind = "category.status"
  /\ category' = [category EXCEPT ![cmd.category] = cmd.status]
  /\ UNCHANGED <<unit, item, conversion>>

createItem(cmd, answer) ==
  /\ cmd.kind = "item.create"
  /\ item' = [item EXCEPT ![answer[1]] = answer[2]]
  /\ unit' = Latched({cmd.unit})
  /\ UNCHANGED <<category, conversion>>

updateItem(cmd, answer) ==
  /\ cmd.kind = "item.update"
  /\ item' = [item EXCEPT ![cmd.item] = answer[2]]
  /\ unit' = Latched({item[cmd.item].unit})
  /\ UNCHANGED <<category, conversion>>

createConversion(cmd) ==
  /\ cmd.kind = "conversion.create"
  /\ conversion' = [conversion EXCEPT ![cmd.pair] = cmd.factor]
  /\ unit' = Latched({cmd.pair[1], cmd.pair[2]})
  /\ UNCHANGED <<category, item>>

updateConversion(cmd) ==
  /\ cmd.kind = "conversion.update"
  /\ conversion' = [conversion EXCEPT ![cmd.pair] = cmd.factor]
  /\ unit' = Latched({cmd.pair[1], cmd.pair[2]})
  /\ UNCHANGED <<category, item>>

Write(cmd, answer) ==
  \/ createUnit(cmd) \/ updateUnit(cmd)
  \/ createCategory(cmd) \/ setStatus(cmd)
  \/ createItem(cmd, answer) \/ updateItem(cmd, answer)
  \/ createConversion(cmd) \/ updateConversion(cmd)

\* What a command may answer; a new item gets an id of its own.
Answers(cmd) ==
  CASE cmd.kind = "item.create" ->
         {<<i, [unit |-> cmd.unit, category |-> cmd.category, minimum |-> cmd.minimum]>> :
            i \in Items \ Existing}
    [] cmd.kind = "item.update" -> {<<cmd.item, Patched(item[cmd.item], cmd)>>}
    [] OTHER -> {None}

\* The rows are written and the answer is saved under the key, both or none.
Carry(cmd, key, answer) ==
  /\ Write(cmd, answer)
  /\ saved' = saved \cup {[key |-> key, cmd |-> cmd, answer |-> answer, expired |-> FALSE]}

\* The answers of a key are kept for a day, the key itself for good.
Expired ==
  /\ \E s \in saved : ~s.expired /\ saved' = (saved \ {s}) \cup {[s EXCEPT !.expired = TRUE]}
  /\ UNCHANGED rows
=============================================================================
