---------------------------- MODULE MCInventory ----------------------------
(* Instances of Inventory for TLC. All commands at once are too many, so an *)
(* instance is about a few that meet: new items and the category they go    *)
(* into, changes to an item and what is answered afterwards, or units and   *)
(* what refers to them. Only where two of a kind meet are there two keys.   *)
EXTENDS Inventory, TLC

VARIABLE scenario

MCDimension == [u \in Units |-> "MASS"]

FirstKey == CHOOSE k \in Keys : TRUE

\* The requests of an instance.
Asked(cmd, k) ==
  CASE scenario = "places"  ->
         /\ cmd.kind \in {"item.create", "category.create", "category.status"}
         /\ cmd.kind = "item.create" => cmd.minimum = None
         /\ cmd.kind = "item.create" \/ k = FirstKey
    [] scenario = "patches" ->
         /\ cmd.kind \in {"item.create", "item.update", "category.status"} /\ k = FirstKey
         /\ cmd.kind = "item.create" => cmd.unit = 1 /\ cmd.minimum = None
    [] OTHER ->
         /\ cmd.kind \notin {"category.create", "category.status", "item.update"}
         /\ cmd.kind = "item.create" => cmd.category = None
         /\ cmd.kind = "conversion.create" \/ k = FirstKey

MCInit ==
  /\ Init
  /\ scenario \in {"places", "patches", "definitions"}
  /\ IF scenario = "definitions"
       THEN unit[2].precision # None /\ \A g \in Categories : category[g] = None
       ELSE \A u \in Units : unit[u].precision = 1

MCNext ==
  /\ Next
  /\ UNCHANGED scenario
  /\ scenario # "patches" => \A s \in saved' : ~s.expired
  /\ \A c \in Calls : call'[c].pc = "claim" => Asked(call'[c].cmd, call'[c].key)

MCSpec == MCInit /\ [][MCNext]_<<vars, scenario>>

\* Items and requests are interchangeable.
Symmetry == Permutations(Items) \cup Permutations(Calls)
=============================================================================
