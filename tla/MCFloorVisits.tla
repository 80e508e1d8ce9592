--------------------------- MODULE MCFloorVisits ---------------------------
(* Instances of FloorVisits for TLC. Codes, visits and service requests     *)
(* hardly meet, so an instance is about one of them: visits at tables that  *)
(* have their code, the codes of tables nobody sits at, or the requests of  *)
(* visits at tables whose service and policy stay as they are.              *)
EXTENDS FloorVisits, TLC

VARIABLE scenario

MCInit ==
  /\ Init
  /\ scenario \in {"seats", "codes", "service"}
  /\ scenario = "codes" \/ \A t \in Tables : Working(t) # {}

\* What an instance leaves alone.
Aside ==
  CASE scenario = "seats" -> UNCHANGED <<qr, asked>> /\ \A c \in Calls : call'[c].pc # "look"
    [] scenario = "codes" -> UNCHANGED <<visit, asked>>
    [] OTHER -> UNCHANGED <<qr, inService, cleaning>>

MCNext == Next /\ UNCHANGED scenario /\ Aside

MCSpec == MCInit /\ [][MCNext]_<<vars, scenario>>

\* Tables, visits, keys and requests are interchangeable.
Symmetry ==
  Permutations(Tables) \cup Permutations(Visits) \cup Permutations(Calls)
=============================================================================
