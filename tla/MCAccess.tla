------------------------------ MODULE MCAccess ------------------------------
(* The administration of a workspace for TLC: who gets in (Access) and which *)
(* module reacts to the others (Installations). All of it at once is too    *)
(* much, and its parts meet only in a few places, so an instance is about   *)
(* some of them: joining a workspace, devices and the sign-ins on them,     *)
(* putting members out while they sign in and approve, or the module.       *)
EXTENDS Access, TLC

CONSTANTS
  Handlers, Setup, Targets  \* of Installations, whose requests are Calls too

VARIABLES
  scenario,
  status, binding, request  \* of Installations

Module == INSTANCE Installations WITH Requests <- Calls, Absent <- None

\* The mark of a missing row is no status of an installation or a binding.
ASSUME StatusAssumption ==
  None \notin DOMAIN Module!NEXT \cup {"ACTIVE", "PAUSED", "DISABLED"}

Scenarios == {"join", "equip", "sign in", "put out", "approve", "module"}

\* The requests of an instance.
Asked ==
  CASE scenario = "join"    -> {"invite", "accept"}
    [] scenario = "equip"   -> {"activate", "revoke"}
    [] scenario = "sign in" -> {"activate", "revoke", "login", "device"}
    [] scenario = "put out" -> {"deactivate", "login", "member"}
    [] scenario = "approve" -> {"approver", "deactivate"}

MCInit ==
  /\ Init
  /\ Module!Init
  /\ scenario \in Scenarios
  /\ scenario \in {"sign in", "approve"} => Cardinality({p \in People : member[p] = "ACTIVE"}) = 1
  /\ scenario = "module" => \A p \in People : member[p] = "NONE"

\* Where devices are signed in on, members do it and no code is issued twice;
\* where members are put out, they signed in elsewhere.
\* Where a PIN is tried it is the PIN of one person.
AccessNext ==
  /\ scenario # "module"
  /\ Next
  /\ \A c \in Calls : call[c] = Idle /\ call'[c] # Idle => call'[c].pc \in Asked
  /\ scenario \notin {"equip", "sign in"} => UNCHANGED device
  /\ scenario = "sign in" =>
       /\ \A d \in Devices : device'[d].issued <= 1 /\ ~device'[d].late
       /\ \A c \in Calls : call'[c].pc = "login" =>
              member[call'[c].person] = "ACTIVE" /\ call'[c].device # None
  /\ scenario # "join" => UNCHANGED invitation
  /\ scenario \in {"equip", "sign in"} => UNCHANGED member
  /\ scenario = "approve" => \A p \in People : member[p] = "NONE" => member'[p] = "NONE"
  /\ scenario # "approve" => UNCHANGED pin
  /\ UNCHANGED <<status, binding, request>>

ModuleNext ==
  /\ scenario = "module"
  /\ Module!Next
  /\ UNCHANGED vars

MCNext == (AccessNext \/ ModuleNext) /\ UNCHANGED scenario

MCSpec == MCInit /\ [][MCNext]_<<vars, scenario, status, binding, request>>

\* Requests, sign-ins, people and devices are interchangeable.
Symmetry == Permutations(Calls) \cup Permutations(Sessions)
            \cup Permutations(People) \cup Permutations(Devices)

\* Both parts are of their types.
TypesOK == TypeOK /\ Module!TypeOK

\* A request about a module changes nothing that moved since it decided.
StaleChangesNothing == Module!StaleChangesNothing
=============================================================================
