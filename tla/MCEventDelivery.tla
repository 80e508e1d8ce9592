-------------------------- MODULE MCEventDelivery --------------------------
(* Instances of EventDelivery for TLC: every consumer listens to every event. *)
EXTENDS EventDelivery, TLC

MCListeners == [e \in Events |-> Consumers]

\* Consumers and dispatchers are interchangeable.
Symmetry == Permutations(Consumers) \cup Permutations(Dispatchers)
=============================================================================
