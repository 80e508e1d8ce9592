----------------------------- MODULE MCKitchen -----------------------------
(* Instances of Kitchen for TLC.                                            *)
EXTENDS Kitchen, TLC

\* Orders and dispatchers are interchangeable.
Symmetry == Permutations(Orders) \cup Permutations(Dispatchers)
=============================================================================
