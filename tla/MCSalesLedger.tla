--------------------------- MODULE MCSalesLedger ---------------------------
(* Instances of SalesLedger for TLC. Orders and charges are small numbers:  *)
(* order o costs o * r under charges r.                                      *)
EXTENDS SalesLedger, TLC

MCTotal == [r \in Rates |-> [S \in SUBSET Orders |-> SumSet({o * r : o \in S})]]

\* Calls and keys are interchangeable.
Symmetry == Permutations(Calls) \cup Permutations(Keys)
=============================================================================
