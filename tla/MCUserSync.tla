----------------------------- MODULE MCUserSync -----------------------------
(* Instances of UserSync for TLC. *)
EXTENDS UserSync, TLC

\* Calls are interchangeable, and values are only compared.
Symmetry == Permutations(Syncs) \cup Permutations(Values) \cup Permutations(Extras)
=============================================================================
