--------------------------- MODULE MCOrganizations ---------------------------
(* Symmetry and bounds for TLC: of the calls at most MaxRecords create, update, *)
(* delete or find a single record; calls about members are free.                *)
EXTENDS Organizations, TLC

CONSTANT MaxRecords

Records == {c \in Calls : pc[c] # "idle" /\ call[c].op \in {"create", "update", "delete", "find"}}

Bounded == Cardinality(Records) <= MaxRecords

Symmetry == Permutations(Calls) \cup Permutations(Users)
=============================================================================
