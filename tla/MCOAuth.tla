------------------------------ MODULE MCOAuth ------------------------------
(* Instances of OAuth for TLC. *)
EXTENDS OAuth, TLC

\* Attempts, flows, users, and accounts are interchangeable.
Symmetry ==
    Permutations(Attempts) \cup Permutations(Flows)
    \cup Permutations(Users) \cup Permutations(Accounts)
=============================================================================
