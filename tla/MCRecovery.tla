----------------------------- MODULE MCRecovery -----------------------------
(* Instances of Recovery for TLC. *)
EXTENDS Recovery, TLC

\* Calls, codes, identifiers and fingerprints are interchangeable.
Symmetry ==
    Permutations(Calls) \cup Permutations(Codes)
    \cup Permutations(Devices) \cup Permutations(Prints)
=============================================================================
