---------------------------- MODULE MCMagicLink ----------------------------
(* Instances of MagicLink for TLC. *)
EXTENDS MagicLinkInvariant, TLC

\* Requests are interchangeable; the properties checked with it are safety.
Symmetry == Permutations(Requests) \cup Permutations(Links)
============================================================================
