--------------------------- MODULE MCAccessTokens ---------------------------
(* Instances of AccessTokens for TLC. *)
EXTENDS AccessTokens, TLC

\* Calls are interchangeable, and so are tokens.
Symmetry == Permutations(Calls) \cup Permutations(Tokens)
=============================================================================
