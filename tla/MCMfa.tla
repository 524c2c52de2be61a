------------------------------- MODULE MCMfa -------------------------------
(* Instances of Mfa for TLC. *)
EXTENDS Mfa, TLC

\* Identifiers are drawn at random, and calls are interchangeable.
Symmetry == Permutations(Requests) \cup Permutations(Methods) \cup Permutations(Challenges)

\* Bound on the instance of the challenges: one set-up or confirmation at a
\* time; those of two calls overlap in the instance of the methods.
OneSetUp ==
    \A r, s \in Requests :
        r # s => ~ ({req[r].op, req[s].op} \subseteq {"setup", "confirm"})
============================================================================
