----------------------------- MODULE MCAccounts -----------------------------
(* Instances of Accounts for TLC. *)
EXTENDS Accounts, TLC

\* Instants enough for a registration to use up the margin of its token, for what is
\* told of a made-up user to grow too old, and for a session to end.
MCClients == {[who |-> "applicants", time |-> 8, faults |-> 0],
              [who |-> "applicants", time |-> 4, faults |-> 1],
              [who |-> "applications", time |-> 8, faults |-> 1],
              [who |-> "browsers", time |-> 2, faults |-> 1]}

\* Calls are interchangeable.
Symmetry == Permutations(Calls)
=============================================================================
