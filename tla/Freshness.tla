----------------------------- MODULE Freshness -----------------------------
(***************************************************************************)
(* What a service that answers from caches promises: a claim it tells was  *)
(* true at some instant of the last Window.  Claims become true and false  *)
(* as time passes; the service may tell a claim that is true, or one that  *)
(* was true not longer than Window ago.                                    *)
(***************************************************************************)
EXTENDS Integers

CONSTANTS Claims, Window

VARIABLES
    now,
    held,   \* the last instant at which each claim was true: now, while it is
    told    \* claims that answers now under way tell

Init ==
    /\ now = 0
    /\ held \in [Claims -> Int]
    /\ told = {}

\* Time passes: what stays true is true at the new instant.
Pass ==
    /\ now' = now + 1
    /\ held' \in [Claims -> Int]
    /\ \A k \in Claims : held'[k] \in {held[k], now'}
    /\ told' = told

\* Claims become true.  What was true until now stays marked with this instant.
Turn ==
    /\ now' = now
    /\ held' \in [Claims -> Int]
    /\ \A k \in Claims : held'[k] \in {held[k], now}
    /\ told' = told

Tell ==
    /\ now' = now
    /\ held' = held
    /\ told' \subseteq Claims
    /\ \A k \in told' \ told : now <= held[k] + Window

Next == Pass \/ Turn \/ Tell

Spec == Init /\ [][Next]_<<now, held, told>>
=============================================================================
