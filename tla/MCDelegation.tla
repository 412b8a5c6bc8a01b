----------------------------- MODULE MCDelegation -----------------------------
(***************************************************************************)
(* Delegation for TLC: one delegation from one agent to another.           *)
(***************************************************************************)
EXTENDS Delegation, TLC

CONSTANTS a, b

\* Two verbs in progress are interchangeable.
Symmetric == Permutations(Calls)

\* The requester is not its own doer: Agents = {a, b}.
MCInit == Init /\ \A d \in Ids : requester[d] = a /\ doer[d] = b
MCSpec == MCInit /\ [][Next]_vars
MCFairSpec == MCSpec /\ Fairness
===============================================================================
