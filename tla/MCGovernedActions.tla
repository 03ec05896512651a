-------------------------- MODULE MCGovernedActions --------------------------
(***************************************************************************)
(* Instances of GovernedActions for TLC.  The tools share one idempotency  *)
(* key; calls, approvals and principals are interchangeable.               *)
(***************************************************************************)
EXTENDS GovernedActions, TLC

CONSTANTS a1, a2, i1, k1

SameAction == [i \in Intent |-> a1]
OwnActions == [i \in Intent |-> IF i = i1 THEN a1 ELSE a2]
OneKey     == [a \in Action |-> k1]

Symmetry == Permutations(Call) \cup Permutations(Approval) \cup Permutations(Principal)

=============================================================================
