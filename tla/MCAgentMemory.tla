--------------------------- MODULE MCAgentMemory ---------------------------
(***************************************************************************)
(* An instance of AgentMemory for TLC: the queued turn has a session, the  *)
(* user's calls have none.                                                 *)
(***************************************************************************)
EXTENDS AgentMemory, TLC

CONSTANT s1

Sessions == [x \in Job \cup Call |-> IF x \in Call THEN None ELSE s1]

Symmetry == Permutations(Call) \cup Permutations(Content)

=============================================================================
