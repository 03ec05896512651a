---------------------------- MODULE MCAgentTasks ----------------------------
(* AgentTasks for TLC: rows and processes are interchangeable.             *)
EXTENDS AgentTasks, TLC

Symmetry == Permutations(Task) \cup Permutations(Proc)

=============================================================================
