--------------------------- MODULE MCCronCreation ---------------------------
(* CronCreation for TLC: three requests of one agent, one job allowed.     *)
EXTENDS CronCreation

MCRequest == {"r1", "r2", "r3"}
MCAgentOf == [r \in MCRequest |-> "a"]
=============================================================================
