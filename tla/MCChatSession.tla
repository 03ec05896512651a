--------------------------- MODULE MCChatSession ---------------------------
(* ChatSession for TLC: three requests, so that a run can be let in by the *)
(* end of one whose own record has expired, and two rival deletions.       *)
EXTENDS ChatSession

MCRun == {"r1", "r2", "r3"}
MCDeletion == {"d1", "d2"}
=============================================================================
