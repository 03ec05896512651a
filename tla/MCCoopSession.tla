--------------------------- MODULE MCCoopSession ---------------------------
(***************************************************************************)
(* An instance of CoopSession for TLC: a person and an automatic member.   *)
(* Both calls may go to the interface for collaborations as well.          *)
(***************************************************************************)
EXTENDS CoopSession

MCAuto == {2}

=============================================================================
