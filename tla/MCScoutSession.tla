--------------------------- MODULE MCScoutSession ---------------------------
(* Instances of ScoutSession for TLC. *)
EXTENDS ScoutSession

TheClosings == {"Applied", "Escalated"}
=============================================================================
