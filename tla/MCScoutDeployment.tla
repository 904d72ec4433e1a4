------------------------- MODULE MCScoutDeployment -------------------------
(* An instance of ScoutDeployment for TLC. *)
EXTENDS ScoutDeployment
=============================================================================
