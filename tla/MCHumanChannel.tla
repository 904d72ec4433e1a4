--------------------------- MODULE MCHumanChannel ---------------------------
(* An instance of HumanChannel for TLC. *)
EXTENDS HumanChannel
=============================================================================
