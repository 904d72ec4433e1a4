--------------------------- MODULE MCApprovalGate ---------------------------
(* Instances of ApprovalGate for TLC. *)
EXTENDS ApprovalGate
=============================================================================
