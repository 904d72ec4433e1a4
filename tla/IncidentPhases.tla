--------------------------- MODULE IncidentPhases ---------------------------
(***************************************************************************)
(* The phases of an Incident (operator/api/v1alpha1/incident_types.go) and *)
(* their division into live and terminal ones, which the operator          *)
(* (grants.go, isTerminal) and the scout (converse.go, isTerminalPhase)    *)
(* each define for themselves, in agreement.                               *)
(***************************************************************************)

\* "None" is the empty string: an Incident whose status was never written.
Phases == {"None", "Detected", "Queued", "Assessing", "AwaitingApproval",
           "Applied", "Rejected", "Escalated", "HandedOff"}

Terminal == {"Applied", "Rejected", "Escalated", "HandedOff"}

\* What IncidentReconciler.Reconcile sends to handleDetected.
Undispatched == {"None", "Detected"}

\* Phases that belong to the scout while it still needs its permissions.
InScoutsHands == {"Queued", "Assessing", "AwaitingApproval"}
=============================================================================
