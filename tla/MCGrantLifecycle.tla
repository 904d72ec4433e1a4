-------------------------- MODULE MCGrantLifecycle --------------------------
(* Instances of GrantLifecycle for TLC. *)
EXTENDS GrantRefinement

\* "node" is outside the operator's bind allowlist, "deploy" inside.
TheRoles == {"deploy", "node"}
TheBindable == {"deploy"}
ThePolicies == {<<"deploy">>, <<"deploy", "node">>}
TheScoped == Incidents
TheOutcomes == {"Applied", "HandedOff"}
=============================================================================
