------------------------- MODULE MCPatchDeployment -------------------------
(* An instance of PatchDeployment for TLC. *)
EXTENDS PatchDeployment

CONSTANTS a, b

\* One spec long enough for a gap between two changes, and the shortest one.
TheSpecs == {<<a, b, a, a, b>>, <<b>>}

ThePatches == {[set |-> 1, line |-> b], [set |-> 3, line |-> b], [set |-> 5, line |-> a],
               [drop |-> 2], [replicas |-> 0]}
=============================================================================
