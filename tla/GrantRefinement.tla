---------------------------- MODULE GrantRefinement ----------------------------
(* GrantLifecycle implements IncidentPermission. *)
EXTENDS GrantLifecycle

Stage(o) == IF ~o.there THEN "none"
            ELSE IF o.dying THEN "dying"
            ELSE IF o.fin THEN "held"
            ELSE "raised"

Duty(o) == IF o.phase \in Undispatched THEN "new"
           ELSE IF o.phase = "Queued" THEN "queued"
           ELSE IF o.phase \in Terminal THEN "closed"
           ELSE "scout"

RolesOf(i) == {r \in Roles : <<i, r>> \in bound}
Own(i) == {r \in RolesOf(i) : inc[i].there /\ madeFor[<<i, r>>] = inc[i].life}

Permission == INSTANCE IncidentPermission WITH
    lives   <- [i \in Incidents |-> inc[i].life],
    stage   <- [i \in Incidents |-> Stage(inc[i])],
    duty    <- [i \in Incidents |-> Duty(inc[i])],
    worn    <- closed,
    granted <- [i \in Incidents |-> Own(i)],
    left    <- [i \in Incidents |-> RolesOf(i) \ Own(i)]

\* Whatever the caches show, whatever call fails and wherever the operator
\* crashes: an incident is held before anything is bound for it and before it is
\* offered, a held one vanishes at once only by force, and nothing bound for the
\* first incident of a name is taken back before that is done.  (the
\* reconciler, GrantManager and GrantSweeper together)
ImplementsPermission == Permission!Spec
=============================================================================
