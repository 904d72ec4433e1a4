--------------------------- MODULE GrantLifecycle ---------------------------
(***************************************************************************)
(* The life of the scout's per-incident permissions: the operator's        *)
(* IncidentReconciler, GrantManager and GrantSweeper, the detector that    *)
(* raises incidents, and the scout and the users who write to the same     *)
(* objects.  They share nothing but the API server.                        *)
(*                                                                         *)
(*  - The API server keeps the Incident stored under each name and the     *)
(*    RoleBindings, one per <<incident name, role>> because grantName is   *)
(*    a function of the two.                                               *)
(*  - The operator reads through informers, whose copies lag behind; it    *)
(*    writes with the resource version it read, so a write based on an old *)
(*    copy is refused.  A copy is `fresh' when no write reached the object *)
(*    since: that is all the code can learn from a resource version.       *)
(*  - Reconciler and sweeper are two goroutines, and each call they make   *)
(*    is a step.  Any call may fail; the operator may crash between any    *)
(*    two of them.                                                         *)
(***************************************************************************)
EXTENDS Integers, FiniteSets, Sequences, IncidentPhases

CONSTANTS
    Incidents,      \* names under which an Incident may be stored
    NoIncident,     \* stands for "no incident" in an idle goroutine
    Roles,          \* cluster roles a policy may name
    Bindable,       \* those the operator may bind (its RBAC bind allowlist)
    Policies,       \* what a policy may allow: sequences of roles
    Scoped,         \* incidents whose target has a namespace
    Outcomes,       \* terminal phases the scout may report
    MaxLives,       \* bound: Incidents created, in turn, under one name
    MaxMishaps      \* bound: failed calls, crashes and interventions of users

ASSUME IncidentAssumption == NoIncident \notin Incidents
ASSUME PolicyAssumption == Bindable \subseteq Roles /\ Policies \subseteq Seq(Roles)
ASSUME OutcomeAssumption == Outcomes \subseteq Terminal
ASSUME BoundAssumption == MaxLives \in Nat /\ MaxMishaps \in Nat

VARIABLES
    inc,        \* API server: the Incident under each name
    bound,      \* API server: the RoleBindings that exist
    cache,      \* operator: the informer's copy of each Incident
    rbCache,    \* operator: the informer's copy of the RoleBindings
    queue,      \* operator: the reconciler's work queue
    raising,    \* detector: created, Detected not written yet, copy still fresh
    rec,        \* the reconciler goroutine
    sweep,      \* the sweeper goroutine
    mail,       \* scout: incidents seen waiting and not admitted yet
    open,       \* scout: incidents it holds
    mishaps,    \* how many failures and interventions happened
    madeFor,    \* history: the life of the incident a binding was created for
    promised,   \* history: the roles granted when this life was queued
    closed      \* history: this life has been in a terminal phase

server   == <<inc, bound>>
informer == <<cache, rbCache, queue>>
scout    == <<mail, open>>
history  == <<madeFor, promised, closed>>
vars == <<inc, bound, cache, rbCache, queue, raising, rec, sweep, mail, open,
          mishaps, madeFor, promised, closed>>

Bindings == Incidents \X Roles

-----------------------------------------------------------------------------
(* An Incident, and the copies of it *)

\* `life' counts the objects created under this name: it is the object's UID.
Incident == [there: BOOLEAN, life: Nat, fin: BOOLEAN, dying: BOOLEAN, phase: Phases]

Absent(n) == [there |-> FALSE, life |-> n, fin |-> FALSE, dying |-> FALSE,
              phase |-> "None"]
Created(n) == [Absent(n) EXCEPT !.there = TRUE]

\* MUTANT: a scout waiting for its human counts as finished.
isTerminalOrWaiting(o) == o.phase \in Terminal \cup {"AwaitingApproval"}

isTerminal(o) == o.phase \in Terminal

\* The incident no longer justifies a grant.
Ended(i) == ~inc[i].there \/ isTerminal(inc[i])

\* The reconciler: the call it makes next, the incident it works on, its copy
\* of it, the roles to grant (from the k-th on), the bindings to revoke.
Reconciler ==
    [pc: {"idle", "addFin", "policy", "grant", "escalate", "list", "revoke", "dropFin"},
     key: Incidents \cup {NoIncident}, obj: Incident, fresh: BOOLEAN,
     pol: Policies \cup {<<>>}, k: Nat \ {0}, drop: SUBSET Bindings]
\* The sweeper: the bindings it still has to look at, and the one to delete.
Sweeper == [pc: {"wait", "sweep"}, todo: SUBSET Bindings, doomed: SUBSET Bindings]

Idle == [pc |-> "idle", key |-> NoIncident, obj |-> Absent(0), fresh |-> FALSE,
         pol |-> <<>>, k |-> 1, drop |-> {}]
Waiting == [pc |-> "wait", todo |-> {}, doomed |-> {}]

\* Every copy of incident i is out of date: the informer's, the detector's,
\* and the one the reconciler works on.
Outdate(i) ==
    /\ cache' = [cache EXCEPT ![i].fresh = FALSE]
    /\ raising' = raising \ {i}
    /\ rec' = IF rec.key = i THEN [rec EXCEPT !.fresh = FALSE] ELSE rec

\* Somebody other than the reconciler stores o under i.
Store(i, o) ==
    /\ inc' = [inc EXCEPT ![i] = o]
    /\ closed' = [closed EXCEPT ![i] = o.there /\ (@ \/ o.phase \in Terminal)]
    /\ promised' = IF o.there THEN promised ELSE [promised EXCEPT ![i] = {}]
    /\ Outdate(i)
    /\ UNCHANGED madeFor

Init ==
    /\ inc = [i \in Incidents |-> Absent(0)]
    /\ bound = {}
    /\ cache = [i \in Incidents |-> [obj |-> Absent(0), fresh |-> TRUE]]
    /\ rbCache = {}
    /\ queue = {}
    /\ raising = {}
    /\ rec = Idle
    /\ sweep = Waiting
    /\ mail = {}
    /\ open = {}
    /\ mishaps = 0
    /\ madeFor = [b \in Bindings |-> 0]
    /\ promised = [i \in Incidents |-> {}]
    /\ closed = [i \in Incidents |-> FALSE]

-----------------------------------------------------------------------------
(* The detector: createIncident *)

\* The List of existing incidents reads the cache, the Create does not; what
\* either finds there already ends the call, as does a failure.
RaiseIncident(i) ==
    /\ ~cache[i].obj.there
    /\ ~inc[i].there
    /\ inc[i].life < MaxLives
    /\ inc' = [inc EXCEPT ![i] = Created(inc[i].life + 1)]
    /\ cache' = [cache EXCEPT ![i].fresh = FALSE]
    /\ rec' = IF rec.key = i THEN [rec EXCEPT !.fresh = FALSE] ELSE rec
    /\ raising' = raising \cup {i}
    /\ UNCHANGED <<bound, rbCache, queue, sweep, scout, mishaps, history>>

\* The status update that follows.  If another write came between, it is
\* refused, and the retry finds the incident existing: nothing happens.
MarkDetected(i) ==
    /\ i \in raising
    /\ Store(i, [inc[i] EXCEPT !.phase = "Detected"])
    /\ UNCHANGED <<bound, rbCache, queue, sweep, scout, mishaps>>

-----------------------------------------------------------------------------
(* The informers of the operator *)

\* A change, or the deletion, reaches the cache; its event queues the key.
SyncIncident(i) ==
    /\ ~cache[i].fresh
    /\ cache' = [cache EXCEPT ![i] = [obj |-> inc[i], fresh |-> TRUE]]
    /\ queue' = queue \cup {i}
    /\ UNCHANGED <<server, rbCache, raising, rec, sweep, scout, mishaps, history>>

SyncBindings ==
    /\ rbCache # bound
    /\ rbCache' = bound
    /\ UNCHANGED <<server, cache, queue, raising, rec, sweep, scout, mishaps, history>>

-----------------------------------------------------------------------------
(* The reconciler *)

Goto(pc) == rec' = [rec EXCEPT !.pc = pc]
Done == rec' = Idle

\* Reconcile: read the cached incident and choose a handler.
Reconcile(i) ==
    /\ rec.pc = "idle"
    /\ i \in queue
    /\ queue' = queue \ {i}
    /\ LET o == cache[i].obj
           start(pc) == rec' = [Idle EXCEPT !.pc = pc, !.key = i, !.obj = o,
                                            !.fresh = cache[i].fresh]
       IN  \/ /\ \/ ~o.there                                 \* NotFound
                 \/ o.there /\ o.dying /\ ~o.fin             \* nothing to hold it
                 \/ o.there /\ ~o.dying /\ o.phase \in InScoutsHands
              /\ UNCHANGED rec
           \/ o.there /\ ~o.dying /\ o.phase \in Undispatched /\ ~o.fin /\ start("addFin")
           \/ o.there /\ ~o.dying /\ o.phase \in Undispatched /\ o.fin /\ start("policy")
           \/ o.there /\ o.dying /\ o.fin /\ start("list")
           \/ o.there /\ ~o.dying /\ isTerminal(o) /\ start("list")
    /\ UNCHANGED <<server, cache, rbCache, raising, sweep, scout, mishaps, history>>

\* A successful Update or Status().Update of the reconciler: its own copy is
\* replaced by what the server stored and stays fresh; no other does.
Saved(o, pc) ==
    LET i == rec.key IN
    /\ rec.fresh
    /\ inc' = [inc EXCEPT ![i] = o]
    /\ closed' = [closed EXCEPT ![i] = o.there /\ (@ \/ o.phase \in Terminal)]
    /\ cache' = [cache EXCEPT ![i].fresh = FALSE]
    /\ raising' = raising \ {i}
    /\ rec' = IF pc = "idle" THEN Idle ELSE [rec EXCEPT !.pc = pc, !.obj = o]
    /\ UNCHANGED <<bound, rbCache, queue, sweep, scout, mishaps, madeFor>>

\* A call of the reconciler that returns its error: the key is queued again.
Requeue ==
    /\ queue' = queue \cup {rec.key}
    /\ Done
    /\ UNCHANGED <<server, cache, rbCache, raising, sweep, scout, history>>

\* MUTANT: the finalizer is added to the copy, the Update forgotten.
AddFinalizerUnsaved ==
    /\ rec.pc = "addFin"
    /\ rec' = [rec EXCEPT !.pc = "policy", !.obj.fin = TRUE]
    /\ UNCHANGED <<server, informer, raising, sweep, scout, mishaps, history>>

\* handleDetected, up to the finalizer.
AddFinalizer ==
    /\ rec.pc = "addFin"
    /\ Saved([rec.obj EXCEPT !.fin = TRUE], "policy")
    /\ UNCHANGED promised

\* policyFor: whatever the policy allows at this moment; a missing policy, or
\* one without permissions, allows <<>>.
PolicyFor ==
    /\ rec.pc = "policy"
    /\ \E p \in Policies \cup {<<>>} :
         rec' = [rec EXCEPT !.pol = p, !.pc = "grant"]
    /\ UNCHANGED <<server, informer, raising, sweep, scout, mishaps, history>>

\* One iteration of Grant: Create, where AlreadyExists is as good.
GrantRole ==
    /\ rec.pc = "grant"
    /\ rec.key \in Scoped
    /\ rec.k <= Len(rec.pol)
    /\ LET b == <<rec.key, rec.pol[rec.k]>> IN
         /\ rec.pol[rec.k] \in Bindable
         /\ bound' = bound \cup {b}
         /\ madeFor' = IF b \in bound THEN madeFor
                                      ELSE [madeFor EXCEPT ![b] = rec.obj.life]
         /\ rec' = [rec EXCEPT !.k = @ + 1]
    /\ UNCHANGED <<inc, informer, raising, sweep, scout, mishaps, promised, closed>>

\* Grant returns an error: a target without namespace, or a role the operator
\* may not bind.  The bindings made so far stay.
GrantRefused ==
    /\ rec.pc = "grant"
    /\ rec.k <= Len(rec.pol)
    /\ rec.key \notin Scoped \/ rec.pol[rec.k] \notin Bindable
    /\ Goto("escalate")
    /\ UNCHANGED <<server, informer, raising, sweep, scout, mishaps, history>>

\* MUTANT: Queued is written as a patch, without the resource version.
QueuePatched ==
    /\ rec.pc = "grant"
    /\ rec.k > Len(rec.pol)
    /\ inc[rec.key].there
    /\ inc' = [inc EXCEPT ![rec.key].phase = "Queued"]
    /\ rec' = Idle
    /\ cache' = [cache EXCEPT ![rec.key].fresh = FALSE]
    /\ raising' = raising \ {rec.key}
    /\ promised' = [promised EXCEPT ![rec.key] = {rec.pol[n] : n \in 1..Len(rec.pol)}]
    /\ UNCHANGED <<bound, rbCache, queue, sweep, scout, mishaps, madeFor, closed>>

\* handleDetected, the handoff after a complete Grant.
Queue ==
    /\ rec.pc = "grant"
    /\ rec.k > Len(rec.pol)
    /\ Saved([rec.obj EXCEPT !.phase = "Queued"], "idle")
    /\ promised' = [promised EXCEPT ![rec.key] = {rec.pol[n] : n \in 1..Len(rec.pol)}]

\* handleDetected, after a failed Grant.
Escalate ==
    /\ rec.pc = "escalate"
    /\ Saved([rec.obj EXCEPT !.phase = "Escalated"], "idle")
    /\ UNCHANGED promised

\* About to call statusUpdate.
HandingOff == \/ rec.pc = "grant" /\ rec.k > Len(rec.pol)
              \/ rec.pc = "escalate"

\* statusUpdate meets a Conflict and swallows it: no error, no requeue.
StatusConflict ==
    /\ HandingOff /\ inc[rec.key].there
    /\ ~rec.fresh
    /\ Done
    /\ UNCHANGED <<server, informer, raising, sweep, scout, mishaps, history>>

\* A refused Update, and a status update of an object that is gone.
UpdateRefused ==
    /\ \/ rec.pc \in {"addFin", "dropFin"}
       \/ HandingOff /\ ~inc[rec.key].there
    /\ ~rec.fresh
    /\ Requeue
    /\ UNCHANGED mishaps

\* Revoke: the List, served by the cache and keyed by the incident's name.
ListGrants ==
    /\ rec.pc = "list"
    /\ rec' = [rec EXCEPT !.drop = {b \in rbCache : b[1] = rec.key}, !.pc = "revoke"]
    /\ UNCHANGED <<server, informer, raising, sweep, scout, mishaps, history>>

\* Revoke: one Delete, where NotFound is as good.
RevokeGrant ==
    /\ rec.pc = "revoke"
    /\ \E b \in rec.drop :
         /\ bound' = bound \ {b}
         /\ rec' = [rec EXCEPT !.drop = @ \ {b}]
    /\ UNCHANGED <<inc, informer, raising, sweep, scout, mishaps, history>>

\* Revoke is complete: an incident that is only finished stays for the record.
Revoked ==
    /\ rec.pc = "revoke"
    /\ rec.drop = {}
    /\ IF rec.obj.dying THEN Goto("dropFin") ELSE Done
    /\ UNCHANGED <<server, informer, raising, sweep, scout, mishaps, history>>

\* handleDeletion: without its last finalizer the object is removed.
RemoveFinalizer ==
    /\ rec.pc = "dropFin"
    /\ Saved(Absent(rec.obj.life), "idle")
    /\ promised' = [promised EXCEPT ![rec.key] = {}]

\* MUTANT: every error is logged and swallowed, as statusUpdate does a Conflict.
CallFailsUnreported ==
    /\ mishaps < MaxMishaps
    /\ mishaps' = mishaps + 1
    /\ \/ rec.pc \in {"addFin", "policy", "list", "dropFin"}
       \/ rec.pc = "revoke" /\ rec.drop # {}
       \/ HandingOff
    /\ Done
    /\ UNCHANGED <<server, informer, raising, sweep, scout, history>>

\* Any other error of a call (the API server is away, a timeout): Reconcile
\* returns it, except that a failed Create escalates the incident.
CallFails ==
    /\ mishaps < MaxMishaps
    /\ mishaps' = mishaps + 1
    /\ \/ /\ \/ rec.pc \in {"addFin", "policy", "list", "dropFin"}
             \/ rec.pc = "revoke" /\ rec.drop # {}
             \/ HandingOff
          /\ Requeue
       \/ /\ rec.pc = "grant" /\ rec.k <= Len(rec.pol) /\ rec.key \in Scoped
          /\ Goto("escalate")
          /\ UNCHANGED <<server, informer, raising, sweep, scout, history>>

ReconcilerStep ==
    \/ \E i \in Incidents : Reconcile(i)
    \/ AddFinalizer \/ PolicyFor \/ GrantRole \/ GrantRefused \/ Queue \/ Escalate
    \/ StatusConflict \/ UpdateRefused
    \/ ListGrants \/ RevokeGrant \/ Revoked \/ RemoveFinalizer

-----------------------------------------------------------------------------
(* The sweeper *)

\* Start, and then every Interval: list the bindings the cache shows.
SweepList ==
    /\ sweep.pc = "wait"
    /\ sweep' = [sweep EXCEPT !.pc = "sweep", !.todo = rbCache]
    /\ UNCHANGED <<server, informer, raising, rec, scout, mishaps, history>>

\* MUTANT: only the binding of an incident that is gone is swept.
SweepLookGoneOnly ==
    /\ sweep.doomed = {}
    /\ \E b \in sweep.todo :
         sweep' = [sweep EXCEPT !.todo = @ \ {b},
                                !.doomed = IF cache[b[1]].obj.there THEN {} ELSE {b}]
    /\ UNCHANGED <<server, informer, raising, rec, scout, mishaps, history>>

\* MUTANT: a binding is swept unless the scout works on its incident.
SweepLookIdle ==
    /\ sweep.doomed = {}
    /\ \E b \in sweep.todo :
         LET o == cache[b[1]].obj IN
         sweep' = [sweep EXCEPT !.todo = @ \ {b},
                                !.doomed = IF o.there /\ o.phase \in InScoutsHands THEN {} ELSE {b}]
    /\ UNCHANGED <<server, informer, raising, rec, scout, mishaps, history>>

\* Look up, in the cache, the incident of the next binding (the list is in no
\* particular order): one that is gone or finished dooms the binding.
SweepLook ==
    /\ sweep.doomed = {}
    /\ \E b \in sweep.todo :
         LET o == cache[b[1]].obj IN
         sweep' = [sweep EXCEPT !.todo = @ \ {b},
                                !.doomed = IF ~o.there \/ isTerminal(o) THEN {b} ELSE {}]
    /\ UNCHANGED <<server, informer, raising, rec, scout, mishaps, history>>

\* Delete it: by name, so whatever binding has that name by now.
SweepDelete ==
    /\ sweep.doomed # {}
    /\ bound' = bound \ sweep.doomed
    /\ sweep' = [sweep EXCEPT !.doomed = {}]
    /\ UNCHANGED <<inc, informer, raising, rec, scout, mishaps, history>>

SweepEnds ==
    /\ sweep.pc = "sweep"
    /\ sweep.todo = {} /\ sweep.doomed = {}
    /\ sweep' = Waiting
    /\ UNCHANGED <<server, informer, raising, rec, scout, mishaps, history>>

\* The first error ends the sweep; the next tick starts over.
SweepFails ==
    /\ sweep.pc # "wait"
    /\ mishaps < MaxMishaps
    /\ mishaps' = mishaps + 1
    /\ sweep' = Waiting
    /\ UNCHANGED <<server, informer, raising, rec, scout, history>>

SweeperStep == SweepList \/ SweepLook \/ SweepDelete \/ SweepEnds

-----------------------------------------------------------------------------
(* The operator process *)

\* A crash forgets everything but the API server; the restarted process fills
\* its caches, queues every incident and sweeps.
OperatorRestarts ==
    /\ mishaps < MaxMishaps
    /\ mishaps' = mishaps + 1
    /\ cache' = [i \in Incidents |-> [obj |-> inc[i], fresh |-> TRUE]]
    /\ rbCache' = bound
    /\ queue' = {i \in Incidents : inc[i].there}
    /\ raising' = {}
    /\ rec' = Idle
    /\ sweep' = Waiting
    /\ UNCHANGED <<server, scout, history>>

-----------------------------------------------------------------------------
(* The scout: status patches without a precondition *)

\* The watch delivers a queued incident; a restart or a resync finds, besides,
\* one that is being assessed.
ScoutSees(i) ==
    /\ i \notin mail
    /\ inc[i].there
    /\ \/ inc[i].phase = "Queued"
       \/ inc[i].phase = "Assessing" /\ i \notin open
    /\ mail' = mail \cup {i}
    /\ UNCHANGED <<server, informer, raising, rec, sweep, open, mishaps, history>>

\* A merge patch of the phase; one that changes nothing is no write.
Patch(i, p) == IF inc[i].phase = p
               THEN UNCHANGED <<inc, cache, raising, rec, history>>
               ELSE Store(i, [inc[i] EXCEPT !.phase = p])

\* admit and Claim: by now the incident may be anything, or be gone.
ScoutAdmits(i) ==
    /\ i \in mail
    /\ mail' = mail \ {i}
    /\ IF i \notin open /\ inc[i].there
       THEN open' = open \cup {i} /\ Patch(i, "Assessing")
       ELSE UNCHANGED <<open, inc, cache, raising, rec, history>>
    /\ UNCHANGED <<bound, rbCache, queue, sweep, mishaps>>

\* A write of the scout out of turn (to an incident it does not hold, or that
\* has ended already) counts as a mishap, to bound their number.
InTurn(i) == i \in open /\ ~isTerminal(inc[i])
Turn(i) == IF InTurn(i) THEN UNCHANGED mishaps
                        ELSE mishaps < MaxMishaps /\ mishaps' = mishaps + 1

\* MUTANT: the scout spells the phase, a literal of its own, differently from
\* the operator's constant.
ScoutAwaitsMisspelt(i) ==
    /\ i \in open
    /\ inc[i].there
    /\ inc[i].phase # "Awaiting"
    /\ Turn(i)
    /\ Patch(i, "Awaiting")
    /\ UNCHANGED <<bound, rbCache, queue, sweep, scout>>

\* markAwaitingApproval
ScoutAwaits(i) ==
    /\ i \in open
    /\ inc[i].there
    /\ inc[i].phase # "AwaitingApproval"
    /\ Turn(i)
    /\ Patch(i, "AwaitingApproval")
    /\ UNCHANGED <<bound, rbCache, queue, sweep, scout>>

\* flushOutcomes
ScoutCloses(i) ==
    /\ i \in open
    /\ inc[i].there
    /\ Turn(i)
    /\ \E p \in Outcomes : Patch(i, p)
    /\ open' = open \ {i}
    /\ UNCHANGED <<bound, rbCache, queue, sweep, mail>>

\* UpdateIncidentStatus: the model may name any incident, held or not.
ModelCloses(i) ==
    /\ inc[i].there
    /\ Turn(i)
    /\ \E p \in Outcomes \ {"Applied"} : Patch(i, p)
    /\ UNCHANGED <<bound, rbCache, queue, sweep, scout>>

\* reap
ScoutReaps(i) ==
    /\ i \in open
    /\ Ended(i)
    /\ open' = open \ {i}
    /\ UNCHANGED <<server, informer, raising, rec, sweep, mail, mishaps, history>>

ScoutRestarts ==
    /\ scout # <<{}, {}>>
    /\ mail' = {}
    /\ open' = {}
    /\ UNCHANGED <<server, informer, raising, rec, sweep, mishaps, history>>

-----------------------------------------------------------------------------
(* Users *)

DeleteIncident(i) ==
    /\ inc[i].there
    /\ ~inc[i].dying
    /\ Store(i, IF inc[i].fin THEN [inc[i] EXCEPT !.dying = TRUE]
                              ELSE Absent(inc[i].life))
    /\ UNCHANGED <<bound, rbCache, queue, sweep, scout, mishaps>>

\* Somebody strips the finalizers of an incident and deletes it.
ForceDelete(i) ==
    /\ inc[i].there
    /\ inc[i].fin
    /\ mishaps < MaxMishaps
    /\ mishaps' = mishaps + 1
    /\ Store(i, Absent(inc[i].life))
    /\ UNCHANGED <<bound, rbCache, queue, sweep, scout>>

-----------------------------------------------------------------------------

Next ==
    \/ ReconcilerStep
    \/ SweeperStep
    \/ CallFails
    \/ SweepFails
    \/ OperatorRestarts
    \/ SyncBindings
    \/ ScoutRestarts
    \/ \E i \in Incidents :
         \/ SyncIncident(i)
         \/ RaiseIncident(i) \/ MarkDetected(i)
         \/ ScoutSees(i) \/ ScoutAdmits(i) \/ ScoutAwaits(i)
         \/ ScoutCloses(i) \/ ModelCloses(i) \/ ScoutReaps(i)
         \/ DeleteIncident(i) \/ ForceDelete(i)

Spec == Init /\ [][Next]_vars

\* The operator's goroutines run, and its watches deliver; nothing is owed by
\* the scout, the detector or the users.
Fairness ==
    /\ WF_vars(ReconcilerStep)
    /\ WF_vars(SweeperStep)
    /\ WF_vars(SyncBindings)
    /\ \A i \in Incidents : WF_vars(SyncIncident(i))

FairSpec == Spec /\ Fairness

-----------------------------------------------------------------------------
(* What the operator promises *)

TypeOK ==
    /\ inc \in [Incidents -> Incident]
    /\ bound \subseteq Bindings
    /\ cache \in [Incidents -> [obj: Incident, fresh: BOOLEAN]]
    /\ rbCache \subseteq Bindings
    /\ queue \subseteq Incidents
    /\ raising \subseteq Incidents
    /\ rec \in Reconciler
    /\ rec.pc # "idle" => rec.key \in Incidents
    /\ sweep \in Sweeper
    /\ mail \subseteq Incidents
    /\ open \subseteq Incidents
    /\ mishaps \in 0..MaxMishaps
    /\ madeFor \in [Bindings -> Nat]
    /\ promised \in [Incidents -> SUBSET Roles]
    /\ closed \in [Incidents -> BOOLEAN]

\* "The finalizer must exist before any grant" (incident_controller.go:90): a
\* binding made for the incident that is stored now finds the finalizer on it,
\* whatever failed, crashed or was stale in between, so that no ordinary
\* deletion can remove the incident without the reconciler's Revoke.
LiveGrantHasFinalizer ==
    \A b \in bound :
        LET o == inc[b[1]] IN
        o.there /\ madeFor[b] = o.life => o.fin

\* The operator's writes never take back what somebody else recorded: Detected
\* and Queued only ever replace a phase nobody dispatched on, however old the
\* copies were that the detector and the reconciler worked with.
RequeuesNone ==
    \A i \in Incidents :
        inc'[i].phase # inc[i].phase /\ inc'[i].phase \in {"Detected", "Queued"}
          => inc[i].there /\ inc[i].phase \in Undispatched
NeverRequeued == [][RequeuesNone]_vars

\* From Queued on, while the incident is live and was not closed before, every
\* role its policy promised is bound.
Granted(i) ==
    inc[i].there /\ ~inc[i].dying /\ inc[i].phase \in InScoutsHands /\ ~closed[i]
      => \A r \in promised[i] : <<i, r>> \in bound

\* "A scout never starts without its permissions" (incident_controller.go:113),
\* for the first incident of a name: neither the sweeper, nor a late Revoke,
\* nor a crash takes away what Queued stands for.
FirstLifeIsGranted == \A i \in Incidents : inc[i].life = 1 => Granted(i)

\* The same without the restriction, which is what the comment says.
LiveIsGranted == \A i \in Incidents : Granted(i)

\* "A grant can never outlive the incident that justified it"
\* (incident_controller.go:54).
NoGrantOutlives == \A b \in bound : inc[b[1]].there

\* A binding of an incident that is gone or finished is removed in the end: by
\* the reconciler, or by the sweeper where the reconciler missed it.
EndedGrantGoes ==
    \A i \in Incidents : \A r \in Roles :
        Ended(i) /\ <<i, r>> \in bound ~> ~Ended(i) \/ <<i, r>> \notin bound

\* Every incident is dispatched, or ends: a swallowed conflict, a failed call
\* or a crash never leaves one waiting in Detected.
EveryIncidentDispatched ==
    \A i \in Incidents :
        inc[i].there /\ inc[i].phase \in Undispatched
          ~> ~inc[i].there \/ inc[i].phase \notin Undispatched

\* The finalizer never holds a deleted incident for good.
DeletionCompletes ==
    \A i \in Incidents : inc[i].there /\ inc[i].dying ~> ~inc[i].there
=============================================================================
