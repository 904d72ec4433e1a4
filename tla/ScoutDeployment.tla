--------------------------- MODULE ScoutDeployment ---------------------------
(***************************************************************************)
(* How the operator keeps the scout's own Deployment: ScoutReconciler,     *)
(* which runs Ensure for every event of it, and ScoutBootstrap, which runs *)
(* Ensure once when the operator starts, in a goroutine of its own.        *)
(*                                                                         *)
(*  - Users edit or delete the Deployment; the Deployment controller of    *)
(*    the cluster writes its status and runs the pods.  Every write makes  *)
(*    an event and outdates the copies read before.                        *)
(*  - A pod spec the API server stored has the fields filled in that       *)
(*    desired() leaves empty; `defaulted' tells the two apart.             *)
(*  - An upgrade is a restart of the operator with another image.          *)
(***************************************************************************)
EXTENDS Integers

CONSTANTS
    Images,         \* images of the scout, one for each version of the operator
    FirstImage,     \* that of the operator installed first
    MaxEdits,       \* bound: edits and deletions by users
    MaxTouches,     \* bound: writes to the status
    MaxMishaps      \* bound: failed calls and restarts

ASSUME ImageAssumption == FirstImage \in Images
ASSUME BoundAssumption == MaxEdits \in Nat /\ MaxTouches \in Nat /\ MaxMishaps \in Nat

VARIABLES
    dep,        \* API server: the Deployment
    pods,       \* cluster: the pods of it that run
    image,      \* the image this operator wants
    cache,      \* operator: the informer's copy
    queued,     \* operator: the Deployment is in the work queue
    ensure,     \* the call of Ensure in the goroutine of each caller
    begun,      \* the bootstrap of this process has had its turn
    meddled,    \* history: "yes" when users touched what keeps the scout alone,
                \* "answered" when the operator wrote after that
    edits, touches, mishaps

operator == <<cache, queued, ensure, begun>>
bounds == <<edits, touches, mishaps>>
vars == <<dep, pods, image, cache, queued, ensure, begun, meddled, edits,
          touches, mishaps>>

Callers == {"reconciler", "bootstrap"}

-----------------------------------------------------------------------------
(* The Deployment *)

\* What the operator owns, the pod template apart from its image being one
\* field, and all the rest: labels, minReadySeconds, paused, ...
Deployment == [there: BOOLEAN, replicas: 0..2, strategy: {"Recreate", "RollingUpdate"},
               image: Images, defaulted: BOOLEAN, other: {"as made", "edited"}]

desired == [there |-> TRUE, replicas |-> 1, strategy |-> "Recreate",
            image |-> image, defaulted |-> FALSE, other |-> "as made"]

None == [desired EXCEPT !.there = FALSE, !.image = FirstImage]

\* What Ensure compares.
UpToDate(d) == /\ d.image = desired.image /\ d.defaulted = desired.defaulted
               /\ d.replicas = desired.replicas
               /\ d.strategy = desired.strategy

\* MUTANT: the strategy is left as it is.
CorrectedButStrategy(d) ==
    [d EXCEPT !.replicas = desired.replicas, !.image = desired.image, !.defaulted = FALSE]

\* What Ensure writes: its copy, with the fields it owns.
Corrected(d) == [d EXCEPT !.replicas = desired.replicas, !.strategy = desired.strategy,
                          !.image = desired.image, !.defaulted = FALSE]

Running == pods.new + pods.old + pods.orphan
Calm == pods.new <= 1 /\ pods.old + pods.orphan = 0

Calling == [pc: {"idle", "create", "update"}, obj: Deployment, fresh: BOOLEAN]
Idle == [pc |-> "idle", obj |-> None, fresh |-> FALSE]

\* The API server stores d.  Pods of another template are old from then on,
\* those of a Deployment that is gone are orphans until they are collected.
Store(d) ==
    /\ dep' = [d EXCEPT !.defaulted = d.there]
    /\ pods' = IF ~d.there /\ dep.there
               THEN [new |-> 0, old |-> 0, orphan |-> Running]
               ELSE IF d.image # dep.image
               THEN [pods EXCEPT !.new = 0, !.old = @ + pods.new] ELSE pods
    /\ cache' = [cache EXCEPT !.fresh = FALSE]

Outdated == [c \in Callers |-> [ensure[c] EXCEPT !.fresh = FALSE]]

Init ==
    /\ image = FirstImage
    /\ dep = None
    /\ pods = [new |-> 0, old |-> 0, orphan |-> 0]
    /\ cache = [obj |-> None, fresh |-> TRUE]
    /\ queued = FALSE
    /\ ensure = [c \in Callers |-> Idle]
    /\ begun = FALSE
    /\ meddled = "no"
    /\ edits = 0 /\ touches = 0 /\ mishaps = 0

-----------------------------------------------------------------------------
(* The users and the Deployment controller *)

Edit ==
    /\ dep.there
    /\ edits < MaxEdits /\ edits' = edits + 1
    /\ \E d \in {None}
            \cup {[dep EXCEPT !.replicas = n] : n \in 0..2}
            \cup {[dep EXCEPT !.strategy = "RollingUpdate"]}
            \cup {[dep EXCEPT !.image = i] : i \in Images}
            \cup {[dep EXCEPT !.other = "edited"]} :
         /\ d # dep
         /\ Store(d)
         /\ meddled' = IF d = [dep EXCEPT !.other = d.other] THEN meddled ELSE "yes"
    /\ ensure' = Outdated
    /\ UNCHANGED <<image, queued, begun, touches, mishaps>>

WriteStatus ==
    /\ dep.there
    /\ touches < MaxTouches /\ touches' = touches + 1
    /\ cache' = [cache EXCEPT !.fresh = FALSE]
    /\ ensure' = Outdated
    /\ UNCHANGED <<dep, pods, image, queued, begun, meddled, edits, mishaps>>

\* Recreate stops every old pod before it starts a new one; RollingUpdate, with
\* its default surge, starts one more and then stops the old.
RunPods ==
    /\ pods' \in
         (IF dep.there /\ pods.new < dep.replicas
             /\ (dep.strategy = "RollingUpdate" \/ pods.old = 0)
          THEN {[pods EXCEPT !.new = @ + 1]} ELSE {})
         \cup (IF pods.new > dep.replicas THEN {[pods EXCEPT !.new = @ - 1]} ELSE {})
         \cup (IF pods.old > 0 /\ (dep.strategy = "Recreate" \/ pods.new >= dep.replicas)
               THEN {[pods EXCEPT !.old = @ - 1]} ELSE {})
         \cup (IF pods.orphan > 0 THEN {[pods EXCEPT !.orphan = @ - 1]} ELSE {})
    /\ UNCHANGED <<dep, image, operator, bounds>>
    /\ meddled' = IF meddled = "answered" /\ Calm' THEN "no" ELSE meddled

\* SetupWithManager: every event of the scout's Deployment, deletion included.
Sync ==
    /\ ~cache.fresh
    /\ cache' = [obj |-> dep, fresh |-> TRUE]
    /\ queued' = TRUE
    /\ UNCHANGED <<dep, pods, image, ensure, begun, meddled, bounds>>

-----------------------------------------------------------------------------
(* Ensure *)

\* MUTANT: NotFound is ignored like in the other reconcilers.
GetIgnoringNotFound(c) ==
    /\ ensure[c].pc = "idle"
    /\ IF c = "reconciler" THEN queued ELSE ~begun
    /\ queued' = (queued /\ c = "bootstrap")
    /\ begun' = (begun \/ c = "bootstrap")
    /\ ensure' = [ensure EXCEPT ![c] =
            IF UpToDate(cache.obj) THEN Idle
            ELSE [pc |-> "update", obj |-> cache.obj, fresh |-> cache.fresh]]
    /\ UNCHANGED <<dep, pods, image, cache, meddled, bounds>>

\* The Get, which the cache answers, and what follows from it.
Get(c) ==
    /\ ensure[c].pc = "idle"
    /\ IF c = "reconciler" THEN queued ELSE ~begun
    /\ queued' = (queued /\ c = "bootstrap")
    /\ begun' = (begun \/ c = "bootstrap")
    /\ ensure' = [ensure EXCEPT ![c] =
            IF ~cache.obj.there THEN [Idle EXCEPT !.pc = "create"]
            ELSE IF UpToDate(cache.obj) THEN Idle
            ELSE [pc |-> "update", obj |-> cache.obj, fresh |-> cache.fresh]]
    /\ UNCHANGED <<dep, pods, image, cache, meddled, bounds>>

\* A write of the operator, which every other copy now lags behind.
Written(c, d) ==
    /\ IF [d EXCEPT !.defaulted = TRUE] = dep
       THEN UNCHANGED <<dep, pods, cache>> /\ ensure' = [ensure EXCEPT ![c] = Idle]
       ELSE Store(d) /\ ensure' = [Outdated EXCEPT ![c] = Idle]
    /\ meddled' = IF meddled = "no" \/ Calm' THEN "no" ELSE "answered"
    /\ UNCHANGED <<image, queued, begun, bounds>>

Create(c) ==
    /\ ensure[c].pc = "create"
    /\ ~dep.there
    /\ Written(c, desired)

\* MUTANT: the update carries no resource version.
UpdateAny(c) ==
    /\ ensure[c].pc = "update"
    /\ dep.there
    /\ Written(c, Corrected(ensure[c].obj))

\* An update that changes nothing makes no new version and no event.
Update(c) ==
    /\ ensure[c].pc = "update"
    /\ ensure[c].fresh
    /\ Written(c, Corrected(ensure[c].obj))

\* MUTANT: the reconciler logs the error as the bootstrap does.
FailsLogged(c) ==
    /\ ensure' = [ensure EXCEPT ![c] = Idle]
    /\ UNCHANGED <<dep, pods, image, cache, queued, begun, meddled, edits, touches>>

\* The call returns an error: Reconcile passes it on and runs again, the
\* bootstrap logs it.
Fails(c) ==
    /\ ensure' = [ensure EXCEPT ![c] = Idle]
    /\ queued' = (queued \/ c = "reconciler")
    /\ UNCHANGED <<dep, pods, image, cache, begun, meddled, edits, touches>>

\* AlreadyExists, a Conflict, or NotFound.
Refused(c) ==
    /\ \/ ensure[c].pc = "create" /\ dep.there
       \/ ensure[c].pc = "update" /\ ~ensure[c].fresh
    /\ Fails(c)
    /\ UNCHANGED mishaps

CallFails(c) ==
    /\ ensure[c].pc # "idle"
    /\ mishaps < MaxMishaps /\ mishaps' = mishaps + 1
    /\ Fails(c)

\* A crash or an upgrade: a new process, and the leader election lets only one
\* at a time work.  Its informer lists before anything else starts.
Restart ==
    /\ mishaps < MaxMishaps /\ mishaps' = mishaps + 1
    /\ image' \in Images
    /\ cache' = [obj |-> dep, fresh |-> TRUE]
    /\ queued' = dep.there
    /\ ensure' = [c \in Callers |-> Idle]
    /\ begun' = FALSE
    /\ UNCHANGED <<dep, pods, meddled, edits, touches>>

-----------------------------------------------------------------------------

EnsureStep(c) == Get(c) \/ Create(c) \/ Update(c) \/ Refused(c)

Next ==
    \/ Edit \/ WriteStatus \/ RunPods \/ Sync \/ Restart
    \/ \E c \in Callers : EnsureStep(c) \/ CallFails(c)

Fairness == WF_vars(Sync) /\ WF_vars(RunPods) /\ \A c \in Callers : WF_vars(EnsureStep(c))

Spec == Init /\ [][Next]_vars
FairSpec == Spec /\ Fairness

-----------------------------------------------------------------------------
(* Properties *)

\* Every variable has its type, what the server stores is defaulted, and an
\* update is made of a Deployment that was found.
TypeOK ==
    /\ dep \in Deployment /\ dep.defaulted = dep.there
    /\ pods \in [{"new", "old", "orphan"} -> Nat]
    /\ image \in Images
    /\ cache \in [obj: Deployment, fresh: BOOLEAN]
    /\ queued \in BOOLEAN /\ begun \in BOOLEAN
    /\ ensure \in [Callers -> Calling]
    /\ \A c \in Callers : ensure[c].pc = "update" => ensure[c].obj.there
    /\ meddled \in {"no", "yes", "answered"}
    /\ edits \in 0..MaxEdits /\ touches \in 0..MaxTouches /\ mishaps \in 0..MaxMishaps

\* Two scouts never run at once, through upgrades, crashes and races of the two
\* callers, unless a user changed the Deployment, and not for longer than the
\* operator and the cluster need to undo that.  (desired, Ensure: Recreate)
ScoutIsAlone == Running > 1 => meddled # "no"

\* Correcting its own fields the operator never loses what a user wrote into the
\* others, even if that happened after it had read the Deployment.  (Ensure)
OthersKept == [][dep.there /\ dep'.there /\ edits' = edits => dep'.other = dep.other]_vars

\* The bootstrap failed and there is no Deployment: no event will ever come.
NeverMade == begun /\ ~dep.there /\ cache.fresh /\ ~queued
                /\ \A c \in Callers : ensure[c].pc = "idle"

\* Once users leave it alone the Deployment is, and stays, what this operator
\* wants, and Ensure rests, although a stored Deployment never compares equal;
\* except that nothing was ever made.  (Reconcile, Ensure, ScoutBootstrap)
DeploymentSettles ==
    \/ <>[](/\ dep.there /\ UpToDate([dep EXCEPT !.defaulted = FALSE])
            /\ ~queued /\ \A c \in Callers : ensure[c].pc = "idle")
    \/ <>[]NeverMade
=============================================================================
