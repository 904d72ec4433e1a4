------------------------------ MODULE Detection ------------------------------
(***************************************************************************)
(* How the operator notices that something is wrong: PolicyReconciler      *)
(* compiles IncidentPolicies into the Registry, and one IncidentDetector   *)
(* for each watched kind evaluates what is registered against every object *)
(* whose change its informer reports, and raises an Incident.              *)
(*                                                                         *)
(*  - Policies, objects and incidents are read through informers.  A copy  *)
(*    is `fresh' when no write reached the object since.                   *)
(*  - The policy goroutine and the detector goroutines share the Registry, *)
(*    which locks each operation and nothing longer.                       *)
(*  - The Registry is in memory: a restart loses it and compiles again.    *)
(*                                                                         *)
(* An expression is known by what it does: "failing" is true of an object  *)
(* that fails, "faulty" compiles and cannot be evaluated, "garbage" does   *)
(* not compile.  An object is known by its UID: deleted, it stays away.    *)
(***************************************************************************)
EXTENDS Integers, FiniteSets

CONSTANTS
    Policies,       \* names of IncidentPolicies, which are cluster-scoped
    Specs,          \* what users write in one: [kind, expr, trigger]
    NoSpec,         \* stands for a policy that does not exist
    Envelope,       \* the kinds that have a detector
    Objects,        \* objects of those kinds, by UID
    KindOf,         \* the kind of each
    MaxEdits,       \* bound: what users do to policies, objects and incidents
    MaxMishaps      \* bound: failed calls and restarts

Exprs == {"failing", "faulty", "garbage"}

ASSUME SpecAssumption ==
    /\ NoSpec \notin Specs \cup Policies
    /\ \A s \in Specs : s.expr \in Exprs
ASSUME KindAssumption == KindOf \in [Objects -> Envelope]
ASSUME BoundAssumption == MaxEdits \in Nat /\ MaxMishaps \in Nat

VARIABLES
    pol,        \* API server: [spec, cond] under each policy name
    obj,        \* API server: each object
    incs,       \* API server: the Incidents, as <<object, trigger>>
    polCache, objCache, incCache,   \* operator: the informers' copies
    polQueue, objQueue,             \* operator: the work queues
    registry,   \* operator: the compiled policies, [name, spec]
    comp,       \* the policy goroutine
    det,        \* the detector goroutine of each kind
    settled,    \* history: objects of which the cache shows an incident, and has
                \* shown one since before their detector last looked
    edits, mishaps

policyVars == <<pol, polCache, polQueue, comp>>
objectVars == <<obj, objCache, objQueue>>
incidentVars == <<incs, incCache>>
bounds == <<edits, mishaps>>
vars == <<pol, obj, incs, polCache, objCache, incCache, polQueue, objQueue,
          registry, comp, det, settled, edits, mishaps>>

-----------------------------------------------------------------------------
(* Data *)

Verdicts == {"none", "InvalidExpression", "UnsupportedKind", "Compiled"}

\* The condition "Valid": its reason, whether its ObservedGeneration is the
\* policy's, and its LastTransitionTime, of which only matters whether it moved.
Condition == [verdict: Verdicts, seen: BOOLEAN, time: {0, 1}]
Policy == [spec: Specs \cup {NoSpec}, cond: Condition]

NoCondition == [verdict |-> "none", seen |-> FALSE, time |-> 0]
NoPolicy == [spec |-> NoSpec, cond |-> NoCondition]

ObjectStates == {"none", "well", "failing", "exempt", "gone"}

Triggers == {s.trigger : s \in Specs}
Incidents == Objects \X Triggers

\* InEnvelope
InEnvelope(kind) == kind \in Envelope

\* What Compile, parseGVK and InEnvelope make of a policy.
Verdict(s) == IF s.expr = "garbage" THEN "InvalidExpression"
              ELSE IF ~InEnvelope(s.kind) THEN "UnsupportedKind"
              ELSE "Compiled"

setValid(c, verdict) ==
    [verdict |-> verdict, seen |-> TRUE,
     time |-> IF c.verdict = verdict THEN c.time ELSE 1 - c.time]

\* The Registry.
Entries == [name: Policies, spec: Specs]
\* MUTANT: Delete looks into one bucket only, that of the policy's present kind.
DeleteHere(reg, p) ==
    LET s == polCache[p].obj.spec
    IN  {e \in reg : e.name = p => s # NoSpec /\ e.spec.kind # s.kind}
Delete(reg, p) == {e \in reg : e.name # p}
Set(reg, p, s) == {e \in reg : ~(e.name = p /\ e.spec.kind = s.kind)}
                    \cup {[name |-> p, spec |-> s]}
ForGVK(kind) == {e \in registry : e.spec.kind = kind}

\* Eval: an evaluation error is not a match.
Eval(e, o) == e.spec.expr = "failing" /\ objCache[o].obj = "failing"

Matching(o) == {e \in ForGVK(KindOf[o]) : Eval(e, o)}

\* The goroutines.
Compiling == [pc: {"idle", "set", "status"}, key: Policies \cup {NoSpec},
              obj: Policy, fresh: BOOLEAN]
Detecting == [pc: {"idle", "list", "create", "mark"},
              on: Objects \cup {NoSpec}, trigger: Triggers \cup {NoSpec}]

CompIdle == [pc |-> "idle", key |-> NoSpec, obj |-> NoPolicy, fresh |-> FALSE]
DetIdle == [pc |-> "idle", on |-> NoSpec, trigger |-> NoSpec]

Edit == edits < MaxEdits /\ edits' = edits + 1 /\ UNCHANGED mishaps
Mishap == mishaps < MaxMishaps /\ mishaps' = mishaps + 1 /\ UNCHANGED edits

Init ==
    /\ pol = [p \in Policies |-> NoPolicy]
    /\ obj = [o \in Objects |-> "none"]
    /\ incs = {} /\ incCache = {}
    /\ polCache = [p \in Policies |-> [obj |-> NoPolicy, fresh |-> TRUE]]
    /\ objCache = [o \in Objects |-> [obj |-> "none", fresh |-> TRUE]]
    /\ polQueue = {} /\ objQueue = {}
    /\ registry = {}
    /\ comp = CompIdle
    /\ det = [k \in Envelope |-> DetIdle]
    /\ settled = {}
    /\ edits = 0 /\ mishaps = 0

-----------------------------------------------------------------------------
(* Users, and the programs whose objects these are *)

\* Every copy of policy p is out of date.
StorePolicy(p, v) ==
    /\ pol' = [pol EXCEPT ![p] = v]
    /\ polCache' = [polCache EXCEPT ![p].fresh = FALSE]

\* A new generation: what the condition says is of an older one.
WritePolicy(p, s) ==
    /\ Edit
    /\ s # pol[p].spec
    /\ StorePolicy(p, [spec |-> s, cond |-> [pol[p].cond EXCEPT !.seen = FALSE]])
    /\ comp' = IF comp.key = p THEN [comp EXCEPT !.fresh = FALSE] ELSE comp
    /\ UNCHANGED <<polQueue, objectVars, incidentVars, registry, det>>

DeletePolicy(p) ==
    /\ pol[p].spec # NoSpec
    /\ Edit
    /\ StorePolicy(p, NoPolicy)
    /\ comp' = IF comp.key = p THEN [comp EXCEPT !.fresh = FALSE] ELSE comp
    /\ UNCHANGED <<polQueue, objectVars, incidentVars, registry, det>>

ChangeObject(o, v) ==
    /\ obj[o] # "gone"
    /\ v # obj[o] /\ v # "none"
    /\ obj[o] = "none" => v # "gone"
    /\ Edit
    /\ obj' = [obj EXCEPT ![o] = v]
    /\ objCache' = [objCache EXCEPT ![o].fresh = FALSE]
    /\ UNCHANGED <<objQueue, policyVars, incidentVars, registry, det>>

DeleteIncident(i) ==
    /\ i \in incs
    /\ Edit
    /\ incs' = incs \ {i}
    /\ UNCHANGED <<incCache, policyVars, objectVars, registry, det>>

-----------------------------------------------------------------------------
(* The informers *)

SyncPolicy(p) ==
    /\ ~polCache[p].fresh
    /\ polCache' = [polCache EXCEPT ![p] = [obj |-> pol[p], fresh |-> TRUE]]
    /\ polQueue' = polQueue \cup {p}
    /\ UNCHANGED <<pol, comp, objectVars, incidentVars, registry, det, bounds>>

\* The predicate of SetupWithManager: a deletion queues nothing.
SyncObject(o) ==
    /\ ~objCache[o].fresh
    /\ objCache' = [objCache EXCEPT ![o] = [obj |-> obj[o], fresh |-> TRUE]]
    /\ objQueue' = IF obj[o] = "gone" THEN objQueue ELSE objQueue \cup {o}
    /\ UNCHANGED <<obj, policyVars, incidentVars, registry, det, bounds>>

SyncIncident(i) ==
    /\ (i \in incs) # (i \in incCache)
    /\ incCache' = IF i \in incs THEN incCache \cup {i} ELSE incCache \ {i}
    /\ UNCHANGED <<incs, policyVars, objectVars, registry, det, bounds>>

-----------------------------------------------------------------------------
(* PolicyReconciler *)

\* Reconcile up to the Registry.Delete that every path of it comes to.
ReconcilePolicy(p) ==
    /\ comp.pc = "idle"
    /\ p \in polQueue
    /\ polQueue' = polQueue \ {p}
    /\ registry' = Delete(registry, p)
    /\ LET c == polCache[p]
           start(pc) == comp' = [pc |-> pc, key |-> p, obj |-> c.obj, fresh |-> c.fresh]
       IN  \/ c.obj.spec = NoSpec /\ UNCHANGED comp                 \* NotFound
           \/ /\ c.obj.spec # NoSpec
              /\ IF Verdict(c.obj.spec) = "Compiled" THEN start("set") ELSE start("status")
    /\ UNCHANGED <<pol, polCache, objectVars, incidentVars, det, bounds>>

\* MUTANT: the policy is looked up again, and may be gone.
PublishLatest ==
    /\ comp.pc = "set"
    /\ registry' = Set(registry, comp.key, polCache[comp.key].obj.spec)
    /\ comp' = [comp EXCEPT !.pc = "status"]
    /\ UNCHANGED <<pol, polCache, polQueue, objectVars, incidentVars, det, bounds>>

\* A policy that compiles and has a detector enters the Registry.
Publish ==
    /\ comp.pc = "set"
    /\ registry' = Set(registry, comp.key, comp.obj.spec)
    /\ comp' = [comp EXCEPT !.pc = "status"]
    /\ UNCHANGED <<pol, polCache, polQueue, objectVars, incidentVars, det, bounds>>

\* Status().Update.  What is stored already makes no new version and no event.
WriteStatus ==
    /\ comp.pc = "status"
    /\ comp.fresh
    /\ LET c == setValid(comp.obj.cond, Verdict(comp.obj.spec)) IN
         IF c = pol[comp.key].cond THEN UNCHANGED <<pol, polCache>>
         ELSE StorePolicy(comp.key, [pol[comp.key] EXCEPT !.cond = c])
    /\ comp' = CompIdle
    /\ UNCHANGED <<polQueue, objectVars, incidentVars, registry, det, bounds>>

\* A Conflict, or a policy that is gone: the error queues the key again.
StatusRefused ==
    /\ comp.pc = "status"
    /\ ~comp.fresh
    /\ polQueue' = polQueue \cup {comp.key}
    /\ comp' = CompIdle
    /\ UNCHANGED <<pol, polCache, objectVars, incidentVars, registry, det, bounds>>

\* MUTANT: the error is logged and not returned.
StatusFailsUnreported ==
    /\ comp.pc = "status"
    /\ Mishap
    /\ comp' = CompIdle
    /\ UNCHANGED <<pol, polCache, polQueue, objectVars, incidentVars, registry, det>>

\* Any other failure of the update, which Reconcile returns as well.
StatusFails ==
    /\ comp.pc = "status"
    /\ Mishap
    /\ polQueue' = polQueue \cup {comp.key}
    /\ comp' = CompIdle
    /\ UNCHANGED <<pol, polCache, objectVars, incidentVars, registry, det>>

-----------------------------------------------------------------------------
(* IncidentDetector, one goroutine for each kind *)

Goto(k, d) == det' = [det EXCEPT ![k] = d]

\* Reconcile, up to the first policy that matches.  ForGVK returns a snapshot
\* in the order of a map, so any of the matching ones may be that.
Inspect(o) ==
    /\ det[KindOf[o]].pc = "idle"
    /\ o \in objQueue
    /\ objQueue' = objQueue \ {o}
    /\ \/ /\ objCache[o].obj \in {"gone", "exempt"} \/ Matching(o) = {}
          /\ UNCHANGED det
       \/ \E e \in Matching(o) :
            Goto(KindOf[o], [pc |-> "list", on |-> o, trigger |-> e.spec.trigger])
    /\ UNCHANGED <<obj, objCache, policyVars, incidentVars, registry, bounds>>

Shown(o) == {i \in incCache : i[1] = o}
Raised(o) == {i \in incs : i[1] = o}

\* MUTANT: the List selects by a label no incident has.
ListNone(k) ==
    /\ det[k].pc = "list"
    /\ Goto(k, [det[k] EXCEPT !.pc = "create"])
    /\ UNCHANGED <<policyVars, objectVars, incidentVars, registry, bounds>>

\* createIncident: the List, which the cache answers.
ListIncidents(k) ==
    /\ det[k].pc = "list"
    /\ Goto(k, IF Shown(det[k].on) # {} THEN DetIdle ELSE [det[k] EXCEPT !.pc = "create"])
    /\ UNCHANGED <<policyVars, objectVars, incidentVars, registry, bounds>>

\* createIncident: the Create.  The name is trigger and UID; AlreadyExists
\* counts as done.
CreateIncident(k) ==
    /\ det[k].pc = "create"
    /\ LET i == <<det[k].on, det[k].trigger>> IN
         /\ incs' = incs \cup {i}
         /\ Goto(k, IF i \in incs THEN DetIdle ELSE [det[k] EXCEPT !.pc = "mark"])
    /\ UNCHANGED <<incCache, policyVars, objectVars, registry, bounds>>

\* createIncident: the phase Detected.  What becomes of it is GrantLifecycle's.
MarkDetected(k) ==
    /\ det[k].pc = "mark"
    /\ Goto(k, DetIdle)
    /\ UNCHANGED <<policyVars, objectVars, incidentVars, registry, bounds>>

RequeueObject(k) ==
    /\ objQueue' = objQueue \cup {det[k].on}
    /\ Goto(k, DetIdle)
    /\ UNCHANGED <<obj, objCache, policyVars, incidentVars, registry>>

\* The reconciler wrote to the new incident first: a Conflict, returned.
MarkRefused(k) ==
    /\ det[k].pc = "mark"
    /\ RequeueObject(k)
    /\ UNCHANGED bounds

\* MUTANT: the error is logged and not returned.
DetectorFailsUnreported(k) ==
    /\ det[k].pc # "idle"
    /\ Mishap
    /\ Goto(k, DetIdle)
    /\ UNCHANGED <<policyVars, objectVars, incidentVars, registry>>

\* Any other failure of a call: Reconcile returns it.
DetectorFails(k) ==
    /\ det[k].pc # "idle"
    /\ Mishap
    /\ RequeueObject(k)

\* A crash, and a new process: the informers list everything there is before a
\* reconciler starts, and the Registry is empty.
Restart ==
    /\ Mishap
    /\ polCache' = [p \in Policies |-> [obj |-> pol[p], fresh |-> TRUE]]
    /\ objCache' = [o \in Objects |-> [obj |-> obj[o], fresh |-> TRUE]]
    /\ incCache' = incs
    /\ polQueue' = {p \in Policies : pol[p].spec # NoSpec}
    /\ objQueue' = {o \in Objects : obj[o] \notin {"none", "gone"}}
    /\ registry' = {}
    /\ comp' = CompIdle
    /\ det' = [k \in Envelope |-> DetIdle]
    /\ UNCHANGED <<pol, obj, incs>>

-----------------------------------------------------------------------------

Users == \/ \E p \in Policies : DeletePolicy(p) \/ \E s \in Specs : WritePolicy(p, s)
         \/ \E o \in Objects, v \in ObjectStates : ChangeObject(o, v)
         \/ \E i \in Incidents : DeleteIncident(i)

PolicyGoroutine == Publish \/ WriteStatus \/ StatusRefused
Detector(k) == ListIncidents(k) \/ CreateIncident(k) \/ MarkDetected(k) \/ MarkRefused(k)
Failures == StatusFails \/ Restart \/ \E k \in Envelope : DetectorFails(k)

Step ==
    \/ Users
    \/ Failures
    \/ PolicyGoroutine
    \/ \E k \in Envelope : Detector(k)
    \/ \E p \in Policies : SyncPolicy(p) \/ ReconcilePolicy(p)
    \/ \E o \in Objects : SyncObject(o) \/ Inspect(o)
    \/ \E i \in Incidents : SyncIncident(i)

\* The detector of o looked at the cache, and is about to create.
Looked(o) == det[KindOf[o]].on = o /\ det[KindOf[o]].pc = "create"

Remember == settled' = {o \in Objects : Shown(o)' # {} /\ (o \in settled \/ ~Looked(o)')}

Next == Step /\ Remember

\* Informers deliver, and controller-runtime takes every queued key in turn.
Fairness ==
    /\ WF_vars(PolicyGoroutine /\ Remember)
    /\ \A k \in Envelope : WF_vars(Detector(k) /\ Remember)
    /\ \A p \in Policies : /\ WF_vars(SyncPolicy(p) /\ Remember)
                          /\ SF_vars(ReconcilePolicy(p) /\ Remember)
    /\ \A o \in Objects : /\ WF_vars(SyncObject(o) /\ Remember)
                         /\ SF_vars(Inspect(o) /\ Remember)
    /\ \A i \in Incidents : WF_vars(SyncIncident(i) /\ Remember)

Spec == Init /\ [][Next]_vars
FairSpec == Spec /\ Fairness

-----------------------------------------------------------------------------
(* Properties *)

Works(k) == det[k].on \in Objects /\ KindOf[det[k].on] = k /\ det[k].trigger \in Triggers

\* Every variable has its type, and a goroutine at work knows on what.
TypeOK ==
    /\ pol \in [Policies -> Policy]
    /\ obj \in [Objects -> ObjectStates]
    /\ incs \subseteq Incidents /\ incCache \subseteq Incidents
    /\ polCache \in [Policies -> [obj: Policy, fresh: BOOLEAN]]
    /\ objCache \in [Objects -> [obj: ObjectStates, fresh: BOOLEAN]]
    /\ polQueue \subseteq Policies /\ objQueue \subseteq Objects
    /\ registry \subseteq Entries
    /\ comp \in Compiling
    /\ comp.pc # "idle" => comp.key # NoSpec /\ comp.obj.spec # NoSpec
    /\ det \in [Envelope -> Detecting]
    /\ \A k \in Envelope : det[k].pc # "idle" => Works(k)
    /\ settled \subseteq Objects
    /\ edits \in 0..MaxEdits /\ mishaps \in 0..MaxMishaps

\* The Registry entries a policy deserves.
Compiled(p) == IF pol[p].spec # NoSpec /\ Verdict(pol[p].spec) = "Compiled"
               THEN {[name |-> p, spec |-> pol[p].spec]} ELSE {}

\* Once nothing about a policy is on its way any more, the Registry holds
\* exactly what the policy says now: nothing of an earlier kind, expression or
\* trigger, nothing of a policy that was deleted or became invalid, and after a
\* restart all that was there before.  (Registry, PolicyReconciler)
RegistryFollowsPolicies ==
    \A p \in Policies :
       polCache[p].fresh /\ p \notin polQueue /\ comp.key # p
          => {e \in registry : e.name = p} = Compiled(p)

\* Once the operator's own cache has shown an incident of an object to a detector
\* that was yet to look, the object gets no other one, whatever policies and
\* triggers match it, until that one is deleted.  (createIncident)
OneOnceShown == [][\A o \in settled : Raised(o)' \subseteq Raised(o)]_vars

\* Compiling policies comes to rest, although each status the reconciler writes
\* is an event that starts it again, and by then every policy carries the
\* verdict on its last generation.  (setValid, Status().Update)
PoliciesSettle ==
    <>[](\A p \in Policies :
           /\ p \notin polQueue /\ comp.key # p
           /\ pol[p].spec # NoSpec =>
                pol[p].cond.verdict = Verdict(pol[p].spec) /\ pol[p].cond.seen)

\* A failing object whose event is waiting while a policy that matches it is
\* registered gets an incident: failed calls do not lose it.  It may be lost when,
\* before that, the object changes, or the Registry holds no matching policy any
\* more: because the policy was edited, while it is being compiled anew (Delete
\* comes before Set), or because a restart has emptied the Registry.  An object
\* looked at then matches nothing, and is not looked at again until it changes
\* (incident_detector.go:68).  (Reconcile, createIncident)
Noticed(o) == objCache[o].fresh /\ Matching(o) # {}
MatchIsRaised ==
    \A o \in Objects :
       (o \in objQueue /\ Noticed(o)) ~> (Raised(o) \cup Shown(o) # {} \/ ~Noticed(o))

\* "IncidentDetector watches one kind and evaluates every registered policy
\* targeting that kind against each object, creating an Incident on the first
\* match" (incident_detector.go:46): an object that a registered policy goes on
\* matching gets an incident.
MatchIsFound == \A o \in Objects : <>[]Noticed(o) => <>(Raised(o) # {})
=============================================================================
