--------------------------- MODULE DetectionProofs ---------------------------
(***************************************************************************)
(* Proofs about Detection, for every number of policies and objects, every *)
(* set of specs, every envelope and every bound.                           *)
(***************************************************************************)
EXTENDS Detection, TLAPS

EntriesOf(p) == {e \in registry : e.name = p}

\* The Registry entries of a policy p that says s.
Deserved(p, s) == IF s # NoSpec /\ Verdict(s) = "Compiled" THEN {[name |-> p, spec |-> s]} ELSE {}

\* A fresh copy is the stored policy: the informer's, and the reconciler's.
CopyInv ==
    /\ \A p \in Policies : polCache[p].fresh => polCache[p].obj = pol[p]
    /\ comp.pc # "idle" /\ comp.fresh => comp.obj = pol[comp.key]

\* What the reconciler has made of the Registry by now: nothing of its policy is
\* left when it is about to publish it, and afterwards what its copy deserves.
CompInv ==
    /\ comp.pc = "idle" => comp.key = NoSpec
    /\ comp.pc = "set" => EntriesOf(comp.key) = {} /\ Verdict(comp.obj.spec) = "Compiled"
    /\ comp.pc = "status" => EntriesOf(comp.key) = Deserved(comp.key, comp.obj.spec)

RegistryInv == CopyInv /\ CompInv /\ RegistryFollowsPolicies

\* An object is settled only while its incident is shown and nobody is about to
\* create another one.
SettledInv == \A o \in settled : Shown(o) # {} /\ ~Looked(o)

IInv == TypeOK /\ RegistryInv

-----------------------------------------------------------------------------
(* Types *)

LEMMA IdleTypes == CompIdle \in Compiling /\ DetIdle \in Detecting
BY DEF CompIdle, DetIdle, Compiling, Detecting, NoPolicy, NoCondition, Policy, Condition,
       Verdicts

LEMMA PolicyTypes ==
    /\ NoPolicy \in Policy
    /\ \A s \in Specs, c \in Condition : [spec |-> s, cond |-> [c EXCEPT !.seen = FALSE]] \in Policy
    /\ \A v \in Policy, c \in Condition : [v EXCEPT !.cond = c] \in Policy
BY DEF NoPolicy, NoCondition, Policy, Condition, Verdicts

LEMMA VerdictType ==
    ASSUME NEW s PROVE Verdict(s) \in Verdicts
BY DEF Verdict, Verdicts

\* A new condition is a condition.
LEMMA ConditionType ==
    ASSUME NEW c \in Condition, NEW v \in Verdicts PROVE setValid(c, v) \in Condition
BY DEF setValid, Condition

LEMMA TypeInit == Init => TypeOK
BY IdleTypes, PolicyTypes, BoundAssumption
   DEF Init, TypeOK, Works, ObjectStates, CompIdle, DetIdle, Compiling

\* The bounds stay in range.
LEMMA BoundType ==
    ASSUME TypeOK, Edit \/ Mishap \/ UNCHANGED bounds
    PROVE  edits' \in 0..MaxEdits /\ mishaps' \in 0..MaxMishaps
BY BoundAssumption DEF TypeOK, Edit, Mishap, bounds

\* What becomes of the policies and of the copies when one is stored.
LEMMA StoreType ==
    ASSUME TypeOK, NEW p \in Policies, NEW v \in Policy, StorePolicy(p, v)
    PROVE  /\ pol' \in [Policies -> Policy]
           /\ polCache' \in [Policies -> [obj: Policy, fresh: BOOLEAN]]
BY DEF TypeOK, StorePolicy

\* A detector goes to a state of its type.
LEMMA GotoType ==
    ASSUME TypeOK, NEW k \in Envelope, NEW d \in Detecting, Goto(k, d),
           d.pc # "idle" => d.on \in Objects /\ KindOf[d.on] = k /\ d.trigger \in Triggers
    PROVE  /\ det' \in [Envelope -> Detecting]
           /\ \A j \in Envelope : det'[j].pc # "idle" => Works(j)'
BY DEF TypeOK, Works, Goto

\* Users keep the types, and so do the informers.
LEMMA OutsideType ==
    ASSUME TypeOK,
           \/ Users
           \/ \E p \in Policies : SyncPolicy(p)
           \/ \E o \in Objects : SyncObject(o)
           \/ \E i \in Incidents : SyncIncident(i),
           settled' \subseteq Objects
    PROVE  TypeOK'
<1>1. ASSUME NEW p \in Policies, DeletePolicy(p) PROVE TypeOK'
  <2>1. edits' \in 0..MaxEdits /\ mishaps' \in 0..MaxMishaps
    BY <1>1, BoundType DEF DeletePolicy
  <2>2. comp' \in Compiling /\ (comp'.pc # "idle" => comp'.key # NoSpec /\ comp'.obj.spec # NoSpec)
    BY <1>1 DEF DeletePolicy, TypeOK, Compiling
  <2>. QED  BY <1>1, <2>1, <2>2, StoreType, PolicyTypes
            DEF DeletePolicy, TypeOK, Works, objectVars, incidentVars
<1>2. ASSUME NEW p \in Policies, NEW s \in Specs, WritePolicy(p, s) PROVE TypeOK'
  <2>1. edits' \in 0..MaxEdits /\ mishaps' \in 0..MaxMishaps
    BY <1>2, BoundType DEF WritePolicy
  <2>2. comp' \in Compiling /\ (comp'.pc # "idle" => comp'.key # NoSpec /\ comp'.obj.spec # NoSpec)
    BY <1>2 DEF WritePolicy, TypeOK, Compiling
  <2>3. pol[p].cond \in Condition
    BY DEF TypeOK, Policy
  <2>4. [spec |-> s, cond |-> [pol[p].cond EXCEPT !.seen = FALSE]] \in Policy
    BY <2>3, PolicyTypes
  <2>. QED  BY <1>2, <2>1, <2>2, <2>4, StoreType
            DEF WritePolicy, TypeOK, Works, objectVars, incidentVars
<1>3. ASSUME NEW o \in Objects, NEW v \in ObjectStates, ChangeObject(o, v) PROVE TypeOK'
  <2>1. edits' \in 0..MaxEdits /\ mishaps' \in 0..MaxMishaps
    BY <1>3, BoundType DEF ChangeObject
  <2>. QED  BY <1>3, <2>1 DEF ChangeObject, TypeOK, Works, policyVars, incidentVars
<1>4. ASSUME NEW i \in Incidents, DeleteIncident(i) PROVE TypeOK'
  <2>1. edits' \in 0..MaxEdits /\ mishaps' \in 0..MaxMishaps
    BY <1>4, BoundType DEF DeleteIncident
  <2>. QED  BY <1>4, <2>1 DEF DeleteIncident, TypeOK, Works, policyVars, objectVars
<1>5. ASSUME NEW p \in Policies, SyncPolicy(p) PROVE TypeOK'
  BY <1>5 DEF SyncPolicy, TypeOK, Works, objectVars, incidentVars, bounds
<1>6. ASSUME NEW o \in Objects, SyncObject(o) PROVE TypeOK'
  BY <1>6 DEF SyncObject, TypeOK, Works, policyVars, incidentVars, bounds
<1>7. ASSUME NEW i \in Incidents, SyncIncident(i) PROVE TypeOK'
  BY <1>7 DEF SyncIncident, TypeOK, Works, policyVars, objectVars, bounds
<1>. QED  BY <1>1, <1>2, <1>3, <1>4, <1>5, <1>6, <1>7 DEF Users

\* So does the reconciler of policies, with its failures.
LEMMA ReconcilerType ==
    ASSUME TypeOK,
           \/ \E p \in Policies : ReconcilePolicy(p)
           \/ PolicyGoroutine
           \/ StatusFails,
           settled' \subseteq Objects
    PROVE  TypeOK'
<1>1. ASSUME NEW p \in Policies, ReconcilePolicy(p) PROVE TypeOK'
  <2>1. polCache[p].obj \in Policy /\ polCache[p].fresh \in BOOLEAN
    BY DEF TypeOK
  <2>2. comp' \in Compiling /\ (comp'.pc # "idle" => comp'.key # NoSpec /\ comp'.obj.spec # NoSpec)
    BY <1>1, <2>1, SpecAssumption DEF ReconcilePolicy, TypeOK, Compiling
  <2>3. registry' \subseteq Entries /\ polQueue' \subseteq Policies
    BY <1>1 DEF ReconcilePolicy, TypeOK, Delete
  <2>. QED  BY <1>1, <2>2, <2>3 DEF ReconcilePolicy, TypeOK, Works, objectVars, incidentVars, bounds
<1>2. CASE Publish
  <2>1. registry' \subseteq Entries
    BY <1>2 DEF Publish, TypeOK, Set, Entries, Compiling, Policy
  <2>. QED  BY <1>2, <2>1 DEF Publish, TypeOK, Works, Compiling, objectVars, incidentVars, bounds
<1>3. CASE WriteStatus
  <2>1. comp.key \in Policies /\ comp.obj.cond \in Condition
    BY <1>3 DEF WriteStatus, TypeOK, Compiling, Policy
  <2>2. setValid(comp.obj.cond, Verdict(comp.obj.spec)) \in Condition
    BY <2>1, VerdictType, ConditionType
  <2>3. [pol[comp.key] EXCEPT !.cond = setValid(comp.obj.cond, Verdict(comp.obj.spec))] \in Policy
    BY <2>1, <2>2, PolicyTypes DEF TypeOK
  <2>4. /\ pol' \in [Policies -> Policy]
        /\ polCache' \in [Policies -> [obj: Policy, fresh: BOOLEAN]]
    BY <1>3, <2>1, <2>3, StoreType DEF WriteStatus, TypeOK
  <2>. QED  BY <1>3, <2>4, IdleTypes
            DEF WriteStatus, TypeOK, Works, CompIdle, objectVars, incidentVars, bounds
<1>4. CASE StatusRefused
  BY <1>4, IdleTypes
     DEF StatusRefused, TypeOK, Works, Compiling, CompIdle, objectVars, incidentVars, bounds
<1>5. CASE StatusFails
  <2>1. edits' \in 0..MaxEdits /\ mishaps' \in 0..MaxMishaps
    BY <1>5, BoundType DEF StatusFails
  <2>. QED  BY <1>5, <2>1, IdleTypes
            DEF StatusFails, TypeOK, Works, Compiling, CompIdle, objectVars, incidentVars
<1>. QED  BY <1>1, <1>2, <1>3, <1>4, <1>5 DEF PolicyGoroutine

\* And a detector, with its failures.
LEMMA DetectorType ==
    ASSUME TypeOK,
           \/ \E o \in Objects : Inspect(o)
           \/ \E k \in Envelope : Detector(k) \/ DetectorFails(k),
           settled' \subseteq Objects
    PROVE  TypeOK'
<1>1. ASSUME NEW o \in Objects, Inspect(o) PROVE TypeOK'
  <2>1. KindOf[o] \in Envelope
    BY KindAssumption
  <2>2. CASE UNCHANGED det
    BY <1>1, <2>2 DEF Inspect, TypeOK, Works, policyVars, incidentVars, bounds
  <2>3. CASE \E e \in Matching(o) :
               Goto(KindOf[o], [pc |-> "list", on |-> o, trigger |-> e.spec.trigger])
    <3>1. PICK e \in Matching(o) :
             Goto(KindOf[o], [pc |-> "list", on |-> o, trigger |-> e.spec.trigger])
      BY <2>3
    <3>2. e.spec \in Specs
      BY DEF Matching, ForGVK, TypeOK, Entries
    <3>3. [pc |-> "list", on |-> o, trigger |-> e.spec.trigger] \in Detecting
      BY <3>2 DEF Detecting, Triggers
    <3>4. /\ det' \in [Envelope -> Detecting]
          /\ \A j \in Envelope : det'[j].pc # "idle" => Works(j)'
      BY <2>1, <3>1, <3>2, <3>3, GotoType DEF Triggers
    <3>. QED  BY <1>1, <3>4 DEF Inspect, TypeOK, Works, policyVars, incidentVars, bounds
  <2>. QED  BY <1>1, <2>2, <2>3 DEF Inspect
<1>2. ASSUME NEW k \in Envelope, Detector(k) \/ DetectorFails(k) PROVE TypeOK'
  <2>1. det[k].pc # "idle" /\ det[k] \in Detecting /\ Works(k)
    BY <1>2 DEF Detector, DetectorFails, ListIncidents, CreateIncident, MarkDetected,
                MarkRefused, TypeOK, Works
  <2>2. DetIdle \in Detecting /\ DetIdle.pc = "idle"
    BY IdleTypes DEF DetIdle
  <2>3. \A pc \in {"create", "mark"} :
           /\ [det[k] EXCEPT !.pc = pc] \in Detecting
           /\ [det[k] EXCEPT !.pc = pc].on = det[k].on
           /\ [det[k] EXCEPT !.pc = pc].trigger = det[k].trigger
    BY <2>1 DEF Detecting
  <2>4. PICK d : Goto(k, d) /\ (d = DetIdle \/ \E pc \in {"create", "mark"} : d = [det[k] EXCEPT !.pc = pc])
    BY <1>2 DEF Detector, DetectorFails, ListIncidents, CreateIncident, MarkDetected,
                MarkRefused, RequeueObject
  <2>5. /\ det' \in [Envelope -> Detecting]
        /\ \A j \in Envelope : det'[j].pc # "idle" => Works(j)'
    BY <2>1, <2>2, <2>3, <2>4, GotoType DEF Works
  <2>6. edits' \in 0..MaxEdits /\ mishaps' \in 0..MaxMishaps
    BY <1>2, BoundType DEF Detector, DetectorFails, ListIncidents, CreateIncident,
                           MarkDetected, MarkRefused
  <2>7. objQueue' \subseteq Objects
    BY <1>2, <2>1 DEF Detector, DetectorFails, ListIncidents, CreateIncident,
                MarkDetected, MarkRefused, RequeueObject, TypeOK, Works, objectVars
  <2>8. incs' \subseteq Incidents
    BY <1>2, <2>1 DEF Detector, DetectorFails, ListIncidents, CreateIncident, MarkDetected,
                MarkRefused, RequeueObject, TypeOK, Works, Incidents, incidentVars
  <2>. QED  BY <1>2, <2>5, <2>6, <2>7, <2>8
            DEF Detector, DetectorFails, ListIncidents, CreateIncident,
                MarkDetected, MarkRefused, RequeueObject, TypeOK, Works, policyVars, objectVars, incidentVars
<1>. QED  BY <1>1, <1>2

LEMMA TypeStep == TypeOK /\ [Next]_vars => TypeOK'
<1>. SUFFICES ASSUME TypeOK, [Next]_vars PROVE TypeOK'
  OBVIOUS
<1>1. CASE UNCHANGED vars
  BY <1>1 DEF TypeOK, Works, vars
<1>2. CASE Next
  <2>1. settled' \subseteq Objects
    BY <1>2 DEF Next, Remember
  <2>2. CASE Restart
    <3>1. edits' \in 0..MaxEdits /\ mishaps' \in 0..MaxMishaps
      BY <2>2, BoundType DEF Restart
    <3>. QED  BY <2>1, <2>2, <3>1, IdleTypes DEF Restart, TypeOK, Works, CompIdle, DetIdle
  <2>. QED  BY <1>2, <2>1, <2>2, OutsideType, ReconcilerType, DetectorType
            DEF Next, Step, Failures
<1>. QED  BY <1>1, <1>2

\* Every variable keeps its type, whatever the constants.
THEOREM TypeCorrect == Spec => []TypeOK
BY TypeInit, TypeStep, PTL DEF Spec

-----------------------------------------------------------------------------
(* The Registry follows the policies *)

\* Steps that touch neither policies nor the Registry do not count.
LEMMA QuietInv ==
    ASSUME RegistryInv, UNCHANGED <<policyVars, registry>>
    PROVE  RegistryInv'
BY DEF RegistryInv, CopyInv, CompInv, RegistryFollowsPolicies, EntriesOf, Deserved, Compiled,
       policyVars

\* What the API server stores of a policy outdates every copy of it, so that
\* nothing is said of it any more but that the reconciler is at work.
LEMMA StoreInv ==
    ASSUME IInv, NEW p \in Policies, NEW v, StorePolicy(p, v),
           comp' = IF comp.key = p THEN [comp EXCEPT !.fresh = FALSE] ELSE comp,
           UNCHANGED <<registry, polQueue>>
    PROVE  RegistryInv'
<1>1. comp \in Compiling /\ pol \in [Policies -> Policy]
      /\ polCache \in [Policies -> [obj: Policy, fresh: BOOLEAN]]
  BY DEF IInv, TypeOK
<1>2. /\ comp'.pc = comp.pc /\ comp'.key = comp.key /\ comp'.obj = comp.obj
      /\ comp'.fresh => comp.fresh /\ comp.key # p
  BY <1>1 DEF Compiling
<1>3. /\ \A q \in Policies : polCache'[q].fresh =>
            polCache[q].fresh /\ q # p /\ polCache'[q].obj = polCache[q].obj
      /\ \A q : q # p => pol'[q] = pol[q]
  BY <1>1 DEF StorePolicy
<1>4. CopyInv'
  BY <1>2, <1>3 DEF IInv, RegistryInv, CopyInv
<1>5. CompInv'
  BY <1>2 DEF IInv, RegistryInv, CompInv, EntriesOf, Deserved
<1>6. RegistryFollowsPolicies'
  BY <1>2, <1>3 DEF IInv, RegistryInv, RegistryFollowsPolicies, Compiled
<1>. QED  BY <1>4, <1>5, <1>6 DEF RegistryInv

\* An attempt of the reconciler begins: nothing of the policy is registered.
LEMMA ReconcileInv ==
    ASSUME IInv, NEW p \in Policies, ReconcilePolicy(p)
    PROVE  RegistryInv'
<1>1. /\ comp.pc = "idle" /\ comp.key = NoSpec
      /\ UNCHANGED <<pol, polCache>>
      /\ \A q : q # p => (q \in polQueue' <=> q \in polQueue)
  BY DEF ReconcilePolicy, IInv, RegistryInv, CompInv
<1>2. /\ {e \in registry' : e.name = p} = {}
      /\ \A q : q # p => {e \in registry' : e.name = q} = {e \in registry : e.name = q}
  BY DEF ReconcilePolicy, Delete
<1>3. NoSpec \notin Policies
  BY SpecAssumption
<1>4. CASE polCache[p].obj.spec = NoSpec /\ UNCHANGED comp
  <2>1. polCache[p].fresh => Compiled(p) = {}
    BY <1>4 DEF IInv, RegistryInv, CopyInv, Compiled
  <2>2. RegistryFollowsPolicies'
    BY <1>1, <1>2, <1>3, <1>4, <2>1 DEF IInv, RegistryInv, RegistryFollowsPolicies, Compiled
  <2>. QED  BY <1>1, <1>4, <2>2 DEF IInv, RegistryInv, CopyInv, CompInv
<1>5. CASE /\ polCache[p].obj.spec # NoSpec
           /\ comp' = [pc |-> IF Verdict(polCache[p].obj.spec) = "Compiled" THEN "set" ELSE "status",
                       key |-> p, obj |-> polCache[p].obj, fresh |-> polCache[p].fresh]
  <2>1. CopyInv'
    BY <1>1, <1>5 DEF IInv, RegistryInv, CopyInv
  <2>2. CompInv'
    BY <1>2, <1>5 DEF CompInv, EntriesOf, Deserved
  <2>3. RegistryFollowsPolicies'
    BY <1>1, <1>2, <1>3, <1>5 DEF IInv, RegistryInv, RegistryFollowsPolicies, Compiled
  <2>. QED  BY <2>1, <2>2, <2>3 DEF RegistryInv
<1>. QED  BY <1>4, <1>5 DEF ReconcilePolicy

\* Publishing makes of the Registry what the copy deserves.
LEMMA PublishInv ==
    ASSUME IInv, Publish
    PROVE  RegistryInv'
<1>1. /\ comp.pc = "set" /\ comp \in Compiling
      /\ comp' = [comp EXCEPT !.pc = "status"]
      /\ UNCHANGED <<pol, polCache, polQueue>>
  BY DEF IInv, TypeOK, Publish
<1>2. /\ comp'.pc = "status" /\ comp'.key = comp.key
      /\ comp'.obj = comp.obj /\ comp'.fresh = comp.fresh
  BY <1>1 DEF Compiling
<1>3. comp.obj.spec # NoSpec /\ Verdict(comp.obj.spec) = "Compiled" /\ EntriesOf(comp.key) = {}
  BY <1>1 DEF IInv, TypeOK, RegistryInv, CompInv
<1>4. /\ {e \in registry' : e.name = comp.key} = {[name |-> comp.key, spec |-> comp.obj.spec]}
      /\ \A q : q # comp.key => {e \in registry' : e.name = q} = {e \in registry : e.name = q}
  BY <1>3 DEF Publish, Set, EntriesOf
<1>5. CopyInv'
  BY <1>1, <1>2 DEF IInv, RegistryInv, CopyInv
<1>6. CompInv'
  BY <1>2, <1>3, <1>4 DEF CompInv, EntriesOf, Deserved
<1>7. RegistryFollowsPolicies'
  BY <1>1, <1>2, <1>4 DEF IInv, RegistryInv, RegistryFollowsPolicies, Compiled
<1>. QED  BY <1>5, <1>6, <1>7 DEF RegistryInv

\* The attempt ends with an error, and the key is queued again.
LEMMA RequeueInv ==
    ASSUME IInv, comp.pc = "status", polQueue' = polQueue \cup {comp.key}, comp' = CompIdle,
           UNCHANGED <<pol, polCache, registry>>
    PROVE  RegistryInv'
<1>1. comp'.pc = "idle" /\ comp'.key = NoSpec
  BY DEF CompIdle
<1>. QED  BY <1>1 DEF IInv, RegistryInv, CopyInv, CompInv, RegistryFollowsPolicies, Compiled

\* The attempt ends with a status, which the API server takes only from a copy of
\* what it stores: what the copy deserves is what the policy says now.
LEMMA StatusInv ==
    ASSUME IInv, WriteStatus
    PROVE  RegistryInv'
<1>1. /\ comp.pc = "status" /\ comp.fresh /\ comp \in Compiling
      /\ comp'.pc = "idle" /\ comp'.key = NoSpec
      /\ UNCHANGED <<polQueue, registry>>
      /\ pol \in [Policies -> Policy]
      /\ polCache \in [Policies -> [obj: Policy, fresh: BOOLEAN]]
  BY DEF WriteStatus, IInv, TypeOK, CompIdle
<1>2. comp.key \in Policies /\ comp.obj = pol[comp.key]
  BY <1>1 DEF IInv, TypeOK, RegistryInv, CopyInv, Compiling
<1>3. {e \in registry : e.name = comp.key} = Compiled(comp.key)
  BY <1>1, <1>2 DEF IInv, RegistryInv, CompInv, EntriesOf, Deserved, Compiled
<1>4. CASE UNCHANGED <<pol, polCache>>
  BY <1>1, <1>3, <1>4 DEF IInv, RegistryInv, CopyInv, CompInv, RegistryFollowsPolicies, Compiled
<1>5. CASE \E v : StorePolicy(comp.key, v)
  <2>1. /\ \A q \in Policies : polCache'[q].fresh =>
              polCache[q].fresh /\ q # comp.key /\ polCache'[q].obj = polCache[q].obj
        /\ \A q : q # comp.key => pol'[q] = pol[q]
    BY <1>1, <1>2, <1>5 DEF StorePolicy
  <2>. QED  BY <1>1, <2>1
            DEF IInv, RegistryInv, CopyInv, CompInv, RegistryFollowsPolicies, Compiled
<1>. QED  BY <1>4, <1>5 DEF WriteStatus

LEMMA RegistryStep == IInv /\ [Next]_vars => RegistryInv'
<1>. SUFFICES ASSUME IInv, [Next]_vars PROVE RegistryInv'
  OBVIOUS
<1>. RegistryInv
  BY DEF IInv
<1>1. CASE UNCHANGED vars
  BY <1>1, QuietInv DEF vars, policyVars
<1>2. ASSUME NEW p \in Policies,
             DeletePolicy(p) \/ \E s \in Specs : WritePolicy(p, s)
      PROVE  RegistryInv'
  <2>1. CASE DeletePolicy(p)
    BY <2>1, StoreInv DEF DeletePolicy
  <2>2. ASSUME NEW s \in Specs, WritePolicy(p, s) PROVE RegistryInv'
    BY <2>2, StoreInv DEF WritePolicy
  <2>. QED  BY <1>2, <2>1, <2>2
<1>3. ASSUME NEW p \in Policies, SyncPolicy(p) PROVE RegistryInv'
  <2>1. /\ UNCHANGED <<pol, comp, registry>>
        /\ polQueue' = polQueue \cup {p}
        /\ polCache'[p].obj = pol[p]
        /\ \A q \in Policies : q # p => polCache'[q] = polCache[q]
    BY <1>3 DEF SyncPolicy, IInv, TypeOK
  <2>. QED  BY <2>1 DEF RegistryInv, CopyInv, CompInv, RegistryFollowsPolicies, EntriesOf,
                        Deserved, Compiled
<1>4. ASSUME NEW p \in Policies, ReconcilePolicy(p) PROVE RegistryInv'
  BY <1>4, ReconcileInv
<1>5. CASE PolicyGoroutine
  BY <1>5, PublishInv, StatusInv, RequeueInv DEF PolicyGoroutine, StatusRefused
<1>6. CASE StatusFails
  BY <1>6, RequeueInv DEF StatusFails
<1>7. CASE Restart
  <2>1. /\ registry' = {} /\ pol' = pol /\ comp'.pc = "idle" /\ comp'.key = NoSpec
        /\ polQueue' = {p \in Policies : pol[p].spec # NoSpec}
        /\ \A p \in Policies : polCache'[p].obj = pol[p]
    BY <1>7 DEF Restart, CompIdle
  <2>. QED  BY <2>1 DEF RegistryInv, CopyInv, CompInv, RegistryFollowsPolicies, Compiled
<1>8. CASE UNCHANGED <<policyVars, registry>>
  BY <1>8, QuietInv
<1>9. ASSUME \/ \E o \in Objects, v \in ObjectStates : ChangeObject(o, v)
             \/ \E i \in Incidents : DeleteIncident(i) \/ SyncIncident(i)
             \/ \E o \in Objects : SyncObject(o) \/ Inspect(o)
             \/ \E k \in Envelope : Detector(k) \/ DetectorFails(k)
      PROVE  UNCHANGED <<policyVars, registry>>
  BY <1>9 DEF ChangeObject, DeleteIncident, SyncIncident, SyncObject, Inspect, Detector,
              DetectorFails, ListIncidents, CreateIncident, MarkDetected, MarkRefused,
              RequeueObject
<1>. QED  BY <1>1, <1>2, <1>3, <1>4, <1>5, <1>6, <1>7, <1>8, <1>9
          DEF Next, Step, Users, Failures

LEMMA RegistryInit == Init => RegistryInv
BY DEF Init, RegistryInv, CopyInv, CompInv, RegistryFollowsPolicies, Compiled, CompIdle, NoPolicy

\* Once nothing about a policy is on its way any more, the Registry holds exactly
\* what the policy says (PolicyReconciler, Registry).
THEOREM RegistryIsCurrent == Spec => []RegistryFollowsPolicies
<1>1. Init => IInv
  BY TypeInit, RegistryInit DEF IInv
<1>2. IInv /\ [Next]_vars => IInv'
  BY TypeStep, RegistryStep DEF IInv
<1>3. IInv => RegistryFollowsPolicies
  BY DEF IInv, RegistryInv
<1>. QED  BY <1>1, <1>2, <1>3, PTL DEF Spec

-----------------------------------------------------------------------------
(* One incident for one object *)

LEMMA SettledStep == TypeOK /\ SettledInv /\ [Next]_vars => SettledInv'
<1>. SUFFICES ASSUME TypeOK, SettledInv, [Next]_vars PROVE SettledInv'
  OBVIOUS
<1>1. CASE UNCHANGED vars
  BY <1>1 DEF SettledInv, Shown, Looked, vars
<1>2. CASE Next
  <2>. SUFFICES ASSUME NEW o \in settled', Looked(o)' PROVE FALSE
    BY <1>2 DEF Next, Remember, SettledInv
  <2>1. o \in Objects /\ o \in settled /\ Shown(o) # {} /\ ~Looked(o)
    BY <1>2 DEF Next, Remember, SettledInv
  <2>2. KindOf[o] \in Envelope /\ det \in [Envelope -> Detecting]
    BY <2>1, KindAssumption DEF TypeOK
  <2>3. det'[KindOf[o]].pc = "create" /\ det'[KindOf[o]].on = o
    BY DEF Looked
  <2>4. CASE \E k \in Envelope : ListIncidents(k)
    <3>1. PICK k \in Envelope : ListIncidents(k)
      BY <2>4
    <3>2. CASE k = KindOf[o]
      <4>1. det[k].on = o /\ det'[k] = DetIdle
        BY <2>1, <2>2, <2>3, <3>1, <3>2 DEF ListIncidents, Goto, DetIdle, Detecting
      <4>. QED  BY <2>3, <3>2, <4>1 DEF DetIdle
    <3>3. CASE k # KindOf[o]
      BY <2>1, <2>2, <2>3, <3>1, <3>3 DEF ListIncidents, Goto, Looked
    <3>. QED  BY <3>2, <3>3
  <2>5. CASE \E x \in Objects : Inspect(x)
    BY <2>1, <2>2, <2>3, <2>5, KindAssumption DEF Inspect, Goto, Looked
  <2>6. CASE \E k \in Envelope : CreateIncident(k) \/ MarkDetected(k) \/ MarkRefused(k) \/ DetectorFails(k)
    BY <2>1, <2>2, <2>3, <2>6
       DEF CreateIncident, MarkDetected, MarkRefused, DetectorFails, RequeueObject, Goto,
           DetIdle, Looked, Detecting
  <2>7. CASE Restart
    BY <2>2, <2>3, <2>7 DEF Restart, DetIdle
  <2>8. CASE UNCHANGED det
    BY <2>1, <2>8 DEF Looked
  <2>9. \/ UNCHANGED det
        \/ Restart
        \/ \E x \in Objects : Inspect(x)
        \/ \E k \in Envelope : Detector(k) \/ DetectorFails(k)
    BY <1>2 DEF Next, Step, Users, Failures, PolicyGoroutine, WritePolicy, DeletePolicy,
                ChangeObject, DeleteIncident, SyncPolicy, SyncObject, SyncIncident,
                ReconcilePolicy, Publish, WriteStatus, StatusRefused, StatusFails
  <2>. QED  BY <2>4, <2>5, <2>6, <2>7, <2>8, <2>9 DEF Detector
<1>. QED  BY <1>1, <1>2

LEMMA ShownStep ==
    ASSUME TypeOK, SettledInv, [Next]_vars, NEW o \in settled
    PROVE  Raised(o)' \subseteq Raised(o)
<1>1. ~Looked(o) /\ o \in Objects
  BY DEF SettledInv, TypeOK
<1>2. ASSUME NEW k \in Envelope, CreateIncident(k) PROVE Raised(o)' \subseteq Raised(o)
  <2>1. det[k].on # o
    BY <1>1, <1>2 DEF CreateIncident, TypeOK, Works, Looked
  <2>. QED  BY <1>2, <2>1 DEF CreateIncident, Raised
<1>3. CASE \E k \in Envelope : CreateIncident(k)
  BY <1>2, <1>3
<1>4. CASE incs' \subseteq incs
  BY <1>4 DEF Raised
<1>5. incs' \subseteq incs \/ \E k \in Envelope : CreateIncident(k)
  BY DEF Next, Step, vars, Users, Failures, PolicyGoroutine, Detector, WritePolicy,
         DeletePolicy, ChangeObject, DeleteIncident, SyncPolicy, SyncObject, SyncIncident,
         ReconcilePolicy, Publish, WriteStatus, StatusRefused, StatusFails, Inspect,
         ListIncidents, MarkDetected, MarkRefused, DetectorFails, RequeueObject, Restart,
         policyVars, incidentVars
<1>. QED  BY <1>3, <1>4, <1>5

\* Once a detector that was yet to look could have seen an incident of an object,
\* the object gets no other one (createIncident).
THEOREM OneIncident == Spec => OneOnceShown
<1>1. Init => SettledInv
  BY DEF Init, SettledInv
<1>2. TypeOK /\ SettledInv /\ [Next]_vars
        => [\A o \in settled : Raised(o)' \subseteq Raised(o)]_vars
  BY ShownStep
<1>. QED  BY <1>1, <1>2, TypeInit, TypeStep, SettledStep, PTL DEF Spec, OneOnceShown
=============================================================================
