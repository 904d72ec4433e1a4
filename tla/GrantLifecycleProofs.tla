------------------------ MODULE GrantLifecycleProofs ------------------------
(***************************************************************************)
(* Proofs about GrantLifecycle, for every number of incidents and roles,   *)
(* every policy and every bound: its types, what it never does, that the   *)
(* first incident of a name keeps what it was promised, and that           *)
(* GrantLifecycle implements IncidentPermission.                           *)
(***************************************************************************)
EXTENDS GrantRefinement, TLAPS

\* A copy o is an earlier version of what is stored, v: it is not of a later
\* life, and a finalizer it carries is still there while its object is.
Past(o, v) ==
    /\ o.life <= v.life
    /\ o.life = v.life /\ o.fin /\ v.there => v.fin

\* A fresh copy is the stored incident; every copy is of the past.
CacheInv ==
    \A i \in Incidents :
        /\ cache[i].fresh => cache[i].obj = inc[i]
        /\ Past(cache[i].obj, inc[i])

\* The same for the reconciler's copy, and what its program counter says of it.
RecInv ==
    rec.pc # "idle" =>
        /\ rec.fresh => rec.obj = inc[rec.key]
        /\ Past(rec.obj, inc[rec.key])
        /\ rec.pc \in {"policy", "grant"} => rec.obj.fin
        /\ rec.pc \in {"addFin", "policy", "grant", "escalate"} =>
              rec.obj.there /\ rec.obj.phase \in Undispatched

\* A detector about to write Detected has an incident nobody touched.
RaisingInv == \A i \in raising : inc[i].there /\ inc[i].phase \in Undispatched

\* Bindings are made for lives that have begun.
MadeForInv == \A b \in bound : madeFor[b] <= inc[b[1]].life

FinalizerInv ==
    /\ CacheInv
    /\ RecInv
    /\ RaisingInv
    /\ MadeForInv
    /\ LiveGrantHasFinalizer

IInv == TypeOK /\ FinalizerInv

-----------------------------------------------------------------------------
(* Types *)

\* An incident nobody created is an Incident.
LEMMA AbsentType == ASSUME NEW n \in Nat PROVE Absent(n) \in Incident
BY DEF Absent, Incident, Phases

\* The fields that the code writes keep an incident an Incident.
LEMMA IncidentExcept ==
    ASSUME NEW o \in Incident
    PROVE  /\ [o EXCEPT !.fin = TRUE] \in Incident
           /\ [o EXCEPT !.dying = TRUE] \in Incident
           /\ \A p \in Phases : [o EXCEPT !.phase = p] \in Incident
BY DEF Incident

\* The named groups of phases are groups of phases.
LEMMA PhaseNames ==
    /\ Terminal \subseteq Phases
    /\ Outcomes \subseteq Phases
    /\ Undispatched \subseteq Phases
    /\ InScoutsHands \subseteq Phases
BY OutcomeAssumption DEF Terminal, Phases, Undispatched, InScoutsHands

\* A reconciler between two keys has its type.
LEMMA IdleType == Idle \in Reconciler /\ Idle.pc = "idle"
<1>1. Absent(0) \in Incident
  BY AbsentType
<1>. QED  BY <1>1 DEF Idle, Reconciler

\* So has a sweeper between two sweeps.
LEMMA WaitingType == Waiting \in Sweeper
BY DEF Waiting, Sweeper

\* What Outdate leaves of the copies still has its type.
LEMMA OutdateType ==
    ASSUME TypeOK, NEW i \in Incidents, Outdate(i)
    PROVE  /\ cache' \in [Incidents -> [obj: Incident, fresh: BOOLEAN]]
           /\ raising' \subseteq Incidents
           /\ rec' \in Reconciler
           /\ rec'.pc # "idle" => rec'.key \in Incidents
BY DEF TypeOK, Outdate, Reconciler

\* Whatever somebody else stores, the types of what the write touches survive.
LEMMA StoreType ==
    ASSUME TypeOK, NEW i \in Incidents, NEW o \in Incident, Store(i, o)
    PROVE  /\ inc' \in [Incidents -> Incident]
           /\ cache' \in [Incidents -> [obj: Incident, fresh: BOOLEAN]]
           /\ raising' \subseteq Incidents
           /\ rec' \in Reconciler
           /\ rec'.pc # "idle" => rec'.key \in Incidents
           /\ closed' \in [Incidents -> BOOLEAN]
           /\ promised' \in [Incidents -> SUBSET Roles]
           /\ madeFor' \in [Bindings -> Nat]
<1>1. o.there \in BOOLEAN
  BY DEF Incident
<1>2. closed' \in [Incidents -> BOOLEAN]
  BY <1>1 DEF TypeOK, Store
<1>3. /\ inc' \in [Incidents -> Incident]
      /\ promised' \in [Incidents -> SUBSET Roles]
      /\ madeFor' \in [Bindings -> Nat]
  BY DEF TypeOK, Store
<1>. QED  BY <1>2, <1>3, OutdateType DEF Store

\* The same for a patch of the phase.
LEMMA PatchType ==
    ASSUME TypeOK, NEW i \in Incidents, NEW p \in Phases, Patch(i, p)
    PROVE  /\ inc' \in [Incidents -> Incident]
           /\ cache' \in [Incidents -> [obj: Incident, fresh: BOOLEAN]]
           /\ raising' \subseteq Incidents
           /\ rec' \in Reconciler
           /\ rec'.pc # "idle" => rec'.key \in Incidents
           /\ closed' \in [Incidents -> BOOLEAN]
           /\ promised' \in [Incidents -> SUBSET Roles]
           /\ madeFor' \in [Bindings -> Nat]
<1>1. CASE inc[i].phase = p
  BY <1>1 DEF Patch, TypeOK, history
<1>2. CASE inc[i].phase # p
  <2>1. [inc[i] EXCEPT !.phase = p] \in Incident
    BY IncidentExcept DEF TypeOK
  <2>2. Store(i, [inc[i] EXCEPT !.phase = p])
    BY <1>2 DEF Patch
  <2>. QED  BY <2>1, <2>2, StoreType
<1>. QED  BY <1>1, <1>2

\* And for a write of the reconciler.
LEMMA SavedType ==
    ASSUME TypeOK, rec.pc # "idle", NEW o \in Incident,
           NEW pc \in {"idle", "policy"}, Saved(o, pc)
    PROVE  /\ inc' \in [Incidents -> Incident]
           /\ cache' \in [Incidents -> [obj: Incident, fresh: BOOLEAN]]
           /\ raising' \subseteq Incidents
           /\ rec' \in Reconciler
           /\ rec'.pc # "idle" => rec'.key \in Incidents
           /\ closed' \in [Incidents -> BOOLEAN]
           /\ UNCHANGED <<bound, rbCache, queue, sweep, mail, open, mishaps, madeFor>>
<1>1. o.there \in BOOLEAN
  BY DEF Incident
<1>2. closed' \in [Incidents -> BOOLEAN]
  BY <1>1 DEF TypeOK, Saved
<1>3. rec' \in Reconciler /\ (rec'.pc # "idle" => rec'.key \in Incidents)
  BY IdleType DEF TypeOK, Saved, Reconciler
<1>4. inc' \in [Incidents -> Incident]
  BY DEF TypeOK, Saved
<1>5. cache' \in [Incidents -> [obj: Incident, fresh: BOOLEAN]]
  BY DEF TypeOK, Saved
<1>6. raising' \subseteq Incidents
  BY DEF TypeOK, Saved
<1>7. UNCHANGED <<bound, rbCache, queue, sweep, mail, open, mishaps, madeFor>>
  BY DEF Saved, scout
<1>. QED  BY <1>2, <1>3, <1>4, <1>5, <1>6, <1>7

\* The initial states have their types.
LEMMA TypeInit == Init => TypeOK
<1>1. Absent(0) \in Incident
  BY AbsentType
<1>. QED  BY <1>1, IdleType, WaitingType, BoundAssumption DEF Init, TypeOK

\* And every step keeps them.
LEMMA TypeStep == TypeOK /\ [Next]_vars => TypeOK'
<1>. SUFFICES ASSUME TypeOK, [Next]_vars PROVE TypeOK'
  OBVIOUS
<1>. USE DEF server, informer, scout, history
<1>1. CASE UNCHANGED vars
  BY <1>1 DEF vars, TypeOK
<1>2. ASSUME NEW i \in Incidents, Reconcile(i) PROVE TypeOK'
  <2>1. cache[i].obj \in Incident /\ cache[i].fresh \in BOOLEAN
    BY DEF TypeOK
  <2>2. rec' \in Reconciler /\ (rec'.pc # "idle" => rec'.key \in Incidents)
    BY <1>2, <2>1, IdleType DEF Reconcile, TypeOK, Reconciler
  <2>. QED  BY <1>2, <2>2 DEF Reconcile, TypeOK
<1>3. CASE AddFinalizer
  <2>1. [rec.obj EXCEPT !.fin = TRUE] \in Incident
    BY IncidentExcept DEF TypeOK, Reconciler
  <2>. QED  BY <1>3, <2>1, SavedType DEF AddFinalizer, TypeOK
<1>4. CASE PolicyFor
  BY <1>4 DEF PolicyFor, TypeOK, Reconciler
<1>5. CASE GrantRole
  <2>1. rec.k \in 1..Len(rec.pol) /\ rec.pol \in Seq(Roles)
    BY <1>5, PolicyAssumption DEF GrantRole, TypeOK, Reconciler
  <2>2. <<rec.key, rec.pol[rec.k]>> \in Bindings
    BY <1>5, <2>1 DEF GrantRole, TypeOK, Bindings
  <2>3. rec' \in Reconciler /\ rec'.pc = rec.pc /\ rec'.key = rec.key
    <3>1. rec' = [rec EXCEPT !.k = rec.k + 1]
      BY <1>5 DEF GrantRole
    <3>2. rec \in Reconciler /\ rec.k + 1 \in Nat \ {0}
      BY DEF TypeOK, Reconciler
    <3>. QED  BY <3>1, <3>2 DEF Reconciler
  <2>4. bound' \subseteq Bindings
    BY <1>5, <2>2 DEF GrantRole, TypeOK
  <2>5. madeFor' \in [Bindings -> Nat]
    <3>1. rec.obj.life \in Nat
      BY DEF TypeOK, Reconciler, Incident
    <3>. QED  BY <1>5, <3>1 DEF GrantRole, TypeOK
  <2>. QED  BY <1>5, <2>3, <2>4, <2>5 DEF GrantRole, TypeOK
<1>6. CASE GrantRefused
  BY <1>6 DEF GrantRefused, Goto, TypeOK, Reconciler
<1>7. CASE Queue
  <2>1. [rec.obj EXCEPT !.phase = "Queued"] \in Incident
    BY IncidentExcept DEF TypeOK, Reconciler, Phases
  <2>2. {rec.pol[n] : n \in 1..Len(rec.pol)} \subseteq Roles
    BY PolicyAssumption DEF TypeOK, Reconciler
  <2>3. promised' \in [Incidents -> SUBSET Roles]
    BY <1>7, <2>2 DEF Queue, TypeOK
  <2>. QED  BY <1>7, <2>1, <2>3, SavedType DEF Queue, TypeOK
<1>8. CASE Escalate
  <2>1. [rec.obj EXCEPT !.phase = "Escalated"] \in Incident
    BY IncidentExcept DEF TypeOK, Reconciler, Phases
  <2>. QED  BY <1>8, <2>1, SavedType DEF Escalate, TypeOK
<1>9. CASE StatusConflict
  BY <1>9, IdleType DEF StatusConflict, Done, TypeOK
<1>10. CASE UpdateRefused
  BY <1>10, IdleType DEF UpdateRefused, HandingOff, Requeue, Done, TypeOK
<1>11. CASE ListGrants
  <2>1. rec' \in Reconciler /\ rec'.pc # "idle" /\ rec'.key = rec.key /\ rec.key \in Incidents
    BY <1>11 DEF ListGrants, TypeOK, Reconciler
  <2>. QED  BY <1>11, <2>1 DEF ListGrants, TypeOK
<1>12. CASE RevokeGrant
  <2>1. rec' \in Reconciler /\ rec'.pc # "idle" /\ rec'.key = rec.key /\ rec.key \in Incidents
    <3>1. rec \in Reconciler /\ rec.key \in Incidents /\ rec.pc = "revoke"
      BY <1>12 DEF RevokeGrant, TypeOK
    <3>2. PICK b \in rec.drop : rec' = [rec EXCEPT !.drop = @ \ {b}]
      BY <1>12 DEF RevokeGrant
    <3>. QED  BY <3>1, <3>2 DEF Reconciler
  <2>2. bound' \subseteq Bindings
    BY <1>12 DEF RevokeGrant, TypeOK
  <2>. QED  BY <1>12, <2>1, <2>2 DEF RevokeGrant, TypeOK
<1>13. CASE Revoked
  <2>1. rec' \in Reconciler /\ (rec'.pc # "idle" => rec'.key \in Incidents)
    <3>1. rec \in Reconciler /\ (rec.pc # "idle" => rec.key \in Incidents) /\ rec.pc = "revoke"
      BY <1>13 DEF Revoked, TypeOK
    <3>2. CASE Done
      BY <3>2, IdleType DEF Done
    <3>3. CASE Goto("dropFin")
      BY <3>1, <3>3 DEF Goto, Reconciler
    <3>. QED  BY <1>13, <3>2, <3>3 DEF Revoked
  <2>. QED  BY <1>13, <2>1 DEF Revoked, TypeOK
<1>14. CASE RemoveFinalizer
  <2>1. Absent(rec.obj.life) \in Incident
    BY AbsentType DEF TypeOK, Reconciler, Incident
  <2>2. promised' \in [Incidents -> SUBSET Roles]
    BY <1>14 DEF RemoveFinalizer, TypeOK
  <2>. QED  BY <1>14, <2>1, <2>2, SavedType DEF RemoveFinalizer, TypeOK
<1>15. CASE SweeperStep
  <2>1. sweep' \in Sweeper
    <3>1. CASE SweepList
      BY <3>1 DEF SweepList, TypeOK, Sweeper
    <3>2. CASE SweepLook
      <4>1. PICK b \in sweep.todo :
               sweep' = [sweep EXCEPT !.todo = @ \ {b},
                            !.doomed = IF ~cache[b[1]].obj.there \/ isTerminal(cache[b[1]].obj)
                                       THEN {b} ELSE {}]
        BY <3>2 DEF SweepLook
      <4>2. sweep \in Sweeper /\ b \in Bindings
        BY <4>1 DEF TypeOK, Sweeper
      <4>. QED  BY <4>1, <4>2 DEF Sweeper
    <3>3. CASE SweepDelete
      BY <3>3 DEF SweepDelete, TypeOK, Sweeper
    <3>4. CASE SweepEnds
      BY <3>4, WaitingType DEF SweepEnds
    <3>. QED  BY <1>15, <3>1, <3>2, <3>3, <3>4 DEF SweeperStep
  <2>2. /\ bound' \subseteq bound
        /\ UNCHANGED <<inc, cache, rbCache, queue, raising, rec, mail, open, mishaps,
                       madeFor, promised, closed>>
    BY <1>15 DEF SweeperStep, SweepList, SweepLook, SweepDelete, SweepEnds
  <2>. QED  BY <2>1, <2>2 DEF TypeOK
<1>16. CASE CallFails
  <2>1. mishaps' \in 0..MaxMishaps
    BY <1>16, BoundAssumption DEF CallFails, TypeOK
  <2>2. rec' \in Reconciler /\ (rec'.pc # "idle" => rec'.key \in Incidents)
    BY <1>16, IdleType DEF CallFails, Requeue, Done, Goto, TypeOK, Reconciler
  <2>. QED  BY <1>16, <2>1, <2>2 DEF CallFails, HandingOff, Requeue, TypeOK
<1>17. CASE SweepFails
  <2>1. mishaps' \in 0..MaxMishaps
    BY <1>17, BoundAssumption DEF SweepFails, TypeOK
  <2>. QED  BY <1>17, <2>1, WaitingType DEF SweepFails, TypeOK
<1>18. CASE OperatorRestarts
  <2>1. mishaps' \in 0..MaxMishaps
    BY <1>18, BoundAssumption DEF OperatorRestarts, TypeOK
  <2>. QED  BY <1>18, <2>1, IdleType, WaitingType DEF OperatorRestarts, TypeOK
<1>19. CASE SyncBindings
  BY <1>19 DEF SyncBindings, TypeOK
<1>20. CASE ScoutRestarts
  BY <1>20 DEF ScoutRestarts, TypeOK
<1>21. ASSUME NEW i \in Incidents, SyncIncident(i) PROVE TypeOK'
  BY <1>21 DEF SyncIncident, TypeOK
<1>22. ASSUME NEW i \in Incidents, RaiseIncident(i) PROVE TypeOK'
  <2>1. Created(inc[i].life + 1) \in Incident
    <3>1. inc[i].life + 1 \in Nat
      BY DEF TypeOK, Incident
    <3>2. Absent(inc[i].life + 1) \in Incident
      BY <3>1, AbsentType
    <3>. QED  BY <3>2 DEF Created, Incident
  <2>2. rec' \in Reconciler /\ (rec'.pc # "idle" => rec'.key \in Incidents)
    BY <1>22 DEF RaiseIncident, TypeOK, Reconciler
  <2>. QED  BY <1>22, <2>1, <2>2 DEF RaiseIncident, TypeOK
<1>23. ASSUME NEW i \in Incidents, MarkDetected(i) PROVE TypeOK'
  <2>1. [inc[i] EXCEPT !.phase = "Detected"] \in Incident
    BY IncidentExcept DEF TypeOK, Phases
  <2>. QED  BY <1>23, <2>1, StoreType DEF MarkDetected, TypeOK
<1>24. ASSUME NEW i \in Incidents, ScoutSees(i) PROVE TypeOK'
  BY <1>24 DEF ScoutSees, TypeOK
<1>25. ASSUME NEW i \in Incidents, ScoutAdmits(i) PROVE TypeOK'
  <2>1. CASE i \notin open /\ inc[i].there
    BY <1>25, <2>1, PatchType DEF ScoutAdmits, TypeOK, Phases
  <2>2. CASE ~(i \notin open /\ inc[i].there)
    BY <1>25, <2>2 DEF ScoutAdmits, TypeOK
  <2>. QED  BY <2>1, <2>2
<1>26. ASSUME NEW i \in Incidents, ScoutAwaits(i) PROVE TypeOK'
  <2>1. mishaps' \in 0..MaxMishaps
    BY <1>26, BoundAssumption DEF ScoutAwaits, Turn, TypeOK
  <2>. QED  BY <1>26, <2>1, PatchType DEF ScoutAwaits, TypeOK, Phases
<1>27. ASSUME NEW i \in Incidents, ScoutCloses(i) PROVE TypeOK'
  <2>1. mishaps' \in 0..MaxMishaps
    BY <1>27, BoundAssumption DEF ScoutCloses, Turn, TypeOK
  <2>2. PICK p \in Outcomes : Patch(i, p)
    BY <1>27 DEF ScoutCloses
  <2>. QED  BY <1>27, <2>1, <2>2, PatchType, PhaseNames DEF ScoutCloses, TypeOK
<1>28. ASSUME NEW i \in Incidents, ModelCloses(i) PROVE TypeOK'
  <2>1. mishaps' \in 0..MaxMishaps
    BY <1>28, BoundAssumption DEF ModelCloses, Turn, TypeOK
  <2>2. PICK p \in Outcomes : Patch(i, p)
    BY <1>28 DEF ModelCloses
  <2>. QED  BY <1>28, <2>1, <2>2, PatchType, PhaseNames DEF ModelCloses, TypeOK
<1>29. ASSUME NEW i \in Incidents, ScoutReaps(i) PROVE TypeOK'
  BY <1>29 DEF ScoutReaps, TypeOK
<1>30. ASSUME NEW i \in Incidents, DeleteIncident(i) PROVE TypeOK'
  <2>1. inc[i] \in Incident /\ inc[i].life \in Nat
    BY DEF TypeOK, Incident
  <2>2. Absent(inc[i].life) \in Incident /\ [inc[i] EXCEPT !.dying = TRUE] \in Incident
    BY <2>1, AbsentType, IncidentExcept
  <2>3. PICK o \in Incident : Store(i, o)
    BY <1>30, <2>2 DEF DeleteIncident
  <2>4. UNCHANGED <<bound, rbCache, queue, sweep, mail, open, mishaps>>
    BY <1>30 DEF DeleteIncident
  <2>. QED  BY <2>3, <2>4, StoreType DEF TypeOK
<1>31. ASSUME NEW i \in Incidents, ForceDelete(i) PROVE TypeOK'
  <2>1. Absent(inc[i].life) \in Incident
    BY AbsentType DEF TypeOK, Incident
  <2>2. mishaps' \in 0..MaxMishaps
    BY <1>31, BoundAssumption DEF ForceDelete, TypeOK
  <2>. QED  BY <1>31, <2>1, <2>2, StoreType DEF ForceDelete, TypeOK
<1>. QED
  BY <1>1, <1>2, <1>3, <1>4, <1>5, <1>6, <1>7, <1>8, <1>9, <1>10, <1>11, <1>12,
     <1>13, <1>14, <1>15, <1>16, <1>17, <1>18, <1>19, <1>20, <1>21, <1>22, <1>23,
     <1>24, <1>25, <1>26, <1>27, <1>28, <1>29, <1>30, <1>31
     DEF Next, ReconcilerStep

\* Every variable keeps its type, whatever the constants.
THEOREM TypeCorrect == Spec => []TypeOK
BY TypeInit, TypeStep, PTL DEF Spec

-----------------------------------------------------------------------------
(* The finalizer, and the writes of the operator *)

\* A write by anyone but the reconciler that keeps the object's life and, while
\* the object stays, its finalizer.
LEMMA StoreInv ==
    ASSUME IInv, NEW i \in Incidents, NEW o \in Incident, Store(i, o),
           UNCHANGED bound,
           o.life = inc[i].life,
           o.there => inc[i].there /\ o.fin = inc[i].fin
    PROVE  FinalizerInv'
<1>. USE DEF IInv, FinalizerInv
<1>1. /\ inc' = [inc EXCEPT ![i] = o]
      /\ inc'[i] = o
      /\ \A j \in Incidents \ {i} : inc'[j] = inc[j]
      /\ madeFor' = madeFor
  BY DEF Store, TypeOK
<1>2. /\ cache'[i].fresh = FALSE /\ cache'[i].obj = cache[i].obj
      /\ \A j \in Incidents \ {i} : cache'[j] = cache[j]
      /\ raising' = raising \ {i}
  BY DEF Store, Outdate, TypeOK
<1>3. /\ rec'.pc = rec.pc /\ rec'.key = rec.key /\ rec'.obj = rec.obj
      /\ rec.key = i => rec'.fresh = FALSE
      /\ rec.key # i => rec'.fresh = rec.fresh
  BY DEF Store, Outdate, TypeOK, Reconciler
<1>4. \A c \in Incident, j \in Incidents : Past(c, inc[j]) => Past(c, inc'[j])
  BY <1>1 DEF Past, Incident, TypeOK
<1>5. CacheInv'
  <2>. SUFFICES ASSUME NEW j \in Incidents
                PROVE  /\ cache'[j].fresh => cache'[j].obj = inc'[j]
                       /\ Past(cache'[j].obj, inc'[j])
    BY DEF CacheInv
  <2>1. cache'[j].obj = cache[j].obj /\ cache[j].obj \in Incident
    BY <1>2 DEF TypeOK
  <2>2. Past(cache[j].obj, inc'[j])
    BY <1>4, <2>1 DEF CacheInv
  <2>. QED  BY <1>1, <1>2, <2>1, <2>2 DEF CacheInv, Past
<1>6. RecInv'
  <2>. SUFFICES ASSUME rec.pc # "idle"
                PROVE  /\ rec'.fresh => rec'.obj = inc'[rec'.key]
                       /\ Past(rec.obj, inc'[rec.key])
                       /\ rec.pc \in {"policy", "grant"} => rec.obj.fin
                       /\ rec.pc \in {"addFin", "policy", "grant", "escalate"} =>
                             rec.obj.there /\ rec.obj.phase \in Undispatched
    BY <1>3 DEF RecInv, Past
  <2>1. rec.key \in Incidents /\ rec.obj \in Incident
    BY DEF TypeOK, Reconciler
  <2>. QED  BY <1>1, <1>3, <1>4, <2>1 DEF RecInv
<1>7. RaisingInv'
  BY <1>1, <1>2 DEF RaisingInv, TypeOK
<1>8. \A b \in bound : b[1] \in Incidents
  BY DEF TypeOK, Bindings
<1>9. MadeForInv'
  BY <1>1, <1>8 DEF MadeForInv
<1>10. LiveGrantHasFinalizer'
  BY <1>1, <1>8 DEF LiveGrantHasFinalizer
<1>. QED  BY <1>5, <1>6, <1>7, <1>9, <1>10

\* A successful write of the reconciler that keeps the life and never takes
\* the finalizer off an object that stays.
LEMMA SavedInv ==
    ASSUME IInv, rec.pc # "idle", NEW o \in Incident,
           NEW pc \in {"idle", "policy"}, Saved(o, pc),
           o.life = rec.obj.life,
           o.there => rec.obj.there /\ (rec.obj.fin => o.fin),
           pc = "policy" => o.there /\ o.fin /\ o.phase \in Undispatched
    PROVE  FinalizerInv'
<1>. USE DEF IInv, FinalizerInv
<1>. DEFINE i == rec.key
<1>1. i \in Incidents /\ rec.obj = inc[i]
  BY DEF Saved, RecInv, TypeOK
<1>2. /\ inc'[i] = o
      /\ \A j \in Incidents \ {i} : inc'[j] = inc[j]
      /\ madeFor' = madeFor /\ bound' = bound
  BY <1>1 DEF Saved, TypeOK
<1>3. /\ cache'[i].fresh = FALSE /\ cache'[i].obj = cache[i].obj
      /\ \A j \in Incidents \ {i} : cache'[j] = cache[j]
      /\ raising' = raising \ {i}
  BY <1>1 DEF Saved, TypeOK
<1>4. \A c \in Incident, j \in Incidents : Past(c, inc[j]) => Past(c, inc'[j])
  BY <1>1, <1>2 DEF Past, Incident, TypeOK
<1>5. CacheInv'
  <2>. SUFFICES ASSUME NEW j \in Incidents
                PROVE  /\ cache'[j].fresh => cache'[j].obj = inc'[j]
                       /\ Past(cache'[j].obj, inc'[j])
    BY DEF CacheInv
  <2>1. cache'[j].obj = cache[j].obj /\ cache[j].obj \in Incident
    BY <1>3 DEF TypeOK
  <2>2. Past(cache[j].obj, inc'[j])
    BY <1>4, <2>1 DEF CacheInv
  <2>. QED  BY <1>2, <1>3, <2>1, <2>2 DEF CacheInv, Past
<1>6. RecInv'
  <2>1. CASE pc = "idle"
    BY <2>1, IdleType DEF Saved, RecInv
  <2>2. CASE pc = "policy"
    <3>1. rec'.pc = "policy" /\ rec'.key = i /\ rec'.obj = o
      BY <2>2 DEF Saved, TypeOK, Reconciler
    <3>2. Past(o, inc'[i])
      BY <1>2 DEF Past, Incident
    <3>. QED  BY <1>2, <2>2, <3>1, <3>2 DEF RecInv, Past
  <2>. QED  BY <2>1, <2>2
<1>7. RaisingInv'
  BY <1>2, <1>3 DEF RaisingInv, TypeOK
<1>8. \A b \in bound : b[1] \in Incidents
  BY DEF TypeOK, Bindings
<1>9. MadeForInv'
  BY <1>1, <1>2, <1>8 DEF MadeForInv
<1>10. LiveGrantHasFinalizer'
  BY <1>1, <1>2, <1>8 DEF LiveGrantHasFinalizer
<1>. QED  BY <1>5, <1>6, <1>7, <1>9, <1>10

\* Nothing happens to the incidents or to the reconciler's copy of one.
LEMMA QuietInv ==
    ASSUME IInv, UNCHANGED <<inc, cache, raising, madeFor>>, bound' \subseteq bound,
           \/ rec'.pc = "idle"
           \/ /\ UNCHANGED <<rec.key, rec.obj, rec.fresh>> /\ rec.pc # "idle"
              /\ rec'.pc \in {"policy", "grant"} => rec.pc \in {"policy", "grant"}
              /\ rec'.pc \in {"addFin", "policy", "grant", "escalate"} =>
                    rec.pc \in {"addFin", "policy", "grant", "escalate"}
    PROVE  FinalizerInv'
BY DEF IInv, FinalizerInv, CacheInv, RecInv, RaisingInv, MadeForInv,
       LiveGrantHasFinalizer, Past

\* A patch of the phase, which the scout writes, keeps the finalizer argument.
LEMMA PatchInv ==
    ASSUME IInv, NEW i \in Incidents, inc[i].there, NEW p \in Phases, Patch(i, p),
           UNCHANGED bound
    PROVE  FinalizerInv'
<1>1. CASE inc[i].phase = p
  BY <1>1, QuietInv DEF Patch, history, IInv, FinalizerInv, CacheInv, RecInv,
     RaisingInv, MadeForInv, LiveGrantHasFinalizer
<1>2. CASE inc[i].phase # p
  <2>. DEFINE o == [inc[i] EXCEPT !.phase = p]
  <2>1. inc[i] \in Incident
    BY DEF IInv, TypeOK
  <2>2. o \in Incident /\ o.life = inc[i].life /\ o.there = inc[i].there /\ o.fin = inc[i].fin
    BY <2>1, IncidentExcept DEF Incident
  <2>3. Store(i, o)
    BY <1>2 DEF Patch
  <2>. QED  BY <2>2, <2>3, StoreInv
<1>. QED  BY <1>1, <1>2

\* Nobody touches what the finalizer argument is about.
LEMMA FrameInv ==
    ASSUME IInv, UNCHANGED <<inc, bound, cache, raising, rec, madeFor>>
    PROVE  FinalizerInv'
BY DEF IInv, FinalizerInv, CacheInv, RecInv, RaisingInv, MadeForInv, LiveGrantHasFinalizer

\* Nothing is bound, and nobody holds a copy, at the start.
LEMMA FinalizerInit == Init => FinalizerInv
<1>. SUFFICES ASSUME Init PROVE FinalizerInv
  OBVIOUS
<1>1. Past(Absent(0), Absent(0))
  BY DEF Past, Absent
<1>2. CacheInv
  BY <1>1 DEF Init, CacheInv
<1>3. RecInv
  BY IdleType DEF Init, RecInv
<1>. QED  BY <1>2, <1>3 DEF Init, FinalizerInv, RaisingInv, MadeForInv, LiveGrantHasFinalizer

\* Every step keeps the finalizer argument.
LEMMA FinalizerStep == IInv /\ [Next]_vars => FinalizerInv'
<1>. SUFFICES ASSUME IInv, [Next]_vars PROVE FinalizerInv'
  OBVIOUS
<1>. USE DEF server, informer, scout, history
<1>0. TypeOK
  BY DEF IInv
<1>1. CASE UNCHANGED vars
  BY <1>1, FrameInv DEF vars
<1>2. ASSUME NEW i \in Incidents, Reconcile(i) PROVE FinalizerInv'
  <2>. DEFINE o == cache[i].obj
  <2>1. UNCHANGED <<inc, bound, cache, raising, madeFor>>
    BY <1>2 DEF Reconcile
  <2>2. CASE rec' = rec
    BY <2>1, <2>2, FrameInv
  <2>3. CASE rec' # rec
    <3>1. PICK pc \in {"addFin", "policy", "list"} :
            /\ rec' = [Idle EXCEPT !.pc = pc, !.key = i, !.obj = o, !.fresh = cache[i].fresh]
            /\ pc = "policy" => o.fin
            /\ pc \in {"addFin", "policy"} => o.there /\ o.phase \in Undispatched
      BY <1>2, <2>3 DEF Reconcile
    <3>2. /\ rec'.pc = pc /\ rec'.key = i /\ rec'.obj = o /\ rec'.fresh = cache[i].fresh
      BY <3>1 DEF Idle
    <3>3. RecInv'
      BY <2>1, <3>1, <3>2 DEF RecInv, IInv, FinalizerInv, CacheInv
    <3>. QED  BY <2>1, <3>3 DEF IInv, FinalizerInv, CacheInv, RaisingInv, MadeForInv,
                               LiveGrantHasFinalizer
  <2>. QED  BY <2>2, <2>3
<1>3. CASE AddFinalizer
  <2>. DEFINE o == [rec.obj EXCEPT !.fin = TRUE]
  <2>1. rec.obj \in Incident
    BY <1>0 DEF TypeOK, Reconciler
  <2>2. /\ o \in Incident /\ o.life = rec.obj.life /\ o.fin
        /\ o.there = rec.obj.there /\ o.phase = rec.obj.phase
    BY <2>1, IncidentExcept DEF Incident
  <2>3. rec.obj.there /\ rec.obj.phase \in Undispatched
    BY <1>3 DEF AddFinalizer, IInv, FinalizerInv, RecInv
  <2>. QED  BY <1>3, <2>2, <2>3, SavedInv DEF AddFinalizer
<1>4. CASE PolicyFor
  <2>1. rec.pc = "policy" /\ rec'.pc = "grant" /\ UNCHANGED <<rec.key, rec.obj, rec.fresh>>
    BY <1>0, <1>4 DEF PolicyFor, TypeOK, Reconciler
  <2>. QED  BY <1>4, <2>1, QuietInv DEF PolicyFor
<1>5. CASE GrantRole
  <2>. DEFINE b == <<rec.key, rec.pol[rec.k]>>
  <2>1. /\ rec.pc = "grant" /\ rec.key \in Incidents /\ rec.obj \in Incident
        /\ rec' = [rec EXCEPT !.k = @ + 1]
        /\ UNCHANGED <<inc, cache, raising>>
    BY <1>0, <1>5 DEF GrantRole, TypeOK, Reconciler
  <2>2. b \in Bindings
    <3>1. rec.k \in 1..Len(rec.pol) /\ rec.pol \in Seq(Roles)
      BY <1>0, <1>5, PolicyAssumption DEF GrantRole, TypeOK, Reconciler
    <3>. QED  BY <2>1, <3>1 DEF Bindings
  <2>3. UNCHANGED <<rec.pc, rec.key, rec.obj, rec.fresh>>
    BY <1>0, <2>1 DEF TypeOK, Reconciler
  <2>4. RecInv'
    BY <2>1, <2>3 DEF RecInv, IInv, FinalizerInv
  <2>5. Past(rec.obj, inc[rec.key]) /\ rec.obj.fin
    BY <2>1 DEF RecInv, IInv, FinalizerInv
  <2>6. /\ bound' = bound \cup {b}
        /\ b \notin bound => madeFor'[b] = rec.obj.life
        /\ \A c \in bound : madeFor'[c] = madeFor[c]
    BY <1>0, <1>5, <2>2 DEF GrantRole, TypeOK
  <2>7. MadeForInv'
    BY <2>1, <2>5, <2>6 DEF MadeForInv, IInv, FinalizerInv, Past
  <2>8. LiveGrantHasFinalizer'
    BY <2>1, <2>5, <2>6 DEF LiveGrantHasFinalizer, IInv, FinalizerInv, Past
  <2>. QED  BY <2>1, <2>4, <2>7, <2>8 DEF IInv, FinalizerInv, CacheInv, RaisingInv
<1>6. CASE GrantRefused
  <2>1. rec.pc = "grant" /\ rec'.pc = "escalate" /\ UNCHANGED <<rec.key, rec.obj, rec.fresh>>
    BY <1>0, <1>6 DEF GrantRefused, Goto, TypeOK, Reconciler
  <2>. QED  BY <1>6, <2>1, QuietInv DEF GrantRefused
<1>7. CASE Queue
  <2>. DEFINE o == [rec.obj EXCEPT !.phase = "Queued"]
  <2>1. rec.obj \in Incident
    BY <1>0 DEF TypeOK, Reconciler
  <2>2. o \in Incident
    BY <2>1, IncidentExcept DEF Phases
  <2>3. o.life = rec.obj.life /\ o.there = rec.obj.there /\ o.fin = rec.obj.fin
    BY <2>1 DEF Incident
  <2>. QED  BY <1>7, <2>2, <2>3, SavedInv DEF Queue
<1>8. CASE Escalate
  <2>. DEFINE o == [rec.obj EXCEPT !.phase = "Escalated"]
  <2>1. rec.obj \in Incident
    BY <1>0 DEF TypeOK, Reconciler
  <2>2. o \in Incident
    BY <2>1, IncidentExcept DEF Phases
  <2>3. o.life = rec.obj.life /\ o.there = rec.obj.there /\ o.fin = rec.obj.fin
    BY <2>1 DEF Incident
  <2>. QED  BY <1>8, <2>2, <2>3, SavedInv DEF Escalate
<1>9. CASE StatusConflict
  BY <1>9, IdleType, QuietInv DEF StatusConflict, Done
<1>10. CASE UpdateRefused
  BY <1>10, IdleType, QuietInv DEF UpdateRefused, Requeue, Done
<1>11. CASE ListGrants
  <2>1. rec.pc = "list" /\ rec'.pc = "revoke" /\ UNCHANGED <<rec.key, rec.obj, rec.fresh>>
    BY <1>0, <1>11 DEF ListGrants, TypeOK, Reconciler
  <2>. QED  BY <1>11, <2>1, QuietInv DEF ListGrants
<1>12. CASE RevokeGrant
  <2>1. rec.pc = "revoke" /\ UNCHANGED <<rec.pc, rec.key, rec.obj, rec.fresh>>
    BY <1>0, <1>12 DEF RevokeGrant, TypeOK, Reconciler
  <2>. QED  BY <1>12, <2>1, QuietInv DEF RevokeGrant
<1>13. CASE Revoked
  <2>1. \/ rec'.pc = "idle"
        \/ rec.pc = "revoke" /\ rec'.pc = "dropFin" /\ UNCHANGED <<rec.key, rec.obj, rec.fresh>>
    BY <1>0, <1>13, IdleType DEF Revoked, Goto, Done, TypeOK, Reconciler
  <2>. QED  BY <1>13, <2>1, QuietInv DEF Revoked
<1>14. CASE RemoveFinalizer
  <2>1. rec.obj.life \in Nat
    BY <1>0 DEF TypeOK, Reconciler, Incident
  <2>2. /\ Absent(rec.obj.life) \in Incident /\ Absent(rec.obj.life).life = rec.obj.life
        /\ ~Absent(rec.obj.life).there
    BY <2>1, AbsentType DEF Absent
  <2>. QED  BY <1>14, <2>2, SavedInv DEF RemoveFinalizer
<1>15. CASE SweeperStep
  <2>1. bound' \subseteq bound /\ UNCHANGED <<inc, cache, raising, rec, madeFor>>
    BY <1>15 DEF SweeperStep, SweepList, SweepLook, SweepDelete, SweepEnds
  <2>. QED  BY <2>1, QuietInv
<1>16. CASE CallFails
  <2>1. CASE rec' = Idle
    BY <1>16, <2>1, IdleType, QuietInv DEF CallFails, Requeue
  <2>2. CASE rec' # Idle
    <3>1. /\ rec.pc = "grant" /\ rec'.pc = "escalate"
          /\ UNCHANGED <<rec.key, rec.obj, rec.fresh>>
          /\ UNCHANGED <<inc, bound, cache, raising, madeFor>>
      BY <1>0, <1>16, <2>2 DEF CallFails, Requeue, Done, Goto, TypeOK, Reconciler
    <3>. QED  BY <3>1, QuietInv
  <2>. QED  BY <2>1, <2>2
<1>17. CASE SweepFails
  BY <1>17, FrameInv DEF SweepFails
<1>18. CASE OperatorRestarts
  <2>1. CacheInv'
    BY <1>0, <1>18 DEF OperatorRestarts, CacheInv, Past, TypeOK, Incident
  <2>2. RecInv' /\ RaisingInv'
    BY <1>18, IdleType DEF OperatorRestarts, RecInv, RaisingInv
  <2>. QED  BY <1>18, <2>1, <2>2 DEF OperatorRestarts, IInv, FinalizerInv, MadeForInv,
                                    LiveGrantHasFinalizer
<1>19. CASE SyncBindings
  BY <1>19, FrameInv DEF SyncBindings
<1>20. CASE ScoutRestarts
  BY <1>20, FrameInv DEF ScoutRestarts
<1>21. ASSUME NEW i \in Incidents, SyncIncident(i) PROVE FinalizerInv'
  <2>1. CacheInv'
    BY <1>0, <1>21 DEF SyncIncident, CacheInv, Past, TypeOK, Incident, IInv, FinalizerInv
  <2>. QED  BY <1>21, <2>1 DEF SyncIncident, IInv, FinalizerInv, RecInv, RaisingInv,
                              MadeForInv, LiveGrantHasFinalizer
<1>22. ASSUME NEW i \in Incidents, RaiseIncident(i) PROVE FinalizerInv'
  <2>. DEFINE o == Created(inc[i].life + 1)
  <2>1. inc[i].life \in Nat
    BY <1>0 DEF TypeOK, Incident
  <2>2. o.there /\ o.life = inc[i].life + 1 /\ ~o.fin /\ o.phase \in Undispatched
    BY DEF Created, Absent, Undispatched
  <2>3. /\ inc'[i] = o /\ \A j \in Incidents \ {i} : inc'[j] = inc[j]
        /\ madeFor' = madeFor /\ bound' = bound /\ raising' = raising \cup {i}
        /\ cache'[i].fresh = FALSE /\ cache'[i].obj = cache[i].obj
        /\ \A j \in Incidents \ {i} : cache'[j] = cache[j]
    BY <1>0, <1>22 DEF RaiseIncident, TypeOK
  <2>4. \A c \in Incident, j \in Incidents : Past(c, inc[j]) => Past(c, inc'[j])
    BY <2>1, <2>2, <2>3 DEF Past, Incident
  <2>5. CacheInv'
    <3>. SUFFICES ASSUME NEW j \in Incidents
                  PROVE  /\ cache'[j].fresh => cache'[j].obj = inc'[j]
                         /\ Past(cache'[j].obj, inc'[j])
      BY DEF CacheInv
    <3>1. cache[j].obj \in Incident /\ cache'[j].obj = cache[j].obj
      BY <1>0, <2>3 DEF TypeOK
    <3>2. Past(cache[j].obj, inc'[j])
      BY <2>4, <3>1 DEF CacheInv, IInv, FinalizerInv
    <3>. QED  BY <2>3, <3>1, <3>2 DEF CacheInv, IInv, FinalizerInv
  <2>6. RecInv'
    <3>1. /\ rec'.pc = rec.pc /\ rec'.key = rec.key /\ rec'.obj = rec.obj
          /\ rec.key = i => rec'.fresh = FALSE
          /\ rec.key # i => rec'.fresh = rec.fresh
      BY <1>0, <1>22 DEF RaiseIncident, TypeOK, Reconciler
    <3>2. rec.obj \in Incident /\ (rec.pc # "idle" => rec.key \in Incidents)
      BY <1>0 DEF TypeOK, Reconciler
    <3>3. rec.pc # "idle" => Past(rec.obj, inc'[rec.key])
      BY <2>4, <3>2 DEF RecInv, IInv, FinalizerInv
    <3>. QED  BY <2>3, <3>1, <3>2, <3>3 DEF RecInv, IInv, FinalizerInv
  <2>7. RaisingInv'
    BY <1>0, <2>2, <2>3 DEF RaisingInv, IInv, FinalizerInv, TypeOK
  <2>8. \A b \in bound : b[1] \in Incidents /\ madeFor[b] \in Nat
    BY <1>0 DEF TypeOK, Bindings
  <2>9. MadeForInv'
    BY <2>1, <2>2, <2>3, <2>8 DEF MadeForInv, IInv, FinalizerInv
  <2>10. LiveGrantHasFinalizer'
    BY <2>1, <2>2, <2>3, <2>8 DEF LiveGrantHasFinalizer, MadeForInv, IInv, FinalizerInv
  <2>. QED  BY <2>5, <2>6, <2>7, <2>9, <2>10 DEF FinalizerInv
<1>23. ASSUME NEW i \in Incidents, MarkDetected(i) PROVE FinalizerInv'
  <2>. DEFINE o == [inc[i] EXCEPT !.phase = "Detected"]
  <2>1. inc[i] \in Incident
    BY <1>0 DEF TypeOK
  <2>2. o \in Incident
    BY <2>1, IncidentExcept DEF Phases
  <2>3. o.life = inc[i].life /\ o.there = inc[i].there /\ o.fin = inc[i].fin
    BY <2>1 DEF Incident
  <2>. QED  BY <1>23, <2>2, <2>3, StoreInv DEF MarkDetected
<1>24. ASSUME NEW i \in Incidents, ScoutSees(i) PROVE FinalizerInv'
  BY <1>24, FrameInv DEF ScoutSees
<1>25. ASSUME NEW i \in Incidents, ScoutAdmits(i) PROVE FinalizerInv'
  <2>1. CASE i \notin open /\ inc[i].there
    BY <1>25, <2>1, PatchInv DEF ScoutAdmits, Phases
  <2>2. CASE ~(i \notin open /\ inc[i].there)
    BY <1>25, <2>2, FrameInv DEF ScoutAdmits
  <2>. QED  BY <2>1, <2>2
<1>26. ASSUME NEW i \in Incidents, ScoutAwaits(i) PROVE FinalizerInv'
  BY <1>26, PatchInv DEF ScoutAwaits, Phases
<1>27. ASSUME NEW i \in Incidents, ScoutCloses(i) PROVE FinalizerInv'
  <2>1. PICK p \in Outcomes : Patch(i, p)
    BY <1>27 DEF ScoutCloses
  <2>. QED  BY <1>27, <2>1, PatchInv, PhaseNames DEF ScoutCloses
<1>28. ASSUME NEW i \in Incidents, ModelCloses(i) PROVE FinalizerInv'
  <2>1. PICK p \in Outcomes : Patch(i, p)
    BY <1>28 DEF ModelCloses
  <2>. QED  BY <1>28, <2>1, PatchInv, PhaseNames DEF ModelCloses
<1>29. ASSUME NEW i \in Incidents, ScoutReaps(i) PROVE FinalizerInv'
  BY <1>29, FrameInv DEF ScoutReaps
<1>30. ASSUME NEW i \in Incidents, DeleteIncident(i) PROVE FinalizerInv'
  <2>. DEFINE o == IF inc[i].fin THEN [inc[i] EXCEPT !.dying = TRUE] ELSE Absent(inc[i].life)
  <2>1. inc[i] \in Incident /\ inc[i].life \in Nat
    BY <1>0 DEF TypeOK, Incident
  <2>2. o \in Incident
    BY <2>1, AbsentType, IncidentExcept
  <2>3. o.life = inc[i].life /\ (o.there => inc[i].there /\ o.fin = inc[i].fin)
    BY <2>1 DEF Absent, Incident
  <2>. QED  BY <1>30, <2>2, <2>3, StoreInv DEF DeleteIncident
<1>31. ASSUME NEW i \in Incidents, ForceDelete(i) PROVE FinalizerInv'
  <2>1. Absent(inc[i].life) \in Incident
    BY <1>0, AbsentType DEF TypeOK, Incident
  <2>2. Absent(inc[i].life).life = inc[i].life /\ ~Absent(inc[i].life).there
    BY DEF Absent
  <2>. QED  BY <1>31, <2>1, <2>2, StoreInv DEF ForceDelete
<1>. QED
  BY <1>1, <1>2, <1>3, <1>4, <1>5, <1>6, <1>7, <1>8, <1>9, <1>10, <1>11, <1>12,
     <1>13, <1>14, <1>15, <1>16, <1>17, <1>18, <1>19, <1>20, <1>21, <1>22, <1>23,
     <1>24, <1>25, <1>26, <1>27, <1>28, <1>29, <1>30, <1>31
     DEF Next, ReconcilerStep

\* The inductive invariant holds in every reachable state.
LEMMA Invariance == Spec => []IInv
<1>1. Init => IInv
  BY TypeInit, FinalizerInit DEF IInv
<1>2. IInv /\ [Next]_vars => IInv'
  BY TypeStep, FinalizerStep DEF IInv
<1>. QED  BY <1>1, <1>2, PTL DEF Spec

\* A binding made for the incident that is stored finds the finalizer on it,
\* whatever failed, crashed or was stale when Grant created it: the ordinary
\* deletion of an incident always passes through Revoke.
THEOREM GrantsAreHeld == Spec => []LiveGrantHasFinalizer
BY Invariance, PTL DEF IInv, FinalizerInv

-----------------------------------------------------------------------------
(* No write takes back what somebody else recorded *)

\* A write that leaves the phase, or moves it past Queued, requeues nothing.
LEMMA StoreRequeuesNone ==
    ASSUME TypeOK, NEW i \in Incidents, NEW o, inc' = [inc EXCEPT ![i] = o],
           \/ o.phase = inc[i].phase
           \/ o.phase \notin {"Detected", "Queued"}
           \/ inc[i].there /\ inc[i].phase \in Undispatched
    PROVE  RequeuesNone
BY DEF TypeOK, RequeuesNone

\* A patch to any other phase requeues nothing.
LEMMA PatchRequeuesNone ==
    ASSUME TypeOK, NEW i \in Incidents, NEW p \in Phases \ {"Detected", "Queued"},
           Patch(i, p)
    PROVE  RequeuesNone
<1>1. CASE inc[i].phase = p
  BY <1>1 DEF Patch, RequeuesNone
<1>2. CASE inc[i].phase # p
  <2>1. [inc[i] EXCEPT !.phase = p].phase = p
    BY DEF TypeOK, Incident
  <2>. QED  BY <1>2, <2>1, StoreRequeuesNone DEF Patch, Store
<1>. QED  BY <1>1, <1>2

\* No step requeues: the copies the writers hold are older than what is stored.
LEMMA RequeueStep == IInv /\ [Next]_vars => RequeuesNone
<1>. SUFFICES ASSUME IInv, [Next]_vars PROVE RequeuesNone
  OBVIOUS
<1>. USE DEF server, informer, scout, history
<1>0. TypeOK /\ RecInv /\ RaisingInv
  BY DEF IInv, FinalizerInv
<1>1. CASE inc' = inc
  BY <1>1 DEF RequeuesNone
<1>2. CASE AddFinalizer
  <2>1. rec.key \in Incidents /\ rec.obj = inc[rec.key]
    BY <1>0, <1>2 DEF AddFinalizer, Saved, RecInv, TypeOK
  <2>2. [rec.obj EXCEPT !.fin = TRUE].phase = inc[rec.key].phase
    BY <1>0, <2>1 DEF TypeOK, Incident
  <2>. QED  BY <1>0, <1>2, <2>1, <2>2, StoreRequeuesNone DEF AddFinalizer, Saved
<1>3. CASE Queue \/ Escalate
  <2>1. /\ rec.key \in Incidents
        /\ inc[rec.key].there /\ inc[rec.key].phase \in Undispatched
    BY <1>0, <1>3 DEF Queue, Escalate, Saved, RecInv, TypeOK
  <2>. QED  BY <1>0, <1>3, <2>1, StoreRequeuesNone DEF Queue, Escalate, Saved
<1>4. CASE RemoveFinalizer
  <2>1. rec.key \in Incidents
    BY <1>0, <1>4 DEF RemoveFinalizer, TypeOK
  <2>2. Absent(rec.obj.life).phase \notin {"Detected", "Queued"}
    BY DEF Absent
  <2>. QED  BY <1>0, <1>4, <2>1, <2>2, StoreRequeuesNone DEF RemoveFinalizer, Saved
<1>5. ASSUME NEW i \in Incidents, RaiseIncident(i) PROVE RequeuesNone
  <2>1. Created(inc[i].life + 1).phase \notin {"Detected", "Queued"}
    BY DEF Created, Absent
  <2>. QED  BY <1>0, <1>5, <2>1, StoreRequeuesNone DEF RaiseIncident
<1>6. ASSUME NEW i \in Incidents, MarkDetected(i) PROVE RequeuesNone
  BY <1>0, <1>6, StoreRequeuesNone DEF MarkDetected, Store, RaisingInv
<1>7. ASSUME NEW i \in Incidents, ScoutAdmits(i) PROVE RequeuesNone
  BY <1>0, <1>1, <1>7, PatchRequeuesNone DEF ScoutAdmits, Phases
<1>8. ASSUME NEW i \in Incidents, ScoutAwaits(i) PROVE RequeuesNone
  BY <1>0, <1>8, PatchRequeuesNone DEF ScoutAwaits, Phases
<1>9. ASSUME NEW i \in Incidents, ScoutCloses(i) \/ ModelCloses(i) PROVE RequeuesNone
  <2>1. PICK p \in Outcomes : Patch(i, p)
    BY <1>9 DEF ScoutCloses, ModelCloses
  <2>2. p \in Phases \ {"Detected", "Queued"}
    BY OutcomeAssumption DEF Terminal, Phases
  <2>. QED  BY <1>0, <2>1, <2>2, PatchRequeuesNone
<1>10. ASSUME NEW i \in Incidents, DeleteIncident(i) \/ ForceDelete(i) PROVE RequeuesNone
  <2>1. /\ [inc[i] EXCEPT !.dying = TRUE].phase = inc[i].phase
        /\ Absent(inc[i].life).phase \notin {"Detected", "Queued"}
    BY <1>0 DEF TypeOK, Incident, Absent
  <2>. QED  BY <1>0, <1>10, <2>1, StoreRequeuesNone DEF DeleteIncident, ForceDelete, Store
<1>. QED
  <2>1. CASE UNCHANGED vars \/ SweeperStep \/ CallFails \/ SweepFails \/ OperatorRestarts
             \/ SyncBindings \/ ScoutRestarts
    BY <1>1, <2>1 DEF vars, SweeperStep, SweepList, SweepLook, SweepDelete, SweepEnds,
       CallFails, Requeue, SweepFails, OperatorRestarts, SyncBindings, ScoutRestarts
  <2>2. ASSUME NEW i \in Incidents,
               Reconcile(i) \/ SyncIncident(i) \/ ScoutSees(i) \/ ScoutReaps(i)
        PROVE  RequeuesNone
    BY <1>1, <2>2 DEF Reconcile, SyncIncident, ScoutSees, ScoutReaps
  <2>3. CASE PolicyFor \/ GrantRole \/ GrantRefused \/ StatusConflict \/ UpdateRefused
             \/ ListGrants \/ RevokeGrant \/ Revoked
    BY <1>1, <2>3 DEF PolicyFor, GrantRole, GrantRefused, StatusConflict, UpdateRefused,
       Requeue, ListGrants, RevokeGrant, Revoked
  <2>. QED  BY <1>2, <1>3, <1>4, <1>5, <1>6, <1>7, <1>8, <1>9, <1>10, <2>1, <2>2, <2>3
            DEF Next, ReconcilerStep

\* Detected and Queued only ever replace a phase nobody dispatched on: what the
\* scout recorded is never taken back, however old the operator's copies were.
THEOREM NothingRequeued == Spec => NeverRequeued
<1>1. IInv /\ [Next]_vars => [RequeuesNone]_vars
  BY RequeueStep
<1>. QED  BY <1>1, Invariance, PTL DEF Spec, NeverRequeued

-----------------------------------------------------------------------------
(* What the first incident of a name keeps *)

\* The first incident of the name i is past: it is finished, going or gone, or
\* the name has been used again.  Once so, for good.
Over(i) ==
    /\ inc[i].life >= 1
    /\ inc[i].life > 1 \/ ~inc[i].there \/ inc[i].dying \/ closed[i]

\* An object that is there has been created; one that is not is blank.
Begun(o) == IF o.there THEN o.life >= 1 ELSE o = Absent(o.life)

\* What makes the code revoke: the copy shows an incident gone, going or finished.
ShowsEnd(o) == o.life >= 1 /\ (~o.there \/ o.dying \/ isTerminal(o))

\* The stored incident, and what is recorded of its life.
ObjectInv ==
    \A i \in Incidents :
        /\ Begun(inc[i])
        /\ inc[i].there /\ isTerminal(inc[i]) => closed[i]
        /\ ~inc[i].there => ~closed[i] /\ promised[i] = {}

\* A cached copy shows no end that has not come.
CopyInv ==
    \A i \in Incidents :
        Begun(cache[i].obj) /\ (ShowsEnd(cache[i].obj) => Over(i))

\* The reconciler works on an object that was there, in a cached version or a
\* later one; it dispatches what it holds, and revokes only after the end.
WorkInv ==
    rec.pc # "idle" =>
        /\ rec.obj.there /\ rec.obj.life >= 1
        /\ rec.obj.life <= cache[rec.key].obj.life
        /\ rec.pc \in {"addFin", "policy", "grant", "escalate"} => ~rec.obj.dying
        /\ rec.pc \in {"policy", "grant", "escalate"} => rec.obj.fin
        /\ rec.pc \in {"list", "revoke", "dropFin"} => Over(rec.key)
        /\ rec.pc \in {"addFin", "policy"} => rec.k = 1

\* The roles Grant is through with are bound.
GrantingInv ==
    rec.pc = "grant" =>
        \A n \in 1..Len(rec.pol) :
            n < rec.k => Over(rec.key) \/ <<rec.key, rec.pol[n]>> \in bound

\* Of a binding that exists, or is listed, the cache knows the incident: a
\* lookup that finds none means that it is gone, not that it is yet to come.
KnownInv == \A b \in bound \cup rbCache \cup sweep.todo : cache[b[1]].obj.life >= 1

\* What is about to be deleted is a binding of an incident that is past.
DoomInv ==
    /\ \A b \in sweep.doomed \cup rec.drop : Over(b[1])
    /\ \A b, c \in sweep.doomed : b = c

\* While the first incident of a name lives, what it was promised is bound.
PromiseInv ==
    \A i \in Incidents :
        inc[i].there /\ ~Over(i) => \A r \in promised[i] : <<i, r>> \in bound

FirstLifeInv ==
    /\ ObjectInv
    /\ CopyInv
    /\ WorkInv
    /\ GrantingInv
    /\ KnownInv
    /\ DoomInv
    /\ PromiseInv

\* Together with IInv: an inductive invariant.
FullInv == IInv /\ FirstLifeInv

-----------------------------------------------------------------------------
(* The end of a first life is for good *)

\* What a step may make of an incident: nothing, a new object, or a later
\* version of the object, which it may remove.
Forward(i) ==
    \/ inc'[i] = inc[i] /\ (closed[i] => closed'[i])
    \/ inc'[i].life > inc[i].life
    \/ /\ inc'[i].life = inc[i].life
       /\ inc[i].there
       /\ inc'[i].there => (inc[i].dying => inc'[i].dying) /\ (closed[i] => closed'[i])

\* Whatever goes forward stays over.
LEMMA OverForward ==
    ASSUME TypeOK, TypeOK', NEW i \in Incidents, Forward(i), Over(i)
    PROVE  Over(i)'
<1>1. inc[i].life \in Nat /\ inc'[i].life \in Nat
  BY DEF TypeOK, Incident
<1>. QED  BY <1>1 DEF Forward, Over

\* Storing a later version moves every incident forward.
LEMMA StoreForward ==
    ASSUME TypeOK, NEW i \in Incidents, NEW o \in Incident, Store(i, o),
           inc[i].there, o.life = inc[i].life, o.there /\ inc[i].dying => o.dying
    PROVE  \A j \in Incidents : Forward(j)
<1>1. /\ inc'[i] = o
      /\ \A j \in Incidents \ {i} : inc'[j] = inc[j] /\ closed'[j] = closed[j]
      /\ closed'[i] = (o.there /\ (closed[i] \/ o.phase \in Terminal))
  BY DEF Store, TypeOK
<1>. QED  BY <1>1 DEF Forward

\* And so does a write of the reconciler.
LEMMA SavedForward ==
    ASSUME TypeOK, NEW o \in Incident, NEW pc, Saved(o, pc), rec.key \in Incidents,
           inc[rec.key].there, o.life = inc[rec.key].life,
           o.there /\ inc[rec.key].dying => o.dying
    PROVE  \A j \in Incidents : Forward(j)
<1>1. /\ inc'[rec.key] = o
      /\ \A j \in Incidents \ {rec.key} : inc'[j] = inc[j] /\ closed'[j] = closed[j]
      /\ closed'[rec.key] = (o.there /\ (closed[rec.key] \/ o.phase \in Terminal))
  BY DEF Saved, TypeOK
<1>. QED  BY <1>1 DEF Forward

-----------------------------------------------------------------------------
(* Steps that write no incident *)

\* The reconciler goes on within the part of its program it is in, or stops.
LEMMA QuietWork ==
    ASSUME FirstLifeInv, UNCHANGED <<inc, closed, cache, promised>>,
           \/ rec'.pc = "idle"
           \/ /\ UNCHANGED <<rec.key, rec.obj, rec.k>> /\ rec.pc # "idle"
              /\ rec'.pc \in {"addFin", "policy"} => rec'.pc = rec.pc
              /\ rec'.pc \in {"grant", "escalate"} => rec.pc \in {"policy", "grant", "escalate"}
              /\ rec'.pc \in {"list", "revoke", "dropFin"} => rec.pc \in {"list", "revoke", "dropFin"}
    PROVE  ObjectInv' /\ CopyInv' /\ WorkInv'
<1>1. \A i : Over(i)' <=> Over(i)
  BY DEF Over
<1>2. ObjectInv' /\ CopyInv'
  BY <1>1 DEF FirstLifeInv, ObjectInv, CopyInv
<1>3. WorkInv'
  BY <1>1 DEF FirstLifeInv, WorkInv
<1>. QED  BY <1>2, <1>3

\* Nothing new is bound, listed or doomed, and what is unbound is past.
LEMMA QuietBindings ==
    ASSUME FirstLifeInv, UNCHANGED <<inc, closed, cache, promised>>,
           bound' \subseteq bound, \A b \in bound : b \in bound' \/ Over(b[1]),
           rbCache' \cup sweep'.todo \subseteq bound \cup rbCache \cup sweep.todo,
           sweep'.doomed \subseteq sweep.doomed, rec'.drop \subseteq rec.drop,
           rec'.pc = "grant" => UNCHANGED <<rec.pc, rec.key, rec.pol, rec.k>>
    PROVE  GrantingInv' /\ KnownInv' /\ DoomInv' /\ PromiseInv'
<1>1. \A i : Over(i)' <=> Over(i)
  BY DEF Over
<1>2. \A i, r : <<i, r>> \in bound => <<i, r>> \in bound' \/ Over(i)
  <2>. SUFFICES ASSUME NEW i, NEW r, <<i, r>> \in bound PROVE <<i, r>> \in bound' \/ Over(i)
    OBVIOUS
  <2>1. <<i, r>>[1] = i
    OBVIOUS
  <2>. QED  BY <2>1
<1>3. GrantingInv'
  BY <1>1, <1>2 DEF FirstLifeInv, GrantingInv
<1>4. KnownInv'
  BY DEF FirstLifeInv, KnownInv
<1>5. DoomInv'
  BY <1>1 DEF FirstLifeInv, DoomInv
<1>6. PromiseInv'
  BY <1>1, <1>2 DEF FirstLifeInv, PromiseInv
<1>. QED  BY <1>3, <1>4, <1>5, <1>6

-----------------------------------------------------------------------------
(* Steps that write an incident *)

\* A write by anyone but the reconciler of a later version of the object.
LEMMA StoreFirst ==
    ASSUME FullInv, TypeOK', NEW i \in Incidents, NEW o \in Incident, Store(i, o),
           UNCHANGED <<bound, rbCache, sweep>>, inc[i].there, o.life = inc[i].life,
           IF o.there THEN inc[i].dying => o.dying ELSE o = Absent(o.life)
    PROVE  FirstLifeInv'
<1>. USE DEF FullInv, IInv, FirstLifeInv
<1>1. \A j \in Incidents : Over(j) => Over(j)'
  BY StoreForward, OverForward
<1>2. /\ inc'[i] = o
      /\ closed'[i] <=> o.there /\ (closed[i] \/ o.phase \in Terminal)
      /\ promised'[i] = IF o.there THEN promised[i] ELSE {}
      /\ \A j \in Incidents \ {i} :
            inc'[j] = inc[j] /\ closed'[j] = closed[j] /\ promised'[j] = promised[j]
  BY DEF Store, TypeOK
<1>3. \A j \in Incidents : cache'[j].obj = cache[j].obj
  BY DEF Store, Outdate, TypeOK
<1>4. UNCHANGED <<rec.pc, rec.key, rec.obj, rec.pol, rec.k, rec.drop>>
  BY DEF Store, Outdate, TypeOK, Reconciler
<1>5. rec.pc # "idle" => rec.key \in Incidents
  BY DEF TypeOK
<1>6. \A b \in Bindings : b[1] \in Incidents
  BY DEF Bindings
<1>7. ObjectInv'
  BY <1>2 DEF ObjectInv, Begun, isTerminal
<1>8. CopyInv'
  BY <1>1, <1>3 DEF CopyInv
<1>9. WorkInv'
  BY <1>1, <1>3, <1>4, <1>5 DEF WorkInv
<1>10. GrantingInv'
  BY <1>1, <1>4, <1>5 DEF GrantingInv
<1>11. KnownInv'
  BY <1>3, <1>6 DEF KnownInv, TypeOK, Sweeper
<1>12. DoomInv'
  BY <1>1, <1>4, <1>6 DEF DoomInv, TypeOK, Sweeper, Reconciler
<1>13. PromiseInv'
  BY <1>1, <1>2 DEF PromiseInv
<1>. QED  BY <1>7, <1>8, <1>9, <1>10, <1>11, <1>12, <1>13

\* A successful write of the reconciler, when what it promises is bound.
LEMMA SavedFirst ==
    ASSUME FullInv, TypeOK', rec.pc # "idle", NEW o \in Incident,
           NEW pc \in {"idle", "policy"}, Saved(o, pc),
           o.life = rec.obj.life,
           IF o.there THEN rec.obj.dying => o.dying ELSE o = Absent(o.life),
           pc = "policy" => o.there /\ o.fin /\ ~o.dying /\ rec.k = 1,
           \A j \in Incidents \ {rec.key} : promised'[j] = promised[j],
           ~o.there => promised'[rec.key] = {},
           o.there => \A r \in promised'[rec.key] :
                         <<rec.key, r>> \in bound \/ Over(rec.key)
    PROVE  FirstLifeInv'
<1>. USE DEF FullInv, IInv, FirstLifeInv
<1>. DEFINE i == rec.key
<1>0. /\ i \in Incidents /\ rec.obj = inc[i] /\ rec.obj.there
      /\ rec.obj.life >= 1 /\ rec.obj.life <= cache[i].obj.life
  BY DEF Saved, FinalizerInv, RecInv, WorkInv, TypeOK
<1>1. \A j \in Incidents : Over(j) => Over(j)'
  BY <1>0, SavedForward, OverForward
<1>2. /\ inc'[i] = o
      /\ closed'[i] <=> o.there /\ (closed[i] \/ o.phase \in Terminal)
      /\ \A j \in Incidents \ {i} : inc'[j] = inc[j] /\ closed'[j] = closed[j]
      /\ UNCHANGED <<bound, rbCache, sweep>>
  BY <1>0 DEF Saved, TypeOK
<1>3. \A j \in Incidents : cache'[j].obj = cache[j].obj
  BY <1>0 DEF Saved, TypeOK
<1>4. \/ rec'.pc = "idle" /\ rec'.drop = {}
      \/ /\ pc = "policy" /\ rec'.pc = "policy" /\ rec'.key = i
         /\ rec'.obj = o /\ rec'.k = rec.k /\ rec'.drop = rec.drop
  <2>1. CASE pc = "idle"
    BY <2>1, IdleType DEF Saved, Idle
  <2>2. CASE pc = "policy"
    BY <2>2 DEF Saved, TypeOK, Reconciler
  <2>. QED  BY <2>1, <2>2
<1>5. \A b \in Bindings : b[1] \in Incidents
  BY DEF Bindings
<1>6. ObjectInv'
  BY <1>0, <1>2 DEF ObjectInv, Begun, isTerminal
<1>7. CopyInv'
  BY <1>1, <1>3 DEF CopyInv
<1>8. WorkInv'
  BY <1>0, <1>1, <1>3, <1>4 DEF WorkInv
<1>9. GrantingInv'
  BY <1>4 DEF GrantingInv
<1>10. KnownInv'
  BY <1>2, <1>3, <1>5 DEF KnownInv, TypeOK, Sweeper
<1>11. DoomInv'
  BY <1>1, <1>2, <1>4, <1>5 DEF DoomInv, TypeOK, Sweeper, Reconciler
<1>12. PromiseInv'
  BY <1>1, <1>2 DEF PromiseInv
<1>. QED  BY <1>6, <1>7, <1>8, <1>9, <1>10, <1>11, <1>12

\* A patch of the phase, which the scout writes.
LEMMA PatchFirst ==
    ASSUME FullInv, TypeOK', NEW i \in Incidents, inc[i].there, NEW p \in Phases,
           Patch(i, p), UNCHANGED <<bound, rbCache, sweep>>
    PROVE  FirstLifeInv'
<1>1. CASE inc[i].phase = p
  <2>1. UNCHANGED <<inc, cache, rec, closed, promised>>
    BY <1>1 DEF Patch, history
  <2>. QED  BY <2>1, QuietWork, QuietBindings DEF FullInv, FirstLifeInv
<1>2. CASE inc[i].phase # p
  <2>. DEFINE o == [inc[i] EXCEPT !.phase = p]
  <2>1. inc[i] \in Incident
    BY DEF FullInv, IInv, TypeOK
  <2>2. /\ o \in Incident /\ o.life = inc[i].life
        /\ o.there = inc[i].there /\ o.dying = inc[i].dying
    BY <2>1, IncidentExcept DEF Incident
  <2>3. Store(i, o)
    BY <1>2 DEF Patch
  <2>. QED  BY <2>2, <2>3, StoreFirst
<1>. QED  BY <1>1, <1>2

\* A new incident under a name.
LEMMA RaiseFirst ==
    ASSUME FullInv, TypeOK', NEW i \in Incidents, RaiseIncident(i)
    PROVE  FirstLifeInv'
<1>. USE DEF FullInv, IInv, FirstLifeInv
<1>. DEFINE n == inc[i].life + 1
<1>1. inc[i].life \in Nat
  BY DEF TypeOK, Incident
<1>2. /\ Created(n).there /\ Created(n).life = n
      /\ ~Created(n).dying /\ Created(n).phase = "None"
  BY DEF Created, Absent
<1>3. /\ inc'[i] = Created(n) /\ ~inc[i].there
      /\ \A j \in Incidents \ {i} : inc'[j] = inc[j]
      /\ UNCHANGED <<bound, rbCache, sweep, closed, promised>>
  BY DEF RaiseIncident, TypeOK, history
<1>4. \A j \in Incidents : cache'[j].obj = cache[j].obj
  BY DEF RaiseIncident, TypeOK
<1>5. UNCHANGED <<rec.pc, rec.key, rec.obj, rec.pol, rec.k, rec.drop>>
  BY DEF RaiseIncident, TypeOK, Reconciler
<1>6. \A j \in Incidents : Over(j) => Over(j)'
  <2>1. \A j \in Incidents : Forward(j)
    BY <1>1, <1>2, <1>3 DEF Forward
  <2>. QED  BY <2>1, OverForward
<1>7. (rec.pc # "idle" => rec.key \in Incidents) /\ \A b \in Bindings : b[1] \in Incidents
  BY DEF TypeOK, Bindings
<1>8. ObjectInv'
  BY <1>1, <1>2, <1>3 DEF ObjectInv, Begun, isTerminal, Terminal
<1>9. CopyInv'
  BY <1>4, <1>6 DEF CopyInv
<1>10. WorkInv'
  BY <1>4, <1>5, <1>6, <1>7 DEF WorkInv
<1>11. GrantingInv'
  BY <1>3, <1>5, <1>6, <1>7 DEF GrantingInv
<1>12. KnownInv'
  BY <1>3, <1>4, <1>7 DEF KnownInv, TypeOK, Sweeper
<1>13. DoomInv'
  BY <1>3, <1>5, <1>6, <1>7 DEF DoomInv, TypeOK, Sweeper, Reconciler
<1>14. PromiseInv'
  BY <1>3, <1>6 DEF PromiseInv, ObjectInv
<1>. QED  BY <1>8, <1>9, <1>10, <1>11, <1>12, <1>13, <1>14

\* The cache learns what is stored, of one incident or, in a new process, of all.
LEMMA CacheFirst ==
    ASSUME FullInv, UNCHANGED <<inc, bound, closed, promised>>,
           \A j \in Incidents : cache'[j].obj \in {cache[j].obj, inc[j]},
           \/ UNCHANGED <<rec, rbCache, sweep>>
           \/ rec' = Idle /\ rbCache' = bound /\ sweep' = Waiting
    PROVE  FirstLifeInv'
<1>. USE DEF FullInv, IInv, FirstLifeInv
<1>1. \A i : Over(i)' <=> Over(i)
  BY DEF Over
<1>2. \A j \in Incidents : /\ cache[j].obj.life \in Nat /\ inc[j].life \in Nat
                           /\ cache[j].obj.life <= inc[j].life
  BY DEF TypeOK, Incident, FinalizerInv, CacheInv, Past
<1>3. \A j \in Incidents : cache[j].obj.life <= cache'[j].obj.life
  BY <1>2
<1>4. /\ rec'.pc # "idle" => rec' = rec /\ rec.key \in Incidents /\ rec.obj.life \in Nat
      /\ rec'.drop \subseteq rec.drop
      /\ rbCache' \cup sweep'.todo \subseteq bound \cup rbCache \cup sweep.todo
      /\ sweep'.doomed \subseteq sweep.doomed
  BY IdleType DEF TypeOK, Reconciler, Incident, Idle, Waiting
<1>5. ObjectInv' /\ PromiseInv'
  BY <1>1 DEF ObjectInv, PromiseInv
<1>6. CopyInv'
  BY <1>1, <1>2 DEF CopyInv, ObjectInv, ShowsEnd, Over
<1>7. WorkInv'
  BY <1>1, <1>2, <1>3, <1>4 DEF WorkInv
<1>8. GrantingInv'
  BY <1>1, <1>4 DEF GrantingInv
<1>9. KnownInv'
  <2>1. \A b \in Bindings : b[1] \in Incidents
    BY DEF Bindings
  <2>. QED  BY <1>2, <1>3, <1>4, <2>1 DEF KnownInv, TypeOK, Sweeper
<1>10. DoomInv'
  BY <1>1, <1>4 DEF DoomInv
<1>. QED  BY <1>5, <1>6, <1>7, <1>8, <1>9, <1>10

-----------------------------------------------------------------------------
(* Every step *)

\* Nothing exists at the start.
LEMMA FirstLifeInit == Init => FirstLifeInv
<1>. SUFFICES ASSUME Init PROVE FirstLifeInv
  OBVIOUS
<1>1. ~Absent(0).there /\ Absent(0).life = 0
  BY DEF Absent
<1>2. /\ rec.pc = "idle" /\ rec.drop = {}
      /\ sweep.todo = {} /\ sweep.doomed = {}
  BY DEF Init, Idle, Waiting
<1>3. ObjectInv /\ CopyInv /\ PromiseInv
  BY <1>1 DEF Init, ObjectInv, CopyInv, PromiseInv, Begun, ShowsEnd
<1>. QED  BY <1>2, <1>3 DEF Init, FirstLifeInv, WorkInv, GrantingInv, KnownInv, DoomInv

\* What Queued promises is bound, or the incident is past.
LEMMA FirstLifeStep == FullInv /\ [Next]_vars => FirstLifeInv'
<1>. SUFFICES ASSUME FullInv, [Next]_vars PROVE FirstLifeInv'
  OBVIOUS
<1>. USE DEF server, informer, scout, history
<1>0. TypeOK /\ TypeOK' /\ RecInv /\ CacheInv /\ FirstLifeInv
  BY TypeStep DEF FullInv, IInv, FinalizerInv
<1>1. CASE UNCHANGED vars
  BY <1>0, <1>1, QuietWork, QuietBindings DEF vars, FirstLifeInv
<1>2. ASSUME NEW i \in Incidents, Reconcile(i) PROVE FirstLifeInv'
  <2>. DEFINE o == cache[i].obj
  <2>1. UNCHANGED <<inc, bound, cache, rbCache, sweep, closed, promised>>
    BY <1>2 DEF Reconcile
  <2>2. CASE rec' = rec
    BY <1>0, <2>1, <2>2, QuietWork, QuietBindings DEF FirstLifeInv
  <2>3. CASE rec' # rec
    <3>1. PICK pc \in {"addFin", "policy", "list"} :
            /\ rec' = [Idle EXCEPT !.pc = pc, !.key = i, !.obj = o, !.fresh = cache[i].fresh]
            /\ o.there
            /\ pc = "policy" => o.fin
            /\ pc \in {"addFin", "policy"} => ~o.dying
            /\ pc = "list" => o.dying \/ isTerminal(o)
      BY <1>2, <2>3 DEF Reconcile
    <3>2. /\ rec'.pc = pc /\ rec'.key = i /\ rec'.obj = o /\ rec'.k = 1
          /\ rec'.drop = {}
      BY <3>1 DEF Idle
    <3>3. o.life \in Nat /\ o.life >= 1 /\ (pc = "list" => Over(i))
      BY <1>0, <3>1 DEF FirstLifeInv, CopyInv, Begun, ShowsEnd, TypeOK, Incident
    <3>4. \A j : Over(j)' <=> Over(j)
      BY <2>1 DEF Over
    <3>5. WorkInv'
      BY <2>1, <3>1, <3>2, <3>3, <3>4 DEF WorkInv
    <3>. QED  BY <1>0, <2>1, <3>2, <3>4, <3>5 DEF FirstLifeInv, ObjectInv, CopyInv,
              GrantingInv, KnownInv, DoomInv, PromiseInv
  <2>. QED  BY <2>2, <2>3
<1>3. CASE AddFinalizer
  <2>. DEFINE o == [rec.obj EXCEPT !.fin = TRUE]
  <2>1. rec.obj \in Incident /\ rec.pc = "addFin"
    BY <1>0, <1>3 DEF AddFinalizer, TypeOK, Reconciler
  <2>2. /\ o \in Incident /\ o.life = rec.obj.life /\ o.fin
        /\ o.there = rec.obj.there /\ o.dying = rec.obj.dying
    BY <2>1, IncidentExcept DEF Incident
  <2>3. rec.obj.there /\ ~rec.obj.dying /\ rec.k = 1 /\ rec.obj = inc[rec.key] /\ rec.key \in Incidents
    BY <1>0, <1>3, <2>1 DEF AddFinalizer, Saved, FirstLifeInv, WorkInv, RecInv, TypeOK
  <2>4. \A r \in promised[rec.key] : <<rec.key, r>> \in bound \/ Over(rec.key)
    BY <1>0, <2>3 DEF FirstLifeInv, PromiseInv
  <2>5. UNCHANGED promised /\ Saved(o, "policy")
    BY <1>3 DEF AddFinalizer
  <2>. HIDE DEF o
  <2>. QED  BY <1>0, <2>1, <2>2, <2>3, <2>4, <2>5, SavedFirst
<1>4. CASE PolicyFor
  <2>1. /\ rec.pc = "policy" /\ rec'.pc = "grant"
        /\ UNCHANGED <<rec.key, rec.obj, rec.k, rec.drop>>
    BY <1>0, <1>4 DEF PolicyFor, TypeOK, Reconciler
  <2>2. UNCHANGED <<inc, bound, cache, rbCache, sweep, closed, promised>>
    BY <1>4 DEF PolicyFor
  <2>3. rec.k = 1
    BY <1>0, <2>1 DEF FirstLifeInv, WorkInv
  <2>4. GrantingInv'
    BY <2>1, <2>3 DEF GrantingInv
  <2>5. KnownInv' /\ DoomInv' /\ PromiseInv'
    BY <1>0, <2>1, <2>2 DEF FirstLifeInv, KnownInv, DoomInv, PromiseInv, Over
  <2>. QED  BY <1>0, <2>1, <2>2, <2>4, <2>5, QuietWork DEF FirstLifeInv
<1>5. CASE GrantRole
  <2>. DEFINE r == rec.pol[rec.k]
  <2>1. /\ rec.pc = "grant" /\ rec.key \in Incidents /\ rec.obj \in Incident
        /\ rec' = [rec EXCEPT !.k = rec.k + 1] /\ rec.k \in Nat
        /\ bound' = bound \cup {<<rec.key, r>>}
        /\ UNCHANGED <<inc, cache, rbCache, sweep, closed, promised>>
    BY <1>0, <1>5 DEF GrantRole, TypeOK, Reconciler
  <2>2. /\ UNCHANGED <<rec.pc, rec.key, rec.obj, rec.pol, rec.drop>> /\ rec'.k = rec.k + 1
    BY <1>0, <2>1 DEF TypeOK, Reconciler
  <2>3. \A i : Over(i)' <=> Over(i)
    BY <2>1 DEF Over
  <2>4. cache[rec.key].obj.life \in Nat /\ rec.obj.life \in Nat
        /\ cache[rec.key].obj.life >= 1
    BY <1>0, <2>1 DEF FirstLifeInv, WorkInv, TypeOK, Incident
  <2>5. ObjectInv' /\ CopyInv' /\ DoomInv' /\ PromiseInv'
    BY <1>0, <2>1, <2>2, <2>3 DEF FirstLifeInv, ObjectInv, CopyInv, DoomInv, PromiseInv
  <2>6. WorkInv'
    BY <1>0, <2>1, <2>2 DEF FirstLifeInv, WorkInv
  <2>7. GrantingInv'
    <3>. SUFFICES ASSUME NEW n \in 1..Len(rec.pol), n < rec.k + 1
                  PROVE  Over(rec.key) \/ <<rec.key, rec.pol[n]>> \in bound'
      BY <2>2, <2>3 DEF GrantingInv
    <3>1. CASE n = rec.k
      BY <2>1, <3>1
    <3>2. CASE n < rec.k
      BY <1>0, <2>1, <3>2 DEF FirstLifeInv, GrantingInv
    <3>. QED  BY <2>1, <3>1, <3>2
  <2>8. KnownInv'
    BY <1>0, <2>1, <2>4 DEF FirstLifeInv, KnownInv
  <2>. QED  BY <2>5, <2>6, <2>7, <2>8 DEF FirstLifeInv
<1>6. CASE GrantRefused
  <2>1. /\ rec.pc = "grant" /\ rec'.pc = "escalate"
        /\ UNCHANGED <<rec.key, rec.obj, rec.k, rec.drop>>
    BY <1>0, <1>6 DEF GrantRefused, Goto, TypeOK, Reconciler
  <2>. QED  BY <1>0, <1>6, <2>1, QuietWork, QuietBindings DEF GrantRefused, FirstLifeInv
<1>7. CASE Queue
  <2>. DEFINE o == [rec.obj EXCEPT !.phase = "Queued"]
  <2>1. rec.obj \in Incident /\ rec.pc = "grant" /\ rec.key \in Incidents
        /\ rec.k \in Nat /\ rec.k > Len(rec.pol)
    BY <1>0, <1>7 DEF Queue, TypeOK, Reconciler
  <2>8. Len(rec.pol) \in Nat
    BY <1>0, PolicyAssumption DEF TypeOK, Reconciler
  <2>2. o \in Incident
    BY <2>1, IncidentExcept DEF Phases
  <2>0. o.life = rec.obj.life /\ o.there = rec.obj.there /\ o.dying = rec.obj.dying
    BY <2>1 DEF Incident
  <2>3. rec.obj.there
    BY <1>0, <2>1 DEF FirstLifeInv, WorkInv
  <2>4. promised' = [promised EXCEPT ![rec.key] = {rec.pol[n] : n \in 1..Len(rec.pol)}]
    BY <1>7 DEF Queue
  <2>5. \A r \in promised'[rec.key] : <<rec.key, r>> \in bound \/ Over(rec.key)
    BY <1>0, <2>1, <2>4, <2>8 DEF FirstLifeInv, GrantingInv, TypeOK
  <2>6. \A j \in Incidents \ {rec.key} : promised'[j] = promised[j]
    BY <1>0, <2>4 DEF TypeOK
  <2>7. Saved(o, "idle")
    BY <1>7 DEF Queue
  <2>. HIDE DEF o
  <2>. QED  BY <1>0, <2>0, <2>1, <2>2, <2>3, <2>5, <2>6, <2>7, SavedFirst
<1>8. CASE Escalate
  <2>. DEFINE o == [rec.obj EXCEPT !.phase = "Escalated"]
  <2>1. rec.obj \in Incident /\ rec.pc = "escalate" /\ rec.key \in Incidents
    BY <1>0, <1>8 DEF Escalate, TypeOK, Reconciler
  <2>2. o \in Incident
    BY <2>1, IncidentExcept DEF Phases
  <2>0. o.life = rec.obj.life /\ o.there = rec.obj.there /\ o.dying = rec.obj.dying
    BY <2>1 DEF Incident
  <2>3. rec.obj.there /\ rec.obj = inc[rec.key]
    BY <1>0, <1>8, <2>1 DEF Escalate, Saved, FirstLifeInv, WorkInv, RecInv
  <2>4. \A r \in promised[rec.key] : <<rec.key, r>> \in bound \/ Over(rec.key)
    BY <1>0, <2>1, <2>3 DEF FirstLifeInv, PromiseInv
  <2>5. UNCHANGED promised /\ Saved(o, "idle")
    BY <1>8 DEF Escalate
  <2>. HIDE DEF o
  <2>. QED  BY <1>0, <2>0, <2>1, <2>2, <2>3, <2>4, <2>5, SavedFirst
<1>9. CASE StatusConflict \/ UpdateRefused
  <2>1. /\ rec'.pc = "idle" /\ rec'.drop = {}
        /\ UNCHANGED <<inc, bound, cache, rbCache, sweep, closed, promised>>
    BY <1>9 DEF StatusConflict, UpdateRefused, Requeue, Done, Idle
  <2>. QED  BY <1>0, <2>1, QuietWork, QuietBindings DEF FirstLifeInv
<1>10. CASE ListGrants
  <2>1. /\ rec.pc = "list" /\ rec'.pc = "revoke" /\ UNCHANGED <<rec.key, rec.obj, rec.k>>
        /\ rec'.drop = {b \in rbCache : b[1] = rec.key}
        /\ UNCHANGED <<inc, bound, cache, rbCache, sweep, closed, promised>>
    BY <1>0, <1>10 DEF ListGrants, TypeOK, Reconciler
  <2>2. Over(rec.key) /\ \A i : Over(i)' <=> Over(i)
    BY <1>0, <2>1 DEF FirstLifeInv, WorkInv, Over
  <2>3. DoomInv'
    BY <1>0, <2>1, <2>2 DEF FirstLifeInv, DoomInv
  <2>4. GrantingInv' /\ KnownInv' /\ PromiseInv'
    BY <1>0, <2>1, <2>2 DEF FirstLifeInv, GrantingInv, KnownInv, PromiseInv
  <2>. QED  BY <1>0, <2>1, <2>3, <2>4, QuietWork DEF FirstLifeInv
<1>11. CASE RevokeGrant
  <2>1. PICK b \in rec.drop : bound' = bound \ {b} /\ rec' = [rec EXCEPT !.drop = rec.drop \ {b}]
    BY <1>11 DEF RevokeGrant
  <2>2. /\ rec.pc = "revoke" /\ UNCHANGED <<rec.pc, rec.key, rec.obj, rec.k>>
        /\ rec'.drop \subseteq rec.drop /\ Over(b[1])
        /\ UNCHANGED <<inc, cache, rbCache, sweep, closed, promised>>
    BY <1>0, <1>11, <2>1 DEF RevokeGrant, TypeOK, Reconciler, FirstLifeInv, DoomInv
  <2>. QED  BY <1>0, <2>1, <2>2, QuietWork, QuietBindings DEF FirstLifeInv
<1>12. CASE Revoked
  <2>1. \/ rec'.pc = "idle" /\ rec'.drop = {}
        \/ /\ rec.pc = "revoke" /\ rec'.pc = "dropFin"
           /\ UNCHANGED <<rec.key, rec.obj, rec.k, rec.drop>>
    BY <1>0, <1>12 DEF Revoked, Goto, Done, Idle, TypeOK, Reconciler
  <2>2. UNCHANGED <<inc, bound, cache, rbCache, sweep, closed, promised>>
    BY <1>12 DEF Revoked
  <2>. QED  BY <1>0, <2>1, <2>2, QuietWork, QuietBindings DEF FirstLifeInv
<1>13. CASE RemoveFinalizer
  <2>. DEFINE o == Absent(rec.obj.life)
  <2>1. rec.obj.life \in Nat /\ rec.pc = "dropFin" /\ rec.key \in Incidents
    BY <1>0, <1>13 DEF RemoveFinalizer, TypeOK, Reconciler, Incident
  <2>2. /\ o \in Incident /\ o.life = rec.obj.life /\ ~o.there /\ o = Absent(o.life)
    BY <2>1, AbsentType DEF Absent
  <2>3. /\ promised'[rec.key] = {}
        /\ \A j \in Incidents \ {rec.key} : promised'[j] = promised[j]
    BY <1>0, <1>13, <2>1 DEF RemoveFinalizer, TypeOK
  <2>4. Saved(o, "idle")
    BY <1>13 DEF RemoveFinalizer
  <2>. HIDE DEF o
  <2>. QED  BY <1>0, <2>1, <2>2, <2>3, <2>4, SavedFirst
<1>14. CASE CallFails
  <2>1. \/ rec'.pc = "idle" /\ rec'.drop = {}
        \/ /\ rec.pc = "grant" /\ rec'.pc = "escalate"
           /\ UNCHANGED <<rec.key, rec.obj, rec.k, rec.drop>>
    BY <1>0, <1>14 DEF CallFails, Requeue, Goto, Done, Idle, TypeOK, Reconciler
  <2>2. UNCHANGED <<inc, bound, cache, rbCache, sweep, closed, promised>>
    BY <1>14 DEF CallFails, Requeue
  <2>. QED  BY <1>0, <2>1, <2>2, QuietWork, QuietBindings DEF FirstLifeInv
<1>15. CASE SweepList \/ SweepEnds \/ SweepFails
  <2>1. UNCHANGED <<inc, bound, cache, rbCache, rec, closed, promised>>
    BY <1>15 DEF SweepList, SweepEnds, SweepFails
  <2>2. sweep'.doomed \subseteq sweep.doomed /\ sweep'.todo \subseteq rbCache
    <3>1. CASE SweepList
      BY <1>0, <3>1 DEF SweepList, TypeOK, Sweeper
    <3>2. CASE sweep' = Waiting
      BY <3>2 DEF Waiting
    <3>. QED  BY <1>15, <3>1, <3>2 DEF SweepEnds, SweepFails
  <2>. QED  BY <1>0, <2>1, <2>2, QuietWork, QuietBindings DEF FirstLifeInv
<1>16. CASE SweepLook
  <2>1. PICK b \in sweep.todo :
           sweep' = [sweep EXCEPT !.todo = @ \ {b},
                        !.doomed = IF ~cache[b[1]].obj.there \/ isTerminal(cache[b[1]].obj)
                                   THEN {b} ELSE {}]
    BY <1>16 DEF SweepLook
  <2>2. /\ sweep.doomed = {}
        /\ UNCHANGED <<inc, bound, cache, rbCache, rec, closed, promised>>
    BY <1>16 DEF SweepLook
  <2>3. /\ sweep'.todo = sweep.todo \ {b}
        /\ sweep'.doomed = IF ~cache[b[1]].obj.there \/ isTerminal(cache[b[1]].obj)
                           THEN {b} ELSE {}
    BY <1>0, <2>1 DEF TypeOK, Sweeper
  <2>4. b[1] \in Incidents /\ cache[b[1]].obj.life >= 1
    BY <1>0, <2>1 DEF TypeOK, Sweeper, Bindings, FirstLifeInv, KnownInv
  <2>5. \A c \in sweep'.doomed : c = b /\ Over(b[1])
    BY <1>0, <2>3, <2>4 DEF FirstLifeInv, CopyInv, ShowsEnd
  <2>6. \A i : Over(i)' <=> Over(i)
    BY <2>2 DEF Over
  <2>7. DoomInv'
    BY <1>0, <2>2, <2>5, <2>6 DEF FirstLifeInv, DoomInv
  <2>8. GrantingInv' /\ KnownInv' /\ PromiseInv'
    BY <1>0, <2>2, <2>3, <2>6 DEF FirstLifeInv, GrantingInv, KnownInv, PromiseInv
  <2>. QED  BY <1>0, <2>2, <2>7, <2>8, QuietWork DEF FirstLifeInv
<1>17. CASE SweepDelete
  <2>1. /\ bound' = bound \ sweep.doomed /\ sweep'.doomed = {} /\ sweep'.todo = sweep.todo
        /\ UNCHANGED <<inc, cache, rbCache, rec, closed, promised>>
    BY <1>0, <1>17 DEF SweepDelete, TypeOK, Sweeper
  <2>2. \A b \in bound : b \in bound' \/ Over(b[1])
    BY <1>0, <2>1 DEF FirstLifeInv, DoomInv
  <2>. QED  BY <1>0, <2>1, <2>2, QuietWork, QuietBindings DEF FirstLifeInv
<1>18. CASE OperatorRestarts
  BY <1>18, CacheFirst DEF OperatorRestarts
<1>19. CASE SyncBindings
  <2>1. UNCHANGED <<inc, bound, cache, rec, sweep, closed, promised>> /\ rbCache' = bound
    BY <1>19 DEF SyncBindings
  <2>. QED  BY <1>0, <2>1, QuietWork, QuietBindings DEF FirstLifeInv
<1>20. CASE ScoutRestarts
  BY <1>0, <1>20, QuietWork, QuietBindings DEF ScoutRestarts, FirstLifeInv
<1>21. ASSUME NEW i \in Incidents, SyncIncident(i) PROVE FirstLifeInv'
  <2>1. \A j \in Incidents : cache'[j].obj \in {cache[j].obj, inc[j]}
    BY <1>0, <1>21 DEF SyncIncident, TypeOK
  <2>. QED  BY <1>21, <2>1, CacheFirst DEF SyncIncident
<1>22. ASSUME NEW i \in Incidents, RaiseIncident(i) PROVE FirstLifeInv'
  BY <1>0, <1>22, RaiseFirst
<1>23. ASSUME NEW i \in Incidents, MarkDetected(i) PROVE FirstLifeInv'
  <2>. DEFINE o == [inc[i] EXCEPT !.phase = "Detected"]
  <2>1. inc[i] \in Incident /\ inc[i].there
    BY <1>0, <1>23 DEF TypeOK, MarkDetected, FullInv, IInv, FinalizerInv, RaisingInv
  <2>2. o \in Incident
    BY <2>1, IncidentExcept DEF Phases
  <2>0. o.life = inc[i].life /\ o.there = inc[i].there /\ o.dying = inc[i].dying
    BY <2>1 DEF Incident
  <2>3. Store(i, o) /\ UNCHANGED <<bound, rbCache, sweep>>
    BY <1>23 DEF MarkDetected
  <2>. HIDE DEF o
  <2>. QED  BY <1>0, <2>0, <2>1, <2>2, <2>3, StoreFirst
<1>24. ASSUME NEW i \in Incidents, ScoutSees(i) \/ ScoutReaps(i) PROVE FirstLifeInv'
  BY <1>0, <1>24, QuietWork, QuietBindings DEF ScoutSees, ScoutReaps, FirstLifeInv
<1>25. ASSUME NEW i \in Incidents, ScoutAdmits(i) PROVE FirstLifeInv'
  <2>1. CASE i \notin open /\ inc[i].there
    BY <1>0, <1>25, <2>1, PatchFirst DEF ScoutAdmits, Phases
  <2>2. CASE ~(i \notin open /\ inc[i].there)
    BY <1>0, <1>25, <2>2, QuietWork, QuietBindings DEF ScoutAdmits, FirstLifeInv
  <2>. QED  BY <2>1, <2>2
<1>26. ASSUME NEW i \in Incidents, ScoutAwaits(i) PROVE FirstLifeInv'
  BY <1>0, <1>26, PatchFirst DEF ScoutAwaits, Phases
<1>27. ASSUME NEW i \in Incidents, ScoutCloses(i) \/ ModelCloses(i) PROVE FirstLifeInv'
  <2>1. PICK p \in Outcomes : Patch(i, p)
    BY <1>27 DEF ScoutCloses, ModelCloses
  <2>. QED  BY <1>0, <1>27, <2>1, PatchFirst, PhaseNames DEF ScoutCloses, ModelCloses
<1>28. ASSUME NEW i \in Incidents, DeleteIncident(i) PROVE FirstLifeInv'
  <2>. DEFINE o == IF inc[i].fin THEN [inc[i] EXCEPT !.dying = TRUE] ELSE Absent(inc[i].life)
  <2>1. inc[i] \in Incident /\ inc[i].life \in Nat /\ inc[i].there
    BY <1>0, <1>28 DEF TypeOK, Incident, DeleteIncident
  <2>2. o \in Incident
    BY <2>1, AbsentType, IncidentExcept
  <2>3. o.life = inc[i].life /\ IF o.there THEN o.dying ELSE o = Absent(o.life)
    BY <2>1 DEF Absent, Incident
  <2>4. Store(i, o) /\ UNCHANGED <<bound, rbCache, sweep>>
    BY <1>28 DEF DeleteIncident
  <2>. HIDE DEF o
  <2>. QED  BY <1>0, <2>1, <2>2, <2>3, <2>4, StoreFirst
<1>29. ASSUME NEW i \in Incidents, ForceDelete(i) PROVE FirstLifeInv'
  <2>. DEFINE o == Absent(inc[i].life)
  <2>1. o \in Incident /\ inc[i].there
    BY <1>0, <1>29, AbsentType DEF TypeOK, Incident, ForceDelete
  <2>2. o.life = inc[i].life /\ ~o.there /\ o = Absent(o.life)
    BY DEF Absent
  <2>3. Store(i, o) /\ UNCHANGED <<bound, rbCache, sweep>>
    BY <1>29 DEF ForceDelete
  <2>. HIDE DEF o
  <2>. QED  BY <1>0, <2>1, <2>2, <2>3, StoreFirst
<1>. QED
  BY <1>1, <1>2, <1>3, <1>4, <1>5, <1>6, <1>7, <1>8, <1>9, <1>10, <1>11, <1>12,
     <1>13, <1>14, <1>15, <1>16, <1>17, <1>18, <1>19, <1>20, <1>21, <1>22, <1>23,
     <1>24, <1>25, <1>26, <1>27, <1>28, <1>29
     DEF Next, ReconcilerStep, SweeperStep

\* The inductive invariant of both arguments holds in every reachable state.
LEMMA FirstLifeInvariance == Spec => []FullInv
<1>1. Init => FullInv
  BY TypeInit, FinalizerInit, FirstLifeInit DEF FullInv, IInv
<1>2. FullInv /\ [Next]_vars => FullInv'
  BY TypeStep, FinalizerStep, FirstLifeStep DEF FullInv, IInv
<1>. QED  BY <1>1, <1>2, PTL DEF Spec

\* "A scout never starts without its permissions", and never loses them: while
\* the first incident of a name is the scout's, every role that its policy
\* promised is bound, whatever the sweeper's and the reconciler's caches show
\* and wherever a crash or a failed call falls.
THEOREM FirstLifeGranted == Spec => []FirstLifeIsGranted
<1>1. FullInv => FirstLifeIsGranted
  <2>. SUFFICES ASSUME FullInv, NEW i \in Incidents, inc[i].life = 1 PROVE Granted(i)
    BY DEF FirstLifeIsGranted
  <2>. QED  BY DEF FullInv, FirstLifeInv, PromiseInv, Granted, Over
<1>. QED  BY <1>1, FirstLifeInvariance, PTL

-----------------------------------------------------------------------------
(* The refinement: what IncidentPermission sees of a state *)

Lives == [i \in Incidents |-> inc[i].life]
Stages == [i \in Incidents |-> Stage(inc[i])]
Duties == [i \in Incidents |-> Duty(inc[i])]
Owned == [i \in Incidents |-> Own(i)]
Left == [i \in Incidents |-> RolesOf(i) \ Own(i)]

Sees == <<Lives, Stages, Duties, closed, Owned, Left>>

\* A step is one of IncidentPermission or shows it nothing.
Simulated == Permission!Next \/ UNCHANGED Sees

\* Who writes no incident and no binding, shows nothing.
LEMMA HiddenStep ==
    ASSUME UNCHANGED <<inc, bound, madeFor, closed>>
    PROVE  Simulated
BY DEF Simulated, Sees, Lives, Stages, Duties, Owned, Left, Own, RolesOf

\* Somebody writes o under i, and no binding.
Writes(i, o) == inc' = [inc EXCEPT ![i] = o] /\ UNCHANGED <<bound, madeFor>>

\* And that o is finished, if it is.
Notes(i, o) == closed' = [closed EXCEPT ![i] = o.there /\ (@ \/ o.phase \in Terminal)]

\* A write of one incident is seen in three places.
LEMMA WriteSeen ==
    ASSUME TypeOK, NEW i \in Incidents, NEW o \in Incident, Writes(i, o)
    PROVE  /\ Lives' = [Lives EXCEPT ![i] = o.life]
           /\ Stages' = [Stages EXCEPT ![i] = Stage(o)]
           /\ Duties' = [Duties EXCEPT ![i] = Duty(o)]
           /\ Lives[i] = inc[i].life /\ Stages[i] = Stage(inc[i]) /\ Duties[i] = Duty(inc[i])
BY DEF TypeOK, Writes, Lives, Stages, Duties

\* The bindings stay whose they are while the object stays, and a new object
\* has none.
LEMMA BindingsStay ==
    ASSUME TypeOK, MadeForInv, NEW i \in Incidents, NEW o \in Incident,
           Writes(i, o), o.there,
           IF inc[i].there THEN o.life = inc[i].life ELSE o.life > inc[i].life
    PROVE  UNCHANGED <<Owned, Left>>
<1>1. \A j \in Incidents : Own(j)' = Own(j)
  <2>. SUFFICES ASSUME NEW j \in Incidents, NEW r \in Roles, <<j, r>> \in bound
                PROVE  (inc'[j].there /\ madeFor[<<j, r>>] = inc'[j].life) <=>
                       (inc[j].there /\ madeFor[<<j, r>>] = inc[j].life)
    BY DEF Own, RolesOf, Writes
  <2>1. madeFor[<<j, r>>] <= inc[j].life
    BY DEF MadeForInv
  <2>2. madeFor[<<j, r>>] \in Nat /\ inc[j].life \in Nat
    BY DEF TypeOK, Bindings, Incident
  <2>. QED  BY <2>1, <2>2 DEF Writes, TypeOK, Incident
<1>2. \A j : RolesOf(j)' = RolesOf(j)
  BY DEF RolesOf, Writes
<1>. QED  BY <1>1, <1>2 DEF Owned, Left

\* When an object goes, its bindings are left.
LEMMA BindingsLeft ==
    ASSUME TypeOK, NEW i \in Incidents, NEW o \in Incident,
           Writes(i, o), ~o.there
    PROVE  /\ Owned' = [Owned EXCEPT ![i] = {}]
           /\ Left' = [Left EXCEPT ![i] = Left[i] \cup Owned[i]]
<1>1. \A j : RolesOf(j)' = RolesOf(j)
  BY DEF RolesOf, Writes
<1>2. inc'[i] = o /\ \A j \in Incidents \ {i} : inc'[j] = inc[j]
  BY DEF TypeOK, Writes
<1>3. Own(i)' = {} /\ \A j \in Incidents \ {i} : Own(j)' = Own(j)
  BY <1>1, <1>2 DEF Own, Writes
<1>4. Left[i] \cup Owned[i] = RolesOf(i)
  BY DEF Left, Owned, Own
<1>. QED  BY <1>1, <1>3, <1>4 DEF Owned, Left

\* A binding is deleted: of an incident that is past, or of one that is gone.
LEMMA UnbindSeen ==
    ASSUME FullInv, NEW b \in Bindings, Over(b[1]), bound' = bound \ {b},
           UNCHANGED <<inc, madeFor, closed>>
    PROVE  Simulated
<1>1. PICK i \in Incidents, r \in Roles : b = <<i, r>>
  BY DEF Bindings
<1>2. CASE b \notin bound
  BY <1>2, HiddenStep
<1>3. CASE b \in bound
  <2>1. /\ RolesOf(i)' = RolesOf(i) \ {r} /\ r \in RolesOf(i)
        /\ \A j \in Incidents \ {i} : RolesOf(j)' = RolesOf(j)
    BY <1>1, <1>3 DEF RolesOf
  <2>2. Own(i)' = Own(i) \ {r} /\ \A j \in Incidents \ {i} : Own(j)' = Own(j)
    BY <2>1 DEF Own
  <2>3. Owned' = [Owned EXCEPT ![i] = Owned[i] \ {r}]
    BY <2>2 DEF Owned
  <2>4. Left' = [Left EXCEPT ![i] = Left[i] \ {r}]
    BY <2>1, <2>2 DEF Left
  <2>5. UNCHANGED <<Lives, Stages, Duties>>
    BY DEF Lives, Stages, Duties
  <2>6. r \in Owned[i] => Stages[i] = "dying" \/ closed[i] \/ Lives[i] > 1
    BY <1>1 DEF Owned, Own, Stages, Stage, Lives, Over
  <2>7. r \in Owned[i] \/ r \in Left[i]
    BY <2>1 DEF Owned, Left
  <2>8. Permission!Revoke(i, r)
    BY <2>3, <2>4, <2>5, <2>6, <2>7 DEF Permission!Revoke, Permission!MayRevoke,
       Permission!Set, Owned, Left, Lives, Stages, Duties
  <2>. QED  BY <2>8 DEF Simulated, Permission!Next
<1>. QED  BY <1>2, <1>3

\* An incident goes.
LEMMA VanishSeen ==
    ASSUME TypeOK, NEW i \in Incidents, NEW o \in Incident, o = Absent(inc[i].life),
           inc[i].there, Writes(i, o), Notes(i, o)
    PROVE  Simulated
<1>1. ~o.there /\ o.life = inc[i].life /\ Stage(o) = "none" /\ Duty(o) = "new"
  BY DEF Absent, Stage, Duty, Undispatched
<1>2. closed' = [closed EXCEPT ![i] = FALSE]
  BY <1>1 DEF Notes
<1>3. Lives' = Lives
  <2>1. Lives' = [Lives EXCEPT ![i] = Lives[i]]
    BY <1>1, WriteSeen
  <2>. QED  BY <2>1 DEF Lives
<1>4. Stages[i] # "none"
  BY DEF Stages, Stage
<1>5. /\ Stages' = [Stages EXCEPT ![i] = "none"]
      /\ Duties' = [Duties EXCEPT ![i] = "new"]
      /\ Owned' = [Owned EXCEPT ![i] = {}]
      /\ Left' = [Left EXCEPT ![i] = Left[i] \cup Owned[i]]
  BY <1>1, WriteSeen, BindingsLeft
<1>6. Permission!Vanish(i)
  BY <1>2, <1>3, <1>4, <1>5 DEF Permission!Vanish, Permission!Set,
     Owned, Left, Lives, Stages, Duties
<1>. QED  BY <1>6 DEF Simulated, Permission!Next

\* The object under a name gets a new version: its stage or its duty may change.
LEMMA VersionSeen ==
    ASSUME TypeOK, MadeForInv, NEW i \in Incidents, NEW o \in Incident,
           inc[i].there, o.there, o.life = inc[i].life, Writes(i, o), Notes(i, o)
    PROVE  /\ UNCHANGED <<Lives, Owned, Left>>
           /\ Stages' = [Stages EXCEPT ![i] = Stage(o)] /\ Stages[i] = Stage(inc[i])
           /\ Duties' = [Duties EXCEPT ![i] = Duty(o)] /\ Duties[i] = Duty(inc[i])
           /\ Stage(o) = Stage(inc[i]) => UNCHANGED Stages
           /\ Duty(o) = Duty(inc[i]) => UNCHANGED Duties
           /\ o.phase \notin Terminal => UNCHANGED closed
           /\ o.phase \in Terminal => closed' = [closed EXCEPT ![i] = TRUE]
<1>1. /\ Lives' = [Lives EXCEPT ![i] = Lives[i]]
      /\ Stages' = [Stages EXCEPT ![i] = Stage(o)] /\ Stages[i] = Stage(inc[i])
      /\ Duties' = [Duties EXCEPT ![i] = Duty(o)] /\ Duties[i] = Duty(inc[i])
  BY WriteSeen
<1>2. UNCHANGED Lives
  BY <1>1 DEF Lives
<1>3. Stage(o) = Stage(inc[i]) => UNCHANGED Stages
  BY <1>1 DEF Stages
<1>4. Duty(o) = Duty(inc[i]) => UNCHANGED Duties
  BY <1>1 DEF Duties
<1>5. closed' = [closed EXCEPT ![i] = closed[i] \/ o.phase \in Terminal]
  BY DEF Notes
<1>6. closed[i] \in BOOLEAN
  BY DEF TypeOK
<1>7. o.phase \notin Terminal => UNCHANGED closed
  <2>. SUFFICES ASSUME o.phase \notin Terminal PROVE closed' = closed
    OBVIOUS
  <2>1. (closed[i] \/ o.phase \in Terminal) = closed[i]
    BY <1>6
  <2>. QED  BY <1>5, <2>1 DEF TypeOK
<1>8. o.phase \in Terminal => closed' = [closed EXCEPT ![i] = TRUE]
  BY <1>5
<1>9. UNCHANGED <<Owned, Left>>
  BY BindingsStay
<1>. QED  BY <1>1, <1>2, <1>3, <1>4, <1>7, <1>8, <1>9

\* The scout patches the phase.
LEMMA PatchSeen ==
    ASSUME FullInv, NEW i \in Incidents, inc[i].there, UNCHANGED bound,
           NEW p \in Phases \ {"None", "Detected", "Queued"}, Patch(i, p)
    PROVE  Simulated
<1>1. CASE inc[i].phase = p
  BY <1>1, HiddenStep DEF Patch, history
<1>2. CASE inc[i].phase # p
  <2>. DEFINE o == [inc[i] EXCEPT !.phase = p]
  <2>1. inc[i] \in Incident /\ TypeOK /\ MadeForInv
    BY DEF FullInv, IInv, TypeOK, FinalizerInv
  <2>2. o \in Incident
    BY <2>1, IncidentExcept
  <2>3. /\ o.life = inc[i].life /\ o.there /\ o.phase = p
        /\ o.dying = inc[i].dying /\ o.fin = inc[i].fin
    BY <2>1 DEF Incident
  <2>4. Stage(o) = Stage(inc[i]) /\ Stages[i] # "none"
    BY <2>3 DEF Stage, Stages
  <2>5. Duty(o) = IF p \in Terminal THEN "closed" ELSE "scout"
    BY <2>3 DEF Duty, Undispatched, Terminal, Phases
  <2>6. Writes(i, o) /\ Notes(i, o)
    BY <1>2 DEF Patch, Store, Writes, Notes
  <2>. HIDE DEF o
  <2>7. /\ UNCHANGED <<Lives, Stages, Owned, Left>>
        /\ Duties' = [Duties EXCEPT ![i] = Duty(o)]
        /\ o.phase \notin Terminal => UNCHANGED closed
        /\ o.phase \in Terminal => closed' = [closed EXCEPT ![i] = TRUE]
    BY <2>1, <2>2, <2>3, <2>4, <2>6, VersionSeen
  <2>8. Permission!Work(i)
    BY <2>3, <2>4, <2>5, <2>7 DEF Permission!Work, Permission!Set, Permission!names,
       Lives, Stages, Duties, Owned, Left
  <2>. QED  BY <2>8 DEF Simulated, Permission!Next
<1>. QED  BY <1>1, <1>2

\* The operator dispatches what it holds.
LEMMA DispatchSeen ==
    ASSUME FullInv, NEW p \in {"Queued", "Escalated"},
           rec.pc \in {"grant", "escalate"}, Saved([rec.obj EXCEPT !.phase = p], "idle")
    PROVE  Simulated
<1>. DEFINE i == rec.key
            o == [rec.obj EXCEPT !.phase = p]
<1>1. TypeOK /\ MadeForInv /\ i \in Incidents /\ rec.obj = inc[i] /\ inc[i] \in Incident
  BY DEF FullInv, IInv, TypeOK, FinalizerInv, RecInv, Saved
<1>2. /\ inc[i].there /\ inc[i].fin /\ ~inc[i].dying /\ inc[i].phase \in Undispatched
  BY <1>1 DEF FullInv, IInv, FinalizerInv, RecInv, FirstLifeInv, WorkInv
<1>3. o \in Incident
  BY <1>1, IncidentExcept DEF Phases
<1>4. /\ o.life = inc[i].life /\ o.there /\ o.phase = p
      /\ o.dying = inc[i].dying /\ o.fin = inc[i].fin
  BY <1>1, <1>2 DEF Incident
<1>5. Stage(o) = "held" /\ Stage(inc[i]) = "held" /\ Duty(inc[i]) = "new"
  BY <1>2, <1>4 DEF Stage, Duty
<1>6. Duty(o) = IF p = "Queued" THEN "queued" ELSE "closed"
  BY <1>4 DEF Duty, Undispatched, Terminal
<1>7. Writes(i, o) /\ Notes(i, o)
  BY DEF Saved, Writes, Notes
<1>. HIDE DEF o
<1>8. /\ UNCHANGED <<Lives, Stages, Owned, Left>>
      /\ Stages[i] = "held" /\ Duties[i] = "new"
      /\ Duties' = [Duties EXCEPT ![i] = Duty(o)]
      /\ o.phase \notin Terminal => UNCHANGED closed
      /\ o.phase \in Terminal => closed' = [closed EXCEPT ![i] = TRUE]
  BY <1>1, <1>2, <1>3, <1>4, <1>5, <1>7, VersionSeen
<1>9. Permission!Dispatch(i)
  BY <1>4, <1>6, <1>8 DEF Permission!Dispatch, Permission!Set, Permission!names, Terminal,
     Lives, Stages, Duties, Owned, Left
<1>. QED  BY <1>1, <1>9 DEF Simulated, Permission!Next

\* The reconciler sets the finalizer: the incident is held from now on.
LEMMA HoldSeen == ASSUME FullInv, AddFinalizer PROVE Simulated
<1>. DEFINE i == rec.key
            o == [rec.obj EXCEPT !.fin = TRUE]
<1>1. TypeOK /\ MadeForInv /\ i \in Incidents /\ rec.obj = inc[i] /\ inc[i] \in Incident
  BY DEF AddFinalizer, FullInv, IInv, TypeOK, FinalizerInv, RecInv, Saved
<1>2. inc[i].there /\ ~inc[i].dying /\ inc[i].phase \in Undispatched
  BY <1>1 DEF AddFinalizer, FullInv, IInv, FinalizerInv, RecInv, FirstLifeInv, WorkInv
<1>3. o \in Incident
  BY <1>1, IncidentExcept
<1>4. /\ o.life = inc[i].life /\ o.there /\ o.phase = inc[i].phase
      /\ ~o.dying /\ o.fin
  BY <1>1, <1>2 DEF Incident
<1>5. Stage(o) = "held" /\ Duty(o) = Duty(inc[i]) /\ Duty(inc[i]) = "new"
  BY <1>2, <1>4 DEF Stage, Duty
<1>6. Writes(i, o) /\ Notes(i, o)
  BY DEF AddFinalizer, Saved, Writes, Notes
<1>7. o.phase \notin Terminal
  BY <1>2, <1>4 DEF Undispatched, Terminal
<1>. HIDE DEF o
<1>8. /\ UNCHANGED <<Lives, Duties, closed, Owned, Left>>
      /\ Stages' = [Stages EXCEPT ![i] = "held"] /\ Stages[i] = Stage(inc[i])
      /\ Duties[i] = "new"
      /\ Stage(inc[i]) = "held" => UNCHANGED Stages
  BY <1>1, <1>2, <1>3, <1>4, <1>5, <1>6, <1>7, VersionSeen
<1>9. CASE Stage(inc[i]) = "held"
  BY <1>8, <1>9 DEF Simulated, Sees
<1>10. CASE Stage(inc[i]) = "raised"
  <2>1. Permission!Hold(i)
    BY <1>8, <1>10 DEF Permission!Hold, Permission!Set, Permission!bindings,
       Lives, Stages, Duties, Owned, Left
  <2>. QED  BY <1>1, <2>1 DEF Simulated, Permission!Next
<1>. QED  BY <1>2, <1>9, <1>10 DEF Stage

\* One more binding, made for the n-th incident of its name.
Binds(i, r, n) ==
    /\ bound' = bound \cup {<<i, r>>}
    /\ madeFor' = IF <<i, r>> \in bound THEN madeFor ELSE [madeFor EXCEPT ![<<i, r>>] = n]

\* It is for the incident that is there and held, or for one that has gone since.
LEMMA BindSeen ==
    ASSUME TypeOK, NEW i \in Incidents, NEW r \in Roles, NEW n \in Nat,
           Binds(i, r, n), UNCHANGED <<inc, closed>>, n >= 1, n <= inc[i].life,
           n = inc[i].life /\ inc[i].there => inc[i].fin
    PROVE  Simulated
<1>. DEFINE b == <<i, r>>
<1>1. b \in Bindings /\ inc[i] \in Incident /\ inc[i].life \in Nat
  BY DEF TypeOK, Bindings, Incident
<1>2. CASE b \in bound
  <2>1. bound' = bound /\ madeFor' = madeFor
    BY <1>2 DEF Binds
  <2>. QED  BY <2>1, HiddenStep
<1>3. CASE b \notin bound
  <2>1. /\ RolesOf(i)' = RolesOf(i) \cup {r} /\ r \notin RolesOf(i)
        /\ \A j \in Incidents \ {i} : RolesOf(j)' = RolesOf(j)
    BY <1>3 DEF RolesOf, Binds
  <2>2. madeFor'[b] = n /\ \A c \in bound : madeFor'[c] = madeFor[c]
    BY <1>1, <1>3 DEF TypeOK, Binds
  <2>3. \A j \in Incidents \ {i} : Own(j)' = Own(j)
    BY <2>1, <2>2 DEF Own, RolesOf
  <2>4. Own(i)' = IF inc[i].there /\ n = inc[i].life THEN Own(i) \cup {r} ELSE Own(i)
    BY <2>1, <2>2 DEF Own, RolesOf
  <2>5. UNCHANGED <<Lives, Stages, Duties>>
    BY DEF Lives, Stages, Duties
  <2>6. r \notin Owned[i] \cup Left[i] /\ Own(i) \subseteq RolesOf(i)
    BY <2>1 DEF Owned, Left, Own
  <2>7. CASE inc[i].there /\ n = inc[i].life
    <3>1. Owned' = [Owned EXCEPT ![i] = Owned[i] \cup {r}] /\ Left' = Left
      <4>1. Owned' = [Owned EXCEPT ![i] = Owned[i] \cup {r}]
        BY <2>1, <2>3, <2>4, <2>6, <2>7 DEF Owned
      <4>2. Left' = Left
        BY <2>1, <2>3, <2>4, <2>6, <2>7 DEF Left
      <4>. QED  BY <4>1, <4>2
    <3>2. Stages[i] \in {"held", "dying"}
      BY <2>7 DEF Stages, Stage
    <3>3. Permission!Grant(i, r)
      BY <2>5, <2>6, <3>1, <3>2 DEF Permission!Grant, Permission!Set,
         Lives, Stages, Duties, Owned, Left
    <3>. QED  BY <3>3 DEF Simulated, Permission!Next
  <2>8. CASE ~(inc[i].there /\ n = inc[i].life)
    <3>1. Owned' = Owned
      BY <2>3, <2>4, <2>8 DEF Owned
    <3>4. Left' = [Left EXCEPT ![i] = Left[i] \cup {r}]
      <4>1. (RolesOf(i) \ Own(i))' = (RolesOf(i) \ Own(i)) \cup {r}
        BY <2>1, <2>4, <2>6, <2>8
      <4>2. \A j \in Incidents \ {i} : (RolesOf(j) \ Own(j))' = RolesOf(j) \ Own(j)
        BY <2>1, <2>3
      <4>. QED  BY <4>1, <4>2 DEF Left
    <3>2. IF Stages[i] = "none" THEN Lives[i] > 0 ELSE Lives[i] > 1
      BY <1>1, <2>8 DEF Stages, Stage, Lives
    <3>3. Permission!GrantLate(i, r)
      BY <2>5, <2>6, <3>1, <3>2, <3>4 DEF Permission!GrantLate, Permission!Set,
         Lives, Stages, Duties, Owned, Left
    <3>. QED  BY <3>3 DEF Simulated, Permission!Next
  <2>. QED  BY <2>7, <2>8
<1>. QED  BY <1>2, <1>3

\* So is what Grant binds: it started from a held incident.
LEMMA GrantSeen == ASSUME FullInv, GrantRole PROVE Simulated
<1>1. /\ TypeOK /\ rec.key \in Incidents /\ rec.pc = "grant"
      /\ rec.obj.life \in Nat /\ inc[rec.key].life \in Nat
  BY DEF GrantRole, FullInv, IInv, TypeOK, Reconciler, Incident
<1>2. rec.pol[rec.k] \in Roles
  BY PolicyAssumption DEF GrantRole
<1>3. /\ rec.obj.life >= 1 /\ rec.obj.life <= inc[rec.key].life
      /\ rec.obj.life = inc[rec.key].life /\ inc[rec.key].there => inc[rec.key].fin
  BY <1>1 DEF FullInv, IInv, FinalizerInv, RecInv, Past, FirstLifeInv, WorkInv
<1>4. Binds(rec.key, rec.pol[rec.k], rec.obj.life) /\ UNCHANGED <<inc, closed>>
  BY DEF GrantRole, Binds
<1>. QED  BY <1>1, <1>2, <1>3, <1>4, BindSeen

\* A new incident is raised, unheld and with no binding of its own.
LEMMA RaiseSeen ==
    ASSUME FullInv, NEW i \in Incidents, RaiseIncident(i) PROVE Simulated
<1>. DEFINE o == Created(inc[i].life + 1)
<1>1. TypeOK /\ MadeForInv /\ inc[i].life \in Nat /\ ~inc[i].there
  BY DEF RaiseIncident, FullInv, IInv, TypeOK, FinalizerInv, Incident
<1>2. o.there /\ o.life = inc[i].life + 1 /\ ~o.dying /\ ~o.fin /\ o.phase = "None"
  BY DEF Created, Absent
<1>3. o \in Incident
  <2>1. Absent(inc[i].life + 1) \in Incident
    BY <1>1, AbsentType
  <2>. QED  BY <2>1 DEF Created, Incident
<1>4. inc[i].phase = "None"
  <2>1. inc[i] = Absent(inc[i].life)
    BY <1>1 DEF FullInv, FirstLifeInv, ObjectInv, Begun
  <2>2. \A n : Absent(n).phase = "None"
    BY DEF Absent
  <2>. QED  BY <2>1, <2>2
<1>5. /\ Stage(inc[i]) = "none" /\ Stage(o) = "raised"
      /\ Duty(o) = "new" /\ Duty(inc[i]) = "new"
  BY <1>1, <1>2, <1>4 DEF Stage, Duty, Undispatched
<1>6. Writes(i, o) /\ UNCHANGED closed
  BY DEF RaiseIncident, Writes, server, history
<1>. HIDE DEF o
<1>7. /\ Lives' = [Lives EXCEPT ![i] = Lives[i] + 1]
      /\ Stages' = [Stages EXCEPT ![i] = "raised"] /\ Stages[i] = "none"
      /\ Duties' = [Duties EXCEPT ![i] = Duties[i]]
      /\ UNCHANGED <<Owned, Left>>
  BY <1>1, <1>2, <1>3, <1>5, <1>6, WriteSeen, BindingsStay
<1>8. UNCHANGED Duties
  BY <1>7 DEF Duties
<1>9. Permission!Raise(i)
  BY <1>6, <1>7, <1>8 DEF Permission!Raise, Permission!Set, Permission!bindings,
     Lives, Stages, Duties, Owned, Left
<1>. QED  BY <1>9 DEF Simulated, Permission!Next

\* The detector's Detected is no news.
LEMMA DetectedSeen ==
    ASSUME FullInv, NEW i \in Incidents, MarkDetected(i) PROVE Simulated
<1>. DEFINE o == [inc[i] EXCEPT !.phase = "Detected"]
<1>1. /\ TypeOK /\ MadeForInv /\ inc[i] \in Incident
      /\ inc[i].there /\ inc[i].phase \in Undispatched
  BY DEF MarkDetected, FullInv, IInv, TypeOK, FinalizerInv, RaisingInv
<1>2. o \in Incident
  BY <1>1, IncidentExcept DEF Phases
<1>3. /\ o.life = inc[i].life /\ o.there /\ o.phase = "Detected"
      /\ o.dying = inc[i].dying /\ o.fin = inc[i].fin
  BY <1>1 DEF Incident
<1>4. Stage(o) = Stage(inc[i]) /\ Duty(o) = Duty(inc[i]) /\ o.phase \notin Terminal
  BY <1>1, <1>3 DEF Stage, Duty, Undispatched, Terminal
<1>5. Writes(i, o) /\ Notes(i, o)
  BY DEF MarkDetected, Store, Writes, Notes
<1>. HIDE DEF o
<1>6. UNCHANGED <<Lives, Stages, Duties, closed, Owned, Left>>
  BY <1>1, <1>2, <1>3, <1>4, <1>5, VersionSeen
<1>. QED  BY <1>6 DEF Simulated, Sees

\* A user deletes the incident: it is dying, or gone.
LEMMA DeleteSeen ==
    ASSUME FullInv, NEW i \in Incidents, DeleteIncident(i) PROVE Simulated
<1>1. /\ TypeOK /\ MadeForInv /\ inc[i] \in Incident /\ inc[i].life \in Nat
      /\ inc[i].there /\ ~inc[i].dying
  BY DEF DeleteIncident, FullInv, IInv, TypeOK, FinalizerInv, Incident
<1>2. CASE inc[i].fin
  <2>. DEFINE o == [inc[i] EXCEPT !.dying = TRUE]
  <2>1. o \in Incident
    BY <1>1, IncidentExcept
  <2>2. /\ o.life = inc[i].life /\ o.there /\ o.phase = inc[i].phase /\ o.dying
    BY <1>1 DEF Incident
  <2>3. Stage(o) = "dying" /\ Stage(inc[i]) = "held" /\ Duty(o) = Duty(inc[i])
    BY <1>1, <1>2, <2>2 DEF Stage, Duty
  <2>4. Writes(i, o) /\ Notes(i, o)
    BY <1>2 DEF DeleteIncident, Store, Writes, Notes
  <2>. HIDE DEF o
  <2>5. /\ UNCHANGED <<Lives, Duties, Owned, Left>>
        /\ Stages' = [Stages EXCEPT ![i] = "dying"] /\ Stages[i] = "held"
        /\ o.phase \notin Terminal => UNCHANGED closed
        /\ o.phase \in Terminal => closed' = [closed EXCEPT ![i] = TRUE]
    BY <1>1, <2>1, <2>2, <2>3, <2>4, VersionSeen
  <2>6. UNCHANGED closed
    <3>1. CASE o.phase \in Terminal
      <4>1. closed[i] \in BOOLEAN /\ closed[i]
        BY <1>1, <2>2, <3>1 DEF TypeOK, FullInv, FirstLifeInv, ObjectInv, isTerminal
      <4>2. closed[i] = TRUE
        BY <4>1
      <4>3. closed \in [Incidents -> BOOLEAN] /\ closed' = [closed EXCEPT ![i] = TRUE]
        BY <1>1, <2>5, <3>1 DEF TypeOK
      <4>. QED  BY <4>2, <4>3
    <3>. QED  BY <2>5, <3>1
  <2>7. Permission!Delete(i)
    BY <2>5, <2>6 DEF Permission!Delete, Permission!Set, Permission!bindings,
       Lives, Stages, Duties, Owned, Left
  <2>. QED  BY <2>7 DEF Simulated, Permission!Next
<1>3. CASE ~inc[i].fin
  <2>1. Absent(inc[i].life) \in Incident
    BY <1>1, AbsentType
  <2>2. Writes(i, Absent(inc[i].life)) /\ Notes(i, Absent(inc[i].life))
    BY <1>3 DEF DeleteIncident, Store, Writes, Notes
  <2>. QED  BY <1>1, <2>1, <2>2, VanishSeen
<1>. QED  BY <1>2, <1>3

\* A held incident goes when it is released, or by force.
LEMMA GoneSeen ==
    ASSUME FullInv, RemoveFinalizer \/ \E i \in Incidents : ForceDelete(i) PROVE Simulated
<1>1. TypeOK
  BY DEF FullInv, IInv
<1>2. CASE RemoveFinalizer
  <2>1. rec.key \in Incidents /\ rec.obj = inc[rec.key] /\ rec.obj.there
    BY <1>1, <1>2 DEF RemoveFinalizer, Saved, TypeOK, FullInv, IInv, FinalizerInv, RecInv,
       FirstLifeInv, WorkInv
  <2>2. Absent(inc[rec.key].life) \in Incident
    BY <1>1, <2>1, AbsentType DEF TypeOK, Incident
  <2>3. /\ Writes(rec.key, Absent(inc[rec.key].life))
        /\ Notes(rec.key, Absent(inc[rec.key].life))
    BY <1>2, <2>1 DEF RemoveFinalizer, Saved, Writes, Notes
  <2>. QED  BY <1>1, <2>1, <2>2, <2>3, VanishSeen
<1>3. ASSUME NEW i \in Incidents, ForceDelete(i) PROVE Simulated
  <2>1. inc[i].there /\ Absent(inc[i].life) \in Incident
    BY <1>1, <1>3, AbsentType DEF ForceDelete, TypeOK, Incident
  <2>2. Writes(i, Absent(inc[i].life)) /\ Notes(i, Absent(inc[i].life))
    BY <1>3 DEF ForceDelete, Store, Writes, Notes
  <2>. QED  BY <1>1, <2>1, <2>2, VanishSeen
<1>. QED  BY <1>2, <1>3

\* The bindings go that the sweeper or the reconciler has doomed.
LEMMA RevokeSeen == ASSUME FullInv, RevokeGrant \/ SweepDelete PROVE Simulated
<1>1. CASE RevokeGrant
  <2>1. PICK b \in rec.drop : bound' = bound \ {b}
    BY <1>1 DEF RevokeGrant
  <2>2. b \in Bindings /\ Over(b[1])
    BY DEF FullInv, IInv, TypeOK, Reconciler, FirstLifeInv, DoomInv
  <2>. QED  BY <1>1, <2>1, <2>2, UnbindSeen DEF RevokeGrant, history
<1>2. CASE SweepDelete
  <2>1. PICK b : b \in sweep.doomed
    BY <1>2 DEF SweepDelete
  <2>2. b \in Bindings /\ Over(b[1]) /\ sweep.doomed = {b}
    BY <2>1 DEF FullInv, IInv, TypeOK, Sweeper, FirstLifeInv, DoomInv
  <2>. QED  BY <1>2, <2>2, UnbindSeen DEF SweepDelete, history
<1>. QED  BY <1>1, <1>2

-----------------------------------------------------------------------------
(* The refinement *)

\* Nothing is raised, held or bound at the start.
LEMMA InitSeen == Init => Permission!Init
<1>. SUFFICES ASSUME Init PROVE Permission!Init
  OBVIOUS
<1>1. Absent(0).life = 0 /\ Stage(Absent(0)) = "none" /\ Duty(Absent(0)) = "new"
  BY DEF Absent, Stage, Duty, Undispatched
<1>2. \A i : RolesOf(i) = {} /\ Own(i) = {}
  BY DEF Init, RolesOf, Own
<1>. QED  BY <1>1, <1>2 DEF Init, Permission!Init

\* Every step is one of IncidentPermission, or shows it nothing.
LEMMA NextSeen == FullInv /\ [Next]_vars => Simulated
<1>. SUFFICES ASSUME FullInv, [Next]_vars PROVE Simulated
  OBVIOUS
<1>. USE DEF server, informer, scout, history
<1>1. CASE UNCHANGED vars
  BY <1>1, HiddenStep DEF vars
<1>2. ASSUME NEW i \in Incidents,
             \/ Reconcile(i) \/ SyncIncident(i) \/ ScoutSees(i) \/ ScoutReaps(i)
      PROVE  Simulated
  BY <1>2, HiddenStep DEF Reconcile, SyncIncident, ScoutSees, ScoutReaps
<1>3. CASE \/ PolicyFor \/ GrantRefused \/ StatusConflict \/ UpdateRefused \/ ListGrants
           \/ Revoked \/ CallFails
  BY <1>3, HiddenStep DEF PolicyFor, GrantRefused, StatusConflict, UpdateRefused, Requeue,
     ListGrants, Revoked, CallFails
<1>4. CASE \/ SweepList \/ SweepLook \/ SweepEnds \/ SweepFails \/ OperatorRestarts
           \/ SyncBindings \/ ScoutRestarts
  BY <1>4, HiddenStep DEF SweepList, SweepLook, SweepEnds, SweepFails, OperatorRestarts,
     SyncBindings, ScoutRestarts
<1>5. CASE AddFinalizer
  BY <1>5, HoldSeen
<1>6. CASE GrantRole
  BY <1>6, GrantSeen
<1>7. CASE Queue \/ Escalate
  BY <1>7, DispatchSeen DEF Queue, Escalate
<1>8. CASE RevokeGrant \/ SweepDelete
  BY <1>8, RevokeSeen
<1>9. CASE RemoveFinalizer
  BY <1>9, GoneSeen
<1>10. ASSUME NEW i \in Incidents, RaiseIncident(i) \/ MarkDetected(i) PROVE Simulated
  BY <1>10, RaiseSeen, DetectedSeen
<1>11. ASSUME NEW i \in Incidents, ScoutAdmits(i) PROVE Simulated
  <2>1. CASE i \notin open /\ inc[i].there
    BY <1>11, <2>1, PatchSeen DEF ScoutAdmits, Phases
  <2>2. CASE ~(i \notin open /\ inc[i].there)
    BY <1>11, <2>2, HiddenStep DEF ScoutAdmits
  <2>. QED  BY <2>1, <2>2
<1>12. ASSUME NEW i \in Incidents, ScoutAwaits(i) PROVE Simulated
  BY <1>12, PatchSeen DEF ScoutAwaits, Phases
<1>13. ASSUME NEW i \in Incidents, ScoutCloses(i) \/ ModelCloses(i) PROVE Simulated
  <2>1. PICK p \in Outcomes : Patch(i, p)
    BY <1>13 DEF ScoutCloses, ModelCloses
  <2>2. p \in Phases \ {"None", "Detected", "Queued"}
    BY OutcomeAssumption DEF Terminal, Phases
  <2>. QED  BY <1>13, <2>1, <2>2, PatchSeen DEF ScoutCloses, ModelCloses
<1>14. ASSUME NEW i \in Incidents, DeleteIncident(i) \/ ForceDelete(i) PROVE Simulated
  BY <1>14, DeleteSeen, GoneSeen
<1>. QED
  BY <1>1, <1>2, <1>3, <1>4, <1>5, <1>6, <1>7, <1>8, <1>9, <1>10, <1>11, <1>12,
     <1>13, <1>14 DEF Next, ReconcilerStep, SweeperStep

\* The reconciler, the grant manager and the sweeper together do what
\* IncidentPermission promises, whatever their caches show, whatever fails and
\* wherever the operator crashes: an incident is held before anything is bound
\* for it and before it is offered, a held one vanishes at once only by force,
\* and nothing bound for the first incident of a name is taken back before that
\* incident is past.
THEOREM GrantsAsPermitted == Spec => ImplementsPermission
<1>1. FullInv /\ [Next]_vars => [Permission!Next]_(Permission!vars)
  BY NextSeen DEF Simulated, Sees, Lives, Stages, Duties, Owned, Left, Permission!vars
<1>2. Init => Permission!Init
  BY InitSeen
<1>. QED  BY <1>1, <1>2, FirstLifeInvariance, PTL DEF Spec, ImplementsPermission, Permission!Spec
=============================================================================
