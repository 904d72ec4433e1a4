------------------------ MODULE ScoutDeploymentProofs ------------------------
(***************************************************************************)
(* Proofs about ScoutDeployment, for every set of images and every bound.  *)
(***************************************************************************)
EXTENDS ScoutDeployment, TLAPS

\* A fresh copy, the informer's or one that Ensure is about to correct, is the
\* stored Deployment.
FreshInv ==
    /\ cache.fresh => cache.obj = dep
    /\ \A c \in Callers : ensure[c].pc = "update" /\ ensure[c].fresh => ensure[c].obj = dep

IInv == TypeOK /\ FreshInv

-----------------------------------------------------------------------------
(* Types *)

Pods == [{"new", "old", "orphan"} -> Nat]

LEMMA PodsType ==
    ASSUME NEW p \in Pods, NEW n \in Nat
    PROVE  /\ [p EXCEPT !.new = n] \in Pods /\ [p EXCEPT !.old = n] \in Pods
           /\ [p EXCEPT !.orphan = n] \in Pods
           /\ [p EXCEPT !.new = 0, !.old = n] \in Pods
BY DEF Pods

LEMMA DesiredType ==
    ASSUME image \in Images
    PROVE  desired \in Deployment /\ None \in Deployment /\ Idle \in Calling
           /\ ~None.there /\ ~None.defaulted /\ desired.there
<1>1. desired \in Deployment /\ desired.there
  BY DEF desired, Deployment
<1>2. ASSUME NEW d \in Deployment, NEW i \in Images
      PROVE  /\ [d EXCEPT !.there = FALSE, !.image = i] \in Deployment
             /\ ~[d EXCEPT !.there = FALSE, !.image = i].there
             /\ [d EXCEPT !.there = FALSE, !.image = i].defaulted = d.defaulted
  BY DEF Deployment
<1>3. None \in Deployment /\ ~None.there /\ None.defaulted = desired.defaulted
  BY <1>1, <1>2, ImageAssumption DEF None
<1>4. ~desired.defaulted
  BY DEF desired
<1>. QED  BY <1>1, <1>3, <1>4 DEF Idle, Calling

LEMMA CorrectedType ==
    ASSUME image \in Images, NEW d \in Deployment
    PROVE  /\ Corrected(d) \in Deployment /\ (Corrected(d).there <=> d.there)
           /\ Corrected(d).other = d.other
<1>1. desired.replicas = 1 /\ desired.strategy = "Recreate" /\ desired.image \in Images
  BY DEF desired
<1>2. ASSUME NEW n \in 0..2, NEW s \in {"Recreate", "RollingUpdate"}, NEW i \in Images,
             NEW f \in BOOLEAN
      PROVE  [d EXCEPT !.replicas = n, !.strategy = s, !.image = i, !.defaulted = f]
             \in Deployment
  BY DEF Deployment
<1>3. ASSUME NEW i \in Images
      PROVE  [d EXCEPT !.replicas = 1, !.strategy = "Recreate", !.image = i,
                       !.defaulted = FALSE].there = d.there
  BY DEF Deployment
<1>4. ASSUME NEW i \in Images
      PROVE  [d EXCEPT !.replicas = 1, !.strategy = "Recreate", !.image = i,
                       !.defaulted = FALSE].other = d.other
  BY DEF Deployment
<1>5. Corrected(d) = [d EXCEPT !.replicas = 1, !.strategy = "Recreate",
                               !.image = desired.image, !.defaulted = FALSE]
  BY <1>1 DEF Corrected
<1>6. 1 \in 0..2 /\ FALSE \in BOOLEAN
  OBVIOUS
<1>7. image \in Images /\ desired.image \in Images
  BY <1>1
<1>8. Corrected(d) \in Deployment
  <2>1. [d EXCEPT !.replicas = 1, !.strategy = "Recreate",
                  !.image = desired.image, !.defaulted = FALSE] \in Deployment
    BY <1>2, <1>6, <1>7
  <2>. QED  BY <1>5, <2>1
<1>9. Corrected(d).there = d.there /\ Corrected(d).other = d.other
  BY <1>3, <1>4, <1>5, <1>7
<1>. QED  BY <1>8, <1>9

LEMMA StoreType ==
    ASSUME TypeOK, NEW d \in Deployment, Store(d)
    PROVE  /\ dep' \in Deployment /\ dep'.defaulted = dep'.there
           /\ dep'.there = d.there /\ dep'.other = d.other
           /\ pods' \in Pods
           /\ cache' \in [obj: Deployment, fresh: BOOLEAN] /\ ~cache'.fresh
<1>1. dep' \in Deployment /\ dep'.defaulted = dep'.there /\ dep'.there = d.there
      /\ dep'.other = d.other
  BY DEF Store, Deployment
<1>2. pods.new \in Nat /\ pods.old \in Nat /\ pods.orphan \in Nat /\ pods \in Pods
  BY DEF TypeOK, Pods
<1>3. pods' \in Pods
  <2>1. [new |-> 0, old |-> 0, orphan |-> Running] \in Pods
    BY <1>2 DEF Pods, Running
  <2>2. [pods EXCEPT !.new = 0, !.old = @ + pods.new] \in Pods
    <3>1. pods.old + pods.new \in Nat
      BY <1>2
    <3>. QED  BY <1>2, <3>1, PodsType
  <2>. QED  BY <1>2, <2>1, <2>2 DEF Store
<1>4. cache' \in [obj: Deployment, fresh: BOOLEAN] /\ ~cache'.fresh
  BY DEF Store, TypeOK
<1>. QED  BY <1>1, <1>3, <1>4

LEMMA OutdatedType ==
    ASSUME TypeOK
    PROVE  /\ Outdated \in [Callers -> Calling]
           /\ \A c \in Callers : /\ Outdated[c].pc = ensure[c].pc
                                 /\ Outdated[c].obj = ensure[c].obj
                                 /\ ~Outdated[c].fresh
BY DEF TypeOK, Outdated, Calling

\* A caller comes to rest, others keep their copies or lose their freshness.
LEMMA RestType ==
    ASSUME TypeOK, NEW c \in Callers, NEW e \in {ensure, Outdated},
           ensure' = [e EXCEPT ![c] = Idle]
    PROVE  /\ ensure' \in [Callers -> Calling]
           /\ ensure'[c].pc = "idle"
           /\ \A d \in Callers \ {c} : /\ ensure'[d].pc = ensure[d].pc
                                       /\ ensure'[d].obj = ensure[d].obj
                                       /\ e = ensure => ensure'[d].fresh = ensure[d].fresh
                                       /\ e = Outdated => ~ensure'[d].fresh
<1>1. Idle \in Calling /\ Idle.pc = "idle"
  BY DesiredType DEF TypeOK, Idle
<1>2. e \in [Callers -> Calling]
  BY OutdatedType DEF TypeOK
<1>. QED  BY <1>1, <1>2, OutdatedType

-----------------------------------------------------------------------------
(* The steps *)

LEMMA EditInv == IInv /\ Edit => IInv'
<1> SUFFICES ASSUME IInv, Edit PROVE IInv'
  OBVIOUS
<1>1. PICK d \in Deployment : Store(d)
  <2>. USE DEF IInv, TypeOK, Deployment
  <2>1. \A n \in 0..2 : [dep EXCEPT !.replicas = n] \in Deployment
    OBVIOUS
  <2>2. [dep EXCEPT !.strategy = "RollingUpdate"] \in Deployment
    OBVIOUS
  <2>3. \A i \in Images : [dep EXCEPT !.image = i] \in Deployment
    OBVIOUS
  <2>4. [dep EXCEPT !.other = "edited"] \in Deployment
    OBVIOUS
  <2>5. None \in Deployment
    BY DesiredType
  <2>. HIDE DEF IInv, TypeOK, Deployment
  <2>. QED  BY <2>1, <2>2, <2>3, <2>4, <2>5 DEF Edit
<1>2. meddled' \in {"no", "yes", "answered"} /\ edits' \in 0..MaxEdits
  BY BoundAssumption DEF Edit, IInv, TypeOK
<1>3. ensure' \in [Callers -> Calling]
      /\ \A c \in Callers : /\ ensure'[c].pc = ensure[c].pc
                            /\ ensure'[c].obj = ensure[c].obj
                            /\ ~ensure'[c].fresh
  BY OutdatedType DEF Edit, IInv
<1>4. UNCHANGED <<image, queued, begun, touches, mishaps>>
  BY DEF Edit
<1>. QED  BY <1>1, <1>2, <1>3, <1>4, StoreType DEF IInv, TypeOK, FreshInv, Pods

LEMMA QuietInv ==
    ASSUME IInv, WriteStatus \/ Sync \/ Restart \/ UNCHANGED vars PROVE IInv'
<1>1. CASE WriteStatus
  <2>1. cache' \in [obj: Deployment, fresh: BOOLEAN] /\ ~cache'.fresh
    BY <1>1 DEF WriteStatus, IInv, TypeOK
  <2>2. ensure' \in [Callers -> Calling]
        /\ \A c \in Callers : /\ ensure'[c].pc = ensure[c].pc
                              /\ ensure'[c].obj = ensure[c].obj
                              /\ ~ensure'[c].fresh
    BY <1>1, OutdatedType DEF WriteStatus, IInv
  <2>3. touches' \in 0..MaxTouches
    BY <1>1, BoundAssumption DEF WriteStatus, IInv, TypeOK
  <2>. QED  BY <1>1, <2>1, <2>2, <2>3 DEF WriteStatus, IInv, TypeOK, FreshInv
<1>2. CASE Sync
  BY <1>2 DEF Sync, IInv, TypeOK, FreshInv, bounds
<1>3. CASE Restart
  <2>1. Idle \in Calling /\ Idle.pc = "idle"
    BY DesiredType DEF IInv, TypeOK, Idle
  <2>2. mishaps' \in 0..MaxMishaps
    BY <1>3, BoundAssumption DEF Restart, IInv, TypeOK
  <2>. QED  BY <1>3, <2>1, <2>2 DEF Restart, IInv, TypeOK, FreshInv, Deployment
<1>4. CASE UNCHANGED vars
  BY <1>4 DEF vars, IInv, TypeOK, FreshInv
<1>. QED  BY <1>1, <1>2, <1>3, <1>4

LEMMA RunPodsInv == IInv /\ RunPods => IInv'
<1> SUFFICES ASSUME IInv, RunPods PROVE IInv'
  OBVIOUS
<1>1. pods.new \in Nat /\ pods.old \in Nat /\ pods.orphan \in Nat /\ pods \in Pods
  BY DEF IInv, TypeOK, Pods
<1>2. pods' \in Pods
  <2>1. dep.replicas \in 0..2
    <3>1. dep \in Deployment
      BY DEF IInv, TypeOK
    <3>. QED  BY <3>1 DEF Deployment
  <2>2. ASSUME NEW n \in Nat
        PROVE  /\ [pods EXCEPT !.new = n] \in Pods
               /\ [pods EXCEPT !.old = n] \in Pods
               /\ [pods EXCEPT !.orphan = n] \in Pods
    BY <1>1, PodsType
  <2>3. /\ pods.new + 1 \in Nat
        /\ pods.new > dep.replicas => pods.new - 1 \in Nat
        /\ pods.old > 0 => pods.old - 1 \in Nat
        /\ pods.orphan > 0 => pods.orphan - 1 \in Nat
    BY <1>1, <2>1
  <2>. QED  BY <2>2, <2>3 DEF RunPods
<1>3. meddled' \in {"no", "yes", "answered"}
  BY DEF RunPods, IInv, TypeOK
<1>. QED  BY <1>2, <1>3 DEF RunPods, operator, bounds, IInv, TypeOK, FreshInv, Pods

\* Ensure corrects a Deployment that it found, and no other.
LEMMA GetInv == ASSUME IInv, NEW c \in Callers, Get(c) PROVE IInv'
<1>1. /\ ensure' \in [Callers -> Calling]
      /\ \A d \in Callers \ {c} : ensure'[d] = ensure[d]
      /\ ensure'[c].pc = "update" => /\ ensure'[c].obj = cache.obj /\ cache.obj.there
                                     /\ (ensure'[c].fresh <=> cache.fresh)
  <2>1. Idle \in Calling /\ Idle.pc = "idle"
    BY DesiredType DEF IInv, TypeOK, Idle
  <2>2. cache.obj \in Deployment /\ cache.fresh \in BOOLEAN /\ ensure \in [Callers -> Calling]
        /\ cache.obj.there \in BOOLEAN
    BY DEF IInv, TypeOK, Deployment
  <2>3. [Idle EXCEPT !.pc = "create"] \in Calling /\ [Idle EXCEPT !.pc = "create"].pc = "create"
    BY <2>1 DEF Idle, Calling
  <2>4. [pc |-> "update", obj |-> cache.obj, fresh |-> cache.fresh] \in Calling
    BY <2>2 DEF Calling
  <2>. DEFINE e == IF ~cache.obj.there THEN [Idle EXCEPT !.pc = "create"]
                   ELSE IF UpToDate(cache.obj) THEN Idle
                   ELSE [pc |-> "update", obj |-> cache.obj, fresh |-> cache.fresh]
  <2>5. e \in Calling
    BY <2>1, <2>3, <2>4
  <2>6. e.pc = "update" => e.obj = cache.obj /\ cache.obj.there /\ (e.fresh <=> cache.fresh)
    BY <2>1, <2>3
  <2>7. ensure' = [ensure EXCEPT ![c] = e]
    BY DEF Get
  <2>. HIDE DEF e
  <2>8. ensure' \in [Callers -> Calling] /\ \A d \in Callers \ {c} : ensure'[d] = ensure[d]
    BY <2>2, <2>5, <2>7
  <2>9. ensure'[c] = e
    BY <2>2, <2>7
  <2>. QED  BY <2>6, <2>8, <2>9, Zenon
<1>2. queued' \in BOOLEAN /\ begun' \in BOOLEAN
  BY DEF Get, IInv, TypeOK
<1>3. UNCHANGED <<dep, pods, image, cache, meddled, edits, touches, mishaps>>
  BY DEF Get, bounds
<1>4. ASSUME NEW d \in Callers, ensure'[d].pc = "update" PROVE ensure'[d].obj.there
  <2>1. CASE d = c
    BY <1>1, <1>4, <2>1
  <2>2. CASE d # c
    <3>1. ensure'[d] = ensure[d]
      BY <1>1, <2>2
    <3>. QED  BY <1>4, <3>1 DEF IInv, TypeOK
  <2>. QED  BY <2>1, <2>2
<1>5. TypeOK'
  BY <1>1, <1>2, <1>3, <1>4 DEF IInv, TypeOK
<1>6. FreshInv'
  <2>1. ASSUME NEW d \in Callers, ensure'[d].pc = "update", ensure'[d].fresh
        PROVE  ensure'[d].obj = dep
    <3>1. CASE d = c
      BY <1>1, <2>1, <3>1 DEF IInv, FreshInv
    <3>2. CASE d # c
      <4>1. ensure'[d] = ensure[d]
        BY <1>1, <3>2
      <4>. QED  BY <2>1, <4>1 DEF IInv, FreshInv
    <3>. QED  BY <3>1, <3>2
  <2>. QED  BY <1>3, <2>1 DEF IInv, FreshInv
<1>. QED  BY <1>5, <1>6 DEF IInv

LEMMA WrittenInv ==
    ASSUME IInv, NEW c \in Callers, NEW d \in Deployment, Written(c, d)
    PROVE  IInv' /\ (dep' = dep \/ dep'.other = d.other)
<1>1. meddled' \in {"no", "yes", "answered"} /\ UNCHANGED <<image, queued, begun, bounds>>
  BY DEF Written, IInv, TypeOK
<1>2. CASE UNCHANGED <<dep, pods, cache>> /\ ensure' = [ensure EXCEPT ![c] = Idle]
  BY <1>1, <1>2, RestType DEF IInv, TypeOK, FreshInv, bounds
<1>3. CASE Store(d) /\ ensure' = [Outdated EXCEPT ![c] = Idle]
  BY <1>1, <1>3, RestType, StoreType DEF IInv, TypeOK, FreshInv, bounds, Pods
<1>. QED  BY <1>2, <1>3 DEF Written

LEMMA FailsInv ==
    ASSUME IInv, NEW c \in Callers, Refused(c) \/ CallFails(c) PROVE IInv'
<1>1. Fails(c) /\ mishaps' \in 0..MaxMishaps
  BY BoundAssumption DEF Refused, CallFails, IInv, TypeOK
<1>2. ensure' = [ensure EXCEPT ![c] = Idle] /\ queued' \in BOOLEAN
  BY <1>1 DEF Fails, IInv, TypeOK
<1>3. UNCHANGED <<dep, pods, image, cache, begun, meddled, edits, touches>>
  BY <1>1 DEF Fails
<1>4. TypeOK'
  BY <1>1, <1>2, <1>3, RestType DEF IInv, TypeOK
<1>5. FreshInv'
  BY <1>2, <1>3, RestType DEF IInv, FreshInv
<1>. QED  BY <1>4, <1>5 DEF IInv

LEMMA StepInv == IInv /\ [Next]_vars => IInv'
<1> SUFFICES ASSUME IInv, [Next]_vars PROVE IInv'
  OBVIOUS
<1>1. ASSUME NEW c \in Callers, Create(c) PROVE IInv'
  BY <1>1, WrittenInv, DesiredType DEF Create, IInv, TypeOK
<1>2. ASSUME NEW c \in Callers, Update(c) PROVE IInv'
  <2>1. Corrected(ensure[c].obj) \in Deployment
    BY CorrectedType DEF IInv, TypeOK, Calling
  <2>. QED  BY <1>2, <2>1, WrittenInv DEF Update
<1>. QED  BY <1>1, <1>2, EditInv, QuietInv, RunPodsInv, GetInv, FailsInv DEF Next, EnsureStep

\* Nothing is deployed, and the copies agree, at the start.
LEMMA InitInv == Init => IInv
<1> SUFFICES ASSUME Init PROVE IInv
  OBVIOUS
<1>1. image \in Images /\ dep = None
  BY ImageAssumption DEF Init
<1>2. /\ dep \in Deployment /\ ~dep.there /\ ~dep.defaulted
      /\ Idle \in Calling /\ Idle.pc = "idle"
  BY <1>1, DesiredType DEF Idle
<1>3. cache \in [obj: Deployment, fresh: BOOLEAN] /\ cache.obj = dep
  BY <1>1, <1>2 DEF Init
<1>4. ensure \in [Callers -> Calling] /\ \A c \in Callers : ensure[c].pc = "idle"
  BY <1>2 DEF Init
<1>5. pods \in Pods
  BY DEF Init, Pods
<1>6. FreshInv
  BY <1>3, <1>4 DEF FreshInv
<1>7. TypeOK
  <2>1. dep.defaulted = dep.there
    BY <1>2 DEF Deployment
  <2>2. queued \in BOOLEAN /\ begun \in BOOLEAN /\ meddled \in {"no", "yes", "answered"}
    BY DEF Init
  <2>3. edits \in 0..MaxEdits /\ touches \in 0..MaxTouches /\ mishaps \in 0..MaxMishaps
    BY BoundAssumption DEF Init
  <2>4. \A c \in Callers : ensure[c].pc = "update" => ensure[c].obj.there
    BY <1>4
  <2>. QED  BY <2>1, <2>2, <2>3, <2>4, <1>1, <1>2, <1>3, <1>4, <1>5 DEF TypeOK, Pods
<1>. QED  BY <1>6, <1>7 DEF IInv

LEMMA Inductive == Spec => []IInv
BY InitInv, StepInv, PTL DEF Spec

-----------------------------------------------------------------------------
(* The scout is alone *)

\* Unless a user's change is still to be answered, the stored Deployment is of
\* the kind that runs one pod and stops it before it starts another.
KindInv ==
    /\ meddled # "yes" /\ dep.there => dep.replicas = 1 /\ dep.strategy = "Recreate"
    /\ meddled = "answered" => dep.there

\* And unless it is still to be undone, there are no orphans and at most one pod,
\* which belongs to the Deployment.
PodsInv ==
    meddled = "no" => /\ pods.orphan = 0 /\ Running <= 1
                      /\ dep.there \/ Running = 0

AloneInv == IInv /\ KindInv /\ PodsInv

\* What Ensure writes is of that kind.
LEMMA OwnKind ==
    ASSUME image \in Images, NEW d \in Deployment
    PROVE  /\ desired.replicas = 1 /\ desired.strategy = "Recreate"
           /\ Corrected(d).replicas = 1 /\ Corrected(d).strategy = "Recreate"
<1>1. desired.replicas = 1 /\ desired.strategy = "Recreate"
  BY DEF desired
<1>2. Corrected(d) = [d EXCEPT !.replicas = 1, !.strategy = "Recreate",
                               !.image = desired.image, !.defaulted = FALSE]
  BY <1>1 DEF Corrected
<1>3. /\ [d EXCEPT !.replicas = 1, !.strategy = "Recreate",
                   !.image = desired.image, !.defaulted = FALSE].replicas = 1
      /\ [d EXCEPT !.replicas = 1, !.strategy = "Recreate",
                   !.image = desired.image, !.defaulted = FALSE].strategy = "Recreate"
  BY DEF Deployment
<1>. QED  BY <1>1, <1>2, <1>3

\* Storing a Deployment, unless that deletes one, starts and stops no pod.
LEMMA StorePods ==
    ASSUME TypeOK, NEW d \in Deployment, d.there \/ ~dep.there, Store(d)
    PROVE  /\ dep'.there = d.there /\ dep'.replicas = d.replicas
           /\ dep'.strategy = d.strategy
           /\ Running' = Running /\ pods'.orphan = pods.orphan
<1>1. dep'.there = d.there /\ dep'.replicas = d.replicas /\ dep'.strategy = d.strategy
  BY DEF Store, Deployment
<1>2. pods.new \in Nat /\ pods.old \in Nat /\ pods.orphan \in Nat /\ pods \in Pods
  BY DEF TypeOK, Pods
<1>3. \/ pods' = pods
      \/ pods' = [pods EXCEPT !.new = 0, !.old = pods.old + pods.new]
  BY DEF Store
<1>4. /\ \/ pods'.new = pods.new /\ pods'.old = pods.old
         \/ pods'.new = 0 /\ pods'.old = pods.old + pods.new
      /\ pods'.orphan = pods.orphan
  <2>1. CASE pods' = pods
    BY <2>1
  <2>2. CASE pods' = [pods EXCEPT !.new = 0, !.old = pods.old + pods.new]
    <3>. DEFINE n == pods.old + pods.new
    <3>1. pods' = [pods EXCEPT !.new = 0, !.old = n]
      BY <2>2
    <3>. HIDE DEF n
    <3>2. pods'.new = 0 /\ pods'.old = n /\ pods'.orphan = pods.orphan
      BY <1>2, <3>1 DEF Pods
    <3>. QED  BY <3>2 DEF n
  <2>. QED  BY <1>3, <2>1, <2>2
<1>. QED  BY <1>1, <1>2, <1>4 DEF Running

\* The write of Ensure leaves the pods alone and the Deployment of its kind.
LEMMA WrittenAlone ==
    ASSUME AloneInv, NEW c \in Callers, NEW d \in Deployment, Written(c, d),
           d.there, d.replicas = 1, d.strategy = "Recreate"
    PROVE  KindInv' /\ PodsInv'
<1>1. /\ dep'.there /\ dep'.replicas = 1 /\ dep'.strategy = "Recreate"
      /\ Running' = Running /\ pods'.orphan = pods.orphan
  <2>1. CASE Store(d)
    BY <2>1, StorePods DEF AloneInv, IInv
  <2>2. CASE [d EXCEPT !.defaulted = TRUE] = dep /\ UNCHANGED <<dep, pods>>
    <3>1. dep.there /\ dep.replicas = 1 /\ dep.strategy = "Recreate"
      BY <2>2 DEF Deployment
    <3>. QED  BY <2>2, <3>1 DEF Running
  <2>. QED  BY <2>1, <2>2 DEF Written
<1>2. pods' \in Pods
  BY WrittenInv DEF AloneInv, IInv, TypeOK, Pods
<1>3. Calm' => pods'.orphan = 0 /\ Running' <= 1
  BY <1>2 DEF Calm, Running, Pods
<1>4. meddled' = IF meddled = "no" \/ Calm' THEN "no" ELSE "answered"
  BY DEF Written
<1>. QED  BY <1>1, <1>3, <1>4 DEF AloneInv, KindInv, PodsInv

\* Recreate starts a pod only when no other runs.
LEMMA RunPodsAlone == ASSUME AloneInv, RunPods PROVE KindInv' /\ PodsInv'
<1>1. /\ pods \in Pods /\ pods.new \in Nat /\ pods.old \in Nat /\ pods.orphan \in Nat
      /\ dep.replicas \in 0..2 /\ meddled \in {"no", "yes", "answered"}
  BY DEF AloneInv, IInv, TypeOK, Pods, Deployment
<1>2. dep' = dep /\ meddled' = IF meddled = "answered" /\ Calm' THEN "no" ELSE meddled
  BY DEF RunPods
<1>3. KindInv'
  BY <1>1, <1>2 DEF AloneInv, KindInv
<1>4. \/ /\ dep.there /\ pods.new < dep.replicas
         /\ dep.strategy = "RollingUpdate" \/ pods.old = 0
         /\ pods' = [pods EXCEPT !.new = pods.new + 1]
      \/ pods.new > dep.replicas /\ pods' = [pods EXCEPT !.new = pods.new - 1]
      \/ pods.old > 0 /\ pods' = [pods EXCEPT !.old = pods.old - 1]
      \/ pods.orphan > 0 /\ pods' = [pods EXCEPT !.orphan = pods.orphan - 1]
  BY DEF RunPods
<1>5. CASE meddled = "no"
  <2>1. pods.orphan = 0 /\ Running <= 1 /\ (dep.there \/ Running = 0)
        /\ (dep.there => dep.replicas = 1 /\ dep.strategy = "Recreate")
    BY <1>5 DEF AloneInv, KindInv, PodsInv
  <2>2. pods'.orphan = 0 /\ Running' <= 1 /\ (dep.there \/ Running' = 0)
    BY <1>1, <1>4, <2>1 DEF Running, Pods
  <2>. QED  BY <1>2, <1>3, <2>2 DEF PodsInv
<1>6. CASE meddled = "answered" /\ Calm'
  <2>1. pods' \in Pods
    BY RunPodsInv DEF AloneInv, IInv, TypeOK, Pods
  <2>2. pods'.orphan = 0 /\ Running' <= 1
    BY <1>6, <2>1 DEF Calm, Running, Pods
  <2>. QED  BY <1>2, <1>3, <1>6, <2>2 DEF AloneInv, KindInv, PodsInv
<1>7. CASE meddled # "no" /\ ~(meddled = "answered" /\ Calm')
  BY <1>2, <1>3, <1>7 DEF PodsInv
<1>. QED  BY <1>5, <1>6, <1>7

\* A user's change is noted, unless it is to what keeps no scout alone.
LEMMA EditAlone == ASSUME AloneInv, Edit PROVE KindInv' /\ PodsInv'
<1>1. CASE meddled' = "yes"
  BY <1>1 DEF KindInv, PodsInv
<1>2. CASE meddled' # "yes"
  <2>1. PICK d : Store(d) /\ d = [dep EXCEPT !.other = d.other] /\ meddled' = meddled
                 /\ d \in {None} \cup {[dep EXCEPT !.replicas = n] : n \in 0..2}
                          \cup {[dep EXCEPT !.strategy = "RollingUpdate"]}
                          \cup {[dep EXCEPT !.image = i] : i \in Images}
                          \cup {[dep EXCEPT !.other = "edited"]}
    BY <1>2 DEF Edit
  <2>2. dep \in Deployment /\ dep.there
    BY DEF AloneInv, IInv, TypeOK, Edit
  <2>3. /\ d.there /\ d.replicas = dep.replicas /\ d.strategy = dep.strategy
        /\ d \in Deployment
    <3>1. /\ [dep EXCEPT !.other = d.other].there = dep.there
          /\ [dep EXCEPT !.other = d.other].replicas = dep.replicas
          /\ [dep EXCEPT !.other = d.other].strategy = dep.strategy
      BY <2>2 DEF Deployment
    <3>2. ~None.there
      BY DesiredType DEF AloneInv, IInv, TypeOK
    <3>3. d # None
      BY <2>1, <2>2, <3>1, <3>2
    <3>4. d \in Deployment
      <4>1. \A n \in 0..2 : [dep EXCEPT !.replicas = n] \in Deployment
        BY <2>2 DEF Deployment
      <4>2. [dep EXCEPT !.strategy = "RollingUpdate"] \in Deployment
        BY <2>2 DEF Deployment
      <4>3. \A i \in Images : [dep EXCEPT !.image = i] \in Deployment
        BY <2>2 DEF Deployment
      <4>4. [dep EXCEPT !.other = "edited"] \in Deployment
        BY <2>2 DEF Deployment
      <4>. QED  BY <2>1, <3>3, <4>1, <4>2, <4>3, <4>4
    <3>. QED  BY <2>1, <2>2, <3>1, <3>4
  <2>4. /\ dep'.there /\ dep'.replicas = dep.replicas /\ dep'.strategy = dep.strategy
        /\ Running' = Running /\ pods'.orphan = pods.orphan
    BY <2>1, <2>2, <2>3, StorePods DEF AloneInv, IInv
  <2>. QED  BY <2>1, <2>2, <2>4 DEF AloneInv, KindInv, PodsInv
<1>. QED  BY <1>1, <1>2

LEMMA AloneStep == AloneInv /\ [Next]_vars => AloneInv'
<1> SUFFICES ASSUME AloneInv, [Next]_vars PROVE AloneInv'
  OBVIOUS
<1>1. CASE Edit \/ RunPods
  BY <1>1, EditAlone, RunPodsAlone, StepInv DEF AloneInv, Next
<1>2. CASE UNCHANGED <<dep, pods, meddled>>
  BY <1>2, StepInv DEF AloneInv, KindInv, PodsInv, Running
<1>3. CASE WriteStatus \/ Sync \/ Restart \/ UNCHANGED vars
  BY <1>2, <1>3 DEF WriteStatus, Sync, Restart, vars
<1>4. ASSUME NEW c \in Callers, Get(c) \/ Refused(c) \/ CallFails(c) PROVE AloneInv'
  BY <1>2, <1>4 DEF Get, Refused, CallFails, Fails
<1>5. ASSUME NEW c \in Callers, Create(c) PROVE AloneInv'
  <2>1. /\ desired \in Deployment /\ desired.there
        /\ desired.replicas = 1 /\ desired.strategy = "Recreate"
    BY DesiredType, OwnKind DEF AloneInv, IInv, TypeOK
  <2>. QED  BY <1>5, <2>1, WrittenAlone, StepInv DEF Create, AloneInv, Next, EnsureStep
<1>6. ASSUME NEW c \in Callers, Update(c) PROVE AloneInv'
  <2>. DEFINE d == Corrected(ensure[c].obj)
  <2>1. /\ d \in Deployment /\ d.there /\ d.replicas = 1 /\ d.strategy = "Recreate"
    <3>1. ensure[c].obj \in Deployment /\ ensure[c].obj.there /\ image \in Images
      BY <1>6 DEF Update, AloneInv, IInv, TypeOK, Calling
    <3>. QED  BY <3>1, CorrectedType, OwnKind
  <2>2. Written(c, d)
    BY <1>6 DEF Update
  <2>. HIDE DEF d
  <2>. QED  BY <1>6, <2>1, <2>2, WrittenAlone, StepInv DEF AloneInv, Next, EnsureStep
<1>. QED  BY <1>1, <1>3, <1>4, <1>5, <1>6 DEF Next, EnsureStep

-----------------------------------------------------------------------------
(* Theorems *)

\* Every state has its type, whatever the bounds.
THEOREM TypeCorrect == Spec => []TypeOK
<1>1. IInv => TypeOK
  BY DEF IInv
<1>. QED  BY <1>1, Inductive, PTL

\* Two callers of Ensure, stale caches, failures and upgrades: what a user wrote
\* into the fields that the operator does not own survives its every write.
THEOREM EditsSurvive == Spec => OthersKept
<1>. DEFINE Kept == dep.there /\ dep'.there /\ edits' = edits => dep'.other = dep.other
<1>1. IInv /\ [Next]_vars => [Kept]_vars
  <2> SUFFICES ASSUME IInv, [Next]_vars PROVE Kept
    OBVIOUS
  <2>1. CASE Edit
    BY <2>1 DEF Edit, IInv, TypeOK
  <2>2. CASE WriteStatus \/ RunPods \/ Sync \/ Restart \/ UNCHANGED vars
    BY <2>2 DEF WriteStatus, RunPods, Sync, Restart, vars
  <2>3. ASSUME NEW c \in Callers, Get(c) \/ Refused(c) \/ CallFails(c) PROVE Kept
    BY <2>3 DEF Get, Refused, CallFails, Fails
  <2>4. ASSUME NEW c \in Callers, Create(c) PROVE Kept
    BY <2>4 DEF Create
  <2>5. ASSUME NEW c \in Callers, Update(c) PROVE Kept
    <3>1. ensure[c].obj = dep /\ ensure[c].obj \in Deployment
      BY <2>5 DEF Update, IInv, TypeOK, FreshInv
    <3>2. Corrected(ensure[c].obj) \in Deployment /\ Corrected(ensure[c].obj).other = dep.other
      BY <3>1, CorrectedType DEF IInv, TypeOK
    <3>. QED  BY <2>5, <3>2, WrittenInv DEF Update
  <2>. QED  BY <2>1, <2>2, <2>3, <2>4, <2>5 DEF Next, EnsureStep
<1>. QED  BY <1>1, Inductive, PTL DEF Spec, OthersKept

\* Two scouts never run at once, whatever races, crashes and upgrades there are:
\* not unless a user changed what keeps the scout alone, and then only until
\* the operator has answered and the surplus pods are gone.
THEOREM OneScout == Spec => []ScoutIsAlone
<1>1. Init => AloneInv
  <2> SUFFICES ASSUME Init PROVE AloneInv
    OBVIOUS
  <2>1. dep = None /\ ~None.there /\ meddled = "no"
    BY DesiredType, ImageAssumption DEF Init
  <2>2. pods.orphan = 0 /\ Running = 0
    BY DEF Init, Running
  <2>. QED  BY <2>1, <2>2, InitInv DEF AloneInv, KindInv, PodsInv
<1>2. AloneInv => ScoutIsAlone
  <2> SUFFICES ASSUME AloneInv, Running > 1, meddled = "no" PROVE FALSE
    BY DEF ScoutIsAlone
  <2>1. pods.new \in Nat /\ pods.old \in Nat /\ pods.orphan \in Nat
    BY DEF AloneInv, IInv, TypeOK
  <2>. QED  BY <2>1 DEF AloneInv, PodsInv, Running
<1>. QED  BY <1>1, <1>2, AloneStep, PTL DEF Spec
=============================================================================
