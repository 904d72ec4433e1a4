------------------------ MODULE PatchDeploymentProofs ------------------------
(***************************************************************************)
(* Proofs about PatchDeployment, for every set of pod specs and patches,   *)
(* any number of replicas, and every bound; and about LineDiff, for any    *)
(* two texts.                                                              *)
(***************************************************************************)
EXTENDS PatchDeployment, SequenceTheorems, FiniteSetTheorems, WellFoundedInduction, TLAPS

\* The counters lag behind the Deployment, and when they count as a complete
\* rollout the Deployment's controller found this very generation rolled out.
StatusInv ==
    /\ status.observed <= dep.gen
    /\ rolledOut => complete = dep.gen

IInv == TypeOK /\ StatusInv /\ CompleteIsComplete

-----------------------------------------------------------------------------
(* Types *)

Pods == [{"new", "old", "up"} -> Nat]

LEMMA RemoveType ==
    ASSUME NEW S, NEW t \in Seq(S), NEW i \in Nat \ {0}, i <= Len(t), Len(t) > 1
    PROVE  RemoveAt(t, i) \in Seq(S) \ {<<>>}
<1>1. SubSeq(t, 1, i - 1) \in Seq(S) /\ Len(SubSeq(t, 1, i - 1)) = i - 1
  OBVIOUS
<1>2. SubSeq(t, i + 1, Len(t)) \in Seq(S) /\ Len(SubSeq(t, i + 1, Len(t))) = Len(t) - i
  <2>1. i + 1 \in Int /\ Len(t) \in Int /\ \A j \in (i + 1)..Len(t) : t[j] \in S
    OBVIOUS
  <2>2. SubSeq(t, i + 1, Len(t)) \in Seq(S)
        /\ Len(SubSeq(t, i + 1, Len(t))) = IF i + 1 <= Len(t) THEN Len(t) - (i + 1) + 1 ELSE 0
    BY <2>1, SubSeqProperties
  <2>. QED  BY <2>1, <2>2
<1>3. /\ RemoveAt(t, i) \in Seq(S)
      /\ Len(RemoveAt(t, i)) = Len(SubSeq(t, 1, i - 1)) + Len(SubSeq(t, i + 1, Len(t)))
  BY <1>1, <1>2, ConcatProperties, Zenon DEF RemoveAt
<1>4. Len(RemoveAt(t, i)) = (i - 1) + (Len(t) - i)
  BY <1>1, <1>2, <1>3, Zenon
<1>5. Len(RemoveAt(t, i)) = Len(t) - 1
  <2>1. Len(t) \in Nat
    OBVIOUS
  <2>2. (i - 1) + (Len(t) - i) = Len(t) - 1
    BY <2>1
  <2>. QED  BY <1>4, <2>2, Zenon
<1>. QED  BY <1>3, <1>5

LEMMA PatchedType ==
    ASSUME NEW t \in Templates, NEW p \in Patches PROVE Patched(t, p) \in Templates
<1>1. t \in Seq(Lines) /\ t # <<>> /\ Len(t) \in Nat /\ Len(t) >= 1
  BY DEF Templates
<1>2. CASE p \in [set: Nat \ {0}, line: Lines]
  <2>1. "set" \in DOMAIN p /\ p.set \in Nat \ {0} /\ p.line \in Lines
    BY <1>2
  <2>2. CASE p.set <= Len(t)
    <3>1. [t EXCEPT ![p.set] = p.line] \in Seq(Lines)
          /\ Len([t EXCEPT ![p.set] = p.line]) = Len(t)
      BY <1>1, <2>1, <2>2, ExceptSeq
    <3>2. Patched(t, p) = [t EXCEPT ![p.set] = p.line]
      BY <2>1, <2>2 DEF Patched, ReplaceAt
    <3>. QED  BY <1>1, <3>1, <3>2 DEF Templates
  <2>3. CASE ~(p.set <= Len(t))
    <3>1. Patched(t, p) = Append(t, p.line)
      BY <2>1, <2>3 DEF Patched
    <3>. QED  BY <1>1, <2>1, <3>1, AppendProperties DEF Templates
  <2>. QED  BY <2>2, <2>3
<1>3. CASE p \in [drop: Nat \ {0}]
  <2>1. "set" \notin DOMAIN p /\ p.drop \in Nat \ {0}
    BY <1>3
  <2>. QED  BY <1>1, <2>1, RemoveType DEF Patched, Templates
<1>4. CASE p \in [replicas: 0..MaxReplicas]
  <2>1. "set" \notin DOMAIN p /\ "drop" \notin DOMAIN p
    BY <1>4
  <2>. QED  BY <1>1, <2>1 DEF Patched, Templates
<1>. QED  BY <1>2, <1>3, <1>4, PatchAssumption

LEMMA MergeType ==
    ASSUME NEW d \in Deployment, NEW p \in Patches
    PROVE  /\ Merge(d, p) \in Deployment
           /\ Merge(d, p).template \in Templates
<1>1. Patched(d.template, p) \in Templates
  BY PatchedType DEF Deployment
<1>2. (IF "replicas" \in DOMAIN p THEN p.replicas ELSE d.replicas) \in 0..MaxReplicas
  <2>1. CASE p \in [set: Nat \ {0}, line: Lines] \cup [drop: Nat \ {0}]
    BY <2>1 DEF Deployment
  <2>2. CASE p \in [replicas: 0..MaxReplicas]
    BY <2>2
  <2>. QED  BY <2>1, <2>2, PatchAssumption
<1>3. \A t \in Templates, n \in 0..MaxReplicas :
         /\ [d EXCEPT !.template = t, !.replicas = n] \in Deployment
         /\ [d EXCEPT !.template = t, !.replicas = n].template = t
  BY DEF Deployment
<1>. QED  BY <1>1, <1>2, <1>3 DEF Merge

LEMMA OnePods ==
    ASSUME NEW q \in Pods, NEW n \in Nat, NEW r,
           r \in {[q EXCEPT !.new = n], [q EXCEPT !.up = n]}
    PROVE  /\ r \in Pods /\ r.old = q.old
           /\ r = [q EXCEPT !.new = n] => r.new = n /\ r.up = q.up
           /\ r = [q EXCEPT !.up = n] => r.new = q.new /\ r.up = n
BY DEF Pods

PodsOK == pods \in Pods /\ pods.up <= pods.new + pods.old

\* A write is of the same generation or of the next one, and the counters that
\* were right for this generation are no longer right for the next.
LEMMA StoreKeeps ==
    ASSUME TypeOK, StatusInv, NEW d \in Deployment, Store(d), UNCHANGED <<status, complete>>
    PROVE  /\ dep' \in Deployment /\ dep.gen <= dep'.gen
           /\ PodsOK'
           /\ StatusInv'
<1>1. dep \in Deployment /\ dep.gen \in Nat \ {0} /\ PodsOK
      /\ status.observed \in Nat
  BY DEF TypeOK, Deployment, Counters, PodsOK, Pods
<1>. DEFINE new == d.template # dep.template \/ d.replicas # dep.replicas
<1>2. /\ dep' \in Deployment
      /\ dep'.gen = IF new THEN dep.gen + 1 ELSE dep.gen
      /\ dep'.replicas = d.replicas
  <2>1. \A g \in Nat \ {0} : /\ [d EXCEPT !.gen = g] \in Deployment
                             /\ [d EXCEPT !.gen = g].gen = g
                             /\ [d EXCEPT !.gen = g].replicas = d.replicas
    BY DEF Deployment
  <2>2. dep.gen + 1 \in Nat \ {0}
    BY <1>1
  <2>. QED  BY <1>1, <2>1, <2>2 DEF Store
<1>3. PodsOK'
  <2>1. CASE d.template = dep.template
    BY <1>1, <2>1 DEF Store, PodsOK
  <2>2. CASE d.template # dep.template
    <3>1. pods.new \in Nat /\ pods.old \in Nat /\ pods.up \in Nat
      BY <1>1 DEF PodsOK, Pods
    <3>. DEFINE m == pods.old + pods.new
    <3>2. m \in Nat /\ pods.up <= m /\ m = 0 + m
      BY <1>1, <3>1 DEF PodsOK
    <3>3. pods' = [pods EXCEPT !.new = 0, !.old = m]
      BY <2>2 DEF Store
    <3>. HIDE DEF m
    <3>4. pods' \in Pods /\ pods'.new = 0 /\ pods'.old = m /\ pods'.up = pods.up
      BY <1>1, <3>2, <3>3 DEF PodsOK, Pods
    <3>. QED  BY <3>2, <3>4 DEF PodsOK
  <2>. QED  BY <2>1, <2>2
<1>4. StatusInv'
  <2>1. CASE new
    BY <1>1, <1>2, <2>1 DEF StatusInv, rolledOut
  <2>2. CASE ~new
    BY <1>1, <1>2, <2>2 DEF StatusInv, rolledOut
  <2>. QED  BY <2>1, <2>2
<1>. QED  BY <1>1, <1>2, <1>3, <1>4

-----------------------------------------------------------------------------
(* The steps *)

LEMMA InitInv == Init => IInv
<1> SUFFICES ASSUME Init PROVE IInv
  OBVIOUS
<1>. USE BoundAssumption
<1>1. PICK t \in Initial, n \in 1..MaxReplicas :
         /\ dep = [there |-> TRUE, gen |-> 1, template |-> t, replicas |-> n]
         /\ status = [observed |-> 1, updated |-> n, replicas |-> n, available |-> n]
         /\ pods = [new |-> n, old |-> 0, up |-> n]
  BY DEF Init
<1>2. t \in Templates /\ n \in Nat /\ n \in 0..MaxReplicas
  BY PatchAssumption DEF Templates
<1>3. dep \in Deployment /\ dep.gen = 1
  BY <1>1, <1>2 DEF Deployment
<1>4. status \in Counters /\ status.observed = 1
  BY <1>1, <1>2 DEF Counters
<1>5. pods \in Pods /\ pods.up <= pods.new + pods.old
  BY <1>1, <1>2 DEF Pods
<1>6. tool \in Tool /\ tool.pc = "idle"
  BY DEF Init, Idle, Tool
<1>7. TypeOK
  BY <1>3, <1>4, <1>5, <1>6 DEF Init, TypeOK, Pods
<1>8. StatusInv /\ CompleteIsComplete
  BY <1>3, <1>4 DEF Init, StatusInv, CompleteIsComplete
<1>. QED  BY <1>7, <1>8 DEF IInv

LEMMA OthersInv == IInv /\ OthersChange => IInv'
<1> SUFFICES ASSUME IInv, OthersChange PROVE IInv'
  OBVIOUS
<1>1. UNCHANGED <<status, complete, tool, result, applied>>
  BY DEF OthersChange
<1>2. changes' \in 0..MaxChanges
  <2>1. changes < MaxChanges /\ changes' = changes + 1
    BY DEF OthersChange
  <2>2. changes \in 0..MaxChanges
    BY DEF IInv, TypeOK
  <2>. QED  BY <2>1, <2>2, BoundAssumption
<1>3. dep \in Deployment /\ PodsOK
  BY DEF IInv, TypeOK, PodsOK, Pods
<1>. DEFINE Moved == dep' \in Deployment /\ dep.gen <= dep'.gen /\ PodsOK' /\ StatusInv'
<1>5. Moved
  <2>1. ASSUME NEW p \in Patches, Store(Merge(dep, p)) PROVE Moved
    BY <1>1, <1>3, <2>1, StoreKeeps, MergeType DEF IInv
  <2>2. CASE dep' = [dep EXCEPT !.there = FALSE] /\ UNCHANGED pods
    <3>1. dep' \in Deployment /\ dep'.gen = dep.gen /\ dep'.replicas = dep.replicas
      BY <1>3, <2>2 DEF Deployment
    <3>. QED  BY <1>1, <1>3, <2>2, <3>1 DEF IInv, PodsOK, StatusInv, rolledOut, Deployment
  <2>. QED  BY <2>1, <2>2 DEF OthersChange
<1>6. applied' \in 1..dep'.gen /\ complete' \in 1..dep'.gen
  <2>1. dep.gen \in Nat /\ dep'.gen \in Nat
    BY <1>3, <1>5 DEF Deployment
  <2>2. applied \in 1..dep.gen /\ complete \in 1..dep.gen
    BY DEF IInv, TypeOK
  <2>. QED  BY <1>1, <1>5, <2>1, <2>2
<1>. QED  BY <1>1, <1>2, <1>5, <1>6 DEF IInv, TypeOK, PodsOK, Pods, CompleteIsComplete

LEMMA RunPodsInv == IInv /\ RunPods => IInv'
<1> SUFFICES ASSUME IInv, RunPods PROVE IInv'
  OBVIOUS
<1>1. pods \in Pods /\ pods.new \in Nat /\ pods.old \in Nat /\ pods.up \in Nat
      /\ pods.up <= pods.new + pods.old
  BY DEF IInv, TypeOK, Pods
<1>2. dep.replicas \in Nat
  <2>1. dep \in Deployment
    BY DEF IInv, TypeOK
  <2>. QED  BY <2>1, BoundAssumption DEF Deployment
<1>3. UNCHANGED <<dep, status, tool, result, applied, complete, changes>>
  BY DEF RunPods
<1>4. PodsOK'
  <2>1. CASE pods' = [pods EXCEPT !.new = pods.new + 1]
    <3>. DEFINE n == pods.new + 1
    <3>1. n \in Nat /\ pods' = [pods EXCEPT !.new = n] /\ pods.up <= n + pods.old
      BY <1>1, <2>1
    <3>. HIDE DEF n
    <3>2. pods' \in Pods /\ pods'.new = n /\ pods'.old = pods.old /\ pods'.up = pods.up
      BY <1>1, <3>1, OnePods
    <3>. QED  BY <3>1, <3>2 DEF PodsOK
  <2>2. CASE pods.new > dep.replicas
             /\ pods' = [pods EXCEPT !.new = pods.new - 1,
                                     !.up = IF pods.up > pods.old THEN pods.up - 1 ELSE pods.up]
    <3>. DEFINE n == pods.new - 1
                u == IF pods.up > pods.old THEN pods.up - 1 ELSE pods.up
    <3>1. n \in Nat /\ u \in Nat /\ u <= n + pods.old
      BY <1>1, <1>2, <2>2
    <3>2. pods' = [pods EXCEPT !.new = n, !.up = u]
      BY <2>2
    <3>. HIDE DEF n, u
    <3>3. pods' \in Pods /\ pods'.new = n /\ pods'.old = pods.old /\ pods'.up = u
      BY <1>1, <3>1, <3>2 DEF Pods
    <3>. QED  BY <1>1, <3>1, <3>3 DEF PodsOK
  <2>3. CASE pods.old > 0
             /\ pods' = [pods EXCEPT !.old = pods.old - 1,
                                     !.up = IF pods.up > pods.new THEN pods.up - 1 ELSE pods.up]
    <3>. DEFINE n == pods.old - 1
                u == IF pods.up > pods.new THEN pods.up - 1 ELSE pods.up
    <3>1. n \in Nat /\ u \in Nat /\ u <= n + pods.new
      BY <1>1, <1>2, <2>3
    <3>2. pods' = [pods EXCEPT !.old = n, !.up = u]
      BY <2>3
    <3>. HIDE DEF n, u
    <3>3. pods' \in Pods /\ pods'.old = n /\ pods'.new = pods.new /\ pods'.up = u
      BY <1>1, <3>1, <3>2 DEF Pods
    <3>. QED  BY <1>1, <3>1, <3>3 DEF PodsOK
  <2>4. CASE pods.up < pods.new + pods.old /\ pods' = [pods EXCEPT !.up = pods.up + 1]
    <3>1. pods.up + 1 \in Nat
      BY <1>1
    <3>2. pods' \in Pods /\ pods'.up = pods.up + 1 /\ pods'.new = pods.new /\ pods'.old = pods.old
      BY <1>1, <2>4, <3>1, OnePods
    <3>. QED  BY <1>1, <2>4, <3>2 DEF PodsOK
  <2>5. CASE pods.up > 0 /\ pods' = [pods EXCEPT !.up = pods.up - 1]
    <3>1. pods.up - 1 \in Nat
      BY <1>1, <2>5
    <3>2. pods' \in Pods /\ pods'.up = pods.up - 1 /\ pods'.new = pods.new /\ pods'.old = pods.old
      BY <1>1, <2>5, <3>1, OnePods
    <3>. QED  BY <1>1, <3>2 DEF PodsOK
  <2>. QED  BY <2>1, <2>2, <2>3, <2>4, <2>5 DEF RunPods
<1>. QED  BY <1>3, <1>4
          DEF IInv, TypeOK, PodsOK, Pods, StatusInv, rolledOut, CompleteIsComplete

LEMMA WriteStatusInv == IInv /\ WriteStatus => IInv'
<1> SUFFICES ASSUME IInv, WriteStatus PROVE IInv'
  OBVIOUS
<1>1. /\ pods.new \in Nat /\ pods.old \in Nat /\ pods.up \in Nat
      /\ dep.gen \in Nat \ {0} /\ complete \in 1..dep.gen /\ dep.replicas \in Nat
  <2>1. dep \in Deployment /\ pods \in Pods /\ complete \in 1..dep.gen
    BY DEF IInv, TypeOK, Pods
  <2>. QED  BY <2>1, BoundAssumption DEF Deployment, Pods
<1>2. UNCHANGED <<dep, pods, tool, result, applied, changes>>
  BY DEF WriteStatus
<1>3. /\ status' \in Counters
      /\ status'.observed = dep.gen /\ status'.updated = pods.new
      /\ status'.replicas = pods.new + pods.old /\ status'.available = pods.up
  <2>1. status' = [observed |-> dep.gen, updated |-> pods.new,
                   replicas |-> pods.new + pods.old, available |-> pods.up]
    BY DEF WriteStatus
  <2>2. pods.new + pods.old \in Nat
    BY <1>1
  <2>. QED  BY <1>1, <2>1, <2>2 DEF Counters
<1>4. complete' \in 1..dep.gen /\ complete <= complete'
  BY <1>1 DEF WriteStatus
<1>5. StatusInv'
  <2>1. ASSUME rolledOut' PROVE complete' = dep.gen
    <3>1. pods.old = 0 /\ pods.new = dep.replicas /\ pods.up = dep.replicas
      BY <1>1, <1>2, <1>3, <2>1 DEF rolledOut
    <3>. QED  BY <3>1 DEF WriteStatus
  <2>. QED  BY <1>1, <1>2, <1>3, <2>1 DEF StatusInv
<1>6. CompleteIsComplete'
  BY <1>1, <1>2, <1>4 DEF IInv, TypeOK, CompleteIsComplete
<1>7. TypeOK'
  BY <1>2, <1>3, <1>4 DEF IInv, TypeOK
<1>. QED  BY <1>5, <1>6, <1>7 DEF IInv

\* The tool goes to a state of its type and touches nothing else.
LEMMA GotoInv ==
    ASSUME IInv, NEW t \in Tool, Goto(t),
           t.pc \in {"got", "staged"} => t.before \in Templates,
           t.pc = "staged" => t.after \in Templates
    PROVE  IInv'
BY DEF Goto, cluster, IInv, TypeOK, StatusInv, rolledOut, CompleteIsComplete

LEMMA IdleType == Idle \in Tool /\ Idle.pc = "idle" /\ Idle.polls = 0
BY BoundAssumption DEF Idle, Tool

LEMMA ExecuteInv ==
    IInv /\ ((\E p \in Patches : Get(p)) \/ DryRun \/ Dropped) => IInv'
<1> SUFFICES ASSUME IInv, (\E p \in Patches : Get(p)) \/ DryRun \/ Dropped PROVE IInv'
  OBVIOUS
<1>1. dep \in Deployment /\ tool \in Tool
  BY DEF IInv, TypeOK
<1>2. ASSUME NEW p \in Patches, Get(p) PROVE IInv'
  <2>. DEFINE t == [Idle EXCEPT !.pc = "got", !.patch = {p}, !.before = dep.template]
  <2>1. dep.template \in Templates /\ dep.template \in Seq(Lines) /\ {p} \in SUBSET Patches
    BY <1>1 DEF Deployment, Templates
  <2>2. t \in Tool /\ t.pc = "got" /\ t.before = dep.template
    <3>1. ASSUME NEW q \in SUBSET Patches, NEW b \in Seq(Lines)
          PROVE  /\ [Idle EXCEPT !.pc = "got", !.patch = q, !.before = b] \in Tool
                 /\ [Idle EXCEPT !.pc = "got", !.patch = q, !.before = b].pc = "got"
                 /\ [Idle EXCEPT !.pc = "got", !.patch = q, !.before = b].before = b
      BY IdleType DEF Tool
    <3>. QED  BY <2>1, <3>1
  <2>3. Goto(t)
    BY <1>2 DEF Get
  <2>. QED  BY <2>1, <2>2, <2>3, GotoInv
<1>3. CASE DryRun
  <2>1. PICK p \in tool.patch :
           Goto([tool EXCEPT !.pc = "staged", !.after = Merge(dep, p).template])
    BY <1>3 DEF DryRun
  <2>2. p \in Patches
    BY <1>1, <2>1 DEF Tool
  <2>. DEFINE t == [tool EXCEPT !.pc = "staged", !.after = Merge(dep, p).template]
  <2>3. Merge(dep, p).template \in Templates /\ Merge(dep, p).template \in Seq(Lines)
    BY <1>1, <2>2, MergeType DEF Templates
  <2>4. t \in Tool /\ t.before = tool.before /\ t.after \in Templates
    BY <1>1, <2>3 DEF Tool
  <2>5. tool.before \in Templates
    BY <1>3 DEF DryRun, IInv, TypeOK
  <2>. QED  BY <2>1, <2>4, <2>5, GotoInv
<1>4. CASE Dropped
  BY <1>4, IdleType, GotoInv DEF Dropped
<1>. QED  BY <1>2, <1>3, <1>4

LEMMA ApplyInv == IInv /\ Apply => IInv'
<1> SUFFICES ASSUME IInv, Apply PROVE IInv'
  OBVIOUS
<1>1. dep \in Deployment /\ tool \in Tool
  BY DEF IInv, TypeOK
<1>2. UNCHANGED <<status, complete>> /\ result' = "none" /\ applied' = dep'.gen
      /\ tool' = [Idle EXCEPT !.pc = "verify"]
  BY DEF Apply
<1>3. PICK p \in tool.patch : Store(Merge(dep, p))
  BY DEF Apply
<1>4. dep' \in Deployment /\ dep.gen <= dep'.gen /\ PodsOK' /\ StatusInv'
  <2>1. p \in Patches
    BY <1>1 DEF Tool
  <2>. QED  BY <1>1, <1>2, <1>3, <2>1, StoreKeeps, MergeType DEF IInv
<1>5. tool' \in Tool /\ tool'.pc = "verify"
  BY <1>2, IdleType DEF Tool
<1>6. applied' \in 1..dep'.gen /\ complete' \in 1..dep'.gen
  <2>1. dep.gen \in Nat /\ dep'.gen \in Nat \ {0}
    BY <1>1, <1>4 DEF Deployment
  <2>2. complete \in 1..dep.gen
    BY DEF IInv, TypeOK
  <2>. QED  BY <1>2, <1>4, <2>1, <2>2
<1>7. changes' \in 0..MaxChanges
  <2>1. changes < MaxChanges /\ changes' = changes + 1
    BY DEF Apply
  <2>2. changes \in 0..MaxChanges
    BY DEF IInv, TypeOK
  <2>. QED  BY <2>1, <2>2, BoundAssumption
<1>. QED  BY <1>2, <1>4, <1>5, <1>6, <1>7 DEF IInv, TypeOK, PodsOK, Pods, CompleteIsComplete

\* What verifyRollout returns is true when it says complete.
LEMMA ReturnInv ==
    ASSUME IInv, NEW r \in {"complete", "timed out", "cancelled"}, Return(r),
           r = "complete" => rolledOut
    PROVE  IInv'
<1>1. r = "complete" => complete >= applied
  <2>1. dep.gen \in Nat
    BY DEF IInv, TypeOK, Deployment
  <2>2. applied \in 1..dep.gen
    BY DEF IInv, TypeOK
  <2>. QED  BY <2>1, <2>2 DEF IInv, StatusInv
<1>. QED  BY <1>1, IdleType
          DEF Return, cluster, IInv, TypeOK, StatusInv, rolledOut, CompleteIsComplete

LEMMA VerifyInv == IInv /\ (verifyRollout \/ Cancelled) => IInv'
<1> SUFFICES ASSUME IInv, verifyRollout \/ Cancelled PROVE IInv'
  OBVIOUS
<1>1. ASSUME NotYet, tool.pc = "verify" PROVE IInv'
  <2>1. CASE tool.polls = MaxPolls
    BY <1>1, <2>1, ReturnInv DEF NotYet
  <2>2. CASE tool.polls # MaxPolls
    <3>1. tool \in Tool /\ tool.polls \in 0..MaxPolls
      BY DEF IInv, TypeOK, Tool
    <3>. DEFINE n == tool.polls + 1
                t == [tool EXCEPT !.polls = n]
    <3>2. n \in 0..MaxPolls
      BY <2>2, <3>1, BoundAssumption
    <3>. HIDE DEF n
    <3>3. t \in Tool /\ t.pc = "verify"
      BY <1>1, <3>1, <3>2 DEF Tool
    <3>4. Goto(t)
      BY <1>1, <2>2 DEF NotYet, n
    <3>. QED  BY <3>3, <3>4, GotoInv
  <2>. QED  BY <2>1, <2>2
<1>2. CASE Poll
  BY <1>1, <1>2, ReturnInv DEF Poll
<1>3. CASE PollFails
  BY <1>1, <1>3 DEF PollFails
<1>4. CASE Cancelled
  BY <1>4, ReturnInv DEF Cancelled
<1>. QED  BY <1>2, <1>3, <1>4 DEF verifyRollout

LEMMA Inductive == Init /\ [][Next]_vars => []IInv
<1>1. IInv /\ UNCHANGED vars => IInv'
  BY DEF vars, IInv, TypeOK, StatusInv, rolledOut, CompleteIsComplete
<1>2. IInv /\ [Next]_vars => IInv'
  BY <1>1, OthersInv, RunPodsInv, WriteStatusInv, ExecuteInv, ApplyInv, VerifyInv DEF Next
<1>. QED  BY <1>2, InitInv, PTL

-----------------------------------------------------------------------------
(* The diff: induction, and the folds it is made of *)

\* Induction, for a set instead of a predicate.
LEMMA Induct ==
    ASSUME NEW S, 0 \in S, \A n \in Nat : n \in S => n + 1 \in S
    PROVE  Nat \subseteq S
<1>. DEFINE T == Nat \ S
            R == OpToRel(<, Nat)
<1>. SUFFICES ASSUME T # {} PROVE FALSE
  OBVIOUS
<1>1. IsWellFoundedOn(R, Nat)
  BY NatLessThanWellFounded, Zenon
<1>2. R = {ss \in Nat \X Nat : ss[1] < ss[2]}
  BY DEF OpToRel
<1>3. T \subseteq Nat
  OBVIOUS
<1>. HIDE DEF R, T
<1>4. PICK x \in T : \A y \in T : ~ (<<y, x>> \in R)
  BY <1>1, <1>3, WFMin
<1>5. x \in Nat /\ x \notin S /\ x # 0
  BY <1>4 DEF T
<1>6. x - 1 \in Nat /\ x - 1 \notin S /\ x - 1 < x
  BY <1>5
<1>7. x - 1 \in T /\ <<x - 1, x>> \in R
  BY <1>2, <1>5, <1>6 DEF T
<1>. QED  BY <1>4, <1>7

\* The folds of LineDiff, each by the name of what it makes: where a fold m starts,
\* and what its next step makes of acc and the next element x.
RowFold(a, b, above, i) ==
    [of |-> "row", base |-> <<0>>, a |-> a, b |-> b, above |-> above, i |-> i]
TableFold(a, b) ==
    [of |-> "table", base |-> <<[j \in 1..(Len(b) + 1) |-> 0]>>, a |-> a, b |-> b]
RenderFold(e, shown) ==
    [of |-> "render", base |-> [out |-> <<>>, skipped |-> 0], e |-> e, shown |-> shown]
FollowFold(before) == [of |-> "follow", base |-> Start, before |-> before]

RowStep(a, b, above, i, r, j) ==
    Append(r, IF a[i] = b[j] THEN above[j] + 1
              ELSE IF above[j + 1] >= r[j] THEN above[j + 1] ELSE r[j])
TableStep(a, b, t, i) == Append(t, Row(a, b, t[i], i))
RenderStep(e, shown, r, n) ==
    IF n \in shown
    THEN [out |-> Append(Gap(r.out, r.skipped), e[n]), skipped |-> 0]
    ELSE [r EXCEPT !.skipped = @ + 1]

Step(m, acc, x) ==
    IF m.of = "row" THEN RowStep(m.a, m.b, m.above, m.i, acc, x)
    ELSE IF m.of = "table" THEN TableStep(m.a, m.b, acc, x)
    ELSE IF m.of = "render" THEN RenderStep(m.e, m.shown, acc, x)
    ELSE Read(m.before, acc, x)

\* f is the recursive function in terms of which MapThenFoldSet folds s[1..n].
Iterates(f, m, s, n) ==
    f = [d \in SUBSET (1..n) |->
           IF d = {} THEN m.base ELSE Step(m, f[d \ {Max(d)}], s[Max(d)])]

\* h lists what the fold of s has made after each element.
Makes(h, m, s) ==
    h[0] = m.base /\ \A i \in 1..Len(s) : h[i] = Step(m, h[i - 1], s[i])

LEMMA MaxOf ==
    ASSUME NEW n \in Nat, NEW d \in SUBSET (1..(n + 1)), n + 1 \in d
    PROVE  Max(d) = n + 1 /\ d \ {Max(d)} \in SUBSET (1..n)
<1>1. \A y \in d : n + 1 >= y
  OBVIOUS
<1>2. ASSUME NEW x \in d, \A y \in d : x >= y PROVE x = n + 1
  BY <1>1, <1>2
<1>3. Max(d) = n + 1
  BY <1>1, <1>2 DEF Max
<1>. QED  BY <1>3

LEMMA IteratesExists == ASSUME NEW m, NEW s PROVE \A n \in Nat : \E f : Iterates(f, m, s, n)
<1>. DEFINE S == {n \in Nat : \E f : Iterates(f, m, s, n)}
<1>1. 0 \in S
  <2>. DEFINE e == [d \in SUBSET (1..0) |-> m.base]
              h == [d \in SUBSET (1..0) |->
                      IF d = {} THEN m.base ELSE Step(m, e[d \ {Max(d)}], s[Max(d)])]
  <2>1. \A d \in SUBSET (1..0) : d = {}
    OBVIOUS
  <2>2. \A d \in SUBSET (1..0) : h[d] = e[d]
    BY <2>1
  <2>3. e = [d \in SUBSET (1..0) |-> e[d]] /\ h = [d \in SUBSET (1..0) |-> h[d]]
    OBVIOUS
  <2>. HIDE DEF h, e
  <2>4. e = h
    BY <2>2, <2>3
  <2>5. Iterates(e, m, s, 0)
    BY <2>4 DEF h, Iterates
  <2>. QED  BY <2>5
<1>2. ASSUME NEW n \in Nat, n \in S PROVE n + 1 \in S
  <2>1. PICK f : Iterates(f, m, s, n)
    BY <1>2
  <2>. DEFINE D == SUBSET (1..(n + 1))
              g == [d \in D |-> IF n + 1 \in d THEN Step(m, f[d \ {n + 1}], s[n + 1]) ELSE f[d]]
              h == [d \in D |-> IF d = {} THEN m.base ELSE Step(m, g[d \ {Max(d)}], s[Max(d)])]
  <2>2. \A d \in SUBSET (1..n) :
          f[d] = IF d = {} THEN m.base ELSE Step(m, f[d \ {Max(d)}], s[Max(d)])
    BY <2>1 DEF Iterates
  <2>3. \A d \in SUBSET (1..n) : d \in D /\ n + 1 \notin d /\ g[d] = f[d]
    OBVIOUS
  <2>4. \A d \in D : g[d] = IF n + 1 \in d THEN Step(m, f[d \ {n + 1}], s[n + 1]) ELSE f[d]
    OBVIOUS
  <2>5. g = [d \in D |-> g[d]]
    OBVIOUS
  <2>. HIDE DEF g
  <2>6. ASSUME NEW d \in D
        PROVE  g[d] = IF d = {} THEN m.base ELSE Step(m, g[d \ {Max(d)}], s[Max(d)])
    <3>1. CASE n + 1 \in d
      <4>1. Max(d) = n + 1 /\ d \ {Max(d)} \in SUBSET (1..n) /\ d # {}
        BY <3>1, MaxOf
      <4>2. g[d \ {n + 1}] = f[d \ {n + 1}]
        BY <2>3, <4>1
      <4>. QED  BY <2>4, <3>1, <4>1, <4>2
    <3>2. CASE n + 1 \notin d
      <4>1. d \in SUBSET (1..n)
        BY <3>2
      <4>2. CASE d = {}
        BY <2>2, <2>3, <4>1, <4>2
      <4>3. CASE d # {}
        <5>1. d \ {Max(d)} \in SUBSET (1..n)
          BY <4>1
        <5>2. g[d \ {Max(d)}] = f[d \ {Max(d)}] /\ g[d] = f[d]
          BY <2>3, <4>1, <5>1
        <5>. QED  BY <2>2, <4>1, <4>3, <5>2
      <4>. QED  BY <4>2, <4>3
    <3>. QED  BY <3>1, <3>2
  <2>7. \A d \in D : h[d] = g[d]
    BY <2>6
  <2>8. h = [d \in D |-> h[d]]
    OBVIOUS
  <2>. HIDE DEF h
  <2>9. g = h
    BY <2>5, <2>7, <2>8
  <2>10. Iterates(g, m, s, n + 1)
    BY <2>9 DEF h, Iterates
  <2>. QED  BY <2>10
<1>. HIDE DEF S
<1>3. Nat \subseteq S
  BY <1>1, <1>2, Induct
<1>. QED  BY <1>3 DEF S

\* What such a function is on the intervals is what the fold makes on its way.
LEMMA IteratesMakes ==
    ASSUME NEW f, NEW m, NEW s, Len(s) \in Nat, Iterates(f, m, s, Len(s))
    PROVE  \E h : Makes(h, m, s) /\ h[Len(s)] = f[1..Len(s)]
<1>. DEFINE n == Len(s)
            h == [i \in 0..n |-> f[1..i]]
<1>1. \A d \in SUBSET (1..n) :
        f[d] = IF d = {} THEN m.base ELSE Step(m, f[d \ {Max(d)}], s[Max(d)])
  BY DEF Iterates
<1>2. 1..0 = {} /\ {} \in SUBSET (1..n) /\ n \in Nat
  OBVIOUS
<1>3. ASSUME NEW i \in 1..n PROVE f[1..i] = Step(m, f[1..(i - 1)], s[i])
  <2>. DEFINE k == i - 1
  <2>1. k \in Nat /\ k + 1 = i
    OBVIOUS
  <2>. HIDE DEF k
  <2>2. 1..i \in SUBSET (1..(k + 1)) /\ k + 1 \in 1..i
    BY <2>1
  <2>3. Max(1..i) = i
    BY <2>1, <2>2, MaxOf
  <2>4. (1..i) \ {i} = 1..(i - 1)
    OBVIOUS
  <2>5. 1..i \in SUBSET (1..n) /\ i \in 1..i
    BY <1>2
  <2>. QED  BY <1>1, <2>3, <2>4, <2>5
<1>4. /\ h[0] = f[1..0] /\ h[n] = f[1..n]
      /\ \A i \in 1..n : h[i] = f[1..i] /\ h[i - 1] = f[1..(i - 1)]
  BY <1>2
<1>. HIDE DEF h
<1>5. h[0] = m.base
  BY <1>1, <1>2, <1>4
<1>6. \A i \in 1..n : h[i] = Step(m, h[i - 1], s[i])
  BY <1>3, <1>4
<1>. QED  BY <1>4, <1>5, <1>6 DEF Makes

\* h lists how a row becomes longer.
Rowing(h, a, b, above, i) ==
    /\ h[0] = <<0>>
    /\ \A j \in 1..Len(b) : h[j] = RowStep(a, b, above, i, h[j - 1], j)
    /\ Row(a, b, above, i) = h[Len(b)]

LEMMA RowMade ==
    ASSUME NEW a, NEW b, NEW above, NEW i, Len(b) \in Nat
    PROVE  \E h : Rowing(h, a, b, above, i)
<1>. DEFINE s == [j \in 1..Len(b) |-> j]
            z == <<0>>
            m == RowFold(a, b, above, i)
            P(f) == f = [d \in SUBSET (1..Len(b)) |->
                           IF d = {} THEN z
                           ELSE RowStep(a, b, above, i, f[d \ {Max(d)}], s[Max(d)])]
            c == CHOOSE f : P(f)
<1>1. Len(s) = Len(b) /\ DOMAIN s = 1..Len(b) /\ \A j \in 1..Len(b) : s[j] = j
  OBVIOUS
<1>2. \A acc, x : Step(m, acc, x) = RowStep(a, b, above, i, acc, x) /\ m.base = z
  BY DEF Step, RowFold
<1>3. Row(a, b, above, i) = c[1..Len(b)]
  BY <1>1 DEF Row, FoldLeft, MapThenFoldSet, RowStep
<1>. HIDE DEF s, m, z, c
<1>4. ASSUME NEW f PROVE P(f) <=> Iterates(f, m, s, Len(s))
  <2>1. ASSUME NEW d PROVE RowStep(a, b, above, i, f[d \ {Max(d)}], s[Max(d)])
                             = Step(m, f[d \ {Max(d)}], s[Max(d)])
    BY <1>2
  <2>2. [d \in SUBSET (1..Len(b)) |->
           IF d = {} THEN z ELSE RowStep(a, b, above, i, f[d \ {Max(d)}], s[Max(d)])]
        = [d \in SUBSET (1..Len(b)) |->
             IF d = {} THEN m.base ELSE Step(m, f[d \ {Max(d)}], s[Max(d)])]
    BY <1>2, <2>1, Zenon
  <2>3. P(f) <=> Iterates(f, m, s, Len(b))
    BY <2>2, Zenon DEF Iterates
  <2>. QED  BY <1>1, <2>3
<1>5. \E f : P(f)
  BY <1>1, <1>4, IteratesExists
<1>6. P(c)
  BY <1>5 DEF c
<1>. HIDE DEF P
<1>7. PICK h : Makes(h, m, s) /\ h[Len(s)] = c[1..Len(s)]
  BY <1>1, <1>4, <1>6, IteratesMakes
<1>8. h[0] = <<0>> /\ \A j \in 1..Len(b) : h[j] = RowStep(a, b, above, i, h[j - 1], j)
  BY <1>1, <1>2, <1>7 DEF Makes, z
<1>9. Rowing(h, a, b, above, i)
  BY <1>1, <1>3, <1>7, <1>8 DEF Rowing
<1>. QED  BY <1>9

LEMMA TableMade ==
    ASSUME NEW a, NEW b, Len(a) \in Nat
    PROVE  \E h : /\ h[0] = <<[j \in 1..(Len(b) + 1) |-> 0]>>
                  /\ \A i \in 1..Len(a) : h[i] = TableStep(a, b, h[i - 1], i)
                  /\ Table(a, b) = h[Len(a)]
<1>. DEFINE s == [i \in 1..Len(a) |-> i]
            m == TableFold(a, b)
            P(f) == f = [d \in SUBSET (1..Len(a)) |->
                           IF d = {} THEN <<[j \in 1..(Len(b) + 1) |-> 0]>>
                           ELSE TableStep(a, b, f[d \ {Max(d)}], s[Max(d)])]
            c == CHOOSE f : P(f)
<1>1. Len(s) = Len(a) /\ DOMAIN s = 1..Len(a) /\ \A j \in 1..Len(a) : s[j] = j
  OBVIOUS
<1>2. /\ \A acc, x : Step(m, acc, x) = TableStep(a, b, acc, x)
      /\ m.base = <<[j \in 1..(Len(b) + 1) |-> 0]>>
  BY DEF Step, TableFold
<1>3. Table(a, b) = c[1..Len(a)]
  BY <1>1 DEF Table, FoldLeft, MapThenFoldSet, TableStep
<1>. HIDE DEF s, m, c
<1>4. ASSUME NEW f PROVE P(f) <=> Iterates(f, m, s, Len(s))
  <2>1. P(f) <=> Iterates(f, m, s, Len(a))
    BY <1>2 DEF Iterates
  <2>. QED  BY <1>1, <2>1
<1>5. \E f : P(f)
  BY <1>1, <1>4, IteratesExists
<1>6. P(c)
  BY <1>5 DEF c
<1>. HIDE DEF P
<1>7. PICK h : Makes(h, m, s) /\ h[Len(s)] = c[1..Len(s)]
  BY <1>1, <1>4, <1>6, IteratesMakes
<1>. QED  BY <1>1, <1>2, <1>3, <1>7 DEF Makes

LEMMA RenderMade ==
    ASSUME NEW e, NEW ctx, Len(e) \in Nat
    PROVE  \E h : /\ h[0] = [out |-> <<>>, skipped |-> 0]
                  /\ \A n \in 1..Len(e) : h[n] = RenderStep(e, Show(e, ctx), h[n - 1], n)
                  /\ Render(e, ctx) = Gap(h[Len(e)].out, h[Len(e)].skipped)
<1>. DEFINE s == [n \in 1..Len(e) |-> n]
            shown == Show(e, ctx)
            z == [out |-> <<>>, skipped |-> 0]
            m == RenderFold(e, shown)
            P(f) == f = [d \in SUBSET (1..Len(e)) |->
                           IF d = {} THEN z
                           ELSE RenderStep(e, shown, f[d \ {Max(d)}], s[Max(d)])]
            c == CHOOSE f : P(f)
<1>1. Len(s) = Len(e) /\ DOMAIN s = 1..Len(e) /\ \A j \in 1..Len(e) : s[j] = j
  OBVIOUS
<1>2. /\ \A acc, x : Step(m, acc, x) = RenderStep(e, shown, acc, x)
      /\ m.base = z
  BY DEF Step, RenderFold
<1>3. Render(e, ctx) = Gap(c[1..Len(e)].out, c[1..Len(e)].skipped)
  BY <1>1 DEF Render, FoldLeft, MapThenFoldSet, RenderStep
<1>. HIDE DEF s, m, shown, z, c
<1>4. ASSUME NEW f PROVE P(f) <=> Iterates(f, m, s, Len(s))
  <2>1. P(f) <=> Iterates(f, m, s, Len(e))
    BY <1>2 DEF Iterates
  <2>. QED  BY <1>1, <2>1
<1>5. \E f : P(f)
  BY <1>1, <1>4, IteratesExists
<1>6. P(c)
  BY <1>5 DEF c
<1>. HIDE DEF P
<1>7. PICK h : Makes(h, m, s) /\ h[Len(s)] = c[1..Len(s)]
  BY <1>1, <1>4, <1>6, IteratesMakes
<1>. QED  BY <1>1, <1>2, <1>3, <1>7 DEF Makes, shown, z

LEMMA FollowMade ==
    ASSUME NEW before, NEW diff, Len(diff) \in Nat, DOMAIN diff = 1..Len(diff)
    PROVE  \E h : /\ Makes(h, FollowFold(before), diff)
                  /\ Follow(diff, before) = h[Len(diff)]
<1>. DEFINE m == FollowFold(before)
            P(f) == f = [d \in SUBSET (1..Len(diff)) |->
                           IF d = {} THEN Start
                           ELSE Read(before, f[d \ {Max(d)}], diff[Max(d)])]
            c == CHOOSE f : P(f)
<1>2. (\A acc, x : Step(m, acc, x) = Read(before, acc, x)) /\ m.base = Start
  BY DEF Step, FollowFold
<1>3. Follow(diff, before) = c[1..Len(diff)]
  BY DEF Follow, FoldLeft, MapThenFoldSet
<1>. HIDE DEF m, c
<1>4. ASSUME NEW f PROVE P(f) <=> Iterates(f, m, diff, Len(diff))
  BY <1>2 DEF Iterates
<1>5. \E f : P(f)
  BY <1>4, IteratesExists
<1>6. P(c)
  BY <1>5 DEF c
<1>. HIDE DEF P
<1>7. PICK h : Makes(h, m, diff) /\ h[Len(diff)] = c[1..Len(diff)]
  BY <1>4, <1>6, IteratesMakes
<1>. QED  BY <1>3, <1>7 DEF m


-----------------------------------------------------------------------------
(* The diff: its table *)

Rows(b) == [1..(Len(b) + 1) -> Nat]

\* The entry after row[j], from the row above.
Best(a, b, above, row, i, j) ==
    IF a[i] = b[j] THEN above[j] + 1
    ELSE IF above[j + 1] >= row[j] THEN above[j + 1] ELSE row[j]

Below(a, b, above, row, i) ==
    row[1] = 0 /\ \A j \in 1..Len(b) : row[j + 1] = Best(a, b, above, row, i, j)

\* The table: 0 along its edges, and Best inside.
Tabled(T, a, b) ==
    /\ T \in [1..(Len(a) + 1) -> Rows(b)]
    /\ \A j \in 1..(Len(b) + 1) : T[1][j] = 0
    /\ \A i \in 1..Len(a) : Below(a, b, T[i], T[i + 1], i)

LEMMA RowRight ==
    ASSUME NEW a, NEW b, NEW above, NEW i, Len(b) \in Nat, above \in Rows(b)
    PROVE  Row(a, b, above, i) \in Rows(b) /\ Below(a, b, above, Row(a, b, above, i), i)
<1>. DEFINE n == Len(b)
            Q(r, k) == /\ r \in Seq(Nat) /\ Len(r) = k + 1 /\ r[1] = 0
                       /\ \A j \in 1..k : r[j + 1] = Best(a, b, above, r, i, j)
<1>0. PICK h : Rowing(h, a, b, above, i)
  BY RowMade
<1>1. /\ h[0] = <<0>>
      /\ \A j \in 1..n : h[j] = RowStep(a, b, above, i, h[j - 1], j)
      /\ Row(a, b, above, i) = h[n]
  BY <1>0 DEF Rowing
<1>. DEFINE S == {k \in Nat : k <= n => Q(h[k], k)}
<1>2. 0 \in S
  <2>1. Q(h[0], 0)
    BY <1>1
  <2>. QED  BY <2>1
<1>3. ASSUME NEW k \in Nat, k \in S PROVE k + 1 \in S
  <2>1. SUFFICES ASSUME k + 1 <= n PROVE Q(h[k + 1], k + 1)
    OBVIOUS
  <2>. DEFINE r == h[k]
              v == Best(a, b, above, r, i, k + 1)
              q == h[k + 1]
  <2>2. Q(r, k)
    BY <1>3, <2>1
  <2>3. v \in Nat
    <3>1. above[k + 1] \in Nat /\ above[(k + 1) + 1] \in Nat
      BY <2>1 DEF Rows
    <3>2. r[k + 1] \in Nat
      BY <2>2
    <3>. QED  BY <3>1, <3>2 DEF Best
  <2>4. q = Append(r, v)
    <3>1. k + 1 \in 1..n /\ (k + 1) - 1 = k
      BY <2>1
    <3>2. q = RowStep(a, b, above, i, r, k + 1)
      BY <1>1, <3>1
    <3>. QED  BY <3>2, Zenon DEF RowStep, Best
  <2>. HIDE DEF r, v, q
  <2>5. /\ q \in Seq(Nat) /\ Len(q) = k + 2 /\ q[k + 2] = v
        /\ \A x \in 1..(k + 1) : q[x] = r[x]
    BY <2>2, <2>3, <2>4, AppendProperties
  <2>6. q[1] = 0
    BY <2>2, <2>5
  <2>7. ASSUME NEW j \in 1..(k + 1) PROVE q[j + 1] = Best(a, b, above, q, i, j)
    <3>1. q[j] = r[j]
      BY <2>5
    <3>2. Best(a, b, above, q, i, j) = Best(a, b, above, r, i, j)
      BY <3>1 DEF Best
    <3>3. CASE j = k + 1
      BY <2>5, <3>2, <3>3 DEF v
    <3>4. CASE j \in 1..k
      BY <2>2, <2>5, <3>2, <3>4
    <3>. QED  BY <3>3, <3>4
  <2>. QED  BY <2>5, <2>6, <2>7 DEF q
<1>. HIDE DEF S
<1>4. Nat \subseteq S
  BY <1>2, <1>3, Induct
<1>5. Q(h[n], n)
  BY <1>4 DEF S
<1>6. h[n] \in Rows(b)
  BY <1>5 DEF Rows
<1>. QED  BY <1>1, <1>5, <1>6 DEF Below

LEMMA TableRight ==
    ASSUME NEW a, NEW b, Len(a) \in Nat, Len(b) \in Nat
    PROVE  Tabled(Table(a, b), a, b)
<1>. DEFINE m == Len(a)
            z == [j \in 1..(Len(b) + 1) |-> 0]
            Q(t, k) == /\ t \in Seq(Rows(b)) /\ Len(t) = k + 1 /\ t[1] = z
                       /\ \A i \in 1..k : Below(a, b, t[i], t[i + 1], i)
<1>1. PICK h : /\ h[0] = <<z>>
               /\ \A i \in 1..m : h[i] = TableStep(a, b, h[i - 1], i)
               /\ Table(a, b) = h[m]
  BY TableMade, Zenon
<1>. DEFINE S == {k \in Nat : k <= m => Q(h[k], k)}
<1>2. z \in Rows(b)
  BY DEF Rows
<1>. HIDE DEF z
<1>3. 0 \in S
  <2>1. Q(h[0], 0)
    BY <1>1, <1>2
  <2>. QED  BY <2>1
<1>4. ASSUME NEW k \in Nat, k \in S PROVE k + 1 \in S
  <2>1. SUFFICES ASSUME k + 1 <= m PROVE Q(h[k + 1], k + 1)
    OBVIOUS
  <2>. DEFINE t == h[k]
              v == Row(a, b, t[k + 1], k + 1)
              q == h[k + 1]
  <2>2. Q(t, k)
    BY <1>4, <2>1
  <2>3. t[k + 1] \in Rows(b)
    BY <2>2
  <2>4. v \in Rows(b) /\ Below(a, b, t[k + 1], v, k + 1)
    BY <2>3, RowRight
  <2>5. q = Append(t, v)
    BY <1>1, <2>1 DEF TableStep
  <2>. HIDE DEF t, v, q
  <2>6. /\ q \in Seq(Rows(b)) /\ Len(q) = k + 2 /\ q[k + 2] = v
        /\ \A x \in 1..(k + 1) : q[x] = t[x]
    BY <2>2, <2>4, <2>5, AppendProperties
  <2>7. q[1] = z
    BY <2>2, <2>6
  <2>8. ASSUME NEW i \in 1..(k + 1) PROVE Below(a, b, q[i], q[i + 1], i)
    <3>1. q[i] = t[i]
      BY <2>6
    <3>2. CASE i = k + 1
      BY <2>4, <2>6, <3>1, <3>2
    <3>3. CASE i \in 1..k
      BY <2>2, <2>6, <3>1, <3>3
    <3>. QED  BY <3>2, <3>3
  <2>. QED  BY <2>6, <2>7, <2>8 DEF q
<1>. HIDE DEF S
<1>5. Nat \subseteq S
  BY <1>3, <1>4, Induct
<1>. DEFINE T == h[m]
<1>6. Q(T, m)
  BY <1>5 DEF S
<1>. HIDE DEF T
<1>7. T \in [1..(m + 1) -> Rows(b)]
  BY <1>6
<1>8. \A j \in 1..(Len(b) + 1) : T[1][j] = 0
  BY <1>6 DEF z
<1>. QED  BY <1>1, <1>6, <1>7, <1>8 DEF Tabled, T

\* The entry for i lines of a and j lines of b.
Entry(T, a, b, i, j) ==
    /\ T[i + 1][j + 1] \in Nat
    /\ (i = 0 \/ j = 0) => T[i + 1][j + 1] = 0
    /\ (i > 0 /\ j > 0 /\ a[i] = b[j]) => T[i + 1][j + 1] = T[i][j] + 1
    /\ (i > 0 /\ j > 0 /\ a[i] # b[j]) =>
          T[i + 1][j + 1] = IF T[i][j + 1] >= T[i + 1][j] THEN T[i][j + 1] ELSE T[i + 1][j]

LEMMA Entries ==
    ASSUME NEW T, NEW a, NEW b, Len(a) \in Nat, Len(b) \in Nat, Tabled(T, a, b)
    PROVE  \A i \in 0..Len(a), j \in 0..Len(b) : Entry(T, a, b, i, j)
<1>. SUFFICES ASSUME NEW i \in 0..Len(a), NEW j \in 0..Len(b) PROVE Entry(T, a, b, i, j)
  OBVIOUS
<1>1. T[i + 1][j + 1] \in Nat
  <2>1. i + 1 \in 1..(Len(a) + 1) /\ j + 1 \in 1..(Len(b) + 1)
    OBVIOUS
  <2>2. T[i + 1] \in Rows(b)
    BY <2>1 DEF Tabled
  <2>. QED  BY <2>1, <2>2 DEF Rows
<1>2. ASSUME i > 0 PROVE Below(a, b, T[i], T[i + 1], i)
  BY <1>2 DEF Tabled
<1>3. (i = 0 \/ j = 0) => T[i + 1][j + 1] = 0
  <2>1. CASE i = 0
    BY <2>1 DEF Tabled
  <2>2. CASE i > 0 /\ j = 0
    BY <1>2, <2>2 DEF Below
  <2>. QED  BY <2>1, <2>2
<1>4. ASSUME i > 0, j > 0 PROVE T[i + 1][j + 1] = Best(a, b, T[i], T[i + 1], i, j)
  BY <1>2, <1>4 DEF Below
<1>. QED  BY <1>1, <1>3, <1>4 DEF Best, Entry

LEMMA BestBounds ==
    ASSUME NEW x \in Nat, NEW y \in Nat, NEW z \in Nat, NEW w \in Nat,
           x <= y, y <= x + 1, x <= z, z <= x + 1,
           w = x + 1 \/ w = IF y >= z THEN y ELSE z
    PROVE  z <= w /\ w <= z + 1 /\ y <= w /\ w <= y + 1
OBVIOUS

LEMMA Transitive ==
    ASSUME NEW x \in Nat, NEW y \in Nat, NEW z \in Nat, x <= y, y <= z PROVE x <= z
OBVIOUS

\* One more line of either text adds nothing or one.
LEMMA Slow ==
    ASSUME NEW T, NEW a, NEW b, Len(a) \in Nat, Len(b) \in Nat, Tabled(T, a, b)
    PROVE  \A i \in 0..Len(a), j \in 0..Len(b) :
              /\ j > 0 => T[i + 1][j] <= T[i + 1][j + 1] /\ T[i + 1][j + 1] <= T[i + 1][j] + 1
              /\ i > 0 => T[i][j + 1] <= T[i + 1][j + 1] /\ T[i + 1][j + 1] <= T[i][j + 1] + 1
<1>. DEFINE Q(i, j) ==
              /\ j > 0 => T[i + 1][j] <= T[i + 1][j + 1] /\ T[i + 1][j + 1] <= T[i + 1][j] + 1
              /\ i > 0 => T[i][j + 1] <= T[i + 1][j + 1] /\ T[i + 1][j + 1] <= T[i][j + 1] + 1
            S == {k \in Nat : \A i \in 0..Len(a), j \in 0..Len(b) : i + j = k => Q(i, j)}
<1>1. 0 \in S
  OBVIOUS
<1>2. ASSUME NEW k \in Nat, k \in S PROVE k + 1 \in S
  <2>. HIDE DEF Q
  <2>1. SUFFICES ASSUME NEW i \in 0..Len(a), NEW j \in 0..Len(b), i + j = k + 1 PROVE Q(i, j)
    OBVIOUS
  <2>. DEFINE I == i - 1
              J == j - 1
  <2>2. T[i + 1][j + 1] \in Nat
    BY Entries DEF Entry
  <2>3. CASE i = 0
    <3>1. J \in 0..Len(b) /\ J + 1 = j
      BY <2>1, <2>3
    <3>2. Entry(T, a, b, i, j) /\ Entry(T, a, b, i, J)
      BY <3>1, Entries
    <3>3. T[i + 1][j + 1] = 0 /\ T[i + 1][J + 1] = 0
      BY <2>3, <3>2 DEF Entry
    <3>. QED  BY <2>3, <3>1, <3>3 DEF Q
  <2>4. CASE j = 0
    <3>1. I \in 0..Len(a) /\ I + 1 = i
      BY <2>1, <2>4
    <3>2. Entry(T, a, b, i, j) /\ Entry(T, a, b, I, j)
      BY <3>1, Entries
    <3>3. T[i + 1][j + 1] = 0 /\ T[I + 1][j + 1] = 0
      BY <2>4, <3>2 DEF Entry
    <3>. QED  BY <2>4, <3>1, <3>3 DEF Q
  <2>5. CASE i > 0 /\ j > 0
    <3>1. /\ I \in 0..Len(a) /\ J \in 0..Len(b) /\ I + 1 = i /\ J + 1 = j
          /\ I + j = k /\ i + J = k
      BY <2>1, <2>5
    <3>. HIDE DEF I, J
    <3>2. Q(I, j) /\ Q(i, J)
      BY <1>2, <3>1
    <3>3. T[i][j] \in Nat /\ T[i][j + 1] \in Nat /\ T[i + 1][j] \in Nat
      <4>1. T[I + 1][J + 1] \in Nat /\ T[I + 1][j + 1] \in Nat /\ T[i + 1][J + 1] \in Nat
        BY <3>1, Entries DEF Entry
      <4>. QED  BY <3>1, <4>1
    <3>4. /\ T[i][j] <= T[i][j + 1] /\ T[i][j + 1] <= T[i][j] + 1
          /\ T[i][j] <= T[i + 1][j] /\ T[i + 1][j] <= T[i][j] + 1
      BY <2>5, <3>1, <3>2 DEF Q
    <3>5. T[i + 1][j + 1] = T[i][j] + 1
          \/ T[i + 1][j + 1] = IF T[i][j + 1] >= T[i + 1][j] THEN T[i][j + 1] ELSE T[i + 1][j]
      <4>1. Entry(T, a, b, i, j)
        BY Entries
      <4>. QED  BY <2>5, <4>1 DEF Entry
    <3>6. /\ T[i + 1][j] <= T[i + 1][j + 1] /\ T[i + 1][j + 1] <= T[i + 1][j] + 1
          /\ T[i][j + 1] <= T[i + 1][j + 1] /\ T[i + 1][j + 1] <= T[i][j + 1] + 1
      <4>. DEFINE x == T[i][j]
                  y == T[i][j + 1]
                  u == T[i + 1][j]
                  w == T[i + 1][j + 1]
      <4>1. x \in Nat /\ y \in Nat /\ u \in Nat /\ w \in Nat
        BY <2>2, <3>3
      <4>2. x <= y /\ y <= x + 1 /\ x <= u /\ u <= x + 1
        BY <3>4
      <4>3. w = x + 1 \/ w = IF y >= u THEN y ELSE u
        BY <3>5
      <4>. HIDE DEF x, y, u, w
      <4>4. u <= w /\ w <= u + 1 /\ y <= w /\ w <= y + 1
        BY <4>1, <4>2, <4>3, BestBounds
      <4>. QED  BY <4>4 DEF y, u, w
    <3>. QED  BY <3>6 DEF Q
  <2>. QED  BY <2>3, <2>4, <2>5
<1>. HIDE DEF S
<1>3. Nat \subseteq S
  BY <1>1, <1>2, Induct
<1>4. ASSUME NEW i \in 0..Len(a), NEW j \in 0..Len(b) PROVE Q(i, j)
  <2>1. i + j \in S
    BY <1>3
  <2>. QED  BY <2>1 DEF S
<1>. QED  BY <1>4

\* Without its last member a choice of lines is one smaller and otherwise as it was.
LEMMA PlaceLess ==
    ASSUME NEW i \in Nat \ {0}, NEW D \in SUBSET (1..i), i \in D
    PROVE  /\ D \ {i} \in SUBSET (1..(i - 1))
           /\ IsFiniteSet(D) /\ Cardinality(D) \in Nat /\ Place(D, i) = Cardinality(D)
           /\ Cardinality(D \ {i}) = Cardinality(D) - 1
           /\ \A d \in D \ {i} : Place(D \ {i}, d) = Place(D, d)
<1>1. IsFiniteSet(D)
  <2>1. IsFiniteSet(1..i)
    BY FS_Interval
  <2>. QED  BY <2>1, FS_Subset
<1>2. Cardinality(D) \in Nat
  BY <1>1, FS_CardinalityType
<1>3. Cardinality(D \ {i}) = Cardinality(D) - 1
  BY <1>1, FS_RemoveElement
<1>4. {k \in D : k <= i} = D
  <2>1. \A k \in D : k \in 1..i /\ k <= i
    OBVIOUS
  <2>. QED  BY <2>1
<1>5. ASSUME NEW d \in D \ {i} PROVE Place(D \ {i}, d) = Place(D, d)
  <2>1. d < i
    OBVIOUS
  <2>2. {k \in D \ {i} : k <= d} = {k \in D : k <= d}
    BY <2>1
  <2>. QED  BY <2>2 DEF Place
<1>. QED  BY <1>1, <1>2, <1>3, <1>4, <1>5 DEF Place

\* No choice of lines in common is larger than the entry says.
LEMMA Greatest ==
    ASSUME NEW T, NEW a, NEW b, Len(a) \in Nat, Len(b) \in Nat, Tabled(T, a, b)
    PROVE  \A i \in 0..Len(a), j \in 0..Len(b) :
              \A D \in SUBSET (1..i), E \in SUBSET (1..j) :
                 InCommon(a, b, D, E) => Cardinality(D) <= T[i + 1][j + 1]
<1>. DEFINE Q(i, j) == \A D \in SUBSET (1..i), E \in SUBSET (1..j) :
                          InCommon(a, b, D, E) => Cardinality(D) <= T[i + 1][j + 1]
            S == {k \in Nat : \A i \in 0..Len(a), j \in 0..Len(b) : i + j <= k => Q(i, j)}
<1>1. \A E \in SUBSET (1..0) : E = {}
  OBVIOUS
<1>2. ASSUME NEW i \in 0..Len(a), NEW j \in 0..Len(b), i = 0 \/ j = 0 PROVE Q(i, j)
  <2>. SUFFICES ASSUME NEW D \in SUBSET (1..i), NEW E \in SUBSET (1..j), InCommon(a, b, D, E)
       PROVE  Cardinality(D) <= T[i + 1][j + 1]
    OBVIOUS
  <2>1. D = {} \/ E = {}
    BY <1>1, <1>2
  <2>2. Cardinality(D) = 0
    BY <2>1, FS_EmptySet DEF InCommon
  <2>3. T[i + 1][j + 1] \in Nat
    BY Entries DEF Entry
  <2>. QED  BY <2>2, <2>3
<1>3. 0 \in S
  <2>1. ASSUME NEW i \in 0..Len(a), NEW j \in 0..Len(b), i + j <= 0 PROVE i = 0
    BY <2>1
  <2>. HIDE DEF Q
  <2>. QED  BY <1>2, <2>1
<1>4. ASSUME NEW k \in Nat, k \in S PROVE k + 1 \in S
  <2>. HIDE DEF Q
  <2>1. SUFFICES ASSUME NEW i \in 0..Len(a), NEW j \in 0..Len(b), i + j <= k + 1 PROVE Q(i, j)
    OBVIOUS
  <2>2. CASE i = 0 \/ j = 0
    BY <1>2, <2>2
  <2>3. CASE i > 0 /\ j > 0
    <3>. DEFINE I == i - 1
                J == j - 1
    <3>1. /\ I \in 0..Len(a) /\ J \in 0..Len(b) /\ I + 1 = i /\ J + 1 = j
          /\ I + j <= k /\ i + J <= k /\ I + J <= k /\ i \in Nat \ {0} /\ j \in Nat \ {0}
      BY <2>1, <2>3
    <3>2. /\ T[i + 1][j + 1] \in Nat /\ T[I + 1][J + 1] \in Nat
          /\ T[I + 1][j + 1] \in Nat /\ T[i + 1][J + 1] \in Nat
      BY <3>1, Entries DEF Entry
    <3>3. /\ T[i + 1][j] <= T[i + 1][j + 1] /\ T[i][j + 1] <= T[i + 1][j + 1]
      BY <2>3, Slow
    <3>. HIDE DEF I, J
    <3>4. Q(I, j) /\ Q(i, J) /\ Q(I, J)
      BY <1>4, <3>1
    <3>. SUFFICES ASSUME NEW D \in SUBSET (1..i), NEW E \in SUBSET (1..j), InCommon(a, b, D, E)
         PROVE  Cardinality(D) <= T[i + 1][j + 1]
      BY DEF Q
    <3>5. IsFiniteSet(D) /\ Cardinality(D) \in Nat
      <4>1. IsFiniteSet(1..i)
        BY FS_Interval
      <4>. QED  BY <4>1, FS_Subset, FS_CardinalityType
    <3>6. CASE i \notin D
      <4>1. D \in SUBSET (1..I)
        BY <3>1, <3>6
      <4>2. Cardinality(D) <= T[I + 1][j + 1]
        BY <3>4, <4>1 DEF Q
      <4>3. T[I + 1][j + 1] \in Nat /\ T[I + 1][j + 1] <= T[i + 1][j + 1]
        BY <3>1, <3>2, <3>3
      <4>. QED  BY <3>2, <3>5, <4>2, <4>3, Transitive
    <3>7. CASE j \notin E
      <4>1. E \in SUBSET (1..J)
        BY <3>1, <3>7
      <4>2. Cardinality(D) <= T[i + 1][J + 1]
        BY <3>4, <4>1 DEF Q
      <4>3. T[i + 1][J + 1] \in Nat /\ T[i + 1][J + 1] <= T[i + 1][j + 1]
        BY <3>1, <3>2, <3>3
      <4>. QED  BY <3>2, <3>5, <4>2, <4>3, Transitive
    <3>8. CASE i \in D /\ j \in E
      <4>1. /\ D \ {i} \in SUBSET (1..I) /\ Place(D, i) = Cardinality(D)
            /\ Cardinality(D \ {i}) = Cardinality(D) - 1
            /\ \A d \in D \ {i} : Place(D \ {i}, d) = Place(D, d)
        BY <3>1, <3>8, PlaceLess DEF I
      <4>2. /\ E \ {j} \in SUBSET (1..J) /\ Place(E, j) = Cardinality(E)
            /\ Cardinality(E \ {j}) = Cardinality(E) - 1
            /\ \A e \in E \ {j} : Place(E \ {j}, e) = Place(E, e)
        BY <3>1, <3>8, PlaceLess DEF J
      <4>3. a[i] = b[j]
        BY <3>8, <4>1, <4>2 DEF InCommon
      <4>4. InCommon(a, b, D \ {i}, E \ {j})
        BY <4>1, <4>2 DEF InCommon
      <4>5. Cardinality(D \ {i}) <= T[i][j]
        <5>1. Cardinality(D \ {i}) <= T[I + 1][J + 1]
          BY <3>4, <4>1, <4>2, <4>4 DEF Q
        <5>. QED  BY <3>1, <5>1
      <4>6. T[i + 1][j + 1] = T[i][j] + 1
        <5>1. Entry(T, a, b, i, j)
          BY Entries
        <5>. QED  BY <2>3, <4>3, <5>1 DEF Entry
      <4>7. T[i][j] \in Nat
        BY <3>1, <3>2
      <4>. DEFINE w == T[i][j]
                  c == Cardinality(D)
      <4>. HIDE DEF w, c
      <4>8. c <= w + 1
        <5>1. c - 1 <= w /\ c \in Nat /\ w \in Nat
          BY <3>5, <4>1, <4>5, <4>7 DEF w, c
        <5>. QED  BY <5>1
      <4>. QED  BY <4>6, <4>8 DEF w, c
    <3>. QED  BY <3>6, <3>7, <3>8
  <2>. QED  BY <2>2, <2>3
<1>. HIDE DEF S
<1>5. Nat \subseteq S
  BY <1>3, <1>4, Induct
<1>6. ASSUME NEW i \in 0..Len(a), NEW j \in 0..Len(b) PROVE Q(i, j)
  <2>1. i + j \in S /\ i + j <= i + j
    BY <1>5
  <2>. HIDE DEF Q
  <2>. QED  BY <2>1 DEF S
<1>. QED  BY <1>6

-----------------------------------------------------------------------------
(* The diff: the way back through the table *)

Corners(a, b) == (0..Len(a)) \X (0..Len(b))

\* What the walk g, known further down, makes at a corner.
At(g, dp, a, b, i, j) ==
    IF i = 0 /\ j = 0 THEN <<>>
    ELSE IF i > 0 /\ j > 0 /\ a[i] = b[j]
         THEN Append(g[<<i - 1, j - 1>>], Line("=", a[i]))
    ELSE IF j > 0 /\ (i = 0 \/ dp[i + 1][j] >= dp[i][j + 1])
         THEN Append(g[<<i, j - 1>>], Line("+", b[j]))
    ELSE Append(g[<<i - 1, j>>], Line("-", a[i]))

Walks(g, dp, a, b) == g = [p \in Corners(a, b) |-> At(g, dp, a, b, p[1], p[2])]

LEMMA CornersAre ==
    ASSUME NEW a, NEW b, Len(a) \in Nat, Len(b) \in Nat
    PROVE  /\ \A i \in 0..Len(a), j \in 0..Len(b) : <<i, j>> \in Corners(a, b)
           /\ \A p \in Corners(a, b) : /\ p = <<p[1], p[2]>>
                                       /\ p[1] \in 0..Len(a) /\ p[2] \in 0..Len(b)
BY DEF Corners

LEMMA AtAlike ==
    ASSUME NEW g, NEW h, NEW dp, NEW a, NEW b, Len(a) \in Nat, Len(b) \in Nat,
           NEW i \in 0..Len(a), NEW j \in 0..Len(b),
           \A x \in 0..Len(a), y \in 0..Len(b) : x + y < i + j => g[<<x, y>>] = h[<<x, y>>]
    PROVE  At(g, dp, a, b, i, j) = At(h, dp, a, b, i, j)
<1>. DEFINE I == i - 1
            J == j - 1
<1>1. ASSUME i > 0, j > 0 PROVE g[<<I, J>>] = h[<<I, J>>]
  <2>1. I \in 0..Len(a) /\ J \in 0..Len(b) /\ I + J < i + j
    BY <1>1
  <2>. HIDE DEF I, J
  <2>. QED  BY <2>1
<1>2. ASSUME j > 0 PROVE g[<<i, J>>] = h[<<i, J>>]
  <2>1. J \in 0..Len(b) /\ i + J < i + j
    BY <1>2
  <2>. HIDE DEF J
  <2>. QED  BY <2>1
<1>3. ASSUME i > 0 PROVE g[<<I, j>>] = h[<<I, j>>]
  <2>1. I \in 0..Len(a) /\ I + j < i + j
    BY <1>3
  <2>. HIDE DEF I
  <2>. QED  BY <2>1
<1>. QED  BY <1>1, <1>2, <1>3 DEF At

LEMMA WalkExists ==
    ASSUME NEW dp, NEW a, NEW b, Len(a) \in Nat, Len(b) \in Nat
    PROVE  \E g : Walks(g, dp, a, b)
<1>. DEFINE Good(g, n) ==
              \A i \in 0..Len(a), j \in 0..Len(b) :
                 i + j <= n => g[<<i, j>>] = At(g, dp, a, b, i, j)
            Fit(g) == g = [p \in Corners(a, b) |-> g[p]]
            S == {n \in Nat : \E g : Fit(g) /\ Good(g, n)}
<1>1. 0 \in S
  <2>. DEFINE g == [p \in Corners(a, b) |-> <<>>]
  <2>1. Fit(g)
    OBVIOUS
  <2>2. \A p \in Corners(a, b) : g[p] = <<>>
    OBVIOUS
  <2>. HIDE DEF g, Fit
  <2>3. ASSUME NEW i \in 0..Len(a), NEW j \in 0..Len(b), i + j <= 0
        PROVE  g[<<i, j>>] = At(g, dp, a, b, i, j)
    <3>1. i = 0 /\ j = 0
      BY <2>3
    <3>2. g[<<i, j>>] = <<>>
      BY <2>2, CornersAre
    <3>. QED  BY <3>1, <3>2 DEF At
  <2>4. Good(g, 0)
    BY <2>3
  <2>. HIDE DEF Good
  <2>. QED  BY <2>1, <2>4
<1>2. ASSUME NEW n \in Nat, n \in S PROVE n + 1 \in S
  <2>1. PICK g : Fit(g) /\ Good(g, n)
    BY <1>2
  <2>. DEFINE h == [p \in Corners(a, b) |-> At(g, dp, a, b, p[1], p[2])]
  <2>2. Fit(h)
    OBVIOUS
  <2>3. \A p \in Corners(a, b) : h[p] = At(g, dp, a, b, p[1], p[2])
    OBVIOUS
  <2>. HIDE DEF h, Fit
  <2>4. ASSUME NEW i \in 0..Len(a), NEW j \in 0..Len(b)
        PROVE  h[<<i, j>>] = At(g, dp, a, b, i, j)
    <3>1. <<i, j>> \in Corners(a, b) /\ <<i, j>>[1] = i /\ <<i, j>>[2] = j
      BY CornersAre
    <3>. QED  BY <2>3, <3>1
  <2>5. ASSUME NEW i \in 0..Len(a), NEW j \in 0..Len(b), i + j <= n + 1
        PROVE  h[<<i, j>>] = At(h, dp, a, b, i, j)
    <3>1. ASSUME NEW x \in 0..Len(a), NEW y \in 0..Len(b), x + y < i + j
          PROVE  g[<<x, y>>] = h[<<x, y>>]
      <4>1. x + y <= n
        BY <2>5, <3>1
      <4>2. g[<<x, y>>] = At(g, dp, a, b, x, y)
        BY <2>1, <4>1
      <4>. QED  BY <2>4, <4>2
    <3>2. At(g, dp, a, b, i, j) = At(h, dp, a, b, i, j)
      BY <3>1, AtAlike
    <3>. QED  BY <2>4, <3>2
  <2>6. Good(h, n + 1)
    BY <2>5
  <2>. HIDE DEF Good
  <2>. QED  BY <2>2, <2>6
<1>. HIDE DEF S
<1>3. Nat \subseteq S
  BY <1>1, <1>2, Induct
<1>4. Len(a) + Len(b) \in S
  BY <1>3
<1>5. PICK g : Fit(g) /\ Good(g, Len(a) + Len(b))
  BY <1>4 DEF S
<1>6. ASSUME NEW p \in Corners(a, b) PROVE g[p] = At(g, dp, a, b, p[1], p[2])
  <2>1. p = <<p[1], p[2]>> /\ p[1] \in 0..Len(a) /\ p[2] \in 0..Len(b)
    BY CornersAre
  <2>2. p[1] + p[2] <= Len(a) + Len(b)
    BY <2>1
  <2>. QED  BY <1>5, <2>1, <2>2
<1>7. g = [p \in Corners(a, b) |-> At(g, dp, a, b, p[1], p[2])]
  BY <1>5, <1>6
<1>. QED  BY <1>7 DEF Walks

LEMMA EditsWalk ==
    ASSUME NEW a, NEW b, Len(a) \in Nat, Len(b) \in Nat
    PROVE  \E g : Walks(g, Table(a, b), a, b) /\ Edits(a, b) = g[<<Len(a), Len(b)>>]
<1>. DEFINE dp == Table(a, b)
            P(g) == g = [p \in (0..Len(a)) \X (0..Len(b)) |->
                           IF p[1] = 0 /\ p[2] = 0 THEN <<>>
                           ELSE IF p[1] > 0 /\ p[2] > 0 /\ a[p[1]] = b[p[2]]
                                THEN Append(g[<<p[1] - 1, p[2] - 1>>], Line("=", a[p[1]]))
                           ELSE IF /\ p[2] > 0
                                   /\ p[1] = 0 \/ dp[p[1] + 1][p[2]] >= dp[p[1]][p[2] + 1]
                                THEN Append(g[<<p[1], p[2] - 1>>], Line("+", b[p[2]]))
                           ELSE Append(g[<<p[1] - 1, p[2]>>], Line("-", a[p[1]]))]
            c == CHOOSE g : P(g)
<1>1. Edits(a, b) = c[<<Len(a), Len(b)>>]
  BY DEF Edits
<1>. HIDE DEF dp, c
<1>2. ASSUME NEW g PROVE P(g) <=> Walks(g, dp, a, b)
  BY DEF Walks, At, Corners
<1>. HIDE DEF P
<1>3. \E g : Walks(g, dp, a, b)
  BY WalkExists
<1>4. P(c)
  BY <1>2, <1>3 DEF c
<1>. QED  BY <1>1, <1>2, <1>4 DEF dp

LEMMA WalkStep ==
    ASSUME NEW g, NEW dp, NEW a, NEW b, Len(a) \in Nat, Len(b) \in Nat, Walks(g, dp, a, b)
    PROVE  \A i \in 0..Len(a), j \in 0..Len(b) : g[<<i, j>>] = At(g, dp, a, b, i, j)
<1>. SUFFICES ASSUME NEW i \in 0..Len(a), NEW j \in 0..Len(b)
     PROVE  g[<<i, j>>] = At(g, dp, a, b, i, j)
  OBVIOUS
<1>1. <<i, j>> \in Corners(a, b) /\ <<i, j>>[1] = i /\ <<i, j>>[2] = j
  BY CornersAre
<1>2. \A p \in Corners(a, b) : g[p] = At(g, dp, a, b, p[1], p[2])
  BY DEF Walks
<1>. QED  BY <1>1, <1>2

-----------------------------------------------------------------------------
(* The diff: what the edits tell *)

Written(L) == [op : {"=", "+", "-"}, text : L]

\* A reader to whom the diff fits so far.
Told(at, new) == [at |-> at, ok |-> TRUE, new |-> new]
Readers(a, L) == {Told(p[1], p[2]) : p \in (0..Len(a)) \X Seq(L)}

\* t lists what the reader knows after each of the edits e.
Reads(t, e, a) == t[0] = Start /\ \A n \in 1..Len(e) : t[n] = Read(a, t[n - 1], e[n])

\* After the edits e the reader is r, and was a reader to whom they fit at every time.
Leads(e, a, R, r) == \E t \in [0..Len(e) -> R] : Reads(t, e, a) /\ t[Len(e)] = r

\* The edits e make the first j lines of b of the first i lines of a, and change
\* no more than the table says.
Script(e, T, a, b, L, i, j) ==
    /\ e \in Seq(Written(L))
    /\ Changed(e) = i + j - 2 * T[i + 1][j + 1]
    /\ Leads(e, a, Readers(a, L), Told(i, SubSeq(b, 1, j)))

LEMMA ToldIn ==
    ASSUME NEW a, NEW L, NEW k \in 0..Len(a), NEW s \in Seq(L)
    PROVE  Told(k, s) \in Readers(a, L)
<1>1. <<k, s>> \in (0..Len(a)) \X Seq(L) /\ <<k, s>>[1] = k /\ <<k, s>>[2] = s
  OBVIOUS
<1>. QED  BY <1>1 DEF Readers

LEMMA ToldOnly ==
    ASSUME NEW a, NEW L, NEW r \in Readers(a, L)
    PROVE  r.at \in 0..Len(a) /\ r.new \in Seq(L) /\ r = Told(r.at, r.new)
<1>1. PICK p \in (0..Len(a)) \X Seq(L) : r = Told(p[1], p[2])
  BY DEF Readers
<1>2. r.at = p[1] /\ r.new = p[2]
  BY <1>1 DEF Told
<1>3. p[1] \in 0..Len(a) /\ p[2] \in Seq(L)
  OBVIOUS
<1>. QED  BY <1>1, <1>2, <1>3

LEMMA ReaderIs ==
    ASSUME NEW r, NEW k, NEW u, NEW s, r = [x \in {"at", "ok", "new"} |-> r[x]],
           r.at = k, r.ok = u, r.new = s
    PROVE  r = [at |-> k, ok |-> u, new |-> s]
<1>. DEFINE v == [at |-> k, ok |-> u, new |-> s]
            F == {"at", "ok", "new"}
<1>1. v = [x \in F |-> v[x]]
  OBVIOUS
<1>2. v.at = k /\ v.ok = u /\ v.new = s
  OBVIOUS
<1>. HIDE DEF v
<1>3. \A x \in F : r[x] = v[x]
  BY <1>2
<1>. HIDE DEF F
<1>4. r = [x \in F |-> r[x]]
  BY DEF F
<1>5. r = v
  BY <1>1, <1>3, <1>4
<1>. QED  BY <1>5 DEF v

Moved(r, x, y) == [r EXCEPT !.at = x, !.new = y]

\* Such a reader after an update of some of the fields.
LEMMA ToldBoth ==
    ASSUME NEW k, NEW s, NEW x, NEW y
    PROVE  Moved(Told(k, s), x, y) = Told(x, y)
<1>1. PICK u : u = TRUE
  OBVIOUS
<1>. DEFINE r == Told(k, s)
            q == [r EXCEPT !.at = x, !.new = y]
<1>2. r = [f \in {"at", "ok", "new"} |-> r[f]] /\ r.at = k /\ r.ok = u /\ r.new = s
  <2>1. r = [at |-> k, ok |-> u, new |-> s]
    BY <1>1, Zenon DEF Told
  <2>. HIDE DEF r
  <2>. QED  BY <2>1
<1>. HIDE DEF r
<1>3. q = [f \in {"at", "ok", "new"} |-> q[f]] /\ q.at = x /\ q.ok = u /\ q.new = y
  BY <1>2
<1>. HIDE DEF q
<1>4. q = [at |-> x, ok |-> u, new |-> y]
  BY <1>3, ReaderIs
<1>. QED  BY <1>1, <1>4, Zenon DEF Told, Moved, q, r

LEMMA ToldAt ==
    ASSUME NEW k, NEW s, NEW x
    PROVE  [Told(k, s) EXCEPT !.at = x, !.ok = TRUE] = Told(x, s)
<1>1. PICK u : u = TRUE
  OBVIOUS
<1>. DEFINE r == Told(k, s)
            q == [r EXCEPT !.at = x, !.ok = u]
<1>2. r = [f \in {"at", "ok", "new"} |-> r[f]] /\ r.at = k /\ r.ok = u /\ r.new = s
  <2>1. r = [at |-> k, ok |-> u, new |-> s]
    BY <1>1, Zenon DEF Told
  <2>. HIDE DEF r
  <2>. QED  BY <2>1
<1>. HIDE DEF r
<1>3. q = [f \in {"at", "ok", "new"} |-> q[f]] /\ q.at = x /\ q.ok = u /\ q.new = s
  BY <1>2
<1>. HIDE DEF q
<1>4. q = [at |-> x, ok |-> u, new |-> s]
  BY <1>3, ReaderIs
<1>. QED  BY <1>1, <1>4, Zenon DEF Told, q, r

LEMMA ToldOk ==
    ASSUME NEW k, NEW s
    PROVE  [Told(k, s) EXCEPT !.ok = TRUE] = Told(k, s)
<1>1. PICK u : u = TRUE
  OBVIOUS
<1>. DEFINE r == Told(k, s)
            q == [r EXCEPT !.ok = u]
<1>2. r = [f \in {"at", "ok", "new"} |-> r[f]] /\ r.at = k /\ r.ok = u /\ r.new = s
  <2>1. r = [at |-> k, ok |-> u, new |-> s]
    BY <1>1, Zenon DEF Told
  <2>. HIDE DEF r
  <2>. QED  BY <2>1
<1>. HIDE DEF r
<1>3. q = [f \in {"at", "ok", "new"} |-> q[f]] /\ q.at = k /\ q.ok = u /\ q.new = s
  BY <1>2
<1>. HIDE DEF q
<1>4. q = [at |-> k, ok |-> u, new |-> s]
  BY <1>3, ReaderIs
<1>. QED  BY <1>1, <1>4, Zenon DEF Told, q, r

LEMMA ToldNew ==
    ASSUME NEW k, NEW s, NEW y
    PROVE  [Told(k, s) EXCEPT !.new = y] = Told(k, y)
<1>1. PICK u : u = TRUE
  OBVIOUS
<1>. DEFINE r == Told(k, s)
            q == [r EXCEPT !.new = y]
<1>2. r = [f \in {"at", "ok", "new"} |-> r[f]] /\ r.at = k /\ r.ok = u /\ r.new = s
  <2>1. r = [at |-> k, ok |-> u, new |-> s]
    BY <1>1, Zenon DEF Told
  <2>. HIDE DEF r
  <2>. QED  BY <2>1
<1>. HIDE DEF r
<1>3. q = [f \in {"at", "ok", "new"} |-> q[f]] /\ q.at = k /\ q.ok = u /\ q.new = y
  BY <1>2
<1>. HIDE DEF q
<1>4. q = [at |-> k, ok |-> u, new |-> y]
  BY <1>3, ReaderIs
<1>. QED  BY <1>1, <1>4, Zenon DEF Told, q, r

LEMMA KeepTold ==
    ASSUME NEW a, NEW s, NEW n \in Nat, Len(a) \in Nat, NEW k \in 0..Len(a), k + n <= Len(a)
    PROVE  Keep(a, Told(k, s), n) = Told(k + n, s \o SubSeq(a, k + 1, k + n))
<1>. DEFINE r == Told(k, s)
            v == s \o SubSeq(a, k + 1, k + n)
<1>1. r.at = k /\ r.new = s
  BY DEF Told
<1>2. ~(r.at + n > Len(a))
  BY <1>1
<1>3. Keep(a, r, n) = [r EXCEPT !.at = r.at + n, !.new = r.new \o SubSeq(a, r.at + 1, r.at + n)]
  BY <1>2 DEF Keep
<1>4. Keep(a, r, n) = [r EXCEPT !.at = k + n, !.new = v]
  BY <1>1, <1>3
<1>. HIDE DEF v, r
<1>5. Moved(Told(k, s), k + n, v) = Told(k + n, v)
  BY ToldBoth
<1>. QED  BY <1>4, <1>5 DEF Moved, v, r

LEMMA KeepOne ==
    ASSUME NEW a, NEW L, a \in Seq(L), NEW s \in Seq(L), NEW k \in 0..Len(a), k < Len(a)
    PROVE  /\ Keep(a, Told(k, s), 1) = Told(k + 1, Append(s, a[k + 1]))
           /\ Append(s, a[k + 1]) \in Seq(L)
<1>1. Len(a) \in Nat /\ k + 1 \in 1..Len(a) /\ a[k + 1] \in L
  BY ElementOfSeq, LenProperties
<1>2. Keep(a, Told(k, s), 1) = Told(k + 1, s \o SubSeq(a, k + 1, k + 1))
  BY <1>1, KeepTold
<1>3. SubSeq(a, k + 1, k + 1) = <<a[k + 1]>>
  <2>. DEFINE x == a[k + 1]
              c == SubSeq(a, k + 1, k + 1)
  <2>1. k + 1 \in Int /\ \A i \in (k + 1)..(k + 1) : a[i] \in L
    BY <1>1
  <2>2. /\ c \in Seq(L)
        /\ Len(c) = IF k + 1 <= k + 1 THEN (k + 1) - (k + 1) + 1 ELSE 0
        /\ \A i \in 1..((k + 1) - (k + 1) + 1) : c[i] = a[k + 1 + i - 1]
    BY <2>1, SubSeqProperties
  <2>. HIDE DEF c
  <2>3. Len(c) = 1 /\ c[1] = x
    BY <2>2
  <2>4. x \in L
    BY <1>1
  <2>. HIDE DEF x
  <2>5. <<x>> \in Seq(L) /\ Len(<<x>>) = 1 /\ <<x>>[1] = x
    BY <2>4
  <2>6. c = <<x>>
    BY <2>2, <2>3, <2>5, SeqEqual
  <2>. QED  BY <2>6 DEF c, x
<1>4. Append(s, a[k + 1]) = s \o <<a[k + 1]>> /\ Append(s, a[k + 1]) \in Seq(L)
  BY <1>1, AppendIsConcat, AppendProperties
<1>. QED  BY <1>2, <1>3, <1>4

LEMMA ReadSame ==
    ASSUME NEW a, NEW L, a \in Seq(L), NEW s \in Seq(L), NEW k \in 0..Len(a), k < Len(a)
    PROVE  Read(a, Told(k, s), Line("=", a[k + 1])) = Keep(a, Told(k, s), 1)
<1>. DEFINE l == Line("=", a[k + 1])
            r == Told(k, s)
            w == Append(s, a[k + 1])
            N == Names(a, r, l)
<1>1. l.op = "=" /\ l.text = a[k + 1] /\ r.at = k
  BY DEF Line, Told
<1>2. N = TRUE
  BY <1>1 DEF Names
<1>3. Read(a, r, l) = [Keep(a, r, 1) EXCEPT !.ok = @ /\ N]
  BY <1>1 DEF Read
<1>4. Keep(a, r, 1) = Told(k + 1, w)
  BY KeepOne
<1>. HIDE DEF l, r, N, w
<1>5. Read(a, r, l) = [Told(k + 1, w) EXCEPT !.ok = TRUE]
  <2>1. Told(k + 1, w).ok = TRUE
    BY DEF Told
  <2>2. (Told(k + 1, w).ok /\ N) = TRUE
    BY <1>2, <2>1, Zenon
  <2>3. Read(a, r, l) = [Told(k + 1, w) EXCEPT !.ok = Told(k + 1, w).ok /\ N]
    BY <1>3, <1>4, Zenon
  <2>. QED  BY <2>2, <2>3, Zenon
<1>6. [Told(k + 1, w) EXCEPT !.ok = TRUE] = Told(k + 1, w)
  BY ToldOk, Zenon
<1>. QED  BY <1>4, <1>5, <1>6 DEF l, r

LEMMA ReadLess ==
    ASSUME NEW a, NEW L, a \in Seq(L), NEW s \in Seq(L), NEW k \in 0..Len(a), k < Len(a)
    PROVE  Read(a, Told(k, s), Line("-", a[k + 1])) = Told(k + 1, s)
<1>. DEFINE l == Line("-", a[k + 1])
            r == Told(k, s)
            N == Names(a, r, l)
<1>1. l.op = "-" /\ l.text = a[k + 1] /\ r.at = k /\ r.ok = TRUE
  BY DEF Line, Told
<1>2. N = TRUE
  BY <1>1 DEF Names
<1>3. Read(a, r, l) = [r EXCEPT !.at = r.at + 1, !.ok = r.ok /\ N]
  BY <1>1 DEF Read
<1>. HIDE DEF l, N
<1>4. (r.ok /\ N) = TRUE
  BY <1>1, <1>2, Zenon
<1>5. Read(a, r, l) = [r EXCEPT !.at = k + 1, !.ok = TRUE]
  BY <1>1, <1>3, <1>4, Zenon
<1>6. [Told(k, s) EXCEPT !.at = k + 1, !.ok = TRUE] = Told(k + 1, s)
  BY ToldAt, Zenon
<1>. QED  BY <1>5, <1>6 DEF l

LEMMA ReadMore ==
    ASSUME NEW a, NEW k, NEW s, NEW x
    PROVE  Read(a, Told(k, s), Line("+", x)) = Told(k, Append(s, x))
<1>. DEFINE l == Line("+", x)
            r == Told(k, s)
<1>1. l.op = "+" /\ l.text = x /\ r.new = s
  BY DEF Line, Told
<1>2. Read(a, r, l) = [r EXCEPT !.new = Append(r.new, l.text)]
  BY <1>1 DEF Read
<1>3. Read(a, r, l) = [r EXCEPT !.new = Append(s, x)]
  BY <1>1, <1>2
<1>4. [Told(k, s) EXCEPT !.new = Append(s, x)] = Told(k, Append(s, x))
  BY ToldNew, Zenon
<1>. QED  BY <1>3, <1>4

LEMMA ReadGap ==
    ASSUME NEW a, NEW r, NEW n PROVE Read(a, r, Line("...", n)) = Keep(a, r, n)
BY DEF Read, Line

ChangedAt(d) == {n \in DOMAIN d : d[n].op \in {"+", "-"}}

LEMMA ChangedNone == Changed(<<>>) = 0
<1>1. DOMAIN <<>> = {}
  OBVIOUS
<1>2. {n \in DOMAIN <<>> : <<>>[n].op \in {"+", "-"}} = {}
  BY <1>1
<1>. QED  BY <1>2, FS_EmptySet DEF Changed

LEMMA ChangedOn ==
    ASSUME NEW S, NEW d \in Seq(S), NEW l \in S
    PROVE  /\ Changed(d) \in Nat
           /\ Changed(Append(d, l)) = IF l.op \in {"+", "-"} THEN Changed(d) + 1 ELSE Changed(d)
<1>. DEFINE q == Append(d, l)
            n == Len(d)
<1>1. n \in Nat /\ DOMAIN d = 1..n
  BY LenProperties
<1>2. /\ q \in Seq(S) /\ Len(q) = n + 1 /\ q[n + 1] = l
      /\ \A i \in 1..n : q[i] = d[i]
  BY AppendProperties
<1>3. DOMAIN q = 1..(n + 1)
  BY <1>2, LenProperties
<1>. HIDE DEF q, n
<1>4. IsFiniteSet(ChangedAt(d)) /\ Cardinality(ChangedAt(d)) \in Nat
  <2>1. ChangedAt(d) \in SUBSET (1..n)
    BY <1>1 DEF ChangedAt
  <2>2. IsFiniteSet(1..n)
    BY <1>1, FS_Interval
  <2>. QED  BY <2>1, <2>2, FS_Subset, FS_CardinalityType
<1>5. n + 1 \notin ChangedAt(d)
  BY <1>1 DEF ChangedAt
<1>6. CASE l.op \in {"+", "-"}
  <2>1. ChangedAt(q) = ChangedAt(d) \cup {n + 1}
    BY <1>1, <1>2, <1>3, <1>6 DEF ChangedAt
  <2>2. Cardinality(ChangedAt(q)) = Cardinality(ChangedAt(d)) + 1
    BY <1>4, <1>5, <2>1, FS_AddElement
  <2>. QED  BY <1>4, <1>6, <2>2 DEF Changed, ChangedAt, q
<1>7. CASE l.op \notin {"+", "-"}
  <2>1. ChangedAt(q) = ChangedAt(d)
    BY <1>1, <1>2, <1>3, <1>7 DEF ChangedAt
  <2>. QED  BY <1>4, <1>7, <2>1 DEF Changed, ChangedAt, q
<1>. QED  BY <1>6, <1>7

\* One more line to read.
LEMMA ReadOn ==
    ASSUME NEW S, NEW R, NEW a, NEW e \in Seq(S), NEW l \in S, NEW r,
           Leads(e, a, R, r), Read(a, r, l) \in R
    PROVE  Leads(Append(e, l), a, R, Read(a, r, l))
<1>0. PICK t \in [0..Len(e) -> R] : Reads(t, e, a) /\ t[Len(e)] = r
  BY DEF Leads
<1>. DEFINE q == Append(e, l)
            n == Len(e)
            v == Read(a, r, l)
            u == [i \in 0..(n + 1) |-> IF i = n + 1 THEN v ELSE t[i]]
<1>1. n \in Nat
  BY LenProperties
<1>2. /\ Len(q) = n + 1 /\ q[n + 1] = l /\ \A i \in 1..n : q[i] = e[i]
  BY AppendProperties
<1>3. v \in R
  OBVIOUS
<1>. HIDE DEF q, v
<1>4. u \in [0..(n + 1) -> R]
  BY <1>0, <1>1, <1>3
<1>5. u[n + 1] = v /\ \A i \in 0..n : u[i] = t[i]
  BY <1>1
<1>. HIDE DEF u
<1>6. u[0] = Start
  BY <1>0, <1>1, <1>5 DEF Reads
<1>7. ASSUME NEW i \in 1..(n + 1) PROVE u[i] = Read(a, u[i - 1], q[i])
  <2>1. u[i - 1] = t[i - 1]
    BY <1>1, <1>5
  <2>2. CASE i = n + 1
    BY <1>0, <1>1, <1>2, <1>5, <2>1, <2>2 DEF v, n
  <2>3. CASE i \in 1..n
    BY <1>0, <1>1, <1>2, <1>5, <2>1, <2>3 DEF Reads, n
  <2>. QED  BY <1>1, <2>2, <2>3
<1>8. Reads(u, q, a)
  BY <1>2, <1>6, <1>7 DEF Reads
<1>. QED  BY <1>2, <1>4, <1>5, <1>8 DEF Leads, q, v

\* One more edit, if it fits and the table allows for it.
LEMMA ScriptOn ==
    ASSUME NEW T, NEW a, NEW b, NEW L, NEW e, NEW l \in Written(L),
           NEW i, NEW j, NEW x, NEW y, Script(e, T, a, b, L, x, y),
           Read(a, Told(x, SubSeq(b, 1, y)), l) = Told(i, SubSeq(b, 1, j)),
           i \in 0..Len(a), SubSeq(b, 1, j) \in Seq(L),
           (x + y - 2 * T[x + 1][y + 1]) + (IF l.op = "=" THEN 0 ELSE 1)
              = i + j - 2 * T[i + 1][j + 1]
    PROVE  Script(Append(e, l), T, a, b, L, i, j)
<1>. DEFINE z == SubSeq(b, 1, j)
            r == Told(x, SubSeq(b, 1, y))
<1>1. /\ e \in Seq(Written(L)) /\ Changed(e) = x + y - 2 * T[x + 1][y + 1]
      /\ Leads(e, a, Readers(a, L), r)
  BY DEF Script
<1>2. Append(e, l) \in Seq(Written(L))
  BY <1>1, AppendProperties
<1>3. l.op \in {"=", "+", "-"}
  BY DEF Written
<1>4. Changed(Append(e, l)) = i + j - 2 * T[i + 1][j + 1]
  <2>1. /\ Changed(e) \in Nat
        /\ Changed(Append(e, l)) = IF l.op \in {"+", "-"} THEN Changed(e) + 1 ELSE Changed(e)
    BY <1>1, ChangedOn
  <2>2. Changed(Append(e, l)) = Changed(e) + (IF l.op = "=" THEN 0 ELSE 1)
    BY <1>3, <2>1
  <2>. QED  BY <1>1, <2>2
<1>. HIDE DEF z, r
<1>5. Told(i, z) \in Readers(a, L)
  <2>1. z \in Seq(L)
    BY DEF z
  <2>. QED  BY <2>1, ToldIn
<1>6. Read(a, r, l) = Told(i, z)
  BY DEF r, z
<1>7. Leads(Append(e, l), a, Readers(a, L), Told(i, z))
  BY <1>1, <1>5, <1>6, ReadOn
<1>. QED  BY <1>2, <1>4, <1>7 DEF Script, z

LEMMA SubSeqOn ==
    ASSUME NEW L, NEW b \in Seq(L), NEW y \in Nat, y < Len(b)
    PROVE  /\ SubSeq(b, 1, y) \in Seq(L) /\ SubSeq(b, 1, y + 1) \in Seq(L)
           /\ SubSeq(b, 1, y + 1) = Append(SubSeq(b, 1, y), b[y + 1])
           /\ b[y + 1] \in L
<1>1. Len(b) \in Nat /\ y + 1 \in 1..Len(b) /\ b[y + 1] \in L
  BY LenProperties, ElementOfSeq
<1>2. /\ 1 \in Int /\ y \in Int /\ y + 1 \in Int
      /\ \A i \in 1..y : b[i] \in L
      /\ \A i \in 1..(y + 1) : b[i] \in L
  BY <1>1, ElementOfSeq
<1>3. SubSeq(b, 1, y) \in Seq(L) /\ SubSeq(b, 1, y + 1) \in Seq(L)
  BY <1>2, SubSeqProperties
<1>4. SubSeq(b, 1, y + 1) = SubSeq(b, 1, (y + 1) - 1) \o <<b[y + 1]>>
  <2>1. 1 \in 1..Len(b) /\ y + 1 \in 1..Len(b)
    BY <1>1
  <2>. QED  BY <2>1, SubSeqRecursiveSecond
<1>5. (y + 1) - 1 = y
  OBVIOUS
<1>6. Append(SubSeq(b, 1, y), b[y + 1]) = SubSeq(b, 1, y) \o <<b[y + 1]>>
  BY <1>1, <1>3, AppendIsConcat
<1>. QED  BY <1>1, <1>3, <1>4, <1>5, <1>6

LEMMA ScriptNone ==
    ASSUME NEW T, NEW a, NEW b, NEW L, Len(a) \in Nat, T[1][1] = 0
    PROVE  Script(<<>>, T, a, b, L, 0, 0)
<1>. DEFINE R == Readers(a, L)
            t == [n \in 0..0 |-> Start]
<1>1. Start = Told(0, <<>>) /\ Start \in R
  <2>1. Start = Told(0, <<>>)
    BY DEF Start, Told
  <2>2. 0 \in 0..Len(a) /\ <<>> \in Seq(L)
    BY EmptySeq
  <2>. QED  BY <2>1, <2>2, ToldIn
<1>. HIDE DEF R
<1>2. Len(<<>>) = 0 /\ <<>> \in Seq(Written(L))
  BY EmptySeq
<1>3. t \in [0..0 -> R] /\ t[0] = Start
  BY <1>1
<1>. HIDE DEF t
<1>4. Reads(t, <<>>, a)
  BY <1>2, <1>3 DEF Reads
<1>5. Leads(<<>>, a, R, Start)
  BY <1>2, <1>3, <1>4 DEF Leads
<1>6. SubSeq(b, 1, 0) = <<>>
  <2>1. 1 \in Int /\ 0 \in Int /\ 0 < 1
    OBVIOUS
  <2>. QED  BY <2>1, SubSeqEmpty
<1>7. Changed(<<>>) = 0 + 0 - 2 * T[0 + 1][0 + 1]
  BY ChangedNone
<1>. QED  BY <1>1, <1>2, <1>5, <1>6, <1>7 DEF Script, R

LEMMA Cost ==
    ASSUME NEW x \in Nat, NEW y \in Nat, NEW w \in Nat
    PROVE  /\ (x + y - 2 * w) + 0 = (x + 1) + (y + 1) - 2 * (w + 1)
           /\ (x + y - 2 * w) + 1 = x + (y + 1) - 2 * w
           /\ (x + y - 2 * w) + 1 = (x + 1) + y - 2 * w
OBVIOUS

\* The three ways to a corner.
LEMMA ScriptSame ==
    ASSUME NEW T, NEW L, NEW a \in Seq(L), NEW b \in Seq(L), NEW e,
           NEW x \in Nat, NEW y \in Nat, x < Len(a), y < Len(b), a[x + 1] = b[y + 1],
           Script(e, T, a, b, L, x, y), T[x + 1][y + 1] \in Nat,
           T[x + 2][y + 2] = T[x + 1][y + 1] + 1
    PROVE  Script(Append(e, Line("=", a[x + 1])), T, a, b, L, x + 1, y + 1)
<1>. DEFINE l == Line("=", a[x + 1])
            s == SubSeq(b, 1, y)
<1>1. /\ x \in 0..Len(a) /\ x + 1 \in 0..Len(a) /\ Len(a) \in Nat
  BY LenProperties
<1>2. /\ s \in Seq(L) /\ SubSeq(b, 1, y + 1) \in Seq(L)
      /\ SubSeq(b, 1, y + 1) = Append(s, a[x + 1]) /\ a[x + 1] \in L
  BY SubSeqOn
<1>3. l \in Written(L) /\ l.op = "="
  BY <1>2 DEF Written, Line
<1>4. Read(a, Told(x, s), l) = Told(x + 1, SubSeq(b, 1, y + 1))
  <2>1. Read(a, Told(x, s), l) = Keep(a, Told(x, s), 1)
    BY <1>1, <1>2, ReadSame
  <2>2. Keep(a, Told(x, s), 1) = Told(x + 1, Append(s, a[x + 1]))
    BY <1>1, <1>2, KeepOne
  <2>. QED  BY <1>2, <2>1, <2>2
<1>5. (x + y - 2 * T[x + 1][y + 1]) + (IF l.op = "=" THEN 0 ELSE 1)
        = (x + 1) + (y + 1) - 2 * T[(x + 1) + 1][(y + 1) + 1]
  <2>1. (x + 1) + 1 = x + 2 /\ (y + 1) + 1 = y + 2
    OBVIOUS
  <2>2. (x + y - 2 * T[x + 1][y + 1]) + 0 = (x + 1) + (y + 1) - 2 * (T[x + 1][y + 1] + 1)
    BY Cost
  <2>3. (IF l.op = "=" THEN 0 ELSE 1) = 0
    BY <1>3
  <2>. QED  BY <2>1, <2>2, <2>3, Zenon
<1>. HIDE DEF l
<1>6. Script(Append(e, l), T, a, b, L, x + 1, y + 1)
  BY <1>1, <1>2, <1>3, <1>4, <1>5, ScriptOn
<1>. QED  BY <1>6 DEF l

LEMMA ScriptMore ==
    ASSUME NEW T, NEW L, NEW a \in Seq(L), NEW b \in Seq(L), NEW e,
           NEW x \in 0..Len(a), NEW y \in Nat, y < Len(b),
           Script(e, T, a, b, L, x, y), T[x + 1][y + 1] \in Nat,
           T[x + 1][y + 2] = T[x + 1][y + 1]
    PROVE  Script(Append(e, Line("+", b[y + 1])), T, a, b, L, x, y + 1)
<1>. DEFINE l == Line("+", b[y + 1])
            s == SubSeq(b, 1, y)
<1>1. Len(a) \in Nat /\ x \in Nat
  BY LenProperties
<1>2. /\ s \in Seq(L) /\ SubSeq(b, 1, y + 1) \in Seq(L)
      /\ SubSeq(b, 1, y + 1) = Append(s, b[y + 1]) /\ b[y + 1] \in L
  BY SubSeqOn
<1>3. l \in Written(L) /\ l.op = "+"
  BY <1>2 DEF Written, Line
<1>4. Read(a, Told(x, s), l) = Told(x, SubSeq(b, 1, y + 1))
  <2>1. Read(a, Told(x, s), l) = Told(x, Append(s, b[y + 1]))
    BY ReadMore
  <2>. HIDE DEF s, l
  <2>. QED  BY <1>2, <2>1
<1>5. (x + y - 2 * T[x + 1][y + 1]) + (IF l.op = "=" THEN 0 ELSE 1)
        = x + (y + 1) - 2 * T[x + 1][(y + 1) + 1]
  <2>1. (y + 1) + 1 = y + 2
    OBVIOUS
  <2>2. (x + y - 2 * T[x + 1][y + 1]) + 1 = x + (y + 1) - 2 * T[x + 1][y + 1]
    BY <1>1, Cost
  <2>3. (IF l.op = "=" THEN 0 ELSE 1) = 1
    BY <1>3
  <2>. QED  BY <2>1, <2>2, <2>3, Zenon
<1>. HIDE DEF l
<1>6. Script(Append(e, l), T, a, b, L, x, y + 1)
  BY <1>1, <1>2, <1>3, <1>4, <1>5, ScriptOn
<1>. QED  BY <1>6 DEF l

LEMMA ScriptLess ==
    ASSUME NEW T, NEW L, NEW a \in Seq(L), NEW b \in Seq(L), NEW e,
           NEW x \in Nat, NEW y \in 0..Len(b), x < Len(a),
           Script(e, T, a, b, L, x, y), T[x + 1][y + 1] \in Nat,
           T[x + 2][y + 1] = T[x + 1][y + 1]
    PROVE  Script(Append(e, Line("-", a[x + 1])), T, a, b, L, x + 1, y)
<1>. DEFINE l == Line("-", a[x + 1])
            s == SubSeq(b, 1, y)
<1>1. /\ x \in 0..Len(a) /\ x + 1 \in 0..Len(a) /\ Len(a) \in Nat
      /\ y \in Nat /\ x + 1 \in 1..Len(a)
  BY LenProperties
<1>2. s \in Seq(L) /\ a[x + 1] \in L
  <2>1. 1 \in Int /\ y \in Int /\ \A i \in 1..y : b[i] \in L
    BY <1>1, ElementOfSeq
  <2>2. s \in Seq(L)
    BY <2>1, SubSeqProperties
  <2>. QED  BY <1>1, <2>2, ElementOfSeq
<1>3. l \in Written(L) /\ l.op = "-"
  BY <1>2 DEF Written, Line
<1>4. Read(a, Told(x, s), l) = Told(x + 1, s)
  BY <1>1, <1>2, ReadLess
<1>5. (x + y - 2 * T[x + 1][y + 1]) + (IF l.op = "=" THEN 0 ELSE 1)
        = (x + 1) + y - 2 * T[(x + 1) + 1][y + 1]
  <2>1. (x + 1) + 1 = x + 2
    OBVIOUS
  <2>2. (x + y - 2 * T[x + 1][y + 1]) + 1 = (x + 1) + y - 2 * T[x + 1][y + 1]
    BY <1>1, Cost
  <2>3. (IF l.op = "=" THEN 0 ELSE 1) = 1
    BY <1>3
  <2>. QED  BY <2>1, <2>2, <2>3, Zenon
<1>. HIDE DEF l
<1>6. Script(Append(e, l), T, a, b, L, x + 1, y)
  BY <1>1, <1>2, <1>3, <1>4, <1>5, ScriptOn
<1>. QED  BY <1>6 DEF l

\* Every corner of the walk is such a script.
LEMMA Scripts ==
    ASSUME NEW T, NEW L, NEW a \in Seq(L), NEW b \in Seq(L), NEW g,
           Tabled(T, a, b), Walks(g, T, a, b)
    PROVE  \A i \in 0..Len(a), j \in 0..Len(b) : Script(g[<<i, j>>], T, a, b, L, i, j)
<1>. DEFINE Q(i, j) == Script(g[<<i, j>>], T, a, b, L, i, j)
            S == {k \in Nat : \A i \in 0..Len(a), j \in 0..Len(b) : i + j <= k => Q(i, j)}
<1>1. Len(a) \in Nat /\ Len(b) \in Nat
  BY LenProperties
<1>2. ASSUME NEW i \in 0..Len(a), NEW j \in 0..Len(b)
      PROVE  /\ g[<<i, j>>] = At(g, T, a, b, i, j)
             /\ Entry(T, a, b, i, j)
  BY <1>1, WalkStep, Entries
<1>3. ASSUME NEW i \in 0..Len(a), NEW j \in 0..Len(b), i = 0, j = 0 PROVE Q(i, j)
  <2>1. g[<<0, 0>>] = <<>>
    BY <1>2, <1>3 DEF At
  <2>2. T[1][1] = 0
    <3>1. Entry(T, a, b, 0, 0)
      BY <1>2, <1>3
    <3>2. T[0 + 1][0 + 1] = 0
      BY <3>1 DEF Entry
    <3>. QED  BY <3>2
  <2>. QED  BY <1>1, <1>3, <2>1, <2>2, ScriptNone
<1>4. 0 \in S
  <2>1. ASSUME NEW i \in 0..Len(a), NEW j \in 0..Len(b), i + j <= 0 PROVE i = 0 /\ j = 0
    BY <2>1
  <2>. HIDE DEF Q
  <2>. QED  BY <1>3, <2>1
<1>5. ASSUME NEW k \in Nat, k \in S PROVE k + 1 \in S
  <2>1. SUFFICES ASSUME NEW i \in 0..Len(a), NEW j \in 0..Len(b), i + j <= k + 1 PROVE Q(i, j)
    OBVIOUS
  <2>. DEFINE x == i - 1
              y == j - 1
              e == At(g, T, a, b, i, j)
  <2>. HIDE DEF Q, S
  <2>2. g[<<i, j>>] = e /\ Entry(T, a, b, i, j)
    BY <1>2
  <2>3. CASE i > 0 /\ j > 0 /\ a[i] = b[j]
    <3>1. /\ x \in Nat /\ y \in Nat /\ x < Len(a) /\ y < Len(b) /\ x + 1 = i /\ y + 1 = j
          /\ x + 2 = i + 1 /\ y + 2 = j + 1 /\ x + y <= k
          /\ x \in 0..Len(a) /\ y \in 0..Len(b)
      <4>1. x \in Nat /\ x < Len(a) /\ x + 1 = i /\ x + 2 = i + 1 /\ x \in 0..Len(a)
        BY <1>1, <2>3
      <4>2. y \in Nat /\ y < Len(b) /\ y + 1 = j /\ y + 2 = j + 1 /\ y \in 0..Len(b)
        BY <1>1, <2>3
      <4>3. x + y <= k
        BY <2>1, <4>1, <4>2
      <4>. QED  BY <4>1, <4>2, <4>3
    <3>2. e = Append(g[<<x, y>>], Line("=", a[i]))
      BY <2>3 DEF At
    <3>. HIDE DEF x, y, e
    <3>3. Script(g[<<x, y>>], T, a, b, L, x, y)
      BY <1>5, <3>1 DEF Q, S
    <3>4. T[x + 1][y + 1] \in Nat
      BY <1>2, <3>1 DEF Entry
    <3>5. T[x + 2][y + 2] = T[x + 1][y + 1] + 1
      BY <2>2, <2>3, <3>1 DEF Entry
    <3>6. Script(Append(g[<<x, y>>], Line("=", a[x + 1])), T, a, b, L, x + 1, y + 1)
      BY <2>3, <3>1, <3>3, <3>4, <3>5, ScriptSame
    <3>. QED  BY <2>2, <3>1, <3>2, <3>6 DEF Q
  <2>4. CASE /\ ~(i > 0 /\ j > 0 /\ a[i] = b[j])
             /\ j > 0 /\ (i = 0 \/ T[i + 1][j] >= T[i][j + 1])
    <3>1. /\ y \in Nat /\ y < Len(b) /\ y + 1 = j /\ y + 2 = j + 1 /\ i + y <= k
          /\ y \in 0..Len(b)
      BY <1>1, <2>1, <2>4
    <3>2. e = Append(g[<<i, y>>], Line("+", b[j]))
      BY <2>4 DEF At
    <3>. HIDE DEF x, y, e
    <3>3. Script(g[<<i, y>>], T, a, b, L, i, y)
      BY <1>5, <3>1 DEF Q, S
    <3>4. T[i + 1][y + 1] \in Nat
      BY <1>2, <3>1 DEF Entry
    <3>5. T[i + 1][y + 2] = T[i + 1][y + 1]
      <4>1. CASE i = 0
        <5>1. Entry(T, a, b, i, y)
          BY <1>2, <3>1
        <5>2. T[i + 1][y + 1] = 0
          BY <4>1, <5>1 DEF Entry
        <5>3. T[i + 1][j + 1] = 0
          BY <2>2, <4>1 DEF Entry
        <5>. QED  BY <3>1, <5>2, <5>3
      <4>2. CASE i > 0
        <5>1. a[i] # b[j] /\ T[i + 1][j] >= T[i][j + 1]
          BY <2>4, <4>2
        <5>2. T[i + 1][j + 1] = IF T[i][j + 1] >= T[i + 1][j] THEN T[i][j + 1] ELSE T[i + 1][j]
          BY <2>2, <2>4, <4>2, <5>1 DEF Entry
        <5>3. T[i][j + 1] \in Nat /\ T[i + 1][j] \in Nat
          <6>1. x \in 0..Len(a) /\ x + 1 = i
            BY <4>2 DEF x
          <6>2. T[x + 1][j + 1] \in Nat
            BY <1>2, <6>1 DEF Entry
          <6>. QED  BY <3>1, <3>4, <6>1, <6>2
        <5>4. T[i + 1][j + 1] = T[i + 1][j]
          BY <5>1, <5>2, <5>3
        <5>. QED  BY <3>1, <5>4
      <4>. QED  BY <4>1, <4>2
    <3>6. Script(Append(g[<<i, y>>], Line("+", b[y + 1])), T, a, b, L, i, y + 1)
      BY <3>1, <3>3, <3>4, <3>5, ScriptMore
    <3>. QED  BY <2>2, <3>1, <3>2, <3>6 DEF Q
  <2>5. CASE /\ ~(i > 0 /\ j > 0 /\ a[i] = b[j])
             /\ ~(j > 0 /\ (i = 0 \/ T[i + 1][j] >= T[i][j + 1]))
             /\ ~(i = 0 /\ j = 0)
    <3>1. /\ x \in Nat /\ x < Len(a) /\ x + 1 = i /\ x + 2 = i + 1 /\ x + j <= k
          /\ x \in 0..Len(a) /\ i > 0
      BY <1>1, <2>1, <2>5
    <3>2. e = Append(g[<<x, j>>], Line("-", a[i]))
      BY <2>5 DEF At
    <3>. HIDE DEF x, y, e
    <3>3. Script(g[<<x, j>>], T, a, b, L, x, j)
      BY <1>5, <3>1 DEF Q, S
    <3>4. T[x + 1][j + 1] \in Nat
      BY <1>2, <3>1 DEF Entry
    <3>5. T[x + 2][j + 1] = T[x + 1][j + 1]
      <4>1. CASE j = 0
        <5>1. Entry(T, a, b, x, j)
          BY <1>2, <3>1
        <5>2. T[x + 1][j + 1] = 0
          BY <4>1, <5>1 DEF Entry
        <5>3. T[i + 1][j + 1] = 0
          BY <2>2, <4>1 DEF Entry
        <5>. QED  BY <3>1, <5>2, <5>3
      <4>2. CASE j > 0
        <5>1. a[i] # b[j] /\ ~(T[i + 1][j] >= T[i][j + 1])
          BY <2>5, <3>1, <4>2
        <5>2. T[i + 1][j + 1] = IF T[i][j + 1] >= T[i + 1][j] THEN T[i][j + 1] ELSE T[i + 1][j]
          BY <2>2, <3>1, <4>2, <5>1 DEF Entry
        <5>3. T[i][j + 1] \in Nat /\ T[i + 1][j] \in Nat
          <6>1. y \in 0..Len(b) /\ y + 1 = j
            BY <4>2 DEF y
          <6>2. T[i + 1][y + 1] \in Nat
            BY <1>2, <6>1 DEF Entry
          <6>. QED  BY <3>1, <3>4, <6>1, <6>2
        <5>4. T[i + 1][j + 1] = T[i][j + 1]
          BY <5>1, <5>2, <5>3
        <5>. QED  BY <3>1, <5>4
      <4>. QED  BY <4>1, <4>2
    <3>6. Script(Append(g[<<x, j>>], Line("-", a[x + 1])), T, a, b, L, x + 1, j)
      BY <3>1, <3>3, <3>4, <3>5, ScriptLess
    <3>. QED  BY <2>2, <3>1, <3>2, <3>6 DEF Q
  <2>6. CASE i = 0 /\ j = 0
    BY <1>3, <2>6
  <2>. QED  BY <2>3, <2>4, <2>5, <2>6
<1>. HIDE DEF S
<1>6. Nat \subseteq S
  BY <1>4, <1>5, Induct
<1>7. ASSUME NEW i \in 0..Len(a), NEW j \in 0..Len(b) PROVE Q(i, j)
  <2>1. i + j \in S /\ i + j <= i + j
    BY <1>6
  <2>. HIDE DEF Q
  <2>. QED  BY <2>1 DEF S
<1>. QED  BY <1>7

\* The edits make the whole new text of the whole old one.
LEMMA EditsRight ==
    ASSUME NEW L, NEW a \in Seq(L), NEW b \in Seq(L)
    PROVE  \E T : Tabled(T, a, b) /\ Script(Edits(a, b), T, a, b, L, Len(a), Len(b))
<1>1. Len(a) \in Nat /\ Len(b) \in Nat
  BY LenProperties
<1>. DEFINE T == Table(a, b)
<1>2. Tabled(T, a, b)
  BY <1>1, TableRight
<1>3. PICK g : Walks(g, T, a, b) /\ Edits(a, b) = g[<<Len(a), Len(b)>>]
  BY <1>1, EditsWalk
<1>. HIDE DEF T
<1>4. Script(g[<<Len(a), Len(b)>>], T, a, b, L, Len(a), Len(b))
  <2>1. Len(a) \in 0..Len(a) /\ Len(b) \in 0..Len(b)
    BY <1>1
  <2>. QED  BY <1>2, <1>3, <2>1, Scripts
<1>. QED  BY <1>2, <1>3, <1>4

-----------------------------------------------------------------------------
(* The diff: what the output tells *)

Output(L) == Written(L) \cup [op : {"..."}, text : Nat]

LEMMA FollowNone == ASSUME NEW a PROVE Follow(<<>>, a) = Start
<1>1. Len(<<>>) = 0 /\ DOMAIN <<>> = 1..0
  OBVIOUS
<1>2. PICK h : Makes(h, FollowFold(a), <<>>) /\ Follow(<<>>, a) = h[Len(<<>>)]
  BY <1>1, FollowMade
<1>3. h[0] = Start
  BY <1>2 DEF Makes, FollowFold
<1>. QED  BY <1>1, <1>2, <1>3

LEMMA FollowOn ==
    ASSUME NEW S, NEW a, NEW d \in Seq(S), NEW l \in S
    PROVE  Follow(Append(d, l), a) = Read(a, Follow(d, a), l)
<1>. DEFINE q == Append(d, l)
            n == Len(d)
            m == FollowFold(a)
<1>1. n \in Nat /\ DOMAIN d = 1..n
  BY LenProperties
<1>2. /\ q \in Seq(S) /\ Len(q) = n + 1 /\ q[n + 1] = l
      /\ \A i \in 1..n : q[i] = d[i]
  BY AppendProperties
<1>3. DOMAIN q = 1..(n + 1)
  BY <1>2, LenProperties
<1>4. PICK h : Makes(h, m, d) /\ Follow(d, a) = h[n]
  BY <1>1, FollowMade
<1>. HIDE DEF q
<1>5. PICK k : Makes(k, m, q) /\ Follow(q, a) = k[n + 1]
  <2>1. Len(q) \in Nat /\ DOMAIN q = 1..Len(q)
    BY <1>1, <1>2, <1>3
  <2>. QED  BY <1>2, <2>1, FollowMade
<1>6. \A acc, x : Step(m, acc, x) = Read(a, acc, x)
  BY DEF Step, FollowFold
<1>. HIDE DEF m, n
<1>. DEFINE T == {i \in Nat : i <= n => k[i] = h[i]}
<1>7. 0 \in T
  BY <1>1, <1>4, <1>5 DEF Makes
<1>8. ASSUME NEW i \in Nat, i \in T PROVE i + 1 \in T
  <2>1. SUFFICES ASSUME i + 1 <= n PROVE k[i + 1] = h[i + 1]
    OBVIOUS
  <2>2. i + 1 \in 1..n /\ i + 1 \in 1..(n + 1) /\ (i + 1) - 1 = i
    BY <1>1, <2>1
  <2>3. k[i + 1] = Step(m, k[i], q[i + 1])
    BY <1>2, <1>5, <2>2 DEF Makes
  <2>4. h[i + 1] = Step(m, h[i], d[i + 1])
    BY <1>4, <2>2 DEF Makes, n
  <2>. QED  BY <1>1, <1>2, <1>8, <2>1, <2>2, <2>3, <2>4
<1>. HIDE DEF T
<1>9. Nat \subseteq T
  BY <1>7, <1>8, Induct
<1>10. k[n] = h[n]
  BY <1>1, <1>9 DEF T
<1>11. k[n + 1] = Step(m, k[n], q[n + 1])
  <2>1. n + 1 \in 1..(n + 1) /\ (n + 1) - 1 = n
    BY <1>1
  <2>. QED  BY <1>2, <1>5, <2>1 DEF Makes
<1>12. k[n + 1] = Read(a, h[n], l)
  BY <1>2, <1>6, <1>10, <1>11
<1>. QED  BY <1>4, <1>5, <1>12 DEF q, n

LEMMA KeepNone ==
    ASSUME NEW a, NEW L, a \in Seq(L), NEW r \in Readers(a, L) PROVE Keep(a, r, 0) = r
<1>. DEFINE k == r.at
            s == r.new
<1>1. k \in 0..Len(a) /\ s \in Seq(L) /\ r = Told(k, s) /\ Len(a) \in Nat
  BY ToldOnly, LenProperties
<1>. HIDE DEF k, s
<1>2. Keep(a, Told(k, s), 0) = Told(k + 0, s \o SubSeq(a, k + 1, k + 0))
  BY <1>1, KeepTold
<1>3. SubSeq(a, k + 1, k + 0) = <<>>
  <2>1. k + 1 \in Int /\ k + 0 \in Int /\ k + 0 < k + 1
    BY <1>1
  <2>. QED  BY <2>1, SubSeqEmpty
<1>4. s \o <<>> = s
  BY <1>1, ConcatEmptySeq
<1>5. k + 0 = k
  BY <1>1
<1>. QED  BY <1>1, <1>2, <1>3, <1>4, <1>5

LEMMA KeepMore ==
    ASSUME NEW a, NEW L, a \in Seq(L), NEW r \in Readers(a, L), NEW n \in Nat,
           r.at + n < Len(a)
    PROVE  Keep(a, Keep(a, r, n), 1) = Keep(a, r, n + 1)
<1>. DEFINE k == r.at
            s == r.new
            u == SubSeq(a, k + 1, k + n)
            v == SubSeq(a, k + n + 1, k + n + 1)
<1>1. k \in 0..Len(a) /\ s \in Seq(L) /\ r = Told(k, s) /\ Len(a) \in Nat
  BY ToldOnly, LenProperties
<1>2. k + n < Len(a)
  OBVIOUS
<1>. HIDE DEF k, s
<1>3. Keep(a, r, n) = Told(k + n, s \o u)
  BY <1>1, <1>2, KeepTold
<1>4. Keep(a, Told(k + n, s \o u), 1) = Told((k + n) + 1, (s \o u) \o v)
  BY <1>1, <1>2, KeepTold
<1>5. Keep(a, r, n + 1) = Told(k + (n + 1), s \o SubSeq(a, k + 1, k + (n + 1)))
  BY <1>1, <1>2, KeepTold
<1>6. u \o v = SubSeq(a, k + 1, k + n + 1)
  <2>1. k + 1 \in 1..(Len(a) + 1) /\ k + n \in (k + 1 - 1)..Len(a) /\ k + n + 1 \in (k + n)..Len(a)
    BY <1>1, <1>2
  <2>. QED  BY <1>1, <2>1, ConcatAdjacentSubSeq
<1>7. u \in Seq(L) /\ v \in Seq(L)
  <2>1. k + 1 \in Int /\ k + n \in Int /\ \A i \in (k + 1)..(k + n) : i \in 1..Len(a)
    BY <1>1, <1>2
  <2>2. k + n + 1 \in Int /\ \A i \in (k + n + 1)..(k + n + 1) : i \in 1..Len(a)
    BY <1>1, <1>2
  <2>3. /\ \A i \in (k + 1)..(k + n) : a[i] \in L
        /\ \A i \in (k + n + 1)..(k + n + 1) : a[i] \in L
    BY <2>1, <2>2, ElementOfSeq
  <2>. QED  BY <2>1, <2>2, <2>3, SubSeqProperties
<1>. HIDE DEF u, v
<1>8. (s \o u) \o v = s \o (u \o v)
  BY <1>1, <1>7, ConcatAssociative
<1>9. k + (n + 1) = k + n + 1
  BY <1>1
<1>. QED  BY <1>3, <1>4, <1>5, <1>6, <1>8, <1>9

\* A line that is the same, to a reader to whom it fits, is a line to keep.
LEMMA ReadKept ==
    ASSUME NEW a, NEW L, a \in Seq(L), NEW r \in Readers(a, L), NEW l, l.op = "=",
           Read(a, r, l) \in Readers(a, L)
    PROVE  r.at < Len(a) /\ Read(a, r, l) = Keep(a, r, 1)
<1>. DEFINE k == r.at
            s == r.new
            N == Names(a, r, l)
            q == Read(a, r, l)
            w == Append(s, a[k + 1])
<1>1. k \in 0..Len(a) /\ s \in Seq(L) /\ r = Told(k, s) /\ Len(a) \in Nat
  BY ToldOnly, LenProperties
<1>2. q = Told(q.at, q.new)
  BY ToldOnly
<1>3. q.ok = TRUE
  BY <1>2 DEF Told
<1>4. q = [Keep(a, r, 1) EXCEPT !.ok = @ /\ N]
  BY DEF Read
<1>5. k < Len(a)
  <2>1. SUFFICES ASSUME ~(k < Len(a)) PROVE FALSE
    OBVIOUS
  <2>2. Keep(a, r, 1) = [r EXCEPT !.ok = FALSE]
    BY <1>1, <2>1 DEF Keep
  <2>3. Keep(a, r, 1).ok = FALSE /\ "ok" \in DOMAIN Keep(a, r, 1)
    <3>1. "ok" \in DOMAIN r
      BY <1>1 DEF Told
    <3>. HIDE DEF k, s
    <3>. QED  BY <2>2, <3>1
  <2>. HIDE DEF q, N
  <2>4. q.ok = (Keep(a, r, 1).ok /\ N)
    BY <1>4, <2>3
  <2>. QED  BY <1>3, <2>3, <2>4, Zenon
<1>6. Keep(a, r, 1) = Told(k + 1, w)
  BY <1>1, <1>5, KeepOne
<1>. HIDE DEF q, N, w, k, s
<1>7. q = [Told(k + 1, w) EXCEPT !.ok = Told(k + 1, w).ok /\ N]
  BY <1>4, <1>6, Zenon
<1>8. Told(k + 1, w).ok = TRUE /\ "ok" \in DOMAIN Told(k + 1, w)
  BY DEF Told
<1>9. q.ok = (Told(k + 1, w).ok /\ N)
  BY <1>7, <1>8
<1>10. (Told(k + 1, w).ok /\ N) = TRUE
  BY <1>3, <1>9, Zenon
<1>11. q = [Told(k + 1, w) EXCEPT !.ok = TRUE]
  BY <1>7, <1>10, Zenon
<1>12. q = Told(k + 1, w)
  BY <1>11, ToldOk, Zenon
<1>. QED  BY <1>5, <1>6, <1>12 DEF q, k

LEMMA GapTells ==
    ASSUME NEW a, NEW L, a \in Seq(L), NEW d \in Seq(Output(L)), NEW n \in Nat,
           Follow(d, a) \in Readers(a, L)
    PROVE  /\ Gap(d, n) \in Seq(Output(L))
           /\ Follow(Gap(d, n), a) = Keep(a, Follow(d, a), n)
           /\ Changed(Gap(d, n)) = Changed(d)
<1>. DEFINE l == Line("...", n)
<1>1. l \in Output(L) /\ l.op = "..."
  BY DEF Output, Line
<1>2. CASE n = 0
  BY <1>2, KeepNone DEF Gap
<1>3. CASE n > 0
  <2>1. Gap(d, n) = Append(d, l)
    BY <1>3 DEF Gap
  <2>2. Read(a, Follow(d, a), l) = Keep(a, Follow(d, a), n)
    BY ReadGap
  <2>. HIDE DEF l
  <2>3. Append(d, l) \in Seq(Output(L))
    BY <1>1, AppendProperties
  <2>4. Follow(Append(d, l), a) = Read(a, Follow(d, a), l)
    BY <1>1, FollowOn
  <2>5. Changed(Append(d, l)) = Changed(d)
    BY <1>1, ChangedOn
  <2>. QED  BY <2>1, <2>2, <2>3, <2>4, <2>5
<1>. QED  BY <1>2, <1>3

\* What the output is worth after n edits, with some lines not yet shown: the
\* reader who keeps those is where the reader of the edits is.
Rendered(r, e, a, L, n, x) ==
    /\ r.out \in Seq(Output(L)) /\ r.skipped \in Nat
    /\ Follow(r.out, a) \in Readers(a, L)
    /\ Follow(r.out, a).at + r.skipped <= Len(a)
    /\ Keep(a, Follow(r.out, a), r.skipped) = x
    /\ Changed(r.out) = Changed(SubSeq(e, 1, n))

LEMMA RenderedShown ==
    ASSUME NEW L, NEW a, a \in Seq(L), NEW e \in Seq(Written(L)), NEW n \in Nat, n < Len(e),
           NEW r, NEW x, Rendered(r, e, a, L, n, x), Read(a, x, e[n + 1]) \in Readers(a, L)
    PROVE  Rendered([out |-> Append(Gap(r.out, r.skipped), e[n + 1]), skipped |-> 0],
                    e, a, L, n + 1, Read(a, x, e[n + 1]))
<1>. DEFINE l == e[n + 1]
            y == Read(a, x, l)
            d == Gap(r.out, r.skipped)
            q == [out |-> Append(d, l), skipped |-> 0]
            c == SubSeq(e, 1, n)
<1>1. l \in Written(L) /\ c \in Seq(Written(L)) /\ SubSeq(e, 1, n + 1) = Append(c, l)
  BY SubSeqOn
<1>2. d \in Seq(Output(L)) /\ Follow(d, a) = x /\ Changed(d) = Changed(c)
  BY GapTells DEF Rendered
<1>3. l \in Output(L)
  BY <1>1 DEF Output
<1>. HIDE DEF d, l, c
<1>4. Append(d, l) \in Seq(Output(L)) /\ Follow(Append(d, l), a) = y
  BY <1>2, <1>3, AppendProperties, FollowOn
<1>5. Changed(Append(d, l)) = Changed(Append(c, l))
  BY <1>1, <1>2, <1>3, ChangedOn
<1>6. y \in Readers(a, L)
  BY DEF l
<1>. HIDE DEF y
<1>7. y.at + 0 <= Len(a) /\ Keep(a, y, 0) = y
  <2>1. y.at \in 0..Len(a) /\ Len(a) \in Nat
    BY <1>6, ToldOnly, LenProperties
  <2>. QED  BY <1>6, <2>1, KeepNone
<1>8. q.out = Append(d, l) /\ q.skipped = 0
  OBVIOUS
<1>. HIDE DEF q
<1>9. Rendered(q, e, a, L, n + 1, y)
  <2>1. q.out \in Seq(Output(L)) /\ Follow(q.out, a) = y /\ q.skipped \in Nat
    BY <1>4, <1>8
  <2>2. Follow(q.out, a) \in Readers(a, L)
    BY <1>6, <2>1
  <2>3. Follow(q.out, a).at + q.skipped <= Len(a)
    BY <1>7, <1>8, <2>1
  <2>4. Keep(a, Follow(q.out, a), q.skipped) = y
    BY <1>7, <1>8, <2>1
  <2>5. Changed(q.out) = Changed(SubSeq(e, 1, n + 1))
    BY <1>1, <1>5, <1>8
  <2>. QED  BY <2>1, <2>2, <2>3, <2>4, <2>5 DEF Rendered
<1>. QED  BY <1>9 DEF q, d, l, y

LEMMA RenderedSkipped ==
    ASSUME NEW L, NEW a, a \in Seq(L), NEW e \in Seq(Written(L)), NEW n \in Nat, n < Len(e),
           NEW r, NEW x \in Readers(a, L), Rendered(r, e, a, L, n, x),
           e[n + 1].op = "=", Read(a, x, e[n + 1]) \in Readers(a, L),
           NEW q, q.out = r.out, q.skipped = r.skipped + 1
    PROVE  Rendered(q, e, a, L, n + 1, Read(a, x, e[n + 1]))
<1>. DEFINE l == e[n + 1]
            y == Read(a, x, l)
            f == Follow(r.out, a)
            s == r.skipped
            c == SubSeq(e, 1, n)
<1>1. l \in Written(L) /\ c \in Seq(Written(L)) /\ SubSeq(e, 1, n + 1) = Append(c, l)
  BY SubSeqOn
<1>2. x.at < Len(a) /\ y = Keep(a, x, 1)
  BY ReadKept
<1>3. /\ r.out \in Seq(Output(L)) /\ s \in Nat /\ f \in Readers(a, L) /\ f.at + s <= Len(a)
      /\ Keep(a, f, s) = x /\ Changed(r.out) = Changed(c)
  BY DEF Rendered
<1>4. Changed(Append(c, l)) = Changed(c)
  <2>. HIDE DEF c
  <2>1. ~(l.op \in {"+", "-"})
    OBVIOUS
  <2>. HIDE DEF l
  <2>. QED  BY <1>1, <2>1, ChangedOn
<1>. HIDE DEF l, y, f, s, c
<1>5. f.at + s < Len(a)
  <2>1. f.at \in 0..Len(a) /\ f.new \in Seq(L) /\ f = Told(f.at, f.new) /\ Len(a) \in Nat
    BY <1>3, ToldOnly, LenProperties
  <2>2. x = Told(f.at + s, f.new \o SubSeq(a, f.at + 1, f.at + s))
    BY <1>3, <2>1, KeepTold
  <2>3. x.at = f.at + s
    BY <2>2 DEF Told
  <2>. QED  BY <1>2, <2>3
<1>6. Keep(a, f, s + 1) = y
  BY <1>2, <1>3, <1>5, KeepMore
<1>7. f.at + (s + 1) <= Len(a)
  <2>1. f.at \in 0..Len(a) /\ Len(a) \in Nat
    BY <1>3, ToldOnly, LenProperties
  <2>. QED  BY <1>3, <1>5, <2>1
<1>8. q.out = r.out /\ q.skipped = s + 1 /\ Follow(q.out, a) = f
  BY DEF s, f
<1>9. Rendered(q, e, a, L, n + 1, y)
  <2>1. q.out \in Seq(Output(L)) /\ q.skipped \in Nat
    BY <1>3, <1>8
  <2>2. Follow(q.out, a) \in Readers(a, L)
    BY <1>3, <1>8
  <2>3. Follow(q.out, a).at + q.skipped <= Len(a)
    BY <1>7, <1>8
  <2>4. Keep(a, Follow(q.out, a), q.skipped) = y
    BY <1>6, <1>8
  <2>5. Changed(q.out) = Changed(SubSeq(e, 1, n + 1))
    BY <1>1, <1>3, <1>4, <1>8
  <2>. QED  BY <2>1, <2>2, <2>3, <2>4, <2>5 DEF Rendered
<1>. QED  BY <1>9 DEF y, l

\* The output leaves the reader where the edits do, and shows every change.
LEMMA RenderTells ==
    ASSUME NEW L, NEW a, a \in Seq(L), NEW e \in Seq(Written(L)), NEW ctx \in Nat,
           NEW r, Leads(e, a, Readers(a, L), r)
    PROVE  Follow(Render(e, ctx), a) = r /\ Changed(Render(e, ctx)) = Changed(e)
<1>. DEFINE R == Readers(a, L)
            m == Len(e)
            z == [out |-> <<>>, skipped |-> 0]
<1>1. m \in Nat /\ Len(a) \in Nat
  BY LenProperties
<1>2. PICK t \in [0..m -> R] : Reads(t, e, a) /\ t[m] = r
  BY DEF Leads
<1>3. PICK h : /\ h[0] = z
               /\ \A n \in 1..m : h[n] = RenderStep(e, Show(e, ctx), h[n - 1], n)
               /\ Render(e, ctx) = Gap(h[m].out, h[m].skipped)
  BY <1>1, RenderMade
<1>. DEFINE Q(n) == /\ Rendered(h[n], e, a, L, n, t[n])
                    /\ h[n] \in [out : Seq(Output(L)), skipped : Nat]
            S == {n \in Nat : n <= m => Q(n)}
<1>4. 0 \in S
  <2>1. h[0].out = <<>> /\ h[0].skipped = 0 /\ <<>> \in Seq(Output(L))
    BY <1>3, EmptySeq
  <2>2. h[0] \in [out : Seq(Output(L)), skipped : Nat]
    BY <1>3, <2>1
  <2>3. t[0] = Start /\ t[0] \in R
    BY <1>1, <1>2 DEF Reads
  <2>4. SubSeq(e, 1, 0) = <<>>
    <3>1. 1 \in Int /\ 0 \in Int /\ 0 < 1
      OBVIOUS
    <3>. QED  BY <3>1, SubSeqEmpty
  <2>5. Start.at = 0 /\ Keep(a, Start, 0) = Start
    BY <2>3, KeepNone DEF Start
  <2>6. Follow(h[0].out, a) = Start
    BY <2>1, FollowNone
  <2>7. Rendered(h[0], e, a, L, 0, t[0])
    BY <1>1, <2>1, <2>3, <2>4, <2>5, <2>6 DEF Rendered
  <2>. QED  BY <2>2, <2>7
<1>5. ASSUME NEW n \in Nat, n \in S PROVE n + 1 \in S
  <2>1. SUFFICES ASSUME n + 1 <= m PROVE Q(n + 1)
    OBVIOUS
  <2>2. n < m /\ n + 1 \in 1..m /\ (n + 1) - 1 = n /\ n \in 0..m /\ n + 1 \in 0..m
    BY <1>1, <2>1
  <2>3. Q(n)
    BY <1>5, <2>2
  <2>4. t[n + 1] = Read(a, t[n], e[n + 1]) /\ t[n] \in R /\ t[n + 1] \in R
    BY <1>2, <2>2 DEF Reads
  <2>5. h[n + 1] = RenderStep(e, Show(e, ctx), h[n], n + 1)
    BY <1>3, <2>2
  <2>. DEFINE p == h[n]
              q == h[n + 1]
  <2>6. Rendered(p, e, a, L, n, t[n]) /\ p \in [out : Seq(Output(L)), skipped : Nat]
    BY <2>3
  <2>. HIDE DEF p, q, Q
  <2>7. Rendered(q, e, a, L, n + 1, t[n + 1])
    <3>1. CASE n + 1 \in Show(e, ctx)
      <4>1. q = [out |-> Append(Gap(p.out, p.skipped), e[n + 1]), skipped |-> 0]
        BY <2>5, <3>1 DEF RenderStep, p, q
      <4>. QED  BY <2>2, <2>4, <2>6, <4>1, RenderedShown
    <3>2. CASE n + 1 \notin Show(e, ctx)
      <4>1. q = [p EXCEPT !.skipped = p.skipped + 1]
        BY <2>5, <3>2 DEF RenderStep, p, q
      <4>2. q.out = p.out /\ q.skipped = p.skipped + 1
        BY <2>6, <4>1
      <4>3. e[n + 1].op = "="
        <5>1. n + 1 \in (n + 1 - ctx)..(n + 1 + ctx)
          OBVIOUS
        <5>. QED  BY <2>2, <3>2, <5>1 DEF Show
      <4>4. Rendered(q, e, a, L, n + 1, Read(a, t[n], e[n + 1]))
        <5>. DEFINE x == t[n]
        <5>1. x \in Readers(a, L) /\ Read(a, x, e[n + 1]) \in Readers(a, L) /\ n < Len(e)
          BY <2>2, <2>4
        <5>2. Rendered(p, e, a, L, n, x)
          BY <2>6
        <5>. HIDE DEF x
        <5>3. Rendered(q, e, a, L, n + 1, Read(a, x, e[n + 1]))
          BY <4>2, <4>3, <5>1, <5>2, RenderedSkipped
        <5>. QED  BY <5>3 DEF x
      <4>. QED  BY <2>4, <4>4
    <3>. QED  BY <3>1, <3>2
  <2>8. q \in [out : Seq(Output(L)), skipped : Nat]
    <3>1. q.out \in Seq(Output(L)) /\ q.skipped \in Nat
      BY <2>7 DEF Rendered
    <3>2. q = [out |-> Append(Gap(p.out, p.skipped), e[n + 1]), skipped |-> 0]
          \/ q = [p EXCEPT !.skipped = p.skipped + 1]
      BY <2>5 DEF RenderStep, p, q
    <3>. QED  BY <2>6, <3>1, <3>2
  <2>. QED  BY <2>7, <2>8 DEF Q, q
<1>. HIDE DEF S
<1>6. Nat \subseteq S
  BY <1>4, <1>5, Induct
<1>7. Rendered(h[m], e, a, L, m, t[m])
  BY <1>1, <1>6 DEF S
<1>8. /\ Follow(Render(e, ctx), a) = t[m]
      /\ Changed(Render(e, ctx)) = Changed(SubSeq(e, 1, m))
  <2>. DEFINE d == h[m].out
              k == h[m].skipped
  <2>1. /\ d \in Seq(Output(L)) /\ k \in Nat /\ Follow(d, a) \in Readers(a, L)
        /\ Keep(a, Follow(d, a), k) = t[m] /\ Changed(d) = Changed(SubSeq(e, 1, m))
    BY <1>7 DEF Rendered
  <2>2. Render(e, ctx) = Gap(d, k)
    BY <1>3
  <2>. HIDE DEF d, k, m
  <2>3. Follow(Gap(d, k), a) = Keep(a, Follow(d, a), k) /\ Changed(Gap(d, k)) = Changed(d)
    BY <2>1, GapTells
  <2>. QED  BY <2>1, <2>2, <2>3
<1>9. SubSeq(e, 1, m) = e
  BY SubSeqFull
<1>. QED  BY <1>2, <1>8, <1>9

-----------------------------------------------------------------------------
(* Theorems *)

\* Every state has its type, whatever is patched and whatever the bounds.
THEOREM TypeCorrect == Spec => []TypeOK
<1>1. IInv => TypeOK
  BY DEF IInv
<1>. QED  BY <1>1, Inductive, PTL DEF Spec

\* verifyRollout never calls a rollout complete on the counters of an earlier
\* one, whatever others do to the Deployment while it polls.
THEOREM CompletionIsReal == Spec => []CompleteIsComplete
<1>1. IInv => CompleteIsComplete
  BY DEF IInv
<1>. QED  BY <1>1, Inductive, PTL DEF Spec

\* lcsLineDiff is right for any two texts, of whatever lines and length, and for
\* any number of unchanged lines shown: the old text and the diff make the new one,
\* and no choice of lines to leave unchanged is larger.
THEOREM LcsLineDiffRight ==
    ASSUME NEW L, NEW a \in Seq(L), NEW b \in Seq(L), NEW ctx \in Nat
    PROVE  Tells(lcsLineDiff(a, b, ctx), a, b) /\ Least(lcsLineDiff(a, b, ctx), a, b)
<1>. DEFINE e == Edits(a, b)
            d == lcsLineDiff(a, b, ctx)
            m == Len(a)
            n == Len(b)
<1>1. m \in Nat /\ n \in Nat /\ DOMAIN a = 1..m /\ DOMAIN b = 1..n
  BY LenProperties
<1>2. PICK T : Tabled(T, a, b) /\ Script(e, T, a, b, L, m, n)
  BY EditsRight
<1>3. d = Render(e, ctx)
  BY DEF lcsLineDiff
<1>. HIDE DEF e, d
<1>4. SubSeq(b, 1, n) = b
  BY SubSeqFull
<1>5. /\ e \in Seq(Written(L)) /\ Changed(e) = m + n - 2 * T[m + 1][n + 1]
      /\ Leads(e, a, Readers(a, L), Told(m, b))
  BY <1>2, <1>4 DEF Script
<1>6. Follow(d, a) = Told(m, b) /\ Changed(d) = Changed(e)
  BY <1>3, <1>5, RenderTells
<1>7. Tells(d, a, b)
  <2>1. Told(m, b).ok = TRUE /\ Told(m, b).at = m /\ Told(m, b).new = b
    BY DEF Told
  <2>. QED  BY <1>6, <2>1 DEF Tells
<1>8. ASSUME NEW D \in SUBSET DOMAIN a, NEW E \in SUBSET DOMAIN b, InCommon(a, b, D, E)
      PROVE  Changed(d) <= m + n - 2 * Cardinality(D)
  <2>1. m \in 0..m /\ n \in 0..n /\ D \in SUBSET (1..m) /\ E \in SUBSET (1..n)
    BY <1>1
  <2>2. Cardinality(D) <= T[m + 1][n + 1]
    BY <1>1, <1>2, <1>8, <2>1, Greatest
  <2>3. T[m + 1][n + 1] \in Nat
    BY <1>1, <1>2, <2>1, Entries DEF Entry
  <2>4. Cardinality(D) \in Nat
    <3>1. IsFiniteSet(1..m)
      BY <1>1, FS_Interval
    <3>. QED  BY <2>1, <3>1, FS_Subset, FS_CardinalityType
  <2>5. Changed(d) = m + n - 2 * T[m + 1][n + 1]
    BY <1>5, <1>6
  <2>. DEFINE w == T[m + 1][n + 1]
              k == Cardinality(D)
  <2>. HIDE DEF w, k, m, n
  <2>6. m + n - 2 * w <= m + n - 2 * k
    BY <1>1, <2>2, <2>3, <2>4 DEF w, k
  <2>. QED  BY <2>5, <2>6 DEF w, k
<1>9. Least(d, a, b)
  BY <1>8 DEF Least
<1>. QED  BY <1>7, <1>9 DEF d

\* Whatever others patch between the two calls of Execute, the human who knows the
\* pod spec as it was learns from the diff what it would be, and is shown no line
\* as changed that need not be.
THEOREM DiffRight == Spec => []DiffIsRight
<1>1. IInv => DiffIsRight
  <2>. SUFFICES ASSUME IInv, tool.pc = "staged"
       PROVE  Tells(TheDiff, tool.before, tool.after) /\ Least(TheDiff, tool.before, tool.after)
    BY DEF DiffIsRight
  <2>1. tool.before \in Seq(Lines) /\ tool.after \in Seq(Lines)
    BY DEF IInv, TypeOK, Templates
  <2>2. Context \in Nat
    BY BoundAssumption
  <2>. QED  BY <2>1, <2>2, LcsLineDiffRight DEF TheDiff
<1>. QED  BY <1>1, Inductive, PTL DEF Spec
=============================================================================
