------------------------- MODULE ScoutSessionProofs -------------------------
(***************************************************************************)
(* Proofs about ScoutSession, for every finite set of incidents, every cap *)
(* and every length of the incident channel.                               *)
(***************************************************************************)
EXTENDS ScoutSession, FiniteSetTheorems, TLAPS

\* Where pending incidents may wait, and when the watch may be open.
FlowInv ==
    /\ pc = "boot" => watch = "down"
    /\ pc \notin {"collect", "admit", "burst"} => pending = <<>>

IInv == TypeOK /\ FlowInv /\ OpenIsClaimed /\ ClaimedIsHeld /\ QueuedIsArriving

-----------------------------------------------------------------------------
(* Sequences and the sets of their elements *)

LEMMA SetOfEmpty == ToSet(<<>>) = {}
BY DEF ToSet

LEMMA SetOfAppend ==
    ASSUME NEW S, NEW s \in Seq(S), NEW x \in S
    PROVE  ToSet(Append(s, x)) = ToSet(s) \cup {x}
<1>. DEFINE t == Append(s, x)
<1>1. Len(s) \in Nat /\ DOMAIN s = 1..Len(s) /\ DOMAIN t = 1..(Len(s) + 1)
      /\ t[Len(s) + 1] = x /\ \A j \in 1..Len(s) : t[j] = s[j]
  OBVIOUS
<1>2. ToSet(t) \subseteq ToSet(s) \cup {x}
  BY <1>1 DEF ToSet
<1>3. ToSet(s) \subseteq ToSet(t) /\ x \in ToSet(t)
  BY <1>1 DEF ToSet
<1>. QED  BY <1>2, <1>3

LEMMA SetOfTail ==
    ASSUME NEW S, NEW s \in Seq(S), s # <<>>
    PROVE  /\ Head(s) \in S /\ Tail(s) \in Seq(S)
           /\ ToSet(s) = ToSet(Tail(s)) \cup {Head(s)}
<1>. DEFINE t == Tail(s)
<1>1. Len(s) \in Nat \ {0} /\ DOMAIN s = 1..Len(s) /\ DOMAIN t = 1..(Len(s) - 1)
      /\ Head(s) = s[1] /\ s[1] \in S /\ \A j \in 1..(Len(s) - 1) : t[j] = s[j + 1]
  OBVIOUS
<1>2. ToSet(s) \subseteq ToSet(t) \cup {s[1]}
  <2>1. ASSUME NEW j \in 1..Len(s) PROVE s[j] \in ToSet(t) \cup {s[1]}
    <3>1. CASE j = 1
      BY <3>1
    <3>2. CASE j # 1
      <4>1. j - 1 \in 1..(Len(s) - 1) /\ t[j - 1] = s[j]
        BY <1>1, <3>2
      <4>. QED  BY <1>1, <4>1 DEF ToSet
    <3>. QED  BY <3>1, <3>2
  <2>. QED  BY <1>1, <2>1 DEF ToSet
<1>3. ToSet(t) \subseteq ToSet(s) /\ s[1] \in ToSet(s)
  BY <1>1 DEF ToSet
<1>. QED  BY <1>1, <1>2, <1>3

LEMMA SetOfConcat ==
    ASSUME NEW S, NEW s \in Seq(S), NEW t \in Seq(S)
    PROVE  s \o t \in Seq(S) /\ ToSet(s \o t) = ToSet(s) \cup ToSet(t)
<1>. DEFINE u == s \o t
<1>1. /\ Len(s) \in Nat /\ Len(t) \in Nat /\ u \in Seq(S)
      /\ DOMAIN s = 1..Len(s) /\ DOMAIN t = 1..Len(t) /\ DOMAIN u = 1..(Len(s) + Len(t))
      /\ \A j \in 1..Len(s) : u[j] = s[j]
      /\ \A j \in 1..Len(t) : u[Len(s) + j] = t[j]
  OBVIOUS
<1>2. ToSet(s) \subseteq ToSet(u)
  BY <1>1 DEF ToSet
<1>3. ToSet(t) \subseteq ToSet(u)
  <2>1. ASSUME NEW j \in 1..Len(t) PROVE t[j] \in ToSet(u)
    <3>1. Len(s) + j \in DOMAIN u
      BY <1>1
    <3>. QED  BY <1>1, <3>1 DEF ToSet
  <2>. QED  BY <1>1, <2>1 DEF ToSet
<1>4. ToSet(u) \subseteq ToSet(s) \cup ToSet(t)
  <2>1. ASSUME NEW j \in 1..(Len(s) + Len(t)) PROVE u[j] \in ToSet(s) \cup ToSet(t)
    <3>1. CASE j \in 1..Len(s)
      BY <1>1, <3>1 DEF ToSet
    <3>2. CASE j \notin 1..Len(s)
      <4>1. j - Len(s) \in 1..Len(t) /\ Len(s) + (j - Len(s)) = j
        BY <1>1, <3>2
      <4>2. u[j] = t[j - Len(s)]
        BY <1>1, <4>1
      <4>. QED  BY <1>1, <4>1, <4>2 DEF ToSet
    <3>. QED  BY <3>1, <3>2
  <2>. QED  BY <1>1, <2>1 DEF ToSet
<1>. QED  BY <1>1, <1>2, <1>3, <1>4

\* A set of incidents in some order.
LEMMA SeqOfSet ==
    ASSUME NEW S \in SUBSET Incidents
    PROVE  SetToSeq(S) \in Seq(Incidents) /\ ToSet(SetToSeq(S)) = S
<1>. DEFINE n == Cardinality(S)
            f == SetToSeq(S)
<1>1. IsFiniteSet(S) /\ n \in Nat /\ ExistsBijection(1..n, S)
  BY FS_Subset, FS_CardinalityType, SessionAssumption
<1>2. \E g \in [1..n -> S] : IsInjective(g)
  BY <1>1 DEF ExistsBijection, Bijection, Injection
<1>3. f \in [1..n -> S] /\ IsInjective(f)
  BY <1>2 DEF SetToSeq
<1>4. f \in Injection(1..n, S)
  BY <1>3 DEF Injection
<1>5. Cardinality(1..n) = n
  BY <1>1, FS_Interval
<1>6. f \in Surjection(1..n, S)
  BY <1>1, <1>4, <1>5, FS_Injection
<1>7. ToSet(f) = S
  BY <1>3, <1>6 DEF ToSet, Surjection
<1>8. f \in Seq(Incidents)
  BY <1>1, <1>3
<1>. QED  BY <1>7, <1>8

-----------------------------------------------------------------------------
(* Types *)

LEMMA OpenShrinks ==
    ASSUME TypeOK, NEW o \in SUBSET open
    PROVE  o \subseteq Incidents /\ Cardinality(o) <= MaxOpen
<1>1. IsFiniteSet(open) /\ open \subseteq Incidents /\ Cardinality(open) <= MaxOpen
  BY FS_Subset, SessionAssumption DEF TypeOK
<1>2. Cardinality(o) <= Cardinality(open) /\ IsFiniteSet(o)
  BY <1>1, FS_Subset
<1>3. Cardinality(o) \in Nat /\ Cardinality(open) \in Nat /\ MaxOpen \in Nat
  BY <1>1, <1>2, FS_CardinalityType, SessionAssumption
<1>. QED  BY <1>1, <1>2, <1>3

LEMMA OpenGrows ==
    ASSUME TypeOK, ~Full, NEW i \in Incidents
    PROVE  open \cup {i} \subseteq Incidents /\ Cardinality(open \cup {i}) <= MaxOpen
<1>1. IsFiniteSet(open) /\ open \subseteq Incidents
  BY FS_Subset, SessionAssumption DEF TypeOK
<1>2. Cardinality(open) \in Nat /\ MaxOpen \in Nat
  BY <1>1, FS_CardinalityType, SessionAssumption
<1>3. Cardinality(open) < MaxOpen
  BY <1>2 DEF Full
<1>4. Cardinality(open \cup {i}) \in {Cardinality(open), Cardinality(open) + 1}
  BY <1>1, FS_AddElement
<1>. QED  BY <1>1, <1>2, <1>3, <1>4

LEMMA MishapType ==
    ASSUME TypeOK, Mishap \/ mishaps' = mishaps PROVE mishaps' \in 0..MaxMishaps
BY SessionAssumption DEF TypeOK, Mishap

LEMMA InitInv == Init => IInv
<1> SUFFICES ASSUME Init PROVE IInv
  OBVIOUS
<1>1. IsFiniteSet({}) /\ Cardinality({}) = 0
  BY FS_EmptySet
<1>2. open \subseteq Incidents /\ Cardinality(open) <= MaxOpen
  BY <1>1, SessionAssumption DEF Init
<1>3. phase \in [Incidents -> Phases \cup {"Gone"}]
  BY DEF Init, Phases
<1>4. <<>> \in Seq(Incidents) /\ Len(<<>>) <= ChanCap
  BY SessionAssumption
<1>5. TypeOK
  <2>1. feed \in Seq(Incidents) /\ chan \in Seq(Incidents) /\ Len(chan) <= ChanCap
        /\ pending \in Seq(Incidents)
    BY <1>4 DEF Init
  <2>2. mishaps \in 0..MaxMishaps /\ pc \in Steps /\ watch \in {"up", "down"}
    BY SessionAssumption DEF Init, Steps
  <2>3. staged \in BOOLEAN /\ asked \in BOOLEAN /\ missed = {} /\ abandoned = {}
        /\ reborn = {}
    BY DEF Init
  <2>. QED  BY <1>2, <1>3, <2>1, <2>2, <2>3 DEF TypeOK
<1>. QED  BY <1>5 DEF Init, IInv, FlowInv, OpenIsClaimed, ClaimedIsHeld, QueuedIsArriving

-----------------------------------------------------------------------------
(* The steps of the others *)

\* An event joins the feed of an open watch and disturbs nothing that waits.
LEMMA EmitType ==
    ASSUME TypeOK, NEW i \in Incidents, Emit(i)
    PROVE  /\ feed' \in Seq(Incidents)
           /\ ToSet(feed) \subseteq ToSet(feed') /\ ToSet(feed') \subseteq ToSet(feed) \cup {i}
           /\ watch = "up" => i \in ToSet(feed')
           /\ missed' \subseteq missed /\ missed \ {i} \subseteq missed'
<1>1. feed \in Seq(Incidents)
  BY DEF TypeOK
<1>2. Append(feed, i) \in Seq(Incidents) /\ ToSet(Append(feed, i)) = ToSet(feed) \cup {i}
  BY <1>1, SetOfAppend
<1>3. CASE watch = "up"
  BY <1>2, <1>3 DEF Emit
<1>4. CASE watch # "up"
  BY <1>1, <1>4 DEF Emit
<1>. QED  BY <1>3, <1>4

\* An incident is raised: a new one, or one more of a name that was deleted.
LEMMA RaiseInv ==
    ASSUME IInv, NEW i \in Incidents, Raise(i) PROVE IInv'
<1>1. /\ UNCHANGED <<watch, feed, chan, pc, pending, open, staged, asked>>
      /\ phase' = [phase EXCEPT ![i] = "Detected"]
      /\ reborn' = (IF i \in open THEN reborn \cup {i} ELSE reborn)
      /\ missed' = missed \ {i} /\ abandoned' = abandoned \ {i}
      /\ Mishap \/ mishaps' = mishaps
  BY DEF Raise, watcher, session
<1>2. /\ phase \in [Incidents -> Phases \cup {"Gone"}] /\ open \subseteq Incidents
      /\ missed \subseteq Incidents /\ abandoned \subseteq Incidents /\ reborn \subseteq open
  BY DEF IInv, TypeOK
<1>3. /\ phase' \in [Incidents -> Phases \cup {"Gone"}] /\ phase'[i] = "Detected"
      /\ \A j \in Incidents \ {i} : phase'[j] = phase[j]
  BY <1>1, <1>2 DEF Phases
<1>4. mishaps' \in 0..MaxMishaps
  BY <1>1, MishapType DEF IInv
<1>5. reborn' \subseteq open' /\ missed' \subseteq Incidents /\ abandoned' \subseteq Incidents
  BY <1>1, <1>2
<1>6. TypeOK' /\ FlowInv'
  BY <1>1, <1>3, <1>4, <1>5 DEF IInv, TypeOK, FlowInv
<1>7. OpenIsClaimed'
  BY <1>1, <1>2, <1>3 DEF IInv, OpenIsClaimed
<1>8. ClaimedIsHeld'
  BY <1>1, <1>3 DEF IInv, ClaimedIsHeld
<1>9. QueuedIsArriving'
  BY <1>1, <1>3 DEF IInv, QueuedIsArriving, Arriving
<1>. QED  BY <1>6, <1>7, <1>8, <1>9 DEF IInv

\* An event announces an incident that is queued now, or was before.
LEMMA AnnounceInv ==
    ASSUME IInv, NEW i \in Incidents, OperatorQueues(i) \/ Touch(i) PROVE IInv'
<1>1. /\ UNCHANGED <<watch, chan, pc, pending, open, staged, asked, abandoned, reborn>>
      /\ Emit(i) /\ (Mishap \/ mishaps' = mishaps)
  BY DEF OperatorQueues, Touch, session
<1>2. phase[i] \in {"Detected", "Queued"} /\ phase' = [phase EXCEPT ![i] = "Queued"]
  BY DEF OperatorQueues, Touch, IInv, TypeOK
<1>3. /\ phase \in [Incidents -> Phases \cup {"Gone"}] /\ open \subseteq Incidents
      /\ missed \subseteq Incidents
  BY DEF IInv, TypeOK
<1>4. /\ phase' \in [Incidents -> Phases \cup {"Gone"}] /\ phase'[i] = "Queued"
      /\ \A j \in Incidents \ {i} : phase'[j] = phase[j]
  BY <1>2, <1>3 DEF Phases
<1>5. /\ feed' \in Seq(Incidents) /\ ToSet(feed) \subseteq ToSet(feed')
      /\ (watch = "up" => i \in ToSet(feed'))
      /\ missed' \subseteq missed /\ missed \ {i} \subseteq missed'
  BY <1>1, EmitType DEF IInv
<1>6. mishaps' \in 0..MaxMishaps /\ missed' \subseteq Incidents
  BY <1>1, <1>3, <1>5, MishapType DEF IInv
<1>7. TypeOK' /\ FlowInv'
  BY <1>1, <1>4, <1>5, <1>6 DEF IInv, TypeOK, FlowInv
<1>8. OpenIsClaimed'
  BY <1>1, <1>2, <1>3, <1>4 DEF IInv, OpenIsClaimed
<1>9. ClaimedIsHeld'
  BY <1>1, <1>4 DEF IInv, ClaimedIsHeld
<1>10. QueuedIsArriving'
  <2>1. ToSet(feed') \subseteq Arriving' /\ Arriving \subseteq Arriving'
    BY <1>1, <1>5 DEF Arriving
  <2>2. ASSUME NEW j \in Incidents, watch = "up", phase'[j] = "Queued"
        PROVE  j \in Arriving' \cup missed'
    <3>1. CASE j = i
      BY <1>5, <2>1, <2>2, <3>1
    <3>2. CASE j # i
      <4>1. j \in Arriving \cup missed
        BY <1>4, <2>2, <3>2 DEF IInv, QueuedIsArriving
      <4>. QED  BY <1>5, <2>1, <3>2, <4>1
    <3>. QED  BY <3>1, <3>2
  <2>. QED  BY <1>1, <2>2 DEF QueuedIsArriving
<1>. QED  BY <1>7, <1>8, <1>9, <1>10 DEF IInv

LEMMA DeleteInv ==
    ASSUME IInv, NEW i \in Incidents, DeleteIncident(i) PROVE IInv'
<1>1. /\ UNCHANGED <<watch, feed, chan, pc, pending, open, staged, asked, missed, abandoned,
                     reborn, mishaps>>
      /\ phase' = [phase EXCEPT ![i] = "Gone"]
  BY DEF DeleteIncident, watcher, session, history
<1>2. phase \in [Incidents -> Phases \cup {"Gone"}] /\ open \subseteq Incidents
  BY DEF IInv, TypeOK
<1>3. phase' \in [Incidents -> Phases \cup {"Gone"}]
      /\ \A j \in Incidents : phase'[j] \in {phase[j], "Gone"}
  BY <1>1, <1>2
<1>4. TypeOK' /\ FlowInv'
  BY <1>1, <1>3 DEF IInv, TypeOK, FlowInv
<1>5. OpenIsClaimed' /\ ClaimedIsHeld'
  BY <1>1, <1>2, <1>3 DEF IInv, OpenIsClaimed, ClaimedIsHeld
<1>6. QueuedIsArriving'
  BY <1>1, <1>3 DEF IInv, QueuedIsArriving, Arriving
<1>. QED  BY <1>4, <1>5, <1>6 DEF IInv

-----------------------------------------------------------------------------
(* The steps that bring incidents to the session *)

\* Incidents move on between the places where they wait, and none is lost.
LEMMA MoveInv ==
    ASSUME IInv, UNCHANGED <<phase, open, abandoned, reborn>>, Mishap \/ mishaps' = mishaps,
           feed' \in Seq(Incidents), chan' \in Seq(Incidents), Len(chan') <= ChanCap,
           pending' \in Seq(Incidents), pc' \in Steps, watch' \in {"up", "down"},
           staged' \in BOOLEAN, asked' \in BOOLEAN, missed' \subseteq Incidents,
           FlowInv',
           \A i \in Incidents : watch' = "up" /\ phase[i] = "Queued" /\ i \notin missed' =>
               i \in Arriving'
    PROVE  IInv'
<1>1. mishaps' \in 0..MaxMishaps
  BY MishapType DEF IInv
<1>2. TypeOK'
  BY <1>1 DEF IInv, TypeOK
<1>3. OpenIsClaimed' /\ ClaimedIsHeld'
  BY DEF IInv, OpenIsClaimed, ClaimedIsHeld
<1>4. QueuedIsArriving'
  BY DEF IInv, QueuedIsArriving
<1>. QED  BY <1>2, <1>3, <1>4 DEF IInv

LEMMA WatchInv == IInv /\ (WatchOpens \/ WatchDrops \/ Deliver) => IInv'
<1> SUFFICES ASSUME IInv, WatchOpens \/ WatchDrops \/ Deliver PROVE IInv'
  OBVIOUS
<1>1. /\ feed \in Seq(Incidents) /\ chan \in Seq(Incidents) /\ Len(chan) <= ChanCap
      /\ pending \in Seq(Incidents) /\ pc \in Steps /\ watch \in {"up", "down"}
      /\ staged \in BOOLEAN /\ asked \in BOOLEAN /\ missed \subseteq Incidents
      /\ FlowInv /\ QueuedIsArriving
  BY DEF IInv, TypeOK
<1>2. CASE WatchOpens
  <2>. DEFINE Q == {i \in Incidents : phase[i] = "Queued"}
  <2>1. feed' \in Seq(Incidents) /\ ToSet(feed') = Q
    BY <1>2, SeqOfSet DEF WatchOpens
  <2>2. Q \subseteq Arriving'
    BY <2>1 DEF Arriving
  <2>3. UNCHANGED <<phase, open, abandoned, reborn, mishaps, chan, pc, pending, staged, asked>>
        /\ missed' = {} /\ watch' = "up" /\ pc # "boot"
    BY <1>2 DEF WatchOpens, session
  <2>4. FlowInv'
    BY <1>1, <2>3 DEF FlowInv
  <2>. QED  BY <1>1, <2>1, <2>2, <2>3, <2>4, MoveInv
<1>3. CASE WatchDrops
  <2>1. UNCHANGED <<phase, open, abandoned, reborn, chan, pc, pending, staged, asked, missed>>
        /\ Mishap /\ watch' = "down" /\ feed' = <<>>
    BY <1>3 DEF WatchDrops, session, history
  <2>2. FlowInv'
    BY <1>1, <2>1 DEF FlowInv
  <2>. QED  BY <1>1, <2>1, <2>2, MoveInv
<1>4. CASE Deliver
  <2>1. UNCHANGED <<phase, open, abandoned, reborn, mishaps, watch, pc, pending, staged, asked,
                    missed>>
        /\ feed # <<>> /\ chan' = Append(chan, Head(feed)) /\ feed' = Tail(feed)
        /\ Len(chan) < ChanCap
    BY <1>4 DEF Deliver, session, history
  <2>2. /\ Head(feed) \in Incidents /\ feed' \in Seq(Incidents)
        /\ ToSet(feed) = ToSet(feed') \cup {Head(feed)}
    BY <1>1, <2>1, SetOfTail
  <2>3. chan' \in Seq(Incidents) /\ ToSet(chan') = ToSet(chan) \cup {Head(feed)}
        /\ Len(chan') <= ChanCap
    BY <1>1, <2>1, <2>2, SetOfAppend, SessionAssumption
  <2>4. Arriving' = Arriving
    BY <2>1, <2>2, <2>3 DEF Arriving
  <2>5. FlowInv'
    BY <1>1, <2>1 DEF FlowInv
  <2>. QED  BY <1>1, <2>1, <2>2, <2>3, <2>4, <2>5, MoveInv DEF QueuedIsArriving
<1>. QED  BY <1>2, <1>3, <1>4

LEMMA TakeInv == IInv /\ (Boot \/ IdleIncident \/ Collect \/ Burst \/ Resync) => IInv'
<1> SUFFICES ASSUME IInv, Boot \/ IdleIncident \/ Collect \/ Burst \/ Resync PROVE IInv'
  OBVIOUS
<1>1. /\ feed \in Seq(Incidents) /\ chan \in Seq(Incidents) /\ Len(chan) <= ChanCap
      /\ pending \in Seq(Incidents) /\ pc \in Steps /\ watch \in {"up", "down"}
      /\ staged \in BOOLEAN /\ asked \in BOOLEAN /\ missed \subseteq Incidents
      /\ FlowInv /\ QueuedIsArriving
  BY DEF IInv, TypeOK
<1>2. /\ UNCHANGED <<phase, open, abandoned, reborn, watch, feed, staged, asked, missed>>
      /\ Mishap \/ mishaps' = mishaps
  BY DEF Boot, IdleIncident, Collect, Burst, Resync, watcher, history
<1>3. Backlog \in SUBSET Incidents
  BY DEF Backlog
<1>4. <<>> \in Seq(Incidents) /\ Len(<<>>) = 0 /\ ToSet(<<>>) = {} /\ 0 <= ChanCap
  BY SetOfEmpty, SessionAssumption
<1>5. CASE Boot
  <2>1. pc = "boot" /\ watch = "down" /\ pc' = "admit" /\ chan' = chan
        /\ pending' \in Seq(Incidents)
    BY <1>1, <1>3, <1>5, SeqOfSet DEF Boot, FlowInv, watcher
  <2>2. FlowInv' /\ pc' \in Steps
    BY <2>1 DEF FlowInv, Steps
  <2>. QED  BY <1>1, <1>2, <2>1, <2>2, MoveInv
<1>6. CASE IdleIncident
  <2>1. pc = "idle" /\ pending = <<>> /\ chan # <<>> /\ pending' = <<Head(chan)>>
        /\ chan' = Tail(chan) /\ pc' = "collect"
    BY <1>1, <1>6 DEF IdleIncident, FlowInv
  <2>2. /\ Head(chan) \in Incidents /\ chan' \in Seq(Incidents)
        /\ ToSet(chan) = ToSet(chan') \cup {Head(chan)}
    BY <1>1, <2>1, SetOfTail
  <2>3. Len(chan') <= ChanCap
    BY <1>1, <2>1, SessionAssumption
  <2>4. pending' \in Seq(Incidents) /\ ToSet(pending') = {Head(chan)}
    BY <2>1, <2>2 DEF ToSet
  <2>5. Arriving' = Arriving
    BY <1>2, <1>4, <2>1, <2>2, <2>4 DEF Arriving
  <2>6. FlowInv' /\ pc' \in Steps
    BY <2>1 DEF FlowInv, Steps
  <2>. QED  BY <1>1, <1>2, <2>2, <2>3, <2>4, <2>5, <2>6, MoveInv DEF QueuedIsArriving
<1>7. CASE Collect
  <2>1. pc = "collect" /\ pc' = pc /\ pending' = pending \o chan /\ chan' = <<>>
    BY <1>7 DEF Collect
  <2>2. pending' \in Seq(Incidents) /\ ToSet(pending') = ToSet(pending) \cup ToSet(chan)
    BY <1>1, <2>1, SetOfConcat
  <2>3. Arriving' = Arriving
    BY <1>2, <1>4, <2>1, <2>2 DEF Arriving
  <2>4. FlowInv' /\ pc' \in Steps
    BY <1>1, <2>1 DEF FlowInv, Steps
  <2>. QED  BY <1>1, <1>2, <1>4, <2>1, <2>2, <2>3, <2>4, MoveInv DEF QueuedIsArriving
<1>8. CASE Burst
  <2>1. pc = "wait" /\ pending = <<>> /\ pc' = "burst" /\ pending' = chan /\ chan' = <<>>
    BY <1>1, <1>8 DEF Burst, FlowInv
  <2>2. Arriving' = Arriving
    BY <1>2, <1>4, <2>1 DEF Arriving
  <2>3. FlowInv' /\ pc' \in Steps
    BY <2>1 DEF FlowInv, Steps
  <2>. QED  BY <1>1, <1>2, <1>4, <2>1, <2>2, <2>3, MoveInv DEF QueuedIsArriving
<1>9. CASE Resync
  <2>1. pc = "wait" /\ pending = <<>> /\ pc' = "burst" /\ chan' = chan
        /\ pending' \in {SetToSeq(Backlog), <<>>}
    BY <1>1, <1>9 DEF Resync, FlowInv, watcher
  <2>2. pending' \in Seq(Incidents)
    BY <1>3, <1>4, <2>1, SeqOfSet
  <2>3. Arriving \subseteq Arriving'
    BY <1>2, <1>4, <2>1 DEF Arriving
  <2>4. FlowInv' /\ pc' \in Steps
    BY <2>1 DEF FlowInv, Steps
  <2>. QED  BY <1>1, <1>2, <2>1, <2>2, <2>3, <2>4, MoveInv DEF QueuedIsArriving
<1>. QED  BY <1>5, <1>6, <1>7, <1>8, <1>9

\* Steps that only say where the session goroutine is.
LEMMA QuietInv ==
    IInv /\ (IdleHuman \/ Settle \/ Converse \/ EndTurn \/ NotApplied \/ HumanSpeaks \/ BurstEnds
               \/ UNCHANGED vars) => IInv'
<1> SUFFICES ASSUME IInv, IdleHuman \/ Settle \/ Converse \/ EndTurn \/ NotApplied \/ HumanSpeaks
                            \/ BurstEnds \/ UNCHANGED vars
             PROVE  IInv'
  OBVIOUS
<1>1. UNCHANGED <<phase, open, abandoned, reborn, mishaps, watch, feed, chan, pending, missed>>
  BY DEF IdleHuman, Settle, Converse, EndTurn, NotApplied, HumanSpeaks, BurstEnds, vars, watcher,
         history
<1>2. pc' \in Steps /\ staged' \in BOOLEAN /\ asked' \in BOOLEAN
  BY DEF IInv, TypeOK, Steps, IdleHuman, Settle, Converse, EndTurn, NotApplied, HumanSpeaks,
         BurstEnds, vars
<1>3. FlowInv'
  BY <1>1 DEF IInv, FlowInv, IdleHuman, Settle, Converse, EndTurn, NotApplied, HumanSpeaks,
              BurstEnds, vars
<1>4. Arriving' = Arriving
  BY <1>1 DEF Arriving
<1>. QED  BY <1>1, <1>2, <1>3, <1>4, MoveInv DEF IInv, TypeOK, QueuedIsArriving

-----------------------------------------------------------------------------
(* The steps that take an incident on *)

LEMMA AdmitInv == IInv /\ (Admit \/ ClaimFails) => IInv'
<1> SUFFICES ASSUME IInv, Admit \/ ClaimFails PROVE IInv'
  OBVIOUS
<1>. DEFINE i == Head(pending)
<1>1. /\ pending \in Seq(Incidents) /\ phase \in [Incidents -> Phases \cup {"Gone"}]
      /\ open \subseteq Incidents /\ missed \subseteq Incidents /\ abandoned \subseteq Incidents
      /\ Cardinality(open) <= MaxOpen /\ FlowInv
  BY DEF IInv, TypeOK
<1>2. pending # <<>> /\ pending' = Tail(pending) /\ pc' = pc /\ pc \in {"admit", "burst"}
      /\ UNCHANGED <<watch, feed, chan, staged, asked>>
  BY DEF Admit, ClaimFails, watcher
<1>3. /\ i \in Incidents /\ pending' \in Seq(Incidents)
      /\ ToSet(pending) = ToSet(pending') \cup {i}
  BY <1>1, <1>2, SetOfTail
<1>4. FlowInv' /\ Arriving \subseteq Arriving' \cup {i}
  BY <1>1, <1>2, <1>3 DEF FlowInv, Arriving
<1>. HIDE DEF i
<1>5. CASE ClaimFails
  <2>1. /\ UNCHANGED <<open, reborn>> /\ missed' = missed \cup {i} /\ Mishap
        /\ \/ UNCHANGED <<phase, abandoned>>
           \/ phase' = [phase EXCEPT ![i] = "Assessing"] /\ abandoned' = abandoned \cup {i}
    BY <1>5 DEF ClaimFails, ClaimLost, i
  <2>2. /\ phase' \in [Incidents -> Phases \cup {"Gone"}]
        /\ \A j \in Incidents \ {i} : phase'[j] = phase[j]
        /\ phase'[i] \in {phase[i], "Assessing"}
        /\ (phase'[i] = phase[i] \/ i \in abandoned')
        /\ abandoned \subseteq abandoned'
    BY <1>1, <1>3, <2>1 DEF Phases
  <2>3. missed' \subseteq Incidents /\ abandoned' \subseteq Incidents
    BY <1>1, <1>3, <2>1
  <2>4. mishaps' \in 0..MaxMishaps
    BY <2>1, MishapType DEF IInv
  <2>5. TypeOK'
    BY <1>1, <1>2, <1>3, <2>1, <2>2, <2>3, <2>4 DEF IInv, TypeOK
  <2>6. OpenIsClaimed'
    BY <1>1, <2>1, <2>2 DEF IInv, OpenIsClaimed
  <2>7. ClaimedIsHeld'
    BY <2>1, <2>2 DEF IInv, ClaimedIsHeld
  <2>8. QueuedIsArriving'
    BY <1>2, <1>4, <2>1, <2>2 DEF IInv, QueuedIsArriving
  <2>. QED  BY <1>4, <2>5, <2>6, <2>7, <2>8 DEF IInv
<1>6. CASE Admit /\ ~(i \notin open /\ ~Full /\ phase[i] # "Gone")
  <2>1. UNCHANGED <<phase, open, reborn, mishaps>>
        /\ missed' = (IF i \in reborn \/ (i \notin open /\ Full) THEN missed \cup {i}
                     ELSE missed \ {i})
        /\ abandoned' = (IF i \in open THEN abandoned \ {i} ELSE abandoned)
    BY <1>6 DEF Admit, i
  <2>2. missed' \subseteq Incidents /\ abandoned' \subseteq Incidents
    BY <1>1, <1>3, <2>1
  <2>3. TypeOK'
    BY <1>1, <1>2, <1>3, <2>1, <2>2 DEF IInv, TypeOK
  <2>4. OpenIsClaimed'
    BY <2>1 DEF IInv, OpenIsClaimed
  <2>5. ClaimedIsHeld'
    BY <2>1 DEF IInv, ClaimedIsHeld
  <2>6. phase[i] = "Queued" => i \in missed'
    BY <1>6, <2>1 DEF IInv, OpenIsClaimed
  <2>7. QueuedIsArriving'
    BY <1>2, <1>4, <2>1, <2>6 DEF IInv, QueuedIsArriving
  <2>. QED  BY <1>4, <2>3, <2>4, <2>5, <2>7 DEF IInv
<1>7. CASE Admit /\ i \notin open /\ ~Full /\ phase[i] # "Gone"
  <2>1. /\ open' = open \cup {i} /\ phase' = [phase EXCEPT ![i] = "Assessing"]
        /\ missed' = missed \ {i} /\ abandoned' = abandoned \ {i}
        /\ UNCHANGED <<reborn, mishaps>>
    <3>1. open' = open \cup {i} /\ phase' = [phase EXCEPT ![i] = "Assessing"]
          /\ UNCHANGED <<reborn, mishaps>>
      BY <1>7 DEF Admit, i
    <3>3. i \notin reborn
      BY <1>7 DEF IInv, TypeOK
    <3>4. missed' = missed \ {i}
      BY <1>7, <3>3 DEF Admit, i
    <3>2. abandoned' = IF i \in open' THEN abandoned \ {i} ELSE abandoned
      BY <1>7 DEF Admit, i
    <3>. QED  BY <3>1, <3>2, <3>4
  <2>2. /\ phase' \in [Incidents -> Phases \cup {"Gone"}] /\ phase'[i] = "Assessing"
        /\ \A j \in Incidents \ {i} : phase'[j] = phase[j]
    BY <1>1, <1>3, <2>1 DEF Phases
  <2>3. open' \subseteq Incidents /\ Cardinality(open') <= MaxOpen
    BY <1>3, <1>7, <2>1, OpenGrows DEF IInv
  <2>4. TypeOK'
    BY <1>1, <1>2, <1>3, <2>1, <2>2, <2>3 DEF IInv, TypeOK
  <2>5. OpenIsClaimed'
    BY <1>1, <2>1, <2>2 DEF IInv, OpenIsClaimed
  <2>6. ClaimedIsHeld'
    BY <2>1, <2>2 DEF IInv, ClaimedIsHeld
  <2>7. QueuedIsArriving'
    BY <1>2, <1>4, <2>1, <2>2 DEF IInv, QueuedIsArriving
  <2>. QED  BY <1>4, <2>4, <2>5, <2>6, <2>7 DEF IInv
<1>. QED  BY <1>5, <1>6, <1>7

-----------------------------------------------------------------------------
(* The steps that write phases, and those that let incidents go *)

\* Writes to incidents that are not queued, by a session that holds on to what it
\* does not close.
LEMMA WriteInv ==
    ASSUME IInv, UNCHANGED <<watch, feed, chan, pending, missed>>,
           phase' \in [Incidents -> Phases \cup {"Gone"}], open' \subseteq open,
           reborn' = reborn \cap open',
           abandoned' \subseteq Incidents, pc' \in Steps, FlowInv',
           staged' \in BOOLEAN, asked' \in BOOLEAN, Mishap \/ mishaps' = mishaps,
           \A i \in Incidents : phase'[i] # phase[i] =>
               \/ phase'[i] \in Terminal
               \/ i \in open' /\ phase'[i] = "AwaitingApproval",
           \A i \in Incidents : phase'[i] \in {"Assessing", "AwaitingApproval"} =>
               i \in open' \cup abandoned'
    PROVE  IInv'
<1>1. mishaps' \in 0..MaxMishaps
  BY MishapType DEF IInv
<1>2. open' \subseteq Incidents /\ Cardinality(open') <= MaxOpen
  BY OpenShrinks DEF IInv
<1>3. TypeOK'
  BY <1>1, <1>2 DEF IInv, TypeOK
<1>4. OpenIsClaimed'
  BY <1>2 DEF IInv, OpenIsClaimed, Terminal
<1>5. ClaimedIsHeld'
  BY DEF ClaimedIsHeld
<1>6. QueuedIsArriving'
  <2>1. Arriving' = Arriving
    BY DEF Arriving
  <2>. QED  BY <2>1 DEF IInv, QueuedIsArriving, Terminal
<1>. QED  BY <1>3, <1>4, <1>5, <1>6 DEF IInv

LEMMA LetGoInv == IInv /\ (Reset \/ Restart \/ Reap) => IInv'
<1> SUFFICES ASSUME IInv, Reset \/ Restart \/ Reap PROVE IInv'
  OBVIOUS
<1>1. /\ open \subseteq Incidents /\ abandoned \subseteq Incidents
      /\ staged \in BOOLEAN /\ asked \in BOOLEAN
      /\ phase \in [Incidents -> Phases \cup {"Gone"}] /\ FlowInv
      /\ ClaimedIsHeld
  BY DEF IInv, TypeOK
<1>2. CASE Reset
  <2>1. UNCHANGED <<phase, watch, feed, chan, pending, mishaps, missed>>
        /\ open' = {} /\ abandoned' = abandoned \cup open /\ asked' = FALSE /\ staged' = FALSE
        /\ reborn' = {} /\ pc = "reset" /\ pc' = "idle"
    BY <1>2 DEF Reset, watcher
  <2>2. FlowInv' /\ pc' \in Steps
    BY <1>1, <2>1 DEF FlowInv, Steps
  <2>. QED  BY <1>1, <2>1, <2>2, WriteInv DEF ClaimedIsHeld
<1>3. CASE Reap
  <2>1. PICK unread \in SUBSET open :
           /\ IF unread = {} THEN UNCHANGED mishaps ELSE Mishap
           /\ open' = {i \in open : Live(i)} \ unread
           /\ abandoned' = abandoned \cup unread
           /\ reborn' = reborn \cap open'
    BY <1>3 DEF Reap
  <2>2. UNCHANGED <<phase, watch, feed, chan, pending, staged, asked, missed>>
        /\ pc = "reap" /\ pc' \in {"reset", "wait"}
    BY <1>3 DEF Reap, watcher
  <2>3. FlowInv' /\ pc' \in Steps
    BY <1>1, <2>2 DEF FlowInv, Steps
  <2>4. \A i \in Incidents : phase'[i] \in {"Assessing", "AwaitingApproval"} =>
            i \in open' \cup abandoned'
    BY <1>1, <2>1, <2>2 DEF ClaimedIsHeld, Live, Terminal
  <2>5. abandoned' \subseteq Incidents /\ open' \subseteq open /\ (Mishap \/ mishaps' = mishaps)
        /\ reborn' = reborn \cap open'
    BY <1>1, <2>1
  <2>. QED  BY <1>1, <2>2, <2>3, <2>4, <2>5, WriteInv
<1>4. CASE Restart
  <2>1. UNCHANGED <<phase, missed>> /\ Mishap
        /\ pc' = "boot" /\ watch' = "down" /\ feed' = <<>> /\ chan' = <<>> /\ pending' = <<>>
        /\ open' = {} /\ staged' = FALSE /\ asked' = FALSE /\ abandoned' = abandoned \cup open
        /\ reborn' = {}
    BY <1>4 DEF Restart
  <2>2. <<>> \in Seq(Incidents) /\ Len(<<>>) <= ChanCap
    BY SessionAssumption
  <2>3. Cardinality(open') <= MaxOpen /\ mishaps' \in 0..MaxMishaps
    BY <2>1, FS_EmptySet, MishapType, SessionAssumption DEF IInv
  <2>4. TypeOK'
    BY <1>1, <2>1, <2>2, <2>3 DEF IInv, TypeOK, Steps
  <2>5. FlowInv' /\ OpenIsClaimed' /\ ClaimedIsHeld' /\ QueuedIsArriving'
    BY <1>1, <2>1 DEF FlowInv, OpenIsClaimed, ClaimedIsHeld, QueuedIsArriving
  <2>. QED  BY <2>4, <2>5 DEF IInv
<1>. QED  BY <1>2, <1>3, <1>4

\* An outcome closes the incidents it drops, and drops no other.
LEMMA FlushInv ==
    ASSUME IInv, NEW names \in SUBSET Incidents, NEW p \in Terminal, Flush(names, p),
           UNCHANGED <<watch, feed, chan, pending, missed, abandoned>>,
           pc' \in {"reset", "think"}, pc \in {"think", "gate"},
           staged' \in BOOLEAN, asked' \in BOOLEAN
    PROVE  IInv'
<1>1. PICK written \in SUBSET Writable(names), done \in SUBSET Incidents :
         /\ done \subseteq written
         /\ IF done = Writable(names) THEN UNCHANGED mishaps ELSE Mishap
         /\ phase' = [i \in Incidents |-> IF i \in written THEN p ELSE phase[i]]
         /\ open' = open \ done
         /\ reborn' = reborn \cap open'
  <2>1. PICK w \in SUBSET Writable(names) : \E d \in SUBSET w :
         /\ IF d = Writable(names) THEN UNCHANGED mishaps ELSE Mishap
         /\ phase' = [i \in Incidents |-> IF i \in w THEN p ELSE phase[i]]
         /\ open' = open \ d
         /\ reborn' = reborn \cap open'
    BY DEF Flush
  <2>2. w \subseteq Incidents
    BY DEF Writable, Targets, IInv, TypeOK
  <2>. QED  BY <2>1, <2>2
<1>2. phase' = [i \in Incidents |-> IF i \in written THEN p ELSE phase[i]] /\ open' = open \ done
      /\ done \subseteq written
  BY <1>1
<1>3. phase \in [Incidents -> Phases \cup {"Gone"}] /\ p \in Phases
      /\ abandoned \subseteq Incidents /\ FlowInv /\ ClaimedIsHeld
  BY DEF IInv, TypeOK, Terminal, Phases
<1>4. phase' \in [Incidents -> Phases \cup {"Gone"}]
      /\ \A i \in Incidents : phase'[i] = IF i \in written THEN p ELSE phase[i]
  BY <1>2, <1>3
<1>5. \A i \in Incidents : phase'[i] # phase[i] => phase'[i] \in Terminal
  BY <1>4
<1>6. \A i \in Incidents : phase'[i] \in {"Assessing", "AwaitingApproval"} =>
          i \in open' \cup abandoned'
  BY <1>2, <1>3, <1>4 DEF ClaimedIsHeld, Terminal
<1>7. FlowInv' /\ pc' \in Steps
  BY <1>3 DEF FlowInv, Steps
<1>8. (Mishap \/ mishaps' = mishaps) /\ reborn' = reborn \cap open'
  BY <1>1
<1>9. open' \subseteq open /\ abandoned' \subseteq Incidents
  BY <1>2, <1>3
<1>. QED  BY <1>4, <1>5, <1>6, <1>7, <1>8, <1>9, WriteInv

LEMMA ToolInv ==
    IInv /\ (StageChange \/ Escalate \/ Applied \/ \E i \in Incidents : ModelCloses(i)) => IInv'
<1> SUFFICES ASSUME IInv, StageChange \/ Escalate \/ Applied \/ \E i \in Incidents : ModelCloses(i)
             PROVE  IInv'
  OBVIOUS
<1>1. /\ open \subseteq Incidents /\ abandoned \subseteq Incidents
      /\ staged \in BOOLEAN /\ asked \in BOOLEAN /\ pc \in Steps
      /\ phase \in [Incidents -> Phases \cup {"Gone"}] /\ FlowInv
      /\ ClaimedIsHeld
      /\ reborn = reborn \cap open
  BY DEF IInv, TypeOK
<1>2. CASE Escalate
  <2>1. PICK names \in SUBSET Incidents : Flush(names, "Escalated")
    BY <1>2 DEF Escalate
  <2>2. pc = "think" /\ pc' = "reset"
        /\ UNCHANGED <<watch, feed, chan, pending, staged, asked, missed, abandoned>>
    BY <1>2 DEF Escalate, watcher
  <2>3. "Escalated" \in Terminal
    BY DEF Terminal
  <2>. QED  BY <1>1, <2>1, <2>2, <2>3, FlushInv
<1>3. CASE Applied
  <2>1. PICK names \in SUBSET Incidents : Flush(names, "Applied")
    BY <1>3 DEF Applied
  <2>2. pc = "gate" /\ pc' = "think" /\ staged' = FALSE
        /\ UNCHANGED <<watch, feed, chan, pending, asked, missed, abandoned>>
    BY <1>3 DEF Applied, watcher
  <2>3. "Applied" \in Terminal
    BY DEF Terminal
  <2>. QED  BY <1>1, <2>1, <2>2, <2>3, FlushInv
<1>4. ASSUME NEW i \in Incidents, ModelCloses(i) PROVE IInv'
  <2>1. PICK p \in Closings \ {"Applied"} : phase' = [phase EXCEPT ![i] = p]
    BY <1>4 DEF ModelCloses
  <2>2. UNCHANGED <<watch, feed, chan, pc, pending, open, staged, asked, missed, abandoned, reborn>>
        /\ (Mishap \/ mishaps' = mishaps)
    BY <1>4 DEF ModelCloses, watcher, session, history, Turn
  <2>3. p \in Terminal /\ p \in Phases
    BY SessionAssumption DEF Terminal, Phases
  <2>4. /\ phase' \in [Incidents -> Phases \cup {"Gone"}]
        /\ \A j \in Incidents : phase'[j] = phase[j] \/ phase'[j] \in Terminal
    BY <1>1, <2>1, <2>3
  <2>5. \A j \in Incidents : phase'[j] \in {"Assessing", "AwaitingApproval"} =>
            j \in open' \cup abandoned'
    BY <1>1, <2>2, <2>4 DEF ClaimedIsHeld, Terminal
  <2>6. FlowInv'
    BY <1>1, <2>2 DEF FlowInv
  <2>. QED  BY <1>1, <2>2, <2>4, <2>5, <2>6, WriteInv
<1>5. CASE StageChange
  <2>1. UNCHANGED <<watch, feed, chan, pc, pending, open, asked, missed, abandoned, reborn>>
        /\ staged' = TRUE
    BY <1>5 DEF StageChange, watcher, history
  <2>2. \/ UNCHANGED phase /\ (Mishap \/ mishaps' = mishaps)
        \/ \E i \in open : Turn(i) /\ phase' = [phase EXCEPT ![i] = "AwaitingApproval"]
    BY <1>5 DEF StageChange
  <2>3. Mishap \/ mishaps' = mishaps
    BY <2>2 DEF Turn
  <2>4. phase' \in [Incidents -> Phases \cup {"Gone"}]
    BY <1>1, <2>2 DEF Phases
  <2>5. \A j \in Incidents : \/ phase'[j] = phase[j]
                             \/ j \in open /\ phase'[j] = "AwaitingApproval"
    BY <1>1, <2>2
  <2>6. \A j \in Incidents : phase'[j] \in {"Assessing", "AwaitingApproval"} =>
            j \in open' \cup abandoned'
    BY <1>1, <2>1, <2>5 DEF ClaimedIsHeld
  <2>7. FlowInv'
    BY <1>1, <2>1 DEF FlowInv
  <2>. QED  BY <1>1, <2>1, <2>3, <2>4, <2>5, <2>6, <2>7, WriteInv
<1>. QED  BY <1>2, <1>3, <1>4, <1>5

LEMMA StepInv == IInv /\ [Next]_vars => IInv'
BY RaiseInv, AnnounceInv, DeleteInv, WatchInv, TakeInv, QuietInv, AdmitInv, LetGoInv, ToolInv
   DEF Next, Outside

LEMMA Inductive == Spec => []IInv
BY InitInv, StepInv, PTL DEF Spec

-----------------------------------------------------------------------------
(* What is finished stays finished *)

Stays(i) == Finished(i)' \/ phase'[i] = "Gone"

\* The steps of the others: none concerns a closed incident but its deletion.
LEMMA OutsideStays ==
    ASSUME TypeOK, NEW i \in Incidents, Finished(i), NEW j \in Incidents, Outside(j)
    PROVE  Stays(i)
<1>1. UNCHANGED <<chan, pending, open>> /\ phase \in [Incidents -> Phases \cup {"Gone"}]
  BY DEF TypeOK, Outside, Raise, OperatorQueues, Touch, DeleteIncident, watcher, session
<1>2. CASE DeleteIncident(j)
  <2>1. UNCHANGED feed /\ phase' = [phase EXCEPT ![j] = "Gone"]
    BY <1>2 DEF DeleteIncident, watcher
  <2>. QED  BY <1>1, <2>1 DEF Stays, Finished, Arriving
<1>3. CASE Raise(j)
  <2>1. UNCHANGED feed /\ phase' = [phase EXCEPT ![j] = "Detected"] /\ i # j
    BY <1>3 DEF Raise, watcher, Finished, Terminal
  <2>. QED  BY <1>1, <2>1 DEF Stays, Finished, Arriving
<1>4. CASE OperatorQueues(j) \/ Touch(j)
  <2>1. Emit(j) /\ i # j /\ phase'[i] = phase[i]
    BY <1>1, <1>4 DEF OperatorQueues, Touch, Finished, Terminal
  <2>2. ToSet(feed') \subseteq ToSet(feed) \cup {j}
    BY <2>1, EmitType
  <2>. QED  BY <1>1, <2>1, <2>2 DEF Stays, Finished, Arriving
<1>. QED  BY <1>2, <1>3, <1>4 DEF Outside

\* The watch, the backlog and the resync look at the phase; the rest of the way to
\* admit only moves what is on it.
LEMMA FlowStays ==
    ASSUME TypeOK, NEW i \in Incidents, Finished(i),
           \/ WatchOpens \/ WatchDrops \/ Deliver
           \/ Boot \/ IdleIncident \/ Collect \/ Burst \/ Resync
    PROVE  Stays(i)
<1>1. /\ feed \in Seq(Incidents) /\ chan \in Seq(Incidents) /\ pending \in Seq(Incidents)
      /\ UNCHANGED <<phase, open>>
  BY DEF TypeOK, WatchOpens, WatchDrops, Deliver, Boot, IdleIncident, Collect, Burst, Resync,
         watcher, session
<1>2. phase[i] \in Terminal /\ i \notin open /\ i \notin Arriving
  BY DEF Finished
<1> SUFFICES i \notin Arriving'
  BY <1>1, <1>2 DEF Stays, Finished
<1>3. CASE WatchOpens
  <2>. DEFINE Q == {j \in Incidents : phase[j] = "Queued"}
  <2>1. feed' = SetToSeq(Q) /\ UNCHANGED <<chan, pending>>
    BY <1>3 DEF WatchOpens, session
  <2>2. ToSet(feed') = Q
    BY <2>1, SeqOfSet
  <2>. QED  BY <1>2, <2>1, <2>2 DEF Arriving, Terminal
<1>4. CASE WatchDrops
  <2>1. feed' = <<>> /\ UNCHANGED <<chan, pending>>
    BY <1>4 DEF WatchDrops, session
  <2>. QED  BY <1>2, <2>1, SetOfEmpty DEF Arriving
<1>5. CASE Deliver
  <2>1. /\ feed # <<>> /\ chan' = Append(chan, Head(feed)) /\ feed' = Tail(feed)
        /\ pending' = pending
    BY <1>5 DEF Deliver, session
  <2>2. Head(feed) \in Incidents /\ ToSet(feed) = ToSet(feed') \cup {Head(feed)}
    BY <1>1, <2>1, SetOfTail
  <2>3. ToSet(chan') = ToSet(chan) \cup {Head(feed)}
    BY <1>1, <2>1, <2>2, SetOfAppend
  <2>. QED  BY <1>2, <2>1, <2>2, <2>3 DEF Arriving
<1>6. CASE Boot \/ Resync
  <2>1. pending' \in {SetToSeq(Backlog), <<>>} /\ UNCHANGED <<feed, chan>>
    BY <1>6 DEF Boot, Resync, watcher
  <2>2. ToSet(SetToSeq(Backlog)) = Backlog
    BY SeqOfSet DEF Backlog
  <2>3. ToSet(pending') \subseteq Backlog
    BY <2>1, <2>2, SetOfEmpty
  <2>. QED  BY <1>2, <2>1, <2>3 DEF Arriving, Backlog, Terminal
<1>7. CASE IdleIncident
  <2>1. chan # <<>> /\ pending' = <<Head(chan)>> /\ chan' = Tail(chan) /\ feed' = feed
    BY <1>7 DEF IdleIncident
  <2>2. Head(chan) \in Incidents /\ ToSet(chan) = ToSet(chan') \cup {Head(chan)}
    BY <1>1, <2>1, SetOfTail
  <2>3. ToSet(pending') = {Head(chan)}
    BY <2>1 DEF ToSet
  <2>. QED  BY <1>2, <2>1, <2>2, <2>3 DEF Arriving
<1>8. CASE Collect
  <2>1. pending' = pending \o chan /\ chan' = <<>> /\ feed' = feed
    BY <1>8 DEF Collect
  <2>2. ToSet(pending') = ToSet(pending) \cup ToSet(chan)
    BY <1>1, <2>1, SetOfConcat
  <2>. QED  BY <1>2, <2>1, <2>2, SetOfEmpty DEF Arriving
<1>9. CASE Burst
  <2>1. pending' = chan /\ chan' = <<>> /\ feed' = feed
    BY <1>9 DEF Burst
  <2>. QED  BY <1>2, <2>1, SetOfEmpty DEF Arriving
<1>. QED  BY <1>3, <1>4, <1>5, <1>6, <1>7, <1>8, <1>9

\* Admission claims what was on its way.
LEMMA AdmitStays ==
    ASSUME TypeOK, NEW i \in Incidents, Finished(i), Admit \/ ClaimFails
    PROVE  Stays(i)
<1>1. pending # <<>> /\ pending' = Tail(pending) /\ UNCHANGED <<feed, chan>>
  BY DEF Admit, ClaimFails, watcher
<1>2. ToSet(pending) = ToSet(pending') \cup {Head(pending)}
  BY <1>1, SetOfTail DEF TypeOK
<1>3. i # Head(pending) /\ i \notin Arriving'
  BY <1>1, <1>2 DEF Finished, Arriving
<1>4. open' \subseteq open \cup {Head(pending)}
  BY DEF Admit, ClaimFails
<1>5. phase'[i] = phase[i]
  BY <1>3 DEF Admit, ClaimFails, ClaimLost, TypeOK
<1>. QED  BY <1>3, <1>4, <1>5 DEF Stays, Finished

\* The model writes what it holds, or closes.
LEMMA ToolStays ==
    ASSUME TypeOK, NEW i \in Incidents, Finished(i),
           StageChange \/ Escalate \/ Applied \/ \E j \in Incidents : ModelCloses(j)
    PROVE  Stays(i)
<1>1. UNCHANGED <<feed, chan, pending>> /\ phase \in [Incidents -> Phases \cup {"Gone"}]
  BY DEF TypeOK, StageChange, Escalate, Applied, ModelCloses, watcher, session
<1>2. phase[i] \in Terminal /\ i \notin open /\ i \notin Arriving
  BY DEF Finished
<1>3. i \notin Arriving'
  BY <1>1, <1>2 DEF Arriving
<1> SUFFICES open' \subseteq open /\ phase'[i] \in Terminal
  BY <1>2, <1>3 DEF Stays, Finished
<1>4. CASE StageChange
  <2>1. open' = open
    BY <1>4 DEF StageChange
  <2>2. \/ phase' = phase
        \/ \E j \in open : phase' = [phase EXCEPT ![j] = "AwaitingApproval"]
    BY <1>4 DEF StageChange
  <2>. QED  BY <1>1, <1>2, <2>1, <2>2
<1>5. CASE Escalate \/ Applied
  <2>1. PICK names \in SUBSET Incidents, p \in {"Escalated", "Applied"} : Flush(names, p)
    BY <1>5 DEF Escalate, Applied
  <2>2. PICK written \in SUBSET Writable(names) :
           /\ phase' = [j \in Incidents |-> IF j \in written THEN p ELSE phase[j]]
           /\ open' \subseteq open
    BY <2>1 DEF Flush
  <2>. QED  BY <1>2, <2>2 DEF Terminal
<1>6. ASSUME NEW j \in Incidents, ModelCloses(j) PROVE open' \subseteq open /\ phase'[i] \in Terminal
  <2>1. open' = open
    BY <1>6 DEF ModelCloses, session
  <2>2. PICK p \in Closings : phase' = [phase EXCEPT ![j] = p]
    BY <1>6 DEF ModelCloses
  <2>. QED  BY <1>1, <1>2, <2>1, <2>2, SessionAssumption
<1>. QED  BY <1>4, <1>5, <1>6

\* The rest touches neither phases nor what is on its way, or forgets it.
LEMMA RestStays ==
    ASSUME TypeOK, NEW i \in Incidents, Finished(i),
           \/ IdleHuman \/ Settle \/ Converse \/ Reset \/ EndTurn \/ NotApplied \/ Reap
           \/ HumanSpeaks \/ BurstEnds \/ Restart \/ UNCHANGED vars
    PROVE  Stays(i)
<1>1. phase' = phase /\ open' \subseteq open
  BY DEF IdleHuman, Settle, Converse, Reset, EndTurn, NotApplied, Reap, HumanSpeaks, BurstEnds,
         Restart, vars
<1>2. CASE Restart
  <2>1. feed' = <<>> /\ chan' = <<>> /\ pending' = <<>>
    BY <1>2 DEF Restart
  <2>. QED  BY <1>1, <2>1, SetOfEmpty DEF Stays, Finished, Arriving
<1>3. CASE ~Restart
  <2>1. UNCHANGED <<feed, chan, pending>>
    BY <1>3 DEF IdleHuman, Settle, Converse, Reset, EndTurn, NotApplied, Reap, HumanSpeaks,
                BurstEnds, vars, watcher
  <2>. QED  BY <1>1, <2>1 DEF Stays, Finished, Arriving
<1>. QED  BY <1>2, <1>3

LEMMA StepStays ==
    TypeOK /\ [Next]_vars =>
        [\A i \in Incidents : Finished(i) => Finished(i)' \/ phase'[i] = "Gone"]_vars
<1> SUFFICES ASSUME TypeOK, [Next]_vars, NEW i \in Incidents, Finished(i) PROVE Stays(i)
  BY DEF Stays
<1>. QED
  BY OutsideStays, FlowStays, AdmitStays, ToolStays, RestStays DEF Next

-----------------------------------------------------------------------------
(* Theorems *)

\* Every state has its type; in particular the conversation never covers more
\* than its cap.
THEOREM TypeCorrect == Spec => []TypeOK
<1>1. IInv => TypeOK
  BY DEF IInv
<1>. QED  BY <1>1, Inductive, PTL

\* What a conversation covers was claimed, for any number of incidents, unless it took
\* the name of one that was deleted while the conversation covered that.
THEOREM OpenClaimed == Spec => []OpenIsClaimed
<1>1. IInv => OpenIsClaimed
  BY DEF IInv
<1>. QED  BY <1>1, Inductive, PTL

\* What says a scout has it is held, or was let go in one of the four ways.
THEOREM ClaimedHeld == Spec => []ClaimedIsHeld
<1>1. IInv => ClaimedIsHeld
  BY DEF IInv
<1>. QED  BY <1>1, Inductive, PTL

\* While the watch is open a queued incident is on its way, or its turn came and it
\* was missed: the conversation was full, its claim failed, or a deleted one of its
\* name was held.  No other is hidden from the session.
THEOREM QueuedArrives == Spec => []QueuedIsArriving
<1>1. IInv => QueuedIsArriving
  BY DEF IInv
<1>. QED  BY <1>1, Inductive, PTL

\* What was closed, and is neither held nor on its way, never comes back: whatever
\* the number of incidents, watches, restarts and outcomes.
THEOREM ClosedStays == Spec => FinishedStays
BY TypeCorrect, StepStays, PTL DEF Spec, FinishedStays
=============================================================================
