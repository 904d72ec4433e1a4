------------------------- MODULE ApprovalGateProofs -------------------------
(***************************************************************************)
(* Proofs about ApprovalGate, for every set of changes and incidents, every *)
(* length of the callback channel and every number of presses.             *)
(***************************************************************************)
EXTENDS ApprovalGate, TLAPS

\* The presses that are still to be read, in the order of reading.
Unread == callbacks \o presses

\* The staged change is the last proposal.
StagedInv ==
    /\ pending # NoChange => Current \in 1..MaxProposals /\ proposals[Current] = pending
    /\ pc \in {"ask", "await", "reason", "apply"} => pending # NoChange

\* Within one process every token is of one keyboard and so is every proposal;
\* a change that is yet to be asked about has none.
KeyboardInv ==
    /\ \A k \in keyboards : k.token \in 1..asked /\ k.proposal \in 1..Current
    /\ pending # NoChange /\ pc \in {"think", "ask", "wait"} =>
          \A k \in keyboards : k.proposal # Current
    /\ pc = "await" => \A k \in keyboards : k.token = asked <=> k.proposal = Current
    /\ \A n \in 1..MaxProposals :
          (\A k \in keyboards : k.proposal # n) => verdict[n] = "none"

\* While the gate waits, the first press to be read that carries its token is
\* the verdict on what it asks about, and there is none before the verdict.
UnreadInv ==
    /\ \A j \in 1..Len(Unread) : Unread[j].token <= asked
    /\ pc = "await" =>
          \/ /\ verdict[Current] = "none"
             /\ \A j \in 1..Len(Unread) : Unread[j].token # asked
          \/ \E j \in 1..Len(Unread) :
                /\ Unread[j] = [token |-> asked, answer |-> verdict[Current]]
                /\ \A m \in 1..(j - 1) : Unread[m].token # asked

\* What the hooks hold back was approved.
KeptInv ==
    approved # NoChange =>
        \E n \in 1..Current : proposals[n] = approved /\ verdict[n] = "y"

GateInv == KeyboardInv /\ UnreadInv /\ KeptInv /\ AppliedWasApproved

IInv == TypeOK /\ StagedInv /\ (restarts = 0 => GateInv)

-----------------------------------------------------------------------------
(* Types, and the staged change *)

LEMMA TypeInit == Init => TypeOK /\ StagedInv
BY GateAssumption DEF Init, TypeOK, StagedInv, Answers

\* The proposals are as many as their sequence is long.
LEMMA CurrentType == ASSUME TypeOK PROVE Current \in 0..MaxProposals
BY GateAssumption DEF TypeOK, Current

\* A new proposal is the last one.
LEMMA ProposeStages ==
    ASSUME TypeOK, NEW c \in Changes, Propose(c)
    PROVE  /\ Current' = Current + 1 /\ Current' \in 1..MaxProposals
           /\ proposals' \in Seq(Changes) /\ proposals'[Current'] = c
           /\ \A n \in 1..Current : proposals'[n] = proposals[n]
BY GateAssumption DEF TypeOK, Propose, Current

\* Reading the callback channel takes its first press.
LEMMA HeadType ==
    ASSUME TypeOK, callbacks # <<>>
    PROVE  /\ Head(callbacks) \in Answers
           /\ Tail(callbacks) \in Seq(Answers) /\ Len(Tail(callbacks)) <= ChanCap
BY GateAssumption DEF TypeOK

LEMMA PollType ==
    ASSUME TypeOK, Poll
    PROVE  /\ presses' \in Seq(Answers)
           /\ callbacks' \in Seq(Answers) /\ Len(callbacks') <= ChanCap
<1>1. Head(presses) \in Answers /\ Tail(presses) \in Seq(Answers)
  BY DEF Poll, TypeOK
<1>2. Append(callbacks, Head(presses)) \in Seq(Answers)
      /\ Len(Append(callbacks, Head(presses))) = Len(callbacks) + 1
  BY <1>1 DEF TypeOK
<1>3. Len(callbacks) \in Nat
  BY DEF TypeOK
<1>. QED  BY <1>1, <1>2, <1>3, GateAssumption DEF Poll

LEMMA TypeNext == TypeOK /\ StagedInv /\ [Next]_vars => TypeOK' /\ StagedInv'
<1> SUFFICES ASSUME TypeOK, StagedInv, [Next]_vars PROVE TypeOK' /\ StagedInv'
  OBVIOUS
<1>. USE GateAssumption
<1>1. ASSUME NEW c \in Changes, Propose(c) PROVE TypeOK' /\ StagedInv'
  BY <1>1, ProposeStages DEF TypeOK, StagedInv, Propose, Current, incidents, telegram
<1>2. CASE EndTurn
  BY <1>2 DEF TypeOK, StagedInv, EndTurn, Current, gate, incidents, telegram
<1>3. CASE Ask
  <2>1. Current \in 1..MaxProposals
    BY <1>3 DEF StagedInv, Ask
  <2>. QED  BY <1>3, <2>1 DEF TypeOK, StagedInv, Ask, Current, gate, incidents
<1>4. ASSUME NEW k \in keyboards, NEW answer \in {"y", "n"}, Press(k, answer)
      PROVE TypeOK' /\ StagedInv'
  <2>1. [token |-> k.token, answer |-> answer] \in Answers /\ k.proposal \in 1..MaxProposals
    BY <1>4 DEF TypeOK, Answers
  <2>2. presses' \in Seq(Answers) /\ verdict' \in [1..MaxProposals -> {"none", "y", "n"}]
    BY <1>4, <2>1 DEF Press, TypeOK
  <2>3. pressed' \in 0..MaxPresses
    BY <1>4 DEF Press, TypeOK
  <2>. QED  BY <1>4, <2>2, <2>3 DEF TypeOK, StagedInv, Press, Current, gate, incidents
<1>5. CASE Poll
  BY <1>5, PollType DEF TypeOK, StagedInv, Poll, Current, gate, incidents
<1>6. CASE Discard
  BY <1>6, HeadType DEF TypeOK, StagedInv, Discard, Current, gate, incidents
<1>7. CASE Approve
  BY <1>7, HeadType DEF TypeOK, StagedInv, Approve, Current, incidents
<1>8. CASE Reject
  BY <1>8, HeadType DEF TypeOK, StagedInv, Reject, Current, gate, incidents
<1>9. CASE Reason \/ Apply
  BY <1>9 DEF TypeOK, StagedInv, Reason, Apply, Current, incidents, telegram
<1>10. ASSUME NEW i \in Incidents, Arrive(i) PROVE TypeOK' /\ StagedInv'
  BY <1>10 DEF TypeOK, StagedInv, Arrive, Current, gate, telegram
<1>11. CASE Resume
  BY <1>11 DEF TypeOK, StagedInv, Resume, Current, gate, incidents, telegram
<1>12. CASE NextConversation
  BY <1>12 DEF TypeOK, StagedInv, NextConversation, Current, telegram
<1>13. CASE Restart
  BY <1>13 DEF TypeOK, StagedInv, Restart, Current
<1>14. CASE UNCHANGED vars
  BY <1>14 DEF TypeOK, StagedInv, vars, Current
<1>. QED  BY <1>1, <1>2, <1>3, <1>4, <1>5, <1>6, <1>7, <1>8, <1>9, <1>10, <1>11, <1>12,
             <1>13, <1>14 DEF Next

\* Every state has its type, whatever the bounds.
THEOREM TypeCorrect == Spec => []TypeOK
<1>1. Init => TypeOK /\ StagedInv
  BY TypeInit
<1>2. (TypeOK /\ StagedInv) /\ [Next]_vars => (TypeOK /\ StagedInv)'
  BY TypeNext
<1>. QED  BY <1>1, <1>2, PTL DEF Spec

-----------------------------------------------------------------------------
(* Presses that wait in two places *)

LEMMA PressIsLast ==
    ASSUME NEW S, NEW s \in Seq(S), NEW t \in Seq(S), NEW x \in S
    PROVE  /\ Len(s \o Append(t, x)) = Len(s \o t) + 1
           /\ \A j \in 1..Len(s \o t) : (s \o Append(t, x))[j] = (s \o t)[j]
           /\ (s \o Append(t, x))[Len(s \o t) + 1] = x
OBVIOUS

LEMMA PollKeepsOrder ==
    ASSUME NEW S, NEW s \in Seq(S), NEW t \in Seq(S), t # <<>>
    PROVE  Append(s, Head(t)) \o Tail(t) = s \o t
<1>1. Head(t) \in S /\ Tail(t) \in Seq(S) /\ Len(Tail(t)) = Len(t) - 1 /\ Len(t) >= 1
      /\ Head(t) = t[1] /\ \A j \in 1..(Len(t) - 1) : Tail(t)[j] = t[j + 1]
  OBVIOUS
<1>2. Append(s, Head(t)) \in Seq(S) /\ Len(Append(s, Head(t))) = Len(s) + 1
      /\ \A j \in 1..Len(s) : Append(s, Head(t))[j] = s[j]
      /\ Append(s, Head(t))[Len(s) + 1] = t[1]
  BY <1>1
<1>. DEFINE u == Append(s, Head(t)) \o Tail(t)
            v == s \o t
<1>3. u \in Seq(S) /\ v \in Seq(S) /\ Len(u) = Len(v) /\ Len(v) = Len(s) + Len(t)
  BY <1>1, <1>2
<1>4. ASSUME NEW j \in 1..Len(v) PROVE u[j] = v[j]
  BY <1>1, <1>2, <1>3, <1>4
<1>. QED  BY <1>3, <1>4

LEMMA ReadIsFirst ==
    ASSUME NEW S, NEW s \in Seq(S), NEW t \in Seq(S), s # <<>>
    PROVE  /\ Len(s \o t) \in Nat \ {0} /\ (s \o t)[1] = Head(s)
           /\ Len(Tail(s) \o t) = Len(s \o t) - 1
           /\ \A j \in 1..(Len(s \o t) - 1) : (Tail(s) \o t)[j] = (s \o t)[j + 1]
OBVIOUS

LEMMA UnreadType == ASSUME TypeOK PROVE Unread \in Seq(Answers)
BY DEF TypeOK, Unread

-----------------------------------------------------------------------------
(* What is read is the verdict *)

\* The press that answers the open question is the verdict on the change that
\* is staged.
LEMMA ReadVerdict ==
    ASSUME TypeOK, UnreadInv, pc = "await", callbacks # <<>>, Head(callbacks).token = asked
    PROVE  Head(callbacks).answer = verdict[Current]
<1>1. callbacks \in Seq(Answers) /\ presses \in Seq(Answers)
  BY DEF TypeOK
<1>2. Len(Unread) \in Nat \ {0} /\ Unread[1] = Head(callbacks)
  BY <1>1, ReadIsFirst DEF Unread
<1>3. PICK j \in 1..Len(Unread) :
         /\ Unread[j] = [token |-> asked, answer |-> verdict[Current]]
         /\ \A m \in 1..(j - 1) : Unread[m].token # asked
  BY <1>2 DEF UnreadInv
<1>4. j = 1
  BY <1>2, <1>3
<1>. QED  BY <1>2, <1>3, <1>4

\* Taking the first press leaves the tokens below the count of questions.
LEMMA ReadTokens ==
    ASSUME TypeOK, UnreadInv, callbacks # <<>>, callbacks' = Tail(callbacks),
           presses' = presses, asked' = asked
    PROVE  /\ Len(Unread') = Len(Unread) - 1 /\ Len(Unread) \in Nat \ {0}
           /\ Unread[1] = Head(callbacks)
           /\ \A j \in 1..(Len(Unread) - 1) : Unread'[j] = Unread[j + 1]
           /\ \A j \in 1..Len(Unread') : Unread'[j].token <= asked'
<1>1. callbacks \in Seq(Answers) /\ presses \in Seq(Answers)
  BY DEF TypeOK
<1>2. /\ Len(Unread') = Len(Unread) - 1 /\ Len(Unread) \in Nat \ {0}
      /\ Unread[1] = Head(callbacks)
      /\ \A j \in 1..(Len(Unread) - 1) : Unread'[j] = Unread[j + 1]
  BY <1>1, ReadIsFirst DEF Unread
<1>3. ASSUME NEW j \in 1..Len(Unread') PROVE Unread'[j].token <= asked'
  <2>1. j \in 1..(Len(Unread) - 1) /\ j + 1 \in 1..Len(Unread)
    BY <1>2
  <2>. QED  BY <1>2, <2>1 DEF UnreadInv
<1>. QED  BY <1>2, <1>3

\* Steps that touch neither the chat nor what was staged before.
LEMMA QuietGate ==
    ASSUME TypeOK, StagedInv, GateInv,
           EndTurn \/ Reason \/ Apply \/ Resume \/ NextConversation
             \/ (\E i \in Incidents : Arrive(i)) \/ UNCHANGED vars
    PROVE  GateInv'
<1>1. /\ UNCHANGED <<asked, keyboards, presses, callbacks, verdict, proposals>>
      /\ Unread' = Unread /\ Current' = Current
  BY DEF EndTurn, Reason, Apply, Resume, NextConversation, Arrive, telegram, vars, Unread, Current
<1>2. \/ pending' = pending /\ approved' = approved /\ pc' = pc
      \/ pc' \notin {"await", "apply"} /\ pending' = NoChange /\ approved' \in {approved, NoChange}
      \/ pc = "think" /\ pc' = "ask" /\ pending' = pending /\ approved' = approved
      \/ /\ pc = "think" /\ pc' = "apply" /\ pending' = pending /\ approved' = approved
         /\ approved = pending /\ pending # NoChange
      \/ pc = "wait" /\ pc' = "think" /\ pending' = pending /\ approved' = approved
  <2>1. CASE EndTurn
    <3>1. pc = "think" /\ pending' = pending /\ approved' = approved
      BY <2>1 DEF EndTurn, gate
    <3>2. \/ pending = NoChange /\ pc' = "wait"
          \/ pending # NoChange /\ approved = pending /\ pc' = "apply"
          \/ pending # NoChange /\ approved # pending /\ pc' = "ask"
      BY <2>1 DEF EndTurn
    <3>. QED  BY <3>1, <3>2
  <2>2. CASE Reason \/ Apply \/ NextConversation
    BY <2>2 DEF Reason, Apply, NextConversation
  <2>3. CASE Resume
    BY <2>3 DEF Resume, gate
  <2>4. CASE (\E i \in Incidents : Arrive(i)) \/ UNCHANGED vars
    BY <2>4 DEF Arrive, gate, vars
  <2>. QED  BY <2>1, <2>2, <2>3, <2>4
<1>3. KeyboardInv'
  BY <1>1, <1>2 DEF GateInv, KeyboardInv
<1>4. UnreadInv'
  BY <1>1, <1>2 DEF GateInv, UnreadInv
<1>5. KeptInv'
  BY <1>1, <1>2 DEF GateInv, KeptInv
<1>6. AppliedWasApproved'
  BY <1>1, <1>2 DEF GateInv, KeptInv, AppliedWasApproved
<1>. QED  BY <1>3, <1>4, <1>5, <1>6 DEF GateInv

LEMMA ProposeGate ==
    ASSUME TypeOK, StagedInv, GateInv, NEW c \in Changes, Propose(c)
    PROVE  GateInv'
<1>1. UNCHANGED <<asked, keyboards, presses, callbacks, verdict, approved, pc>> /\ Unread' = Unread
      /\ pc = "think"
  BY DEF Propose, telegram, Unread
<1>2. Current \in Nat
  BY CurrentType
<1>3. KeyboardInv'
  BY <1>1, <1>2, ProposeStages DEF GateInv, KeyboardInv
<1>4. UnreadInv'
  BY <1>1 DEF GateInv, UnreadInv
<1>5. KeptInv'
  BY <1>1, <1>2, ProposeStages DEF GateInv, KeptInv
<1>6. AppliedWasApproved'
  BY <1>1 DEF AppliedWasApproved
<1>. QED  BY <1>3, <1>4, <1>5, <1>6 DEF GateInv

LEMMA AskGate ==
    ASSUME TypeOK, StagedInv, GateInv, Ask
    PROVE  GateInv'
<1>1. /\ UNCHANGED <<presses, callbacks, verdict, approved, pending, proposals>>
      /\ Unread' = Unread /\ Current' = Current
      /\ pc = "ask" /\ pc' = "await" /\ asked' = asked + 1
      /\ keyboards' = keyboards \cup {[token |-> asked + 1, proposal |-> Current]}
  BY DEF Ask, gate, Unread, Current
<1>2. Current \in 1..MaxProposals /\ asked \in Nat /\ pending # NoChange
  BY <1>1 DEF StagedInv, TypeOK
<1>3. \A k \in keyboards : k.token \in 1..asked /\ k.proposal \in 1..Current /\ k.proposal # Current
  BY <1>1, <1>2 DEF GateInv, KeyboardInv
<1>4. KeyboardInv'
  BY <1>1, <1>2, <1>3 DEF GateInv, KeyboardInv
<1>5. verdict[Current] = "none"
  BY <1>2, <1>3 DEF GateInv, KeyboardInv
<1>6. ASSUME NEW j \in 1..Len(Unread) PROVE Unread[j].token \in Nat
  <2>1. Unread[j] \in Answers
    BY UnreadType
  <2>. QED  BY <2>1 DEF Answers
<1>7. UnreadInv'
  BY <1>1, <1>2, <1>5, <1>6 DEF GateInv, UnreadInv
<1>8. KeptInv' /\ AppliedWasApproved'
  BY <1>1 DEF GateInv, KeptInv, AppliedWasApproved
<1>. QED  BY <1>4, <1>7, <1>8 DEF GateInv

LEMMA PressGate ==
    ASSUME TypeOK, StagedInv, GateInv, NEW k \in keyboards, NEW answer \in {"y", "n"},
           Press(k, answer)
    PROVE  GateInv'
<1>. DEFINE x == [token |-> k.token, answer |-> answer]
<1>1. /\ UNCHANGED <<pc, pending, approved, asked, keyboards, callbacks, proposals>>
      /\ Current' = Current /\ presses' = Append(presses, x)
      /\ verdict' = [verdict EXCEPT ![k.proposal] = IF @ = "none" THEN answer ELSE @]
  BY DEF Press, gate, Current
<1>2. k.token \in 1..asked /\ k.proposal \in 1..Current /\ k.proposal \in 1..MaxProposals
      /\ x \in Answers /\ asked \in Nat
  BY DEF TypeOK, GateInv, KeyboardInv, Answers
<1>3. /\ Len(Unread') = Len(Unread) + 1 /\ Len(Unread) \in Nat
      /\ \A j \in 1..Len(Unread) : Unread'[j] = Unread[j] /\ Unread[j] \in Answers
      /\ Unread'[Len(Unread) + 1] = x
  BY <1>1, <1>2, PressIsLast, UnreadType DEF TypeOK, Unread
<1>4. \A n \in 1..MaxProposals : verdict[n] # "none" \/ n # k.proposal => verdict'[n] = verdict[n]
  BY <1>1 DEF TypeOK
<1>5. KeyboardInv'
  BY <1>1, <1>4 DEF GateInv, KeyboardInv
<1>6. UnreadInv'
  <2>1. ASSUME NEW j \in 1..Len(Unread') PROVE Unread'[j].token <= asked'
    <3>1. j \in 1..Len(Unread) \/ j = Len(Unread) + 1
      BY <1>3
    <3>. QED  BY <1>1, <1>2, <1>3, <3>1 DEF GateInv, UnreadInv
  <2>2. ASSUME pc = "await"
        PROVE  \/ /\ verdict'[Current] = "none"
                  /\ \A j \in 1..Len(Unread') : Unread'[j].token # asked
               \/ \E j \in 1..Len(Unread') :
                     /\ Unread'[j] = [token |-> asked, answer |-> verdict'[Current]]
                     /\ \A m \in 1..(j - 1) : Unread'[m].token # asked
    <3>1. Current \in 1..MaxProposals
      BY <2>2 DEF StagedInv
    <3>2. CASE verdict[Current] = "none" /\ \A j \in 1..Len(Unread) : Unread[j].token # asked
      <4>1. CASE k.token = asked
        <5>1. k.proposal = Current
          BY <2>2, <4>1 DEF GateInv, KeyboardInv
        <5>2. verdict'[Current] = answer
          BY <1>1, <3>1, <3>2, <5>1 DEF TypeOK
        <5>3. \A m \in 1..Len(Unread) : Unread'[m].token # asked
          BY <1>3, <3>2
        <5>4. Unread'[Len(Unread) + 1] = [token |-> asked, answer |-> verdict'[Current]]
          BY <1>3, <4>1, <5>2
        <5>. QED  BY <1>3, <5>3, <5>4
      <4>2. CASE k.token # asked
        <5>1. k.proposal # Current
          BY <2>2, <4>2 DEF GateInv, KeyboardInv
        <5>2. verdict'[Current] = "none"
          BY <1>4, <3>1, <3>2, <5>1
        <5>3. ASSUME NEW j \in 1..Len(Unread') PROVE Unread'[j].token # asked
          <6>1. j \in 1..Len(Unread) \/ j = Len(Unread) + 1
            BY <1>3
          <6>. QED  BY <1>3, <3>2, <4>2, <6>1
        <5>. QED  BY <5>2, <5>3
      <4>. QED  BY <4>1, <4>2
    <3>3. ASSUME NEW j \in 1..Len(Unread),
                 Unread[j] = [token |-> asked, answer |-> verdict[Current]],
                 \A m \in 1..(j - 1) : Unread[m].token # asked
          PROVE  \E n \in 1..Len(Unread') :
                     /\ Unread'[n] = [token |-> asked, answer |-> verdict'[Current]]
                     /\ \A m \in 1..(n - 1) : Unread'[m].token # asked
      <4>1. verdict[Current] \in {"y", "n"}
        BY <1>3, <3>3 DEF Answers
      <4>2. verdict'[Current] = verdict[Current]
        BY <1>4, <3>1, <4>1
      <4>3. j \in 1..Len(Unread') /\ \A m \in 1..(j - 1) : m \in 1..Len(Unread)
        BY <1>3
      <4>. QED  BY <1>3, <3>3, <4>2, <4>3
    <3>. QED  BY <2>2, <3>2, <3>3 DEF GateInv, UnreadInv
  <2>. QED  BY <1>1, <2>1, <2>2 DEF UnreadInv
<1>7. \A n \in 1..Current : verdict[n] = "y" => verdict'[n] = "y"
  BY <1>4, CurrentType, GateAssumption
<1>8. KeptInv'
  BY <1>1, <1>7 DEF GateInv, KeptInv
<1>9. AppliedWasApproved'
  BY <1>1, <1>7 DEF GateInv, AppliedWasApproved
<1>. QED  BY <1>5, <1>6, <1>8, <1>9 DEF GateInv

LEMMA PollGate ==
    ASSUME TypeOK, StagedInv, GateInv, Poll
    PROVE  GateInv'
<1>1. /\ UNCHANGED <<pc, pending, approved, asked, keyboards, proposals, verdict>>
      /\ Current' = Current
  BY DEF Poll, gate, Current
<1>2. Unread' = Unread
  BY PollKeepsOrder DEF Poll, TypeOK, Unread
<1>. QED  BY <1>1, <1>2 DEF GateInv, KeyboardInv, UnreadInv, KeptInv, AppliedWasApproved

LEMMA DiscardGate ==
    ASSUME TypeOK, StagedInv, GateInv, Discard
    PROVE  GateInv'
<1>1. /\ UNCHANGED <<pc, pending, approved, asked, keyboards, proposals, verdict, presses>>
      /\ Current' = Current /\ pc = "await" /\ callbacks # <<>>
      /\ callbacks' = Tail(callbacks) /\ Head(callbacks).token # asked
  BY DEF Discard, gate, Current
<1>2. /\ Len(Unread') = Len(Unread) - 1 /\ Len(Unread) \in Nat \ {0}
      /\ Unread[1].token # asked
      /\ \A j \in 1..(Len(Unread) - 1) : Unread'[j] = Unread[j + 1]
      /\ \A j \in 1..Len(Unread') : Unread'[j].token <= asked'
  BY <1>1, ReadTokens DEF GateInv
<1>3. CASE verdict[Current] = "none" /\ \A j \in 1..Len(Unread) : Unread[j].token # asked
  <2>1. ASSUME NEW j \in 1..Len(Unread') PROVE Unread'[j].token # asked
    <3>1. j \in 1..(Len(Unread) - 1) /\ j + 1 \in 1..Len(Unread)
      BY <1>2
    <3>. QED  BY <1>2, <1>3, <3>1
  <2>. QED  BY <1>1, <1>2, <1>3, <2>1
            DEF GateInv, KeyboardInv, UnreadInv, KeptInv, AppliedWasApproved
<1>4. ASSUME NEW j \in 1..Len(Unread),
             Unread[j] = [token |-> asked, answer |-> verdict[Current]],
             \A m \in 1..(j - 1) : Unread[m].token # asked
      PROVE  GateInv'
  <2>1. j # 1
    BY <1>2, <1>4
  <2>2. j - 1 \in 1..Len(Unread') /\ j - 1 \in 1..(Len(Unread) - 1)
    BY <1>2, <2>1
  <2>3. Unread'[j - 1] = Unread[j]
    BY <1>2, <2>2
  <2>4. ASSUME NEW m \in 1..(j - 2) PROVE Unread'[m].token # asked
    <3>1. m \in 1..(Len(Unread) - 1) /\ m + 1 \in 1..(j - 1)
      BY <1>2
    <3>. QED  BY <1>2, <1>4, <3>1
  <2>5. UnreadInv'
    BY <1>1, <1>2, <1>4, <2>2, <2>3, <2>4 DEF UnreadInv
  <2>. QED  BY <1>1, <2>5 DEF GateInv, KeyboardInv, KeptInv, AppliedWasApproved
<1>. QED  BY <1>1, <1>3, <1>4 DEF GateInv, UnreadInv

LEMMA AnswerGate ==
    ASSUME TypeOK, StagedInv, GateInv, Approve \/ Reject
    PROVE  GateInv'
<1>1. /\ UNCHANGED <<asked, keyboards, proposals, verdict, presses>>
      /\ Current' = Current /\ pc = "await" /\ callbacks # <<>>
      /\ callbacks' = Tail(callbacks) /\ Head(callbacks).token = asked
  BY DEF Approve, Reject, Current
<1>2. \A j \in 1..Len(Unread') : Unread'[j].token <= asked'
  BY <1>1, ReadTokens DEF GateInv
<1>3. Current \in 1..MaxProposals /\ proposals[Current] = pending /\ pending # NoChange
  BY <1>1 DEF StagedInv
<1>4. \/ pc' = "apply" /\ pending' = pending /\ approved' = NoChange
         /\ Head(callbacks).answer = "y"
      \/ pc' = "think" /\ pending' = NoChange /\ approved' = pending
         /\ Head(callbacks).answer = "y"
      \/ pc' = "reason" /\ pending' = pending /\ approved' = approved
  BY DEF Approve, Reject, gate
<1>5. Head(callbacks).answer = verdict[Current]
  BY <1>1, ReadVerdict DEF GateInv
<1>6. KeyboardInv'
  BY <1>1, <1>4 DEF GateInv, KeyboardInv
<1>7. UnreadInv'
  BY <1>2, <1>4 DEF UnreadInv
<1>8. KeptInv'
  BY <1>1, <1>3, <1>4, <1>5 DEF GateInv, KeptInv
<1>9. AppliedWasApproved'
  BY <1>1, <1>3, <1>4, <1>5 DEF AppliedWasApproved
<1>. QED  BY <1>6, <1>7, <1>8, <1>9 DEF GateInv

LEMMA GateNext ==
    ASSUME TypeOK, StagedInv, GateInv, [Next]_vars, restarts' = 0
    PROVE  GateInv'
<1>1. ~ Restart
  BY DEF Restart, TypeOK
<1>. QED  BY <1>1, QuietGate, ProposeGate, AskGate, PressGate, PollGate, DiscardGate,
             AnswerGate DEF Next

\* Restarts are counted and never forgotten.
LEMMA RestartsGrow ==
    ASSUME TypeOK, [Next]_vars, restarts' = 0 PROVE restarts = 0
<1>1. \A c \in Changes : Propose(c) => restarts' = restarts
  BY DEF Propose
<1>2. \A k \in keyboards, answer \in {"y", "n"} : Press(k, answer) => restarts' = restarts
  BY DEF Press
<1>3. \A i \in Incidents : Arrive(i) => restarts' = restarts
  BY DEF Arrive
<1>4. EndTurn \/ Ask \/ Poll \/ Discard \/ Approve \/ Reject \/ Reason \/ Apply \/ Resume
        \/ NextConversation \/ UNCHANGED vars => restarts' = restarts
  BY DEF EndTurn, Ask, Poll, Discard, Approve, Reject, Reason, Apply, Resume,
         NextConversation, vars
<1>5. ~ Restart
  BY DEF Restart, TypeOK
<1>. QED  BY <1>1, <1>2, <1>3, <1>4, <1>5 DEF Next

\* A process that asked every question there was never applies a change that the
\* human did not approve on the keyboard that showed it.
THEOREM OneProcessIsObeyed == Spec => []OneProcessAppliesApproved
<1>1. Init => IInv
  <2>1. Init => GateInv
    BY GateAssumption
       DEF Init, GateInv, KeyboardInv, UnreadInv, Unread, KeptInv, AppliedWasApproved
  <2>. QED  BY <2>1, TypeInit DEF IInv
<1>2. IInv /\ [Next]_vars => IInv'
  BY TypeNext, GateNext, RestartsGrow DEF IInv
<1>3. IInv => OneProcessAppliesApproved
  BY DEF IInv, GateInv, OneProcessAppliesApproved
<1>. QED  BY <1>1, <1>2, <1>3, PTL DEF Spec
=============================================================================
