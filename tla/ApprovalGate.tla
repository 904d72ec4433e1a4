---------------------------- MODULE ApprovalGate ----------------------------
(***************************************************************************)
(* The human gate in front of every change: the ApprovalGate the mutating  *)
(* tool embeds, the hooks the conversation gives it, and the buttons of    *)
(* the Telegram messenger through which the human answers.                 *)
(*                                                                         *)
(*  - A proposal stages a change; at the end of the turn the gate asks, on *)
(*    a keyboard whose buttons carry the question's token, and the session *)
(*    goroutine waits for a press with that token.                         *)
(*  - Keyboards stay on the screen for ever: the human may press any of    *)
(*    them, at any time and more than once.  Presses wait at Telegram      *)
(*    until the poller fetches them into a buffered channel.               *)
(*  - Incidents arrive in their channel at any time, and join the          *)
(*    conversation only where its select reads it.                         *)
(*  - A restart forgets the process: the count of questions, what was      *)
(*    staged or approved, and both channels; not the chat.                 *)
(***************************************************************************)
EXTENDS Integers, FiniteSets, Sequences

CONSTANTS
    Changes,        \* changes the model may propose, by their fingerprint
    NoChange,
    Incidents,
    ChanCap,        \* buffer of the callback channel, 8 in the code
    MaxProposals,   \* bound: changes staged
    MaxPresses,     \* bound: buttons pressed
    MaxRestarts     \* bound

ASSUME GateAssumption ==
    /\ NoChange \notin Changes
    /\ ChanCap \in Nat \ {0}
    /\ MaxProposals \in Nat /\ MaxPresses \in Nat /\ MaxRestarts \in Nat

VARIABLES
    pc,         \* where the session goroutine is
    pending,    \* the staged change
    snapshot,   \* incidents open when it was staged
    approved,   \* the change the human agreed to, held back by OnApprove
    open,       \* incidents of the conversation
    arrived,    \* incidents in their channel
    asked,      \* questions asked by this process: the last token
    keyboards,  \* in the chat: the token of each, and the proposal it shows
    presses,    \* at Telegram: presses not fetched yet
    callbacks,  \* the callback channel
    proposals,  \* history: the changes staged, in order
    verdict,    \* history: the first press on the keyboard of each proposal
    pressed,    \* how many buttons were pressed
    since,      \* history: incidents that arrived since the change was staged
    restarts

gate == <<pending, snapshot, approved>>
incidents == <<open, arrived>>
telegram == <<asked, keyboards, presses, callbacks, verdict, pressed>>
vars == <<pc, pending, snapshot, approved, open, arrived, asked, keyboards,
          presses, callbacks, proposals, verdict, pressed, since, restarts>>

\* The proposal that is staged.
Current == Len(proposals)

Init ==
    /\ pc = "think"
    /\ pending = NoChange /\ snapshot = {} /\ approved = NoChange
    /\ open = {} /\ arrived = {}
    /\ asked = 0
    /\ keyboards = {} /\ presses = <<>> /\ callbacks = <<>>
    /\ proposals = <<>>
    /\ verdict = [n \in 1..MaxProposals |-> "none"]
    /\ pressed = 0 /\ since = {}
    /\ restarts = 0

-----------------------------------------------------------------------------
(* Proposing *)

\* Execute of the tool, and Stage: refused while a change is staged.
Propose(c) ==
    /\ pc = "think"
    /\ pending = NoChange
    /\ Current < MaxProposals
    /\ pending' = c
    /\ snapshot' = open
    /\ proposals' = Append(proposals, c)
    /\ since' = {}
    /\ UNCHANGED <<pc, approved, incidents, telegram, restarts>>

\* The model ends its turn: the armed gate runs, and asks unless this very
\* change was approved before.
EndTurn ==
    /\ pc = "think"
    /\ pc' = IF pending = NoChange THEN "wait"
             ELSE IF approved = pending THEN "apply" ELSE "ask"
    /\ UNCHANGED <<gate, incidents, telegram, proposals, since, restarts>>

\* Ask, with buttons.
Ask ==
    /\ pc = "ask"
    /\ asked' = asked + 1
    /\ keyboards' = keyboards \cup {[token |-> asked', proposal |-> Current]}
    /\ pc' = "await"
    /\ UNCHANGED <<gate, incidents, presses, callbacks, verdict, pressed, proposals, since, restarts>>

-----------------------------------------------------------------------------
(* Answering *)

Press(k, answer) ==
    /\ pressed < MaxPresses
    /\ pressed' = pressed + 1
    /\ presses' = Append(presses, [token |-> k.token, answer |-> answer])
    /\ verdict' = [verdict EXCEPT ![k.proposal] = IF @ = "none" THEN answer ELSE @]
    /\ UNCHANGED <<pc, gate, incidents, asked, keyboards, callbacks, proposals, since, restarts>>

\* MUTANT: what the full channel cannot take is dropped.
PollOrDrop ==
    /\ presses # <<>>
    /\ callbacks' = IF Len(callbacks) < ChanCap THEN Append(callbacks, Head(presses))
                    ELSE callbacks
    /\ presses' = Tail(presses)
    /\ UNCHANGED <<pc, gate, incidents, asked, keyboards, verdict, pressed, proposals,
                   since, restarts>>

\* MUTANT: the channel is not bounded.
PollUnbounded ==
    /\ presses # <<>>
    /\ callbacks' = Append(callbacks, Head(presses))
    /\ presses' = Tail(presses)
    /\ UNCHANGED <<pc, gate, incidents, asked, keyboards, verdict, pressed, proposals,
                   since, restarts>>

\* poll: blocks on a full channel.
Poll ==
    /\ presses # <<>>
    /\ Len(callbacks) < ChanCap
    /\ callbacks' = Append(callbacks, Head(presses))
    /\ presses' = Tail(presses)
    /\ UNCHANGED <<pc, gate, incidents, asked, keyboards, verdict, pressed, proposals, since, restarts>>

\* awaitCallback: a press on the keyboard of another question is discarded.
Discard ==
    /\ pc = "await"
    /\ callbacks # <<>>
    /\ Head(callbacks).token # asked
    /\ callbacks' = Tail(callbacks)
    /\ UNCHANGED <<pc, gate, incidents, asked, keyboards, presses, verdict, pressed, proposals, since, restarts>>

\* MUTANT: any press answers the question.
ApproveAny ==
    /\ pc = "await"
    /\ callbacks # <<>>
    /\ Head(callbacks).answer = "y"
    /\ callbacks' = Tail(callbacks)
    /\ approved' = NoChange
    /\ pc' = "apply"
    /\ UNCHANGED <<pending, snapshot, incidents, asked, keyboards, presses, verdict,
                   pressed, proposals, since, restarts>>

\* The rest of AfterTurn after a "y": OnApprove, with the incidents that joined
\* since the change was staged.
Approve ==
    /\ pc = "await"
    /\ callbacks # <<>>
    /\ Head(callbacks).token = asked
    /\ Head(callbacks).answer = "y"
    /\ callbacks' = Tail(callbacks)
    /\ LET current == open \subseteq snapshot IN
         /\ approved' = IF current THEN NoChange ELSE pending
         /\ pending' = IF current THEN pending ELSE NoChange
         /\ pc' = IF current THEN "apply" ELSE "think"
    /\ UNCHANGED <<snapshot, incidents, asked, keyboards, presses, verdict, pressed, proposals, since, restarts>>

\* After any other answer: the gate asks for a reason.
Reject ==
    /\ pc = "await"
    /\ callbacks # <<>>
    /\ Head(callbacks).token = asked
    /\ Head(callbacks).answer # "y"
    /\ callbacks' = Tail(callbacks)
    /\ pc' = "reason"
    /\ UNCHANGED <<gate, incidents, asked, keyboards, presses, verdict, pressed, proposals, since, restarts>>

\* Whatever line is read next is the reason.
Reason ==
    /\ pc = "reason"
    /\ pending' = NoChange
    /\ pc' = "think"
    /\ UNCHANGED <<snapshot, approved, incidents, telegram, proposals, since, restarts>>

\* apply, whether or not the write succeeds.
Apply ==
    /\ pc = "apply"
    /\ pending' = NoChange
    /\ pc' = "think"
    /\ UNCHANGED <<snapshot, approved, incidents, telegram, proposals, since, restarts>>

-----------------------------------------------------------------------------
(* The conversation around the gate *)

Arrive(i) ==
    /\ i \notin open \cup arrived
    /\ arrived' = arrived \cup {i}
    /\ since' = since \cup {i}
    /\ UNCHANGED <<pc, gate, open, telegram, proposals, restarts>>

\* The select between two turns: what arrived is admitted, or the human speaks.
Resume ==
    /\ pc = "wait"
    /\ pc' = "think"
    /\ \/ open' = open \cup arrived /\ arrived' = {}
       \/ UNCHANGED incidents
    /\ UNCHANGED <<gate, telegram, proposals, since, restarts>>

\* The conversation ends (escalation, or nothing left open), the next begins
\* with what arrived: a gate and hooks of its own.
NextConversation ==
    /\ pc = "think"
    /\ pending' = NoChange /\ snapshot' = {} /\ approved' = NoChange
    /\ open' = arrived /\ arrived' = {}
    /\ UNCHANGED <<pc, telegram, proposals, since, restarts>>

\* The process dies (a question that cannot be sent ends it, for one).
Restart ==
    /\ restarts < MaxRestarts
    /\ restarts' = restarts + 1
    /\ pc' = "think"
    /\ pending' = NoChange /\ snapshot' = {} /\ approved' = NoChange
    /\ open' = open \cup arrived /\ arrived' = {}
    /\ asked' = 0
    /\ callbacks' = <<>>
    /\ UNCHANGED <<keyboards, presses, proposals, verdict, pressed, since>>

Next ==
    \/ \E c \in Changes : Propose(c)
    \/ EndTurn \/ Ask
    \/ \E k \in keyboards, answer \in {"y", "n"} : Press(k, answer)
    \/ Poll \/ Discard \/ Approve \/ Reject \/ Reason \/ Apply
    \/ \E i \in Incidents : Arrive(i)
    \/ Resume \/ NextConversation \/ Restart

Spec == Init /\ [][Next]_vars

\* The poller and the goroutine that waits for an answer run; the human owes
\* nothing.
Fairness == WF_vars(Poll) /\ WF_vars(Discard \/ Approve \/ Reject)

FairSpec == Spec /\ Fairness

-----------------------------------------------------------------------------
(* What the gate promises *)

Answers == [token: Nat, answer: {"y", "n"}]

TypeOK ==
    /\ pc \in {"think", "ask", "await", "reason", "apply", "wait"}
    /\ pending \in Changes \cup {NoChange} /\ approved \in Changes \cup {NoChange}
    /\ snapshot \subseteq Incidents /\ open \subseteq Incidents
    /\ arrived \subseteq Incidents /\ since \subseteq Incidents
    /\ asked \in Nat
    /\ keyboards \subseteq [token: Nat, proposal: 1..MaxProposals]
    /\ presses \in Seq(Answers)
    /\ callbacks \in Seq(Answers) /\ Len(callbacks) <= ChanCap
    /\ proposals \in Seq(Changes) /\ Len(proposals) <= MaxProposals
    /\ verdict \in [1..MaxProposals -> {"none", "y", "n"}]
    /\ pressed \in 0..MaxPresses /\ restarts \in 0..MaxRestarts

\* "A `y' tapped on a stale keyboard, or one already queued before this question
\* was asked, must never be read as approval of this change"
\* (telegram.go:110): a change is applied only if the first press on the
\* keyboard that shows it approved it, or one that showed the same change was
\* approved and the approval kept.
AppliedWasApproved ==
    pc = "apply" =>
        \E n \in 1..Current :
            /\ proposals[n] = pending /\ verdict[n] = "y"
            /\ n = Current \/ approved = pending

\* The same as long as the process that asks has asked every question there was.
OneProcessAppliesApproved == restarts = 0 => AppliedWasApproved

\* Presses on old keyboards, however many, never keep the answer to the open
\* question from being read.
AnswerIsRead ==
    pc = "await" /\ verdict[Current] # "none" ~> pc # "await"

\* "An approved change is re-validated against newly arrived incidents before
\* it is applied" (converse.go:23): none arrived between its staging and its
\* application that the human did not know of.
AppliedIsCurrent == pc = "apply" => since = {}
=============================================================================
