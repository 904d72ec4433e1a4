---------------------------- MODULE ScoutSession ----------------------------
(***************************************************************************)
(* The scout's session: one goroutine that claims queued incidents, holds  *)
(* one conversation about all of them and closes them, and the watch       *)
(* goroutine that feeds it.                                                *)
(*                                                                         *)
(*  - The watch delivers an event whenever an incident is stored in phase  *)
(*    Queued, and, each time it is established, one for every incident     *)
(*    queued at that moment.  Its goroutine moves them into a buffered     *)
(*    channel and blocks when that is full.                                *)
(*  - The session goroutine reads the channel only when it is idle or      *)
(*    waiting between two turns: never while the model runs, and never     *)
(*    while a question to the human is open.                               *)
(*  - What the model does with its tools, and what the human answers, is   *)
(*    arbitrary.  Every patch of the scout is without precondition.        *)
(*                                                                         *)
(* Only phases matter here.  "None" is an incident not created yet; "Gone" *)
(* is one that was deleted.  The same trigger on the same object raises it *)
(* again under its name, and a name is all the session knows it by.        *)
(***************************************************************************)
EXTENDS Integers, FiniteSets, SequencesExt, IncidentPhases

CONSTANTS
    Incidents,
    MaxOpen,        \* maxOpenIncidents, 12 in the code
    ChanCap,        \* buffer of the incident channel, 64 in the code
    Closings,       \* the terminal phases an outcome may name
    MaxMishaps      \* bound: names used again, dropped watches, restarts,
                    \* failed calls, second events, tool calls on incidents
                    \* that are closed or not held

ASSUME SessionAssumption ==
    /\ MaxOpen \in Nat \ {0} /\ ChanCap \in Nat \ {0} /\ MaxMishaps \in Nat
    /\ Closings \subseteq Terminal
    /\ IsFiniteSet(Incidents)

VARIABLES
    phase,      \* API server: the phase of each incident
    watch,      \* "up" or "down"
    feed,       \* events of the open watch not yet in the channel
    chan,       \* the incident channel
    pc,         \* where the session goroutine is
    pending,    \* incidents it is about to admit
    open,       \* incidents the conversation covers
    staged,     \* the approval gate holds a change
    asked,      \* the human opened this conversation
    missed,     \* history: not claimed when their turn came, and not announced
                \* again since
    abandoned,  \* history: claimed, and let go by an escalation, by a failed
                \* read, by the death of the process, or by a claim that was
                \* stored although its call failed
    reborn,     \* history: open, and since deleted and raised again
    mishaps

session == <<pc, pending, open, staged, asked>>
watcher == <<watch, feed, chan>>
history == <<missed, abandoned, reborn>>
vars == <<phase, watch, feed, chan, pc, pending, open, staged, asked, missed,
          abandoned, reborn, mishaps>>

Live(i) == phase[i] \notin Terminal \cup {"None", "Gone"}

\* MUTANT: everything the operator has dispatched.
BacklogAll == {i \in Incidents : phase[i] \notin {"None", "Detected", "Gone"}}

\* What Backlog lists, in the order of the names.
Backlog == {i \in Incidents : phase[i] \in {"Queued", "Assessing"}}

Mishap == mishaps < MaxMishaps /\ mishaps' = mishaps + 1

Init ==
    /\ phase = [i \in Incidents |-> "None"]
    /\ watch = "down" /\ feed = <<>> /\ chan = <<>>
    /\ pc = "boot"
    /\ pending = <<>>
    /\ open = {} /\ staged = FALSE /\ asked = FALSE
    /\ missed = {} /\ abandoned = {} /\ reborn = {}
    /\ mishaps = 0

-----------------------------------------------------------------------------
(* The operator and the users *)

\* The name is made of the trigger and the target, so that an incident that was
\* deleted may be raised again.  What is known of the old one does not count
\* for the new one.
Raise(i) ==
    /\ phase[i] \in {"None", "Gone"}
    /\ IF phase[i] = "None" THEN UNCHANGED mishaps ELSE Mishap
    /\ phase' = [phase EXCEPT ![i] = "Detected"]
    /\ reborn' = IF i \in open THEN reborn \cup {i} ELSE reborn
    /\ missed' = missed \ {i} /\ abandoned' = abandoned \ {i}
    /\ UNCHANGED <<watcher, session>>

\* An event of an open watch announces the incident, again or for the first time.
Emit(i) ==
    IF watch = "up" THEN feed' = Append(feed, i) /\ missed' = missed \ {i}
    ELSE UNCHANGED <<feed, missed>>

OperatorQueues(i) ==
    /\ phase[i] = "Detected"
    /\ phase' = [phase EXCEPT ![i] = "Queued"]
    /\ Emit(i)
    /\ UNCHANGED <<watch, chan, session, mishaps, abandoned, reborn>>

\* Another change to an incident that is still queued: a second event.
Touch(i) ==
    /\ phase[i] = "Queued"
    /\ Mishap
    /\ Emit(i)
    /\ UNCHANGED <<phase, watch, chan, session, abandoned, reborn>>

DeleteIncident(i) ==
    /\ phase[i] \notin {"None", "Gone"}
    /\ phase' = [phase EXCEPT ![i] = "Gone"]
    /\ UNCHANGED <<watcher, session, mishaps, history>>

-----------------------------------------------------------------------------
(* The watch goroutine *)

\* MUTANT: the watch starts from the newest version and lists nothing.
WatchOpensSilently ==
    /\ watch = "down"
    /\ pc # "boot"
    /\ watch' = "up"
    /\ feed' = <<>>
    /\ missed' = {}
    /\ UNCHANGED <<phase, chan, session, mishaps, abandoned, reborn>>

\* Without a resource version a watch starts with every object there is.
WatchOpens ==
    /\ watch = "down"
    /\ pc # "boot"
    /\ watch' = "up"
    /\ feed' = SetToSeq({i \in Incidents : phase[i] = "Queued"})
    /\ missed' = {}
    /\ UNCHANGED <<phase, chan, session, mishaps, abandoned, reborn>>

WatchDrops ==
    /\ watch = "up"
    /\ Mishap
    /\ watch' = "down"
    /\ feed' = <<>>
    /\ UNCHANGED <<phase, chan, session, history>>

\* MUTANT: a full channel drops the event.
DeliverOrDrop ==
    /\ feed # <<>>
    /\ chan' = IF Len(chan) < ChanCap THEN Append(chan, Head(feed)) ELSE chan
    /\ feed' = Tail(feed)
    /\ UNCHANGED <<phase, watch, session, mishaps, history>>

\* drain in watcher.go
Deliver ==
    /\ feed # <<>>
    /\ Len(chan) < ChanCap
    /\ chan' = Append(chan, Head(feed))
    /\ feed' = Tail(feed)
    /\ UNCHANGED <<phase, watch, session, mishaps, history>>

-----------------------------------------------------------------------------
(* The session: run *)

\* Run: the incidents a previous process left.
Boot ==
    /\ pc = "boot"
    /\ pending' = SetToSeq(Backlog)
    /\ pc' = "admit"
    /\ UNCHANGED <<phase, watcher, open, staged, asked, mishaps, history>>

IdleIncident ==
    /\ pc = "idle"
    /\ chan # <<>>
    /\ pending' = <<Head(chan)>>
    /\ chan' = Tail(chan)
    /\ pc' = "collect"
    /\ UNCHANGED <<phase, watch, feed, open, staged, asked, mishaps, history>>

IdleHuman ==
    /\ pc = "idle"
    /\ asked' = TRUE
    /\ pc' = "admit"
    /\ UNCHANGED <<phase, watcher, pending, open, staged, mishaps, history>>

\* collect: whatever arrives before it gets quiet, or the ceiling is reached.
Collect ==
    /\ pc = "collect"
    /\ chan # <<>>
    /\ pending' = pending \o chan
    /\ chan' = <<>>
    /\ UNCHANGED <<phase, watch, feed, pc, open, staged, asked, mishaps, history>>

Settle ==
    /\ pc = "collect"
    /\ pc' = "admit"
    /\ UNCHANGED <<phase, watcher, pending, open, staged, asked, mishaps, history>>

Full == Cardinality(open) >= MaxOpen

\* MUTANT: the cap is forgotten.
AdmitUncapped ==
    /\ pc \in {"admit", "burst"}
    /\ pending # <<>>
    /\ LET i == Head(pending)
           claimed == i \notin open /\ phase[i] # "Gone"
       IN  /\ open' = IF claimed THEN open \cup {i} ELSE open
           /\ phase' = IF claimed THEN [phase EXCEPT ![i] = "Assessing"] ELSE phase
           /\ missed' = IF i \in reborn THEN missed \cup {i} ELSE missed \ {i}
    /\ pending' = Tail(pending)
    /\ abandoned' = IF Head(pending) \in open' THEN abandoned \ {Head(pending)} ELSE abandoned
    /\ UNCHANGED <<watcher, pc, staged, asked, reborn, mishaps>>

\* admit and Claim, for the next pending incident: skipped when its name is held
\* already or the conversation is full; a claim of a deleted one fails.
Admit ==
    /\ pc \in {"admit", "burst"}
    /\ pending # <<>>
    /\ LET i == Head(pending)
           claimed == i \notin open /\ ~Full /\ phase[i] # "Gone"
       IN  /\ open' = IF claimed THEN open \cup {i} ELSE open
           /\ phase' = IF claimed THEN [phase EXCEPT ![i] = "Assessing"] ELSE phase
           /\ missed' = IF i \in reborn \/ (i \notin open /\ Full)
                        THEN missed \cup {i} ELSE missed \ {i}
    /\ pending' = Tail(pending)
    /\ abandoned' = IF Head(pending) \in open' THEN abandoned \ {Head(pending)} ELSE abandoned
    /\ UNCHANGED <<watcher, pc, staged, asked, reborn, mishaps>>

\* A call that fails: it was refused or lost on its way, or the claim was stored
\* and only the answer was lost.
ClaimLost(i) ==
    \/ UNCHANGED <<phase, abandoned>>
    \/ /\ phase[i] # "Gone"
       /\ phase' = [phase EXCEPT ![i] = "Assessing"]
       /\ abandoned' = abandoned \cup {i}

\* MUTANT: the incident is held although its claim failed.
ClaimFailsHeld ==
    /\ pc \in {"admit", "burst"}
    /\ pending # <<>>
    /\ Head(pending) \notin open /\ ~Full
    /\ Mishap
    /\ ClaimLost(Head(pending))
    /\ open' = open \cup {Head(pending)}
    /\ missed' = missed \cup {Head(pending)}
    /\ pending' = Tail(pending)
    /\ UNCHANGED <<watcher, pc, staged, asked, reborn>>

\* The patch fails for another reason: logged, and left to a later attempt.
ClaimFails ==
    /\ pc \in {"admit", "burst"}
    /\ pending # <<>>
    /\ Head(pending) \notin open /\ ~Full
    /\ Mishap
    /\ ClaimLost(Head(pending))
    /\ missed' = missed \cup {Head(pending)}
    /\ pending' = Tail(pending)
    /\ UNCHANGED <<watcher, pc, open, staged, asked, reborn>>

\* The outer loop goes on to converse, if there is something to talk about.
Converse ==
    /\ pc = "admit"
    /\ pending = <<>>
    /\ pc' = IF open = {} /\ ~asked THEN "idle" ELSE "think"
    /\ staged' = FALSE
    /\ UNCHANGED <<phase, watcher, pending, open, asked, mishaps, history>>

\* converse returned nil: the set of open incidents is emptied.
Reset ==
    /\ pc = "reset"
    /\ open' = {}
    /\ abandoned' = abandoned \cup open
    /\ reborn' = {}
    /\ asked' = FALSE
    /\ staged' = FALSE
    /\ pc' = "idle"
    /\ UNCHANGED <<phase, watcher, pending, mishaps, missed>>

-----------------------------------------------------------------------------
(* The session: one conversation *)

\* Out of turn: a patch of an incident that is not held, or is closed already.
Turn(i) == IF i \in open /\ Live(i) THEN UNCHANGED mishaps ELSE Mishap

\* patchDeployment stages a change (it is refused while one is staged), and
\* markAwaitingApproval records it when only one incident is open; a write that
\* fails is only reported.
StageChange ==
    /\ pc = "think"
    /\ ~staged
    /\ staged' = TRUE
    /\ IF Cardinality(open) = 1
       THEN \E i \in open :
              \/ phase[i] # "Gone" /\ Turn(i) /\ phase' = [phase EXCEPT ![i] = "AwaitingApproval"]
              \/ phase[i] = "Gone" /\ UNCHANGED <<phase, mishaps>>
              \/ phase[i] # "Gone" /\ Mishap /\ UNCHANGED phase
       ELSE UNCHANGED <<phase, mishaps>>
    /\ UNCHANGED <<watcher, pc, pending, open, asked, history>>

\* updateIncidentStatus, with the name of any incident.
ModelCloses(i) ==
    /\ pc = "think"
    /\ phase[i] \notin {"None", "Gone"}
    /\ Turn(i)
    /\ \E p \in Closings \ {"Applied"} : phase' = [phase EXCEPT ![i] = p]
    /\ UNCHANGED <<watcher, session, history>>

\* resolveTargets: the named incidents that are open; if none is named, the
\* only one there is.
Targets(names) == IF names # {} THEN names \cap open
                  ELSE IF Cardinality(open) = 1 THEN open ELSE {}

\* The targets that are still there, and so can be written.
Writable(names) == {i \in Targets(names) : phase[i] # "Gone"}

\* MUTANT: an incident leaves the conversation although its phase was not written.
FlushAll(names, p) ==
    \E written \in SUBSET Writable(names) :
       /\ IF written = Writable(names) THEN UNCHANGED mishaps ELSE Mishap
       /\ phase' = [i \in Incidents |-> IF i \in written THEN p ELSE phase[i]]
       /\ open' = open \ Targets(names)
       /\ reborn' = reborn \cap open'

\* flushOutcomes: one whose patch fails, or that is gone, stays open, although
\* a patch that failed may have been stored.
Flush(names, p) ==
    \E written \in SUBSET Writable(names) : \E done \in SUBSET written :
       /\ IF done = Writable(names) THEN UNCHANGED mishaps ELSE Mishap
       /\ phase' = [i \in Incidents |-> IF i \in written THEN p ELSE phase[i]]
       /\ open' = open \ done
       /\ reborn' = reborn \cap open'

\* escalate: the outcome is recorded and the conversation ends at once.
Escalate ==
    /\ pc = "think"
    /\ \E names \in SUBSET Incidents : Flush(names, "Escalated")
    /\ pc' = "reset"
    /\ UNCHANGED <<watcher, pending, staged, asked, missed, abandoned>>

\* The model ends its turn: the gate, if it is armed, takes over.
EndTurn ==
    /\ pc = "think"
    /\ pc' = IF staged THEN "gate" ELSE "reap"
    /\ UNCHANGED <<phase, watcher, pending, open, staged, asked, mishaps, history>>

\* The human rejects, the change fails to apply, or does not settle.
NotApplied ==
    /\ pc = "gate"
    /\ staged' = FALSE
    /\ pc' = "think"
    /\ UNCHANGED <<phase, watcher, pending, open, asked, mishaps, history>>

\* The human approves, and the change is applied and verified.
Applied ==
    /\ pc = "gate"
    /\ \E names \in SUBSET Incidents : Flush(names, "Applied")
    /\ staged' = FALSE
    /\ pc' = "think"
    /\ UNCHANGED <<watcher, pending, asked, missed, abandoned>>

\* MUTANT: only incidents that are gone are dropped, not closed ones.
ReapGone ==
    /\ pc = "reap"
    /\ open' = {i \in open : phase[i] # "Gone"}
    /\ reborn' = reborn \cap open'
    /\ pc' = IF open' = {} THEN "reset" ELSE "wait"
    /\ UNCHANGED <<phase, watcher, pending, staged, asked, mishaps, missed, abandoned>>

\* reap: forget what is closed or gone, and what could not be read just now;
\* nothing left ends the conversation.
Reap ==
    /\ pc = "reap"
    /\ \E unread \in SUBSET open :
         /\ IF unread = {} THEN UNCHANGED mishaps ELSE Mishap
         /\ open' = {i \in open : Live(i)} \ unread
         /\ abandoned' = abandoned \cup unread
         /\ reborn' = reborn \cap open'
    /\ pc' = IF open' = {} THEN "reset" ELSE "wait"
    /\ UNCHANGED <<phase, watcher, pending, staged, asked, missed>>

\* The three ways out of the select between two turns.
HumanSpeaks ==
    /\ pc = "wait"
    /\ pc' = "think"
    /\ UNCHANGED <<phase, watcher, pending, open, staged, asked, mishaps, history>>

Burst ==
    /\ pc = "wait"
    /\ chan # <<>>
    /\ pending' = chan
    /\ chan' = <<>>
    /\ pc' = "burst"
    /\ UNCHANGED <<phase, watch, feed, open, staged, asked, mishaps, history>>

\* The ticker; a backlog that cannot be listed is none.
Resync ==
    /\ pc = "wait"
    /\ \/ pending' = SetToSeq(Backlog) /\ UNCHANGED mishaps
       \/ pending' = <<>> /\ Mishap
    /\ pc' = "burst"
    /\ UNCHANGED <<phase, watcher, open, staged, asked, history>>

\* The loop turns to the model again, whether or not anything was admitted.
BurstEnds ==
    /\ pc = "burst"
    /\ pending = <<>>
    /\ pc' = "think"
    /\ UNCHANGED <<phase, watcher, pending, open, staged, asked, mishaps, history>>

-----------------------------------------------------------------------------

\* The process dies (the model's API fails for good, the pod is replaced) and
\* starts over with nothing but the Incidents.
Restart ==
    /\ pc # "boot"
    /\ Mishap
    /\ pc' = "boot"
    /\ watch' = "down" /\ feed' = <<>> /\ chan' = <<>>
    /\ pending' = <<>>
    /\ open' = {} /\ staged' = FALSE /\ asked' = FALSE
    /\ abandoned' = abandoned \cup open
    /\ reborn' = {}
    /\ UNCHANGED <<phase, missed>>

Outside(i) == Raise(i) \/ OperatorQueues(i) \/ Touch(i) \/ DeleteIncident(i)

Next ==
    \/ \E i \in Incidents : Outside(i) \/ ModelCloses(i)
    \/ WatchOpens \/ WatchDrops \/ Deliver
    \/ Boot \/ IdleIncident \/ IdleHuman \/ Collect \/ Settle
    \/ Admit \/ ClaimFails \/ Converse \/ Reset
    \/ StageChange \/ Escalate \/ EndTurn \/ NotApplied \/ Applied \/ Reap
    \/ HumanSpeaks \/ Burst \/ Resync \/ BurstEnds
    \/ Restart

Spec == Init /\ [][Next]_vars

\* The goroutines run; the model ends its turns and does not propose changes
\* for ever; the human answers what the gate asks, and owes nothing else.  The
\* ticker ticks, and its tick waits.  A select between several ready channels
\* chooses at random, so that neither tick nor incidents are passed over for ever.
Fairness ==
    /\ WF_vars(WatchOpens) /\ WF_vars(Deliver)
    /\ WF_vars(Boot \/ IdleIncident \/ Settle \/ Admit \/ Converse \/ Reset \/ Reap \/ BurstEnds)
    /\ WF_vars(NotApplied \/ Applied)
    /\ SF_vars(EndTurn) /\ SF_vars(EndTurn /\ ~staged)
    /\ SF_vars(Resync) /\ SF_vars(Burst) /\ SF_vars(IdleIncident)

FairSpec == Spec /\ Fairness

-----------------------------------------------------------------------------
(* What the session promises *)

Steps == {"boot", "idle", "collect", "admit", "think", "gate", "reap", "wait",
          "burst", "reset"}

TypeOK ==
    /\ phase \in [Incidents -> Phases \cup {"Gone"}]
    /\ watch \in {"up", "down"}
    /\ feed \in Seq(Incidents)
    /\ chan \in Seq(Incidents) /\ Len(chan) <= ChanCap
    /\ pc \in Steps
    /\ pending \in Seq(Incidents)
    /\ open \subseteq Incidents /\ Cardinality(open) <= MaxOpen
    /\ staged \in BOOLEAN /\ asked \in BOOLEAN
    /\ missed \subseteq Incidents /\ abandoned \subseteq Incidents /\ reborn \subseteq open
    /\ mishaps \in 0..MaxMishaps

\* What the conversation covers was claimed: the Incident says that a scout has
\* it.  "It is what distinguishes `nobody has looked at this' from `a scout has
\* it', which matters after a restart" (watcher.go:137).  The exception is an
\* incident that took the name of a deleted one while the conversation still
\* covers that.
OpenIsClaimed ==
    \A i \in open : phase[i] \in {"None", "Detected", "Queued"} => i \in reborn

\* Incidents on their way to admit.
Arriving == ToSet(feed) \cup ToSet(chan) \cup ToSet(pending)

\* While the watch is up, a queued incident is on its way, unless its turn came
\* and it could not be claimed: the conversation was full (session.go:113), the
\* claim failed (117), or a deleted one of its name was still held (110).
\* Neither a full channel, nor a reconnect, nor a restart between Backlog and
\* Watch hides one from the session.
QueuedIsArriving ==
    watch = "up" =>
        \A i \in Incidents : phase[i] = "Queued" => i \in Arriving \cup missed

\* A queued incident's turn comes: it is claimed, closed by somebody else, or
\* missed, for one of the three reasons above.
QueuedHasItsTurn ==
    \A i \in Incidents : phase[i] = "Queued" ~> phase[i] # "Queued" \/ i \in missed

\* An incident that was missed has its turn again: "A claim that fails is logged
\* rather than fatal -- another attempt happens on the next resync"
\* (session.go:107).
MissedIsTriedAgain ==
    \A i \in Incidents :
       phase[i] = "Queued" /\ i \in missed ~> phase[i] # "Queued" \/ i \in Arriving

\* An incident that was closed, by whomever, leaves the conversation (reap),
\* unless a change staged for it reopens it first, or one of its name is raised.
ClosedIsDropped ==
    \A i \in Incidents : i \in open /\ ~Live(i) ~> i \notin open \/ Live(i)

\* An incident that says a scout has it is in the conversation, unless the scout
\* let it go in one of four ways: an escalation that ended the conversation for
\* more than it names, a read that failed in reap, the death of the process, a
\* claim that was stored although its call failed.  In particular an outcome
\* whose write failed keeps its incident open.  (flushOutcomes, reap, run, admit)
ClaimedIsHeld ==
    \A i \in Incidents :
       phase[i] \in {"Assessing", "AwaitingApproval"} => i \in open \cup abandoned

\* "Conversation ended: every incident it covered is closed" (session.go:102).
EndedIsClosed == pc = "reset" => \A i \in open : ~Live(i)

\* A closed incident that has left the conversation and is not on its way to it
\* stays closed, and is never on its way again, until it is deleted: what brings
\* incidents back (the backlog, the resync, a new watch) looks at the phase.
\* (Backlog, Watch)
Finished(i) == phase[i] \in Terminal /\ i \notin open \cup Arriving
FinishedStays == [][\A i \in Incidents : Finished(i) => Finished(i)' \/ phase'[i] = "Gone"]_vars

\* The same of every closed incident.  "Terminal phases: the scout is finished,
\* so its permissions go" (incident_controller.go:64).
NoneComesBack ==
    \A i \in Incidents : phase[i] \in Terminal => phase'[i] \in Terminal \cup {"Gone"}
TerminalIsFinal == [][NoneComesBack]_vars
=============================================================================
