--------------------------- MODULE PatchDeployment ---------------------------
(***************************************************************************)
(* The tool patchDeployment: Execute reads a Deployment, has the API       *)
(* server try the patch without storing it, and stages the difference for  *)
(* the human; Apply patches for real; verifyRollout polls the Deployment   *)
(* until its status says that the rollout is complete, or for two minutes. *)
(*                                                                         *)
(*  - Each call is a step.  In between, users and other controllers change *)
(*    the Deployment, and its own controller runs the pods and, some time  *)
(*    later, writes the status counters.                                   *)
(*  - The human's decision is arbitrary here; who may decide what is       *)
(*    ApprovalGate's subject.                                              *)
(***************************************************************************)
EXTENDS Integers, FiniteSets, LineDiff

CONSTANTS
    Lines,          \* lines of a pod spec
    Initial,        \* pod specs a Deployment may have at first
    Patches,        \* what the model, and others, may patch
    Context,        \* unchanged lines shown around a change, 2 in the code
    MaxReplicas,    \* bound: replicas a Deployment may ask for
    MaxPolls,       \* polls before the deadline, 24 in the code
    MaxChanges      \* bound: patches applied and changes by others

\* A strategic merge patch names what it changes: a line to set, a line to
\* remove, or the number of replicas, which is no part of the template.
ASSUME PatchAssumption ==
    /\ Initial \subseteq Seq(Lines) \ {<<>>}
    /\ Patches \subseteq [set: Nat \ {0}, line: Lines] \cup [drop: Nat \ {0}]
                            \cup [replicas: 0..MaxReplicas]
ASSUME BoundAssumption ==
    /\ Context \in Nat /\ MaxReplicas \in Nat \ {0}
    /\ MaxPolls \in Nat /\ MaxChanges \in Nat

VARIABLES
    dep,        \* API server: the Deployment's spec and generation
    status,     \* API server: its status counters
    pods,       \* cluster: its pods, of the present template and of older ones,
                \* and how many of them all are available
    tool,       \* the goroutine that runs the tool
    result,     \* what verifyRollout returned
    applied,    \* history: the generation that Apply made
    complete,   \* history: the last generation the Deployment's own controller
                \* found rolled out
    changes     \* patches applied and changes by others

cluster == <<dep, status, pods>>
vars == <<dep, status, pods, tool, result, applied, complete, changes>>

Templates == Seq(Lines) \ {<<>>}

Patched(t, p) ==
    IF "set" \in DOMAIN p
    THEN IF p.set <= Len(t) THEN ReplaceAt(t, p.set, p.line) ELSE Append(t, p.line)
    ELSE IF "drop" \in DOMAIN p /\ p.drop <= Len(t) /\ Len(t) > 1
    THEN RemoveAt(t, p.drop) ELSE t

Merge(d, p) == [d EXCEPT !.template = Patched(d.template, p),
                         !.replicas = IF "replicas" \in DOMAIN p THEN p.replicas ELSE @]

Deployment == [there: BOOLEAN, gen: Nat \ {0}, template: Templates, replicas: 0..MaxReplicas]

\* The state of the tool, with the patch it is about to make, if any.
Tool == [pc: {"idle", "got", "staged", "verify"}, patch: SUBSET Patches,
         before: Seq(Lines), after: Seq(Lines), polls: 0..MaxPolls]
Counters == [observed: Nat, updated: Nat, replicas: Nat, available: Nat]

\* The API server: a spec that differs is a new generation, and with another
\* template every pod is an old one.
Store(d) ==
    LET new == d.template # dep.template \/ d.replicas # dep.replicas IN
    /\ dep' = [d EXCEPT !.gen = IF new THEN dep.gen + 1 ELSE dep.gen]
    /\ pods' = IF d.template # dep.template
               THEN [pods EXCEPT !.new = 0, !.old = @ + pods.new] ELSE pods

Idle == [pc |-> "idle", patch |-> {}, before |-> <<>>, after |-> <<>>, polls |-> 0]

\* A Deployment whose first rollout is complete.
Init ==
    /\ \E t \in Initial, n \in 1..MaxReplicas :
         /\ dep = [there |-> TRUE, gen |-> 1, template |-> t, replicas |-> n]
         /\ status = [observed |-> 1, updated |-> n, replicas |-> n, available |-> n]
         /\ pods = [new |-> n, old |-> 0, up |-> n]
    /\ tool = Idle
    /\ result = "none"
    /\ applied = 1 /\ complete = 1
    /\ changes = 0

-----------------------------------------------------------------------------
(* Everybody else *)

OthersChange ==
    /\ dep.there
    /\ changes < MaxChanges /\ changes' = changes + 1
    /\ \/ \E p \in Patches : Store(Merge(dep, p)) /\ dep' # dep
       \/ dep' = [dep EXCEPT !.there = FALSE] /\ UNCHANGED pods
    /\ UNCHANGED <<status, tool, result, applied, complete>>

\* The Deployment's controller starts pods of the present template and stops
\* superfluous ones; a pod becomes available, or ceases to be.
RunPods ==
    /\ dep.there
    /\ \/ pods.new < dep.replicas /\ pods' = [pods EXCEPT !.new = @ + 1]
       \/ pods.new > dep.replicas
          /\ pods' = [pods EXCEPT !.new = @ - 1, !.up = IF @ > pods.old THEN @ - 1 ELSE @]
       \/ pods.old > 0
          /\ pods' = [pods EXCEPT !.old = @ - 1, !.up = IF @ > pods.new THEN @ - 1 ELSE @]
       \/ pods.up < pods.new + pods.old /\ pods' = [pods EXCEPT !.up = @ + 1]
       \/ pods.up > 0 /\ pods' = [pods EXCEPT !.up = @ - 1]
    /\ UNCHANGED <<dep, status, tool, result, applied, complete, changes>>

\* It writes what it sees.
WriteStatus ==
    /\ dep.there
    /\ status' = [observed |-> dep.gen, updated |-> pods.new,
                  replicas |-> pods.new + pods.old, available |-> pods.up]
    /\ complete' = IF pods.old = 0 /\ pods.new = dep.replicas /\ pods.up = dep.replicas
                   THEN dep.gen ELSE complete
    /\ UNCHANGED <<dep, pods, tool, result, applied, changes>>

-----------------------------------------------------------------------------
(* The tool *)

Goto(t) == tool' = t /\ UNCHANGED <<cluster, result, applied, complete, changes>>

\* Execute: the Get.
Get(p) ==
    /\ tool.pc = "idle"
    /\ dep.there
    /\ changes < MaxChanges
    /\ Goto([Idle EXCEPT !.pc = "got", !.patch = {p}, !.before = dep.template])

\* Execute: the dry run, against whatever is stored by then; the diff is of the
\* two templates and is what the human sees.
DryRun ==
    /\ tool.pc = "got"
    /\ dep.there
    /\ \E p \in tool.patch :
          Goto([tool EXCEPT !.pc = "staged", !.after = Merge(dep, p).template])

\* A failed call, or a change the human did not approve.
Dropped ==
    /\ tool.pc \in {"got", "staged"}
    /\ Goto(Idle)

\* Apply: the patch, on whatever is stored by now.
Apply ==
    /\ tool.pc = "staged"
    /\ dep.there
    /\ changes < MaxChanges /\ changes' = changes + 1
    /\ \E p \in tool.patch : Store(Merge(dep, p))
    /\ applied' = dep'.gen
    /\ tool' = [Idle EXCEPT !.pc = "verify"]
    /\ result' = "none"
    /\ UNCHANGED <<status, complete>>

\* MUTANT: the counters alone, which may be those of the last rollout.
rolledOutByCounters ==
    /\ status.updated = dep.replicas
    /\ status.replicas = dep.replicas
    /\ status.available = dep.replicas

rolledOut ==
    /\ status.observed >= dep.gen
    /\ status.updated = dep.replicas
    /\ status.replicas = dep.replicas
    /\ status.available = dep.replicas

Return(r) ==
    /\ tool' = Idle
    /\ result' = r
    /\ UNCHANGED <<cluster, applied, complete, changes>>

\* MUTANT: there is no deadline.
NotYetEver == Goto([tool EXCEPT !.polls = @ + 1])

\* The deadline, after a poll that found nothing or failed; otherwise the ticker.
NotYet ==
    IF tool.polls = MaxPolls THEN Return("timed out")
    ELSE Goto([tool EXCEPT !.polls = @ + 1])

Poll ==
    /\ tool.pc = "verify"
    /\ dep.there
    /\ IF rolledOut THEN Return("complete") ELSE NotYet

\* MUTANT: a failed poll goes straight back to the ticker.
PollFailsUncounted ==
    /\ tool.pc = "verify"
    /\ UNCHANGED vars

PollFails ==
    /\ tool.pc = "verify"
    /\ NotYet

\* The scout shuts down.
Cancelled ==
    /\ tool.pc = "verify"
    /\ Return("cancelled")

-----------------------------------------------------------------------------

verifyRollout == Poll \/ PollFails

Next ==
    \/ OthersChange \/ RunPods \/ WriteStatus
    \/ \E p \in Patches : Get(p)
    \/ DryRun \/ Dropped \/ Apply \/ verifyRollout \/ Cancelled

\* The loop of verifyRollout runs, whatever its calls return.
Spec == Init /\ [][Next]_vars /\ WF_vars(verifyRollout)

-----------------------------------------------------------------------------
(* Properties *)

\* Every variable has its type; there are never more pods available than pods.
TypeOK ==
    /\ dep \in Deployment
    /\ status \in Counters
    /\ pods \in [{"new", "old", "up"} -> Nat] /\ pods.up <= pods.new + pods.old
    /\ tool \in Tool
    /\ tool.pc \in {"got", "staged"} => tool.before \in Templates
    /\ tool.pc = "staged" => tool.after \in Templates
    /\ result \in {"none", "complete", "timed out", "cancelled"}
    /\ applied \in 1..dep.gen /\ complete \in 1..dep.gen
    /\ changes \in 0..MaxChanges

TheDiff == lcsLineDiff(tool.before, tool.after, Context)

\* Who knows the pod spec as it was learns from the diff, line for line, what it
\* would be, and no line is shown as changed that need not be: nothing goes wrong
\* in the table, on the way back through it, or in the counted gaps, also when
\* others changed the spec between the two calls.  (lcsLineDiff)
DiffIsRight ==
    tool.pc = "staged" => /\ Tells(TheDiff, tool.before, tool.after)
                          /\ Least(TheDiff, tool.before, tool.after)

\* A rollout that verifyRollout calls complete was: the controller of the
\* Deployment found, for the generation Apply made or a later one, every pod to
\* be of its template and available.  (verifyRollout)
CompleteIsComplete == result = "complete" => complete >= applied

\* Verification ends, whatever happens to the Deployment and to the calls.
VerificationEnds == tool.pc = "verify" ~> tool.pc # "verify"
=============================================================================
