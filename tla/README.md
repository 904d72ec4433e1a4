# goblin-operator, verified

TLA+ models, TLC configurations and TLAPS proofs for the operator
(`operator/`) and the scout (`agent/`) of this repository.

## The system

A cluster runs two processes of ours, which share nothing but the API server.

| component | code | state it keeps | operations |
|---|---|---|---|
| IncidentDetector, one per kind | `operator/internal/controller/incident_detector.go` | work queue, cached copies | match an object, check for an incident of it, create one, write `Detected` |
| PolicyReconciler, Registry | `incidentpolicy_controller.go`, `detection/` | work queue; compiled policies by kind, in memory | compile, delete, set, report |
| IncidentReconciler | `incident_controller.go` | work queue, cached copies | dispatch, finalizer, deletion |
| GrantManager | `grants.go` | RoleBindings on the API server | Grant, Revoke, Sweep |
| GrantSweeper | `grant_sweeper.go` | none | sweep at the start and every five minutes |
| ScoutReconciler, ScoutBootstrap | `scout_deployment.go` | the scout's Deployment | Ensure |
| IncidentWatcher | `agent/internal/scout/watcher.go` | the incident channel (64) | Backlog, Watch, Claim |
| session | `scout/session.go`, `collect.go`, `scout.go` | open incidents | idle, admit, converse, reset |
| conversation | `scout/converse.go` | transcript, the hooks' `approved` | turn, tools, outcomes, reap, select |
| ApprovalGate | `tools/approval.go` | the staged change, one outcome | Stage, AfterTurn, apply |
| patchDeployment | `tools/patch_deployment.go` | the patch it staged | dry run, diff, apply, rollout check |
| Telegram | `messenger/telegram.go` | question counter, text and callback channels (8 each) | poll, Ask, offer |
| input broker, terminal | `scout/input.go`, `messenger/tty.go` | one buffered line | read, Ask |
| LLM clients | `llm/` | none | translate, send, retry |

They interact through the Incident (its phase, finalizer and deletion mark) and
the RoleBindings: the detector creates an Incident and marks it `Detected`; the
reconciler adds its finalizer, creates the RoleBindings of its policy and marks
it `Queued`; the scout claims it (`Assessing`), may stage a change
(`AwaitingApproval`), and closes it (`Applied`, `Rejected`, `Escalated`,
`HandedOff`); the reconciler then revokes the bindings, and the sweeper removes
what the reconciler missed. Within the scout, the watch goroutine feeds the
session through a channel, the poller and the broker feed it the human's lines,
and the poller feeds the gate the human's presses. Within the operator, the
policy goroutine and the detectors share the Registry.

What is hard about it:

- the operator reads from informers that lag behind its own writes, and its
  writes are refused when their copy is old; the scout patches with no
  precondition at all;
- two goroutines of the operator (reconciler, sweeper) delete the same bindings,
  which are named after the incident and not after its UID; two others (the
  bootstrap and the reconciler) keep the same Deployment; several detectors read
  a Registry that is taken down and put up again policy by policy;
- every call may fail and either process may die between two calls; what is in
  memory (Registry, transcript, open set, question counter) is lost then;
- the scout gets an incident more than once (backlog, first events of a watch,
  later events, resync), at times when it cannot take it, through a bounded
  channel it reads only now and then;
- the human answers late, twice, or on a keyboard of long ago, and writes when
  nobody listens;
- a Deployment is patched by others between the dry run and the patch, and its
  status counters lag behind;
- a transcript that a provider refuses is refused for good, because all of it is
  sent every time.

What makes each component correct:

- *policies and detection*: the Registry ends up with what the policies say; a
  match becomes an incident, and one only once the operator can see it;
- *reconciler and grants*: no binding before the finalizer; `Queued` only with
  every promised binding; nothing recorded by others is taken back; every
  incident dispatched; a deleted incident goes; no binding stays for good after
  its incident ended;
- *scout Deployment*: never two scouts; nobody's edits lost; it comes to rest as
  wanted;
- *session*: what it holds was claimed, and what is claimed is held; a queued
  incident is on its way or was seen; what is closed leaves the conversation and does not
  come back;
- *gate and messenger*: nothing is applied that the human did not approve on
  the keyboard that showed it; the answer is read;
- *the tool*: the diff shown is right; a rollout called complete was complete;
- *texts*: heard in order, once; of those dropped none is newer than one that waits;
- *conversation*: every tool call has its answer where the provider looks for it;
  both providers are sent all that was said; every open incident was described.

## Modules

| module | what it models |
|---|---|
| `IncidentPhases` | the phases and their classes |
| `GrantLifecycle` | detector (`RaiseIncident`, `MarkDetected`), informers (`SyncIncident`, `SyncBindings`), reconciler (`Reconcile` ... `RemoveFinalizer`), sweeper (`SweepList` ...), scout and users as far as they touch the objects |
| `IncidentPermission` | the abstract specification: what an incident and its permissions go through |
| `GrantRefinement` | `GrantLifecycle` implements `IncidentPermission` |
| `Detection` | users, informers, policy goroutine (`ReconcilePolicy`, `Delete`, `Publish`, `WriteStatus` ...), one detector goroutine for each kind (`Inspect`, `ListIncidents`, `Create`, `MarkDetected`), restarts |
| `ScoutDeployment` | `Ensure` from its two callers, users, the Deployment controller, upgrades |
| `ScoutSession` | watch goroutine (`WatchOpens`, `WatchDrops`, `Deliver`), session goroutine (`Boot`, `IdleIncident`, `Collect`, `Admit`, `Converse`, `Reset`), one conversation (`StageChange`, `Escalate`, `EndTurn`, `Reap`, `Burst`, `Resync` ...) |
| `ApprovalGate` | staging, asking, the callback channel, approval, rejection, apply |
| `LineDiff` | `lcsLineDiff`: table, walk back, gaps |
| `PatchDeployment` | the tool (`Get`, `DryRun`, `Apply`, `verifyRollout`), others who patch, the Deployment controller; uses `LineDiff` |
| `HumanChannel` | Telegram, the poller, the broker, the session's places to read |
| `Conversation` | transcript, tools, retries, the translation for OpenAI |
| `GrantLifecycleProofs`, `DetectionProofs`, `ScoutDeploymentProofs`, `ScoutSessionProofs`, `ApprovalGateProofs`, `PatchDeploymentProofs`, `HumanChannelProofs`, `ConversationProofs` | theorems about the module of that name; `GrantLifecycleProofs` also about `GrantRefinement` |
| `MCGrantLifecycle`, `MCDetection`, `MCScoutDeployment`, `MCScoutSession`, `MCApprovalGate`, `MCPatchDeployment`, `MCHumanChannel`, `MCConversation` | instances for TLC |

The modules meet at the phases (`IncidentPhases`) and at the writes that each makes
on behalf of the others: the scout in `GrantLifecycle` writes any phase at any
time, so that whatever `ScoutSession` does is among it; the operator in
`ScoutSession` is `Raise`, of a new name or one used before, and `OperatorQueues`, the
users `DeleteIncident`; the incidents of
`Detection` are those of `RaiseIncident`. The tools and the human of `ScoutSession`
are arbitrary, so that `ApprovalGate`, `PatchDeployment`, `HumanChannel` and
`Conversation` each look into one of its steps. Composing them into one state
space would multiply what each leaves arbitrary and add no interleaving that
the arbitrary choice does not have.

A definition that precedes another and is marked `MUTANT` is a wrong version of
it, with which the properties it is about fail; it is used by no specification.

**GrantLifecycle.** `inc` and `bound` are the API server. An incident carries
the number of its `life`, the count of objects created under its name, which
stands for the UID. `cache` and `rbCache` are the informers' copies; instead of
resource versions each copy has a flag `fresh`, lost at the first later write,
because all the code can learn from a resource version is whether its own is
still the latest. `rec` and `sweep` are the two goroutines: a `pc` and the local
variables that live across calls, one step per call. `Reconcile` reads the cached
incident and picks the handler; `Saved` is any successful update; `StatusConflict`
is the conflict `statusUpdate` swallows, `UpdateRefused` the one that comes back
as an error, `CallFails` any other error. A policy is read anew by each attempt
and may have changed. `madeFor`, `promised` and `closed` are history, read by
properties only. Hand-edited bindings and a scout namespace that differs from
the incident's are left out.

**IncidentPermission, GrantRefinement.** The abstract specification has no caches,
queues, calls or crashes: an incident is raised, held, handed over, worked on,
deleted, and vanishes; roles are granted for it while it is held, and revoked when
that is due. The mapping reads the stage off existence, deletion mark and
finalizer, the duty off the phase, and splits the bindings of a name by the life
they were made for (`madeFor`) into the incident's own and those left by earlier
ones. The abstract `MayRevoke` has the escape `lives > 1` because of the race
that `grant_race` shows: once a name was used twice, a sweep of the first life
may take what the second was granted. `GrantLate` is the reconciler that binds a
role for an incident that is gone by now.

**Detection.** `pol`, `obj` and `incs` are the API server, with cached copies like
those of `GrantLifecycle`. A policy has the spec a user wrote and a condition with
the verdict and whether it is of this generation (`seen`). The CEL library is
external: an expression is known by what it does. `comp` is the policy goroutine
(`Delete` and `Publish` are separate steps, because the Registry locks each
operation and nothing longer); `det[k]` is the detector of kind `k`. The trigger
is part of an incident's name, so that `incs` is a set of pairs. `settled` is
history. Not modelled: that a trigger makes an invalid name, for which `Create` is
refused for ever.

**ScoutDeployment.** `dep` is the Deployment with the fields the operator owns and
one (`other`) that it does not; `defaulted` tells what the server stored from what
`desired` builds, which is why the two never compare equal. `ensure[c]` is one run
of `Ensure`, `Get` then `Create` or `Update`. Pods are counted by template:
`new`, `old`, and `orphan` for those whose Deployment was deleted by hand. `meddled`
is history: a user touched the Deployment, and whether operator and cluster have
answered that.

**ScoutSession.** Only phases matter; `Admit` is `admit` with `Claim`, one incident
at a time. What the model does with its tools is any sequence of proposals,
status writes and escalations; what the human answers is arbitrary. An event that
is not `Queued` is not an event for the scout, so `feed` holds names of queued
incidents. The API server, when a watch starts without a resource version, sends
every object first (`WatchOpens`); client and server are external. A name that was
deleted may be raised again, as in `GrantLifecycle`, and the session, which knows
incidents by name, takes the new one for the old as long as it holds that: `reborn`,
a history variable, has those names. `missed` is history: incidents that
were not claimed when their turn came, because the conversation was full, the claim
failed, or a deleted one of their name was still held, and which no event has
announced since. So is `abandoned`: incidents claimed once, and let go by an
escalation, by a failed read, by the death of the process, or by a claim that was
stored although its call failed. A patch that fails may have been stored, in
`ClaimLost` (a claim) and `Flush` (an outcome); the answers of the scout's other
writes change nothing in the session.

**ApprovalGate.** One conversation after another, with the gate's fields
(`pending`), the hooks' (`snapshot`, `approved`) and the messenger's (`asked`,
`callbacks`). `keyboards` is the chat: each shows a proposal and carries a
token. `presses` wait at Telegram until fetched. `verdict` is history: the first
answer the human gave on the keyboard of each proposal. `Approve` spells out the
`OnApprove` hook, both branches, though only one can happen. Text messages, and
the success of a write, are left out.

**LineDiff, PatchDeployment.** A pod spec is a sequence of lines. `lcsLineDiff`
follows the code: the table of longest common subsequences, the walk back from
its end, the lines around a change and the counted gaps between. `Tells` and
`Least` are the reference. A reader who has the old text (`Follow`) learns the new
one from the diff, gaps included; and no choice of lines that the two texts have in
common (`InCommon`, by the positions of the lines in each) is larger than the lines
that the diff leaves unchanged. A patch sets a line, drops one, or changes the replicas,
which the diff does not show. `Store` is the API server (a new generation for each
change of the spec), `RunPods` and `WriteStatus` the Deployment controller, whose
counters are those of the generation it observed.

**HumanChannel.** Texts are numbered; `server` is what Telegram keeps, `fetched`
how much of that this process was given, `updates` what the poller has still to
work on, `full` the text it found no room for. The client library fetches ahead of
the poller: it asks for more, which confirms what it was given, while up to
`UpdateCap` updates (100 in the library) wait. What was confirmed and not worked on
is lost with the process. `hand` is the broker's line, `lines`
its channel. `mode` is where the session is: busy, listening, asking with buttons,
or asking for a reason. `heard`, `dropped` and `lost` are history. A press is known
by its question.

**Conversation.** A message is a role with blocks, as in `llm/types.go`: texts by
the incidents they describe, tool calls by id and tool, results by the id of their
call. `Wire` is what goes out: for OpenAI the translation of `toOpenAIRequest`,
which takes the results of a message apart into messages of their own. `cut` is an
answer that ended for length with tool calls in it.

## Runs

| run | configuration | shows |
|---|---|---|
| `grant_safety` | 1 incident name, 2 lives, 2 mishaps, 2 roles of which 1 is bindable, 2 policies; 2.0 million states | finalizer before grants, promised grants stay (first life), nothing taken back; the abstract specification is implemented |
| `grant_liveness` | the same, 1 life, 1 mishap, fair | dispatched, deleted, and cleaned up in the end |
| `grant_race` | 2 lives, no mishap | **violated**: the sweeper takes the grant of a live incident |
| `session_safety` | 3 incidents, conversation for 2, channel of 2, 1 mishap; 13.3 million states | held means claimed and the other way round, queued means on its way, up to the named exceptions; what has closed and left stays closed |
| `session_liveness` | 2 incidents, conversation for 1, channel of 1, 1 mishap, fair; 111 thousand states | every queued incident has its turn; closed ones are dropped |
| `gate_safety` | 2 changes, 3 proposals, 3 presses, channel of 1, 1 restart, fair | approved by whom, on what; answers are read |
| `gate_restart` | 2 proposals, 2 presses, 1 restart | **violated**: an old button approves a new change |
| `detection` | 2 policies, 6 specs, 2 kinds with a detector and 1 without, 1 object, 3 edits, 1 mishap, fair; 251 thousand states | Registry follows policies, failed calls lose no match that the Registry goes on holding, no incident twice once one is shown |
| `scout_deployment` | 2 versions, 2 edits, 1 status write, 2 mishaps, fair; 132 thousand states | one scout, nobody's edit lost, rest |
| `patch_deployment` | texts of 1 and 5 lines over 2 letters, context of 1, 1 replica, 1 poll, 2 changes, fair; 455 thousand states | the diff is right, complete is complete, the check ends |
| `human_channel` | channels of 2 and 1, fetching ahead by 1, 4 texts, 2 presses, 1 question, 1 restart, fair; 282 thousand states | order, only what is older than all that waits is dropped and never the newest, every text heard in the end |
| `conversation` | 3 incidents, 2 attempts, 2 tool calls, 5 messages, both providers, fair; 1.6 million states | tool calls answered, nothing lost in translation, incidents described, retries end |

### What the violations are

- *The sweeper takes a live grant* (`grant_race`). It looks up an incident that is
  gone, the same name is raised and granted again (`AlreadyExists` counts), and
  then it deletes the binding. `grants.go:223` believes that the UID is in the
  name. `FirstLifeIsGranted` shows that without reuse of a name this cannot happen.
- *Old buttons* (`gate_restart`). Tokens start at 1 in every process.
  `OneProcessAppliesApproved`, which is proved, shows that within one process this
  cannot happen.

### Disagreements without a run

The modules keep six properties that say what a comment promises and the code
does not do. Added as `INVARIANT` or `PROPERTY` to a configuration with at most two
incidents, objects or changes, TLC finds each violated at once; where it takes a
mishap or fairness, this is said.

- `NoGrantOutlives` (`GrantLifecycle`): the reconciler grants and queues; the
  incident is deleted; the reconciler's `Revoke` lists the bindings from a cache
  that does not show them yet (`grants.go:150`), finds none and removes the
  finalizer. The comment promises "never" (`incident_controller.go:54`); the code
  delivers "until the next sweep", which `EndedGrantGoes` shows and which is
  probably enough.
- `MissedIsTriedAgain` (`ScoutSession`; fair, one mishap): the resync is a ticker of the
  conversation (`converse.go:182`). When a claim fails and nothing else is open, the
  session goes back to idle, which waits for events and the human only
  (`session.go:63`, against `session.go:107`); the incident stays `Queued` until a
  new watch, another event, or a conversation about something else.
- `EndedIsClosed` (`ScoutSession`): `escalate` ends the conversation even when it names a
  part of the open incidents, or none that is open (`converse.go:253`, against
  `session.go:102`); the rest keep the phase `Assessing`, and only a restart or the
  resync of a later conversation finds them.
- `TerminalIsFinal` (`ScoutSession`): an incident of the backlog is announced once more by
  the first events of the watch. If the conversation closes it and ends before it
  reads the channel, the duplicate is claimed like a new incident
  (`session.go:117`), without its grants (`incident_controller.go:64`).
  `FinishedStays` is what holds of it: an incident that is neither held nor on its
  way is not brought back.
- `MatchIsFound` (`Detection`; fair): an object is looked at when nothing is registered
  that matches it, and nothing makes the detector look again when there is
  (`incident_detector.go:68`, against `incident_detector.go:46`). So it is after a
  restart, which empties the Registry, when the object comes before the policies; of
  an object that failed before its policy was written; and between `Delete` and
  `Set`. `MatchIsRaised` is what holds: failed calls do not lose a match that the
  Registry goes on holding.
- `AppliedIsCurrent` (`ApprovalGate`): an approval is re-validated against a set that
  changes only in the select between two turns, so that nothing can join between
  staging and approval (`converse.go:51`, against `converse.go:23`).

Others that came up while modelling, each visible in the model as an exception
or a remark:

- *Detection*: with a cache that lags, two policies with different triggers raise
  two incidents for one object, which `OneOnceShown` therefore allows until the
  first is shown (the comment above `createIncident` speaks of one). A trigger
  that is no valid part of a name is refused by every `Create`. The scout's own
  Deployment and ReplicaSet carry no annotation that keeps them from being matched.
- *Session*: a held incident that is deleted, raised again under its name and queued
  before `reap` looks counts as the old one (`session.go:110`, `reborn`): it stays
  `Queued`, and is claimed only after the conversation has let the old one go, by
  the next resync or watch. A claim that was stored although its call failed
  leaves the incident `Assessing` with nobody (`ClaimLost`). A restart
  does not take up `AwaitingApproval` (`watcher.go:55`), a failed read drops an
  incident for good (`converse.go:354`), and a change staged after the only open
  incident was closed reopens it (`converse.go:394`). `ClaimedIsHeld` and
  `FinishedStays` name these as exceptions and judge none of them.
- *Scout Deployment*: a bootstrap that fails is only logged, and without a
  Deployment there is never an event (`NeverMade`). A hand deletion, whose
  pods run on while a new Deployment is made, or an edited strategy, may give two
  scouts for a while (`meddled`). The
  comparison with a defaulted Deployment always differs; it ends because an
  update that changes nothing is no event.
- *patchDeployment*: the diff shows the pod spec only; a patch to anything else is
  approved unseen. The object may change between reading, dry run and patch. The
  rollout check may report the success of somebody else's later revision
  (`complete >= applied`).
- *Texts*: presses on old keyboards fill the callback channel and block the poller
  for texts too (`Blocked`; against `telegram.go:66`). A text may be dropped
  although there is room for it: the broker may take lines between the poller's
  attempt and its making room, as many as the channel holds, so that the
  capacity says nothing of how many newer texts are kept (`RecentKept`; the
  proof showed that a count, which TLC had confirmed for a channel of 2, is wrong
  for longer ones). A line that waited in the broker is taken as the reason
  of a rejection.
- *Conversation*: after duplicates, an empty resync or a farewell the model is called
  with a transcript that ends in its own message. An answer cut short leaves its
  tool calls without results (`cut`). A text without content is refused by a
  provider, and so ends the process, as does any error that is not the API's.
- *Outside the models*: `list_incidents.go:71` wraps the list before it looks at
  the error of List; on a terminal the broker and the gate both scan standard input.

### Bounds

`MaxLives` is 2 where names are reused (in `ScoutSession` each reuse of a name is a mishap): the races are between an incident and
its successor. `MaxMishaps` bounds, together, failed calls, crashes, force
deletions and writes out of turn: each property is about one incident and what
one or two of them do to it. One incident name is enough in `GrantLifecycle`: its
actions touch one name each, and the two goroutines can work on it at the same
time; only the sharing of the goroutines by several names is not explored by
TLC, and the theorems are for any number. Three incidents and a conversation for
two give a full conversation, a burst, an outcome for some and for all; a
channel shorter than the number of incidents makes the watch goroutine wait. In
`session_liveness` the conversation is for one, so that a full one is met by the second.
Three proposals and presses give an old keyboard, a rejected and an approved one,
and a channel of 1 that is full of old presses. Two policies compete for one
object; three edits let a policy change its kind and the object fail in between,
or an incident be deleted. Two versions are an upgrade, two edits a deletion and
an edit. The texts of `patch_deployment` are those that two patches, of which
some set, some append and some drop a line, reach from a text of one line and one
of five: long enough for a counted gap before, between and after changes. Four texts overflow a channel of two with the
broker's hand and line full. In `conversation` the cap is not reached (it is in
`session_safety`); five messages hold a seed, an answer with two tool calls, their
results, the gate's report and a burst. The violations are as small as their
counterexamples. The cap of 12, the channel of 64 and those of 8, the 100 updates fetched ahead, the context of
2, the 24 polls and the five attempts are parameters.

Deadlock is checked where the system cannot come to rest by itself: in
`ScoutSession` and `Conversation`. It may rest in the others: in `GrantLifecycle`
and `Detection` when the bound on incidents or edits is used up and the queues are
empty, in `ScoutDeployment` when the Deployment is as wanted, in `PatchDeployment`
when the changes are used up, and in `ApprovalGate` and `HumanChannel` when the
human does nothing more.

### Fairness

- `GrantLifecycle`: weak fairness of reconciler, sweeper and informers: goroutines
  of a running process, a ticker, and watches client-go re-establishes. None for
  failures, crashes, scout or users. Because failures are bounded, calls succeed
  in the end, which is what retries with backoff rely on.
- `Detection`: weak fairness of the goroutines at work and of the informers, strong
  fairness of taking a queued key: controller-runtime's queue passes none over.
- `ScoutDeployment`: weak fairness of the informer, of each caller of `Ensure`, and
  of the cluster that runs the pods.
- `ScoutSession`: weak fairness of both goroutines and of the human's answer at the
  gate; strong fairness of the end of a turn (the model does not call tools for
  ever), of reading the channel and of the conversation's ticker (Go's `select`
  chooses among the ready cases at random, and a tick waits for it). Idle there is
  no ticker, and none is assumed.
- `ApprovalGate`: weak fairness of the poller and of the waiting goroutine; the
  human owes nothing.
- `PatchDeployment`: weak fairness of the polling loop; the rollout owes nothing.
- `HumanChannel`: weak fairness of fetching, the poller and the broker, strong
  fairness of hearing (the same `select`); whether the session listens is in the
  property.
- `Conversation`: weak fairness of a call's failure, which is the client's timeout
  of two minutes, and of the end of a delay; the provider owes nothing.

## Proofs

Proved for every value of the constants that satisfies the named assumptions of
the modules, which TLC evaluates on the passing runs:

| module | theorem | states |
|---|---|---|
| `GrantLifecycleProofs` | `TypeCorrect`, `GrantsAreHeld`, `NothingRequeued`, `FirstLifeGranted`, `GrantsAsPermitted` | `[]TypeOK`, `[]LiveGrantHasFinalizer`, `NeverRequeued`, `[]FirstLifeIsGranted`, `ImplementsPermission` |
| `DetectionProofs` | `TypeCorrect`, `RegistryIsCurrent`, `OneIncident` | `[]TypeOK`, `[]RegistryFollowsPolicies`, `OneOnceShown` |
| `ScoutDeploymentProofs` | `TypeCorrect`, `OneScout`, `EditsSurvive` | `[]TypeOK`, `[]ScoutIsAlone`, `OthersKept` |
| `ScoutSessionProofs` | `TypeCorrect`, `OpenClaimed`, `ClaimedHeld`, `QueuedArrives`, `ClosedStays` | `[]TypeOK`, `[]OpenIsClaimed`, `[]ClaimedIsHeld`, `[]QueuedIsArriving`, `FinishedStays` |
| `ApprovalGateProofs` | `TypeCorrect`, `OneProcessIsObeyed` | `[]TypeOK`, `[]OneProcessAppliesApproved` |
| `PatchDeploymentProofs` | `TypeCorrect`, `CompletionIsReal`, `DiffRight` | `[]TypeOK`, `[]CompleteIsComplete`, `[]DiffIsRight` |
| | `LcsLineDiffRight` | what `lcsLineDiff` promises, for any two texts |
| `HumanChannelProofs` | `TypeCorrect`, `InOrder`, `OldestDropped` | `[]TypeOK`, `[]HeardInOrder`, `[]RecentKept` |
| `ConversationProofs` | `TypeCorrect`, `Answers`, `Translates`, `Tells` | `[]TypeOK`, `[]EveryCallIsAnswered`, `[]SentAsSaid`, `[]OpenIsTold` |

**Grants.** Assumed: `IncidentAssumption`, `PolicyAssumption`, `OutcomeAssumption`,
`BoundAssumption`. The inductive invariant is `IInv == TypeOK /\ FinalizerInv`.
`LiveGrantHasFinalizer` alone is not inductive: a step of `GrantRole` creates a
binding for the incident the *reconciler's copy* shows, which need not be the one
that is stored. `RecInv` therefore relates that copy to the server: past
`addFin` the copy has the finalizer, and if the stored incident has the same life,
so has it; `MadeForInv` says no binding was made for a life that is yet to come,
so that a new incident starts without bindings of its own; `CacheInv` and
`RaisingInv` say what cached and fresh copies imply, which the steps that copy
them need. The lemma `StoreInv` covers all writes of others, `SavedInv` those of
the reconciler, `QuietInv` the steps that touch neither. `NothingRequeued` needs
only the type invariant: the phase of a fresh copy is the stored phase.

What a first life keeps, and the refinement, need more: `FullInv == IInv /\
FirstLifeInv`. The first incident of a name is `Over` once it is finished, going,
gone or succeeded, and that is for good. Everything that makes the code delete a
binding is evidence of this: `CopyInv` says it of what a cached copy shows, `WorkInv`
of the reconciler past its look, `DoomInv` of what the sweeper has made up its
mind to delete. The evidence "no such incident" is only good because of
`KnownInv`: of a binding that exists or is listed the cache has known the incident,
so that not finding it means gone and never not yet there. `GrantingInv` and
`PromiseInv` then follow the bindings from `Grant` to the promise. For the
refinement each action is shown to be, for the six things `IncidentPermission` sees
(`Sees`), one of its steps or none (`Simulated`); `HiddenStep` covers all that
change no incident and no binding.

**Detection.** Assumed: `SpecAssumption`, `KindAssumption`, `BoundAssumption`. That
the Registry follows the policies once nothing is on its way needs to know what
it holds while something is: `CopyInv` says that a fresh copy, the informer's or
the one being compiled, is the stored policy, and `CompInv` what the goroutine has
made of the Registry at each of its steps. `OneIncident` has an invariant of its
own, `SettledInv`: while an object is settled an incident of it is shown and no
detector is past its look.

**Scout Deployment.** Assumed: `ImageAssumption`, `BoundAssumption`. `FreshInv`: a
copy that an `Update` would be accepted with is the stored Deployment, so that
what it carries of others' fields is what they are now. `OneScout` adds `KindInv`
(unless a user's change is still to be answered, what is stored asks for one
replica and `Recreate`) and `PodsInv` (and then there is one pod at most and none
without its Deployment): `ScoutIsAlone` counts pods only, and a step of the cluster
may start one whenever the Deployment allows it.

**Session.** Assumed: `SessionAssumption` (caps are positive, outcomes terminal, the
incidents finitely many: a finite set has an order to list it in). The three
invariants are inductive together with the types and `FlowInv`: no watch is open
at boot, and only three places of the session keep incidents pending. Each needs the
others: an incident that admission passes over as held already is not queued by
`OpenIsClaimed`, or else `reborn`, and then it joins `missed`, as
`QueuedIsArriving` wants. The lemmas
about `ToSet` say what appending, taking the head and concatenating do to the set
of those on their way; `SeqOfSet` that a listing has exactly the incidents listed;
`WriteInv` covers every write of a phase by the session. `ClosedStays` needs only
the types: each step that puts an incident on its way, or writes a phase, is
shown to concern another one.

**Gate.** Assumed: `GateAssumption`. The difficulty is that an answer is read long
after it was given, from among presses of every keyboard. `Unread` is what the
channel and Telegram still hold, in order. `KeyboardInv`: in a first process a
token is of one keyboard and a keyboard of one proposal; `UnreadInv`: while the
gate waits, the first unread press with its token is the verdict on what it asks;
`KeptInv`: what the hooks hold back was approved. All three fail after a restart,
which `gate_restart` shows, so that they stand under `restarts = 0`.

**The tool.** Assumed: `PatchAssumption` and the bounds. `StatusInv`: the counters
are of a generation that exists, and when they count as complete the controller
had found this very generation rolled out. That a poll reads them together, and
that `observedGeneration` is compared, is what makes it inductive.

**The diff.** Assumed: nothing; the texts are of any lines and any length, the context
is any number. Row, table, output and reader are folds, and the walk a recursive
function. `IteratesMakes` finds for every fold the list of what it has made after
each element, and `RowMade`, `TableMade`, `RenderMade`, `FollowMade` apply it;
`WalkExists` does as much for the walk. From there on nothing is said of how the
values came about:

1. *The table* (`Tabled`, `Entry`): 0 along its edges, inside the better of its
   neighbours or one more where the lines are the same. One more line of either
   text adds nothing or one (`Slow`), by induction on the sum of both lengths. So no
   lines in common are more than the entry says (`Greatest`): without its last
   line, a choice is one of shorter texts.
2. *The walk* (`Script`): by the same induction, the edits up to a corner take a
   reader from the first lines of one text to those of the other, and change as
   many lines as the entry leaves over. The walk asks the table only where the
   lines differ, and then the larger neighbour is the entry; where they are
   the same, `Slow` makes the diagonal as good as any other way.
3. *The output* (`Rendered`): after every edit, a reader of what is written so
   far, who then keeps as many lines as are skipped, is where a reader of the
   edits is. A skipped line is unchanged, since changed lines are shown, so that a
   gap says enough.

`DiffRight` puts this to the pod specs that the tool read, of which `IInv` says that
they are texts.

**Texts.** Assumed: `CapAssumption` and the bounds. Order at the end of the way needs
order all along it: `OrderInv` compares each place with those behind it (heard,
the broker's line, its hand, the poller's channel, the text it found no room for),
`ServerInv` what has passed the poller with what was fetched for it, and that with what
Telegram still has to give: fetching ahead appends the one to the other. `DropInv` is `RecentKept` with the newer text among
those that have passed the poller, which a step cannot take away again. A poll
that is repeated after a crash delivers again what was delivered, so that all of
this is about one process.

**Conversation.** Assumed: `IncidentAssumption` (finitely many incidents),
`OpenAssumption`, `AttemptAssumption`, `BoundAssumption` (a full backlog fits the
bound on the transcript). `ShapeInv` says what messages converse makes: texts,
reports of results, answers with their texts before their calls, and for OpenAI
one text at most, which is why keeping the last loses nothing. `AnswerInv`: each
call of the transcript is answered right after it, but for those of the last
answer while the tools run. `ToldInv`: each open incident is in some text. About
the transcript as it is sent the operators of the model have to be known for
every length: `OfKind`, `Blocks` and `toOpenAIRequest` are folds, whose equations
(`IteratesOn`, `FlattenCons`, `FlattenConcat`) are proved from the definitions of
`FoldLeft` and `FlattenSeq`, and then used to show that the translation of a
message says what the message says (`TranslatedIs`), that the translation of a
transcript does (`RequestSays`), and that calls answered in a transcript are
answered in its translation (`RequestAnswers`). The induction is one over sets
(`Induct`, `BySnoc`, `ByHead`), because the induction rules of the library take
an operator as a parameter, which the provers cannot instantiate.

Only model-checked: all liveness properties (fairness is out of the prover's
reach).

## Not modelled

- The terminal messenger: a development aid; its hazard is listed.
- Two incidents of one name in two namespaces, between which `resolveTargets` would
  choose at random: the detector puts the UID of the target into the name.
- Names of bindings cut at 253 characters: names are model values.
- The read-only tools and `context.go`: reads and formatting.
- CEL, HTTP, JSON, Telegram's and Kubernetes' own code: external, modelled as far as
  their answers matter.
- Flags, configuration, clients, wiring: what `main.go` starts is in `Init`, `Restart`
  and `Next`; the rest has no state worth a model.
- Generated code, manifests and charts.

The full list with reasons is in `PROJECT.json`, together with the hazards of the
code at their lines.

## Plan

Done: every component of the inventory but those above, and proofs of all safety
properties. Left: the names of bindings as an algorithm.
