----------------------------- MODULE Conversation -----------------------------
(***************************************************************************)
(* The transcript of the scout's conversations, and how it is sent to the  *)
(* model: converse, the retries, and the adapters of the two providers.    *)
(*                                                                         *)
(*  - The transcript grows by the model's answers, the results of its tool *)
(*    calls, what the gate or the human says, and incidents that join.     *)
(*  - The whole transcript is sent each time.  A transient failure is      *)
(*    tried again, a limited number of times; any other ends the process,  *)
(*    and so does a transcript that the provider does not accept.          *)
(*  - OpenAI gets a translation, Anthropic the transcript as it is.        *)
(*                                                                         *)
(* A message is a role and a sequence of blocks.  A text is known by the   *)
(* incidents it describes, a tool call by its id and its tool, a result by *)
(* the id of its call and whether it reports a failure.  Which incidents   *)
(* close, and why, is in ScoutSession; what the gate asks, in ApprovalGate.*)
(***************************************************************************)
EXTENDS Integers, FiniteSets, SequencesExt

CONSTANTS
    Incidents,
    MaxOpen,        \* maxOpenIncidents, 12 in the code
    MaxAttempts,    \* attempts of WithRetry, 5 in the code
    MaxCalls,       \* bound: tool calls of a conversation
    MaxMessages     \* bound: messages of a transcript, before the last answer

ASSUME IncidentAssumption == IsFiniteSet(Incidents)
ASSUME OpenAssumption == MaxOpen \in Nat \ {0}
ASSUME AttemptAssumption == MaxAttempts \in Nat \ {0}
\* A whole backlog fits into the bound.
ASSUME BoundAssumption == MaxCalls \in Nat /\ MaxMessages \in Nat /\ MaxOpen <= MaxMessages

VARIABLES
    provider,   \* "anthropic" or "openai", from the configuration
    pc,         \* where the session goroutine is
    messages,   \* the transcript
    open,       \* the incidents of the conversation
    attempt,    \* the attempt at the current request
    staged,     \* the gate has a change to ask about
    cut         \* history: an answer with tool calls was cut short

config == <<provider>>
vars == <<provider, pc, messages, open, attempt, staged, cut>>

-----------------------------------------------------------------------------
(* Messages *)

\* A gated tool, one that is not, the one that ends the conversation, and a name
\* the model made up.
Tools == {"patch", "read", "escalate", "unknown"}

Text(incidents) == [kind |-> "text", about |-> incidents]
Call(id, tool) == [kind |-> "call", id |-> id, tool |-> tool]
Result(id, failed) == [kind |-> "result", id |-> id, failed |-> failed]

Message(role, content) == [role |-> role, content |-> content]
UserText(incidents) == Message("user", <<Text(incidents)>>)

IsText(b) == b.kind = "text"
IsCall(b) == b.kind = "call"
IsResult(b) == b.kind = "result"

\* The blocks of a kind, in their order.
OfKind(kind, content) ==
    FoldLeft(LAMBDA found, b : IF b.kind = kind THEN Append(found, b) ELSE found, <<>>, content)
CallsOf(content) == OfKind("call", content)

\* All that is said in a sequence of messages.
Blocks(ms) == FlattenSeq([i \in DOMAIN ms |-> ms[i].content])

-----------------------------------------------------------------------------
(* The adapters *)

\* Every result is a message of its own; the texts in between stay together.
AddUserBlock(ms, b) ==
    IF IsResult(b) THEN Append(ms, Message("tool", <<b>>))
    ELSE IF ms # <<>> /\ Last(ms).role = "user"
         THEN [ms EXCEPT ![Len(ms)].content = Append(@, b)]
         ELSE Append(ms, Message("user", <<b>>))

\* MUTANT: an answer that calls tools goes without its text.
AssistantWithoutText(content) ==
    LET texts == OfKind("text", content)
    IN  Message("assistant",
                IF CallsOf(content) # <<>> THEN CallsOf(content)
                ELSE IF texts = <<>> THEN <<>> ELSE <<Last(texts)>>)

\* One text, the last, and the calls.
Assistant(content) ==
    LET texts == OfKind("text", content)
    IN  Message("assistant",
                (IF texts = <<>> THEN <<>> ELSE <<Last(texts)>>) \o CallsOf(content))

toOpenAIRequest(ms) ==
    FlattenSeq([i \in DOMAIN ms |->
        IF ms[i].role = "user" THEN FoldLeft(AddUserBlock, <<>>, ms[i].content)
                               ELSE <<Assistant(ms[i].content)>>])

Wire(ms) == IF provider = "openai" THEN toOpenAIRequest(ms) ELSE ms

\* What a provider answers: texts, calls, and why it stopped: to have tools run,
\* at the end of its turn, or because it ran out of tokens.  OpenAI has one text
\* at most, and may have no choice to offer, which is an empty answer.
Replies(n) ==
    [texts : 0..(IF provider = "openai" THEN 1 ELSE 2),
     tools : SeqOf(Tools, n),
     finish : {"calls", "stop", "length"}]

Proper(r) == r.finish = "calls" => r.tools # <<>>
Untimely(r) == r.finish = "stop" => r.tools = <<>>

\* Both adapters list the text before the calls.  Ids are unique.
Content(r) ==
    [i \in 1..r.texts |-> Text({})] \o
    [i \in DOMAIN r.tools |-> Call(<<Len(messages) + 1, i>>, r.tools[i])]

StopReason(r) == IF r.finish = "calls" THEN "tool_use" ELSE "end_turn"

\* Both providers: the calls of an answer are answered at once, all of them, in
\* what follows it.
CallsAnswered(ms) ==
    \A i \in DOMAIN ms : ms[i].role = "assistant" =>
        LET calls == CallsOf(ms[i].content)
            after == Blocks(SubSeq(ms, i + 1, Len(ms)))
        IN  /\ Len(calls) <= Len(after)
            /\ \A k \in DOMAIN calls : IsResult(after[k]) /\ after[k].id = calls[k].id

\* Anthropic refuses a message without content, except as the last one.
Accepted(ms) ==
    /\ CallsAnswered(ms)
    /\ provider = "anthropic" => \A i \in 1..(Len(ms) - 1) : ms[i].content # <<>>

-----------------------------------------------------------------------------

Init ==
    /\ provider \in {"anthropic", "openai"}
    /\ pc = "idle"
    /\ messages = <<>>
    /\ open = {}
    /\ attempt = 1
    /\ staged = FALSE
    /\ cut = FALSE

\* The process is gone, or the conversation: nothing is left of the transcript.
Leave(where) ==
    /\ pc' = where
    /\ messages' = <<>>
    /\ open' = {}
    /\ attempt' = 1
    /\ staged' = FALSE
    /\ cut' = FALSE
    /\ UNCHANGED config

\* Incidents of the backlog or a burst, as far as they can be claimed and there is
\* room; or a question of the human with no incident open.  A map is read in any
\* order.
Begin ==
    /\ pc = "idle"
    /\ pc' = "request"
    /\ \/ \E A \in SUBSET Incidents \ {{}} :
            /\ Cardinality(A) <= MaxOpen
            /\ open' = A
            /\ \E s \in SetToSeqs(A) : messages' = [i \in DOMAIN s |-> UserText({s[i]})]
       \/ messages' = <<UserText({})>> /\ UNCHANGED open
    /\ UNCHANGED <<config, attempt, staged, cut>>

-----------------------------------------------------------------------------
(* WithRetry *)

Answered ==
    /\ pc = "request"
    /\ Accepted(Wire(messages))
    /\ \E r \in Replies(MaxCalls - Len(CallsOf(Blocks(messages)))) :
         /\ Proper(r) /\ Untimely(r)
         /\ Len(messages) + 2 > MaxMessages => r.finish # "calls"
         /\ messages' = Append(messages, Message("assistant", Content(r)))
         /\ pc' = IF StopReason(r) = "tool_use" THEN "tools" ELSE "turn"
         /\ cut' = (cut \/ (r.finish = "length" /\ r.tools # <<>>))
    /\ attempt' = 1
    /\ UNCHANGED <<config, open, staged>>

\* MUTANT: one attempt too many.
OverloadedOnceMore ==
    /\ pc = "request"
    /\ pc' = IF attempt > MaxAttempts THEN "failed" ELSE "backoff"
    /\ UNCHANGED <<config, messages, open, attempt, staged, cut>>

\* A status that is worth another attempt.
Overloaded ==
    /\ pc = "request"
    /\ pc' = IF attempt = MaxAttempts THEN "failed" ELSE "backoff"
    /\ UNCHANGED <<config, messages, open, attempt, staged, cut>>

\* Any other error: another status, among them the one for a transcript that is
\* not accepted, a timeout, a lost connection, a body that cannot be decoded.
CallFails ==
    /\ pc = "request"
    /\ pc' = "failed"
    /\ UNCHANGED <<config, messages, open, attempt, staged, cut>>

\* MUTANT: the attempts are not counted.
RetryUncounted ==
    /\ pc = "backoff"
    /\ pc' = "request"
    /\ UNCHANGED <<config, messages, open, attempt, staged, cut>>

Retry ==
    /\ pc = "backoff"
    /\ pc' = "request"
    /\ attempt' = attempt + 1
    /\ UNCHANGED <<config, messages, open, staged, cut>>

-----------------------------------------------------------------------------
(* Tools *)

\* A tool that is not there fails, and so does a second change while one is
\* staged; any other may.
Fails(calls, i, errors) ==
    \/ i \in errors
    \/ calls[i].tool = "unknown"
    \/ /\ calls[i].tool = "patch"
       /\ staged \/ \E j \in 1..(i - 1) : calls[j].tool = "patch" /\ j \notin errors

\* MUTANT: a tool that is not there is passed over.
ResultsOfKnown(calls, errors) ==
    LET known == SelectSeq([i \in DOMAIN calls |-> i], LAMBDA i : calls[i].tool # "unknown")
    IN  [k \in DOMAIN known |-> Result(calls[known[k]].id, Fails(calls, known[k], errors))]

Results(calls, errors) ==
    [i \in DOMAIN calls |-> Result(calls[i].id, Fails(calls, i, errors))]

\* An escalation ends the conversation, whatever was called with it.
RunTools ==
    /\ pc = "tools"
    /\ LET calls == CallsOf(Last(messages).content)
           Done(tool, errors) ==
               \E i \in DOMAIN calls : calls[i].tool = tool /\ ~Fails(calls, i, errors)
       IN  \E errors \in SUBSET DOMAIN calls :
             IF Done("escalate", errors) THEN Leave("idle")
             ELSE /\ messages' = Append(messages, Message("user", Results(calls, errors)))
                  /\ staged' = (staged \/ Done("patch", errors))
                  /\ pc' = "request"
                  /\ UNCHANGED <<config, open, attempt, cut>>

-----------------------------------------------------------------------------
(* The end of a turn *)

Room == Len(messages) < MaxMessages

\* The gate asks, and tells the model what came of it.  What was applied may
\* close incidents.  A question that cannot be asked ends the process.
AfterTurn ==
    /\ pc = "turn"
    /\ staged
    /\ staged' = FALSE
    /\ \/ /\ Room
          /\ messages' = Append(messages, UserText({}))
          /\ open' \in SUBSET open
          /\ pc' = "request"
       \/ pc' = "failed" /\ UNCHANGED <<messages, open>>
    /\ UNCHANGED <<config, attempt, cut>>

\* reap: whatever is closed leaves, and with the last incident the conversation.
EndTurn ==
    /\ pc = "turn"
    /\ ~staged
    /\ \/ \E rest \in SUBSET open \ {{}} :
            /\ open' = rest
            /\ pc' = "await"
            /\ UNCHANGED <<config, messages, attempt, staged, cut>>
       \/ Leave("idle")

\* The select.  What the human says is a message, but for a farewell.
HumanSays ==
    /\ pc = "await" /\ Room
    /\ \/ messages' = Append(messages, UserText({}))
       \/ UNCHANGED messages
    /\ pc' = "request"
    /\ UNCHANGED <<config, open, attempt, staged, cut>>

\* The admitted among those that arrive: they are new, could be claimed, and there
\* is room.
Admissible == {A \in SUBSET (Incidents \ open) : Cardinality(open \cup A) <= MaxOpen}

\* A burst from the watch, of which none may be admitted.
Burst ==
    /\ pc = "await" /\ Room
    /\ \E A \in Admissible :
         /\ open' = open \cup A
         /\ messages' = IF A = {} THEN messages ELSE Append(messages, UserText(A))
    /\ pc' = "request"
    /\ UNCHANGED <<config, attempt, staged, cut>>

\* MUTANT: the model is told of the first one only.
ResyncOne ==
    /\ pc = "await" /\ Room
    /\ \E A \in Admissible :
         /\ open' = open \cup A
         /\ messages' = IF A = {} THEN messages
                        ELSE Append(messages, UserText({CHOOSE i \in A : TRUE}))
    /\ pc' = "request"
    /\ UNCHANGED <<config, attempt, staged, cut>>

\* The ticker: the same for the backlog, which may not be readable.
Resync ==
    /\ pc = "await" /\ Room
    /\ \E A \in Admissible :
         /\ open' = open \cup A
         /\ messages' = IF A = {} THEN messages ELSE Append(messages, UserText(A))
    /\ pc' = "request"
    /\ UNCHANGED <<config, attempt, staged, cut>>

\* The pod ends, or is started again after the process failed.
Restart ==
    /\ pc # "idle"
    /\ Leave("idle")

-----------------------------------------------------------------------------

Send == Answered \/ Overloaded \/ CallFails
Select == HumanSays \/ Burst \/ Resync
Next == Begin \/ Send \/ Retry \/ RunTools \/ AfterTurn \/ EndTurn \/ Select \/ Restart

\* A client gives up after two minutes without an answer, and a delay ends.  The
\* provider owes nothing.
Fairness == WF_vars(CallFails) /\ WF_vars(Retry)

Spec == Init /\ [][Next]_vars
FairSpec == Spec /\ Fairness

-----------------------------------------------------------------------------
(* Properties *)

\* Every variable has its type; the transcript and the attempts are bounded.
TypeOK ==
    /\ provider \in {"anthropic", "openai"}
    /\ pc \in {"idle", "request", "backoff", "tools", "turn", "await", "failed"}
    /\ Len(messages) <= MaxMessages + 1
    /\ \A m \in ToSet(messages) : m.role \in {"user", "assistant"}
    /\ open \subseteq Incidents /\ Cardinality(open) <= MaxOpen
    /\ attempt \in 1..MaxAttempts
    /\ staged \in BOOLEAN /\ cut \in BOOLEAN

\* Whenever the model is called, each of its tool calls has been answered, at the
\* place where the provider looks for the answer: whatever tools failed or do not
\* exist, and whatever the gate, the human and the watch added.  The one exception
\* is an answer that was cut short with tool calls in it: it counts as the end of
\* a turn, and nobody runs them.  (runTools, toOpenAIRequest)
EveryCallIsAnswered == pc = "request" /\ ~cut => CallsAnswered(Wire(messages))

\* The provider is sent everything that was said and reported, in its order.
\* toOpenAIRequest keeps one text of an answer, which is enough because
\* fromOpenAIResponse makes no answer with two.
SentAsSaid == Blocks(Wire(messages)) = Blocks(messages)

\* Whenever the model is called, it is told of every incident it works on, however
\* the incident came to the conversation.  (the seeds, the burst and the resync of
\* converse)
OpenIsTold ==
    pc = "request" => \A i \in open : \E b \in ToSet(Blocks(Wire(messages))) : IsText(b) /\ i \in b.about

\* A request ends, though the provider may be overloaded for ever.  (WithRetry)
RequestEnds == pc \in {"request", "backoff"} ~> pc \notin {"request", "backoff"}
=============================================================================
