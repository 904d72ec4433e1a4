---------------------------- MODULE HumanChannel ----------------------------
(***************************************************************************)
(* How what the human writes reaches the session: Telegram, the poller of  *)
(* TelegramMessenger, the input broker, and the places where the session   *)
(* reads.                                                                  *)
(*                                                                         *)
(*  - Telegram keeps an update until a later call confirms it, so a new    *)
(*    process is given again what the old one had not confirmed.  The      *)
(*    client calls again as soon as its channel has room for the last      *)
(*    answer, and so confirms what the poller has yet to look at.          *)
(*  - One goroutine polls, and serves texts and button presses alike.  A   *)
(*    text never blocks it, a press does while the channel is full.        *)
(*  - The broker alone reads texts.  It holds one line, one more waits in  *)
(*    its channel, and the rest wait in the poller's.                      *)
(*  - The session hears a line when it listens (idle, or between two       *)
(*    turns) or asks why a change was rejected.  What it does otherwise is *)
(*    of no interest here, except that it may ask a question with buttons. *)
(*                                                                         *)
(* Texts are numbered in the order in which the human writes them; a press *)
(* carries the question its keyboard belongs to.                           *)
(***************************************************************************)
EXTENDS Integers, FiniteSets, SequencesExt

CONSTANTS
    UpdateCap,      \* capacity of the client's channel, 100 in its code
    TextCap,        \* capacity of textCh, 8 in the code
    PressCap,       \* capacity of callbackCh, 8 in the code
    MaxTexts,       \* bound: texts the human writes
    MaxPresses,     \* bound: button presses
    MaxQuestions,   \* bound: questions asked with buttons
    MaxRestarts     \* bound: crashes of the scout

ASSUME CapAssumption == UpdateCap \in Nat /\ TextCap \in Nat \ {0} /\ PressCap \in Nat \ {0}
ASSUME BoundAssumption == {MaxTexts, MaxPresses, MaxQuestions, MaxRestarts} \subseteq Nat

VARIABLES
    server,     \* Telegram: the updates not confirmed yet
    fetched,    \* Telegram's client: how many of them this process was given
    updates,    \* its channel to the poller, and what it has yet to put there
    full,       \* the text the poller found no room for, 0 for none
    textCh, callbackCh,
    hand,       \* broker: the line it holds, 0 for none
    lines,      \* broker: its channel, of capacity 1
    mode,       \* session: "busy", "listen", "ask" or "reason"
    question,   \* session: the last question asked with buttons
    heard,      \* history: the lines this process heard
    dropped,    \* history: the texts this process dropped
    lost,       \* history: the texts a crash took
    texts, presses, restarts

telegram == <<server, fetched, updates>>
poller == <<full, textCh, callbackCh>>
broker == <<hand, lines>>
session == <<mode, question, heard>>
bounds == <<texts, presses, restarts>>
vars == <<server, fetched, updates, full, textCh, callbackCh, hand, lines, mode,
          question, heard, dropped, lost, texts, presses, restarts>>

Text(n) == [text |-> n, press |-> 0]
Press(q) == [text |-> 0, press |-> q]

Init ==
    /\ server = <<>> /\ fetched = 0 /\ updates = <<>>
    /\ full = 0 /\ textCh = <<>> /\ callbackCh = <<>>
    /\ hand = 0 /\ lines = <<>>
    /\ mode = "listen" /\ question = 0
    /\ heard = <<>> /\ dropped = {} /\ lost = {}
    /\ texts = 0 /\ presses = 0 /\ restarts = 0

-----------------------------------------------------------------------------
(* The human and Telegram *)

Write ==
    /\ texts < MaxTexts
    /\ texts' = texts + 1
    /\ server' = Append(server, Text(texts'))
    /\ UNCHANGED <<fetched, updates, poller, broker, session, dropped, lost, presses, restarts>>

\* Keyboards stay in the chat: a press may be on that of any question so far.
PressButton(q) ==
    /\ presses < MaxPresses
    /\ presses' = presses + 1
    /\ server' = Append(server, Press(q))
    /\ UNCHANGED <<fetched, updates, poller, broker, session, dropped, lost, texts, restarts>>

\* A call of getUpdates confirms what the last one returned, polled or not, and
\* returns what is new.  It comes when all of the last one is in the channel.
Fetch ==
    /\ Len(updates) <= UpdateCap
    /\ server # <<>>
    /\ server' = SubSeq(server, fetched + 1, Len(server))
    /\ updates' = updates \o server'
    /\ fetched' = Len(server')
    /\ UNCHANGED <<poller, broker, session, dropped, lost, bounds>>

-----------------------------------------------------------------------------
(* poll and offer *)

Polled == updates' = Tail(updates)

\* MUTANT: the channel grows.
OfferUnbounded ==
    /\ full = 0
    /\ updates # <<>> /\ Head(updates).text # 0
    /\ Polled
    /\ textCh' = Append(textCh, Head(updates).text)
    /\ UNCHANGED <<server, fetched, full, callbackCh, broker, session, dropped, lost, bounds>>

\* offer: the first send.
OfferText ==
    /\ full = 0
    /\ updates # <<>> /\ Head(updates).text # 0
    /\ Polled
    /\ IF Len(textCh) < TextCap
       THEN textCh' = Append(textCh, Head(updates).text) /\ UNCHANGED full
       ELSE full' = Head(updates).text /\ UNCHANGED textCh
    /\ UNCHANGED <<server, fetched, callbackCh, broker, session, dropped, lost, bounds>>

\* MUTANT: the newest text makes way.
DropNewest ==
    /\ full # 0
    /\ full' = 0
    /\ dropped' = dropped \cup {full}
    /\ UNCHANGED <<textCh, telegram, callbackCh, broker, session, lost, bounds>>

\* offer: the oldest text makes way, also when the broker took one in between;
\* nobody else sends, so that the second send succeeds.
DropOldest ==
    /\ full # 0
    /\ IF textCh = <<>> THEN textCh' = <<full>> /\ UNCHANGED dropped
       ELSE /\ textCh' = Append(Tail(textCh), full)
            /\ dropped' = dropped \cup {Head(textCh)}
    /\ full' = 0
    /\ UNCHANGED <<telegram, callbackCh, broker, session, lost, bounds>>

\* A press waits for room, and everything behind it with it.
Blocked == updates # <<>> /\ Head(updates).press # 0 /\ Len(callbackCh) = PressCap

DeliverPress ==
    /\ full = 0
    /\ updates # <<>> /\ Head(updates).press # 0
    /\ ~Blocked
    /\ Polled
    /\ callbackCh' = Append(callbackCh, Head(updates).press)
    /\ UNCHANGED <<server, fetched, full, textCh, broker, session, dropped, lost, bounds>>

-----------------------------------------------------------------------------
(* The broker *)

ReadText ==
    /\ hand = 0
    /\ textCh # <<>>
    /\ hand' = Head(textCh)
    /\ textCh' = Tail(textCh)
    /\ UNCHANGED <<telegram, full, callbackCh, lines, session, dropped, lost, bounds>>

\* MUTANT: the line in the channel is replaced by a newer one.
OfferLatest ==
    /\ hand # 0
    /\ lines' = <<hand>>
    /\ hand' = 0
    /\ UNCHANGED <<telegram, poller, session, dropped, lost, bounds>>

OfferLine ==
    /\ hand # 0
    /\ lines = <<>>
    /\ lines' = <<hand>>
    /\ hand' = 0
    /\ UNCHANGED <<telegram, poller, session, dropped, lost, bounds>>

-----------------------------------------------------------------------------
(* The session *)

\* MUTANT: the gate reads the messenger itself, beside the broker.
HearDirectly ==
    /\ \/ mode = "listen" /\ lines # <<>>
          /\ heard' = Append(heard, Head(lines)) /\ lines' = <<>> /\ UNCHANGED textCh
       \/ mode = "reason" /\ textCh # <<>>
          /\ heard' = Append(heard, Head(textCh)) /\ textCh' = Tail(textCh) /\ UNCHANGED lines
    /\ mode' = "busy"
    /\ UNCHANGED <<telegram, full, callbackCh, hand, question, dropped, lost, bounds>>

\* A line from the broker: an opening, a turn, or the reason of a rejection.
Hear ==
    /\ mode \in {"listen", "reason"}
    /\ lines # <<>>
    /\ heard' = Append(heard, Head(lines))
    /\ lines' = <<>>
    /\ mode' = "busy"
    /\ UNCHANGED <<telegram, poller, hand, question, dropped, lost, bounds>>

\* An incident, or the resync, instead.
Interrupted ==
    /\ mode = "listen"
    /\ mode' = "busy"
    /\ UNCHANGED <<telegram, poller, broker, question, heard, dropped, lost, bounds>>

TurnEnds ==
    /\ mode = "busy"
    /\ \/ mode' = "listen" /\ UNCHANGED question
       \/ question < MaxQuestions /\ question' = question + 1 /\ mode' = "ask"
    /\ UNCHANGED <<telegram, poller, broker, heard, dropped, lost, bounds>>

\* awaitCallback: presses on other keyboards are discarded.  A rejection asks
\* for the reason next.
TakePress ==
    /\ mode = "ask"
    /\ callbackCh # <<>>
    /\ callbackCh' = Tail(callbackCh)
    /\ IF Head(callbackCh) = question THEN mode' \in {"busy", "reason"} ELSE UNCHANGED mode
    /\ UNCHANGED <<telegram, full, textCh, broker, question, heard, dropped, lost, bounds>>

\* What only this process has is lost with it.  A new one counts its questions
\* from one again.
Held == {full, hand} \cup ToSet(textCh) \cup ToSet(lines) \cup {u.text : u \in ToSet(updates)}
Kept == {u.text : u \in ToSet(server)}

Restart ==
    /\ restarts < MaxRestarts
    /\ restarts' = restarts + 1
    /\ lost' = lost \cup (Held \ (Kept \cup {0}))
    /\ fetched' = 0 /\ updates' = <<>>
    /\ full' = 0 /\ textCh' = <<>> /\ callbackCh' = <<>>
    /\ hand' = 0 /\ lines' = <<>>
    /\ mode' = "listen" /\ question' = 0 /\ heard' = <<>> /\ dropped' = {}
    /\ UNCHANGED <<server, texts, presses>>

-----------------------------------------------------------------------------

Human == Write \/ \E q \in 1..question : PressButton(q)
Poller == OfferText \/ DropOldest \/ DeliverPress
Broker == ReadText \/ OfferLine
Session == Hear \/ Interrupted \/ TurnEnds \/ TakePress

Next == Human \/ Fetch \/ Poller \/ Broker \/ Session \/ Restart

\* The goroutines run, and a select that is offered a line again and again takes
\* it at last.  The human need not answer, and the model need not end its turn.
Fairness == WF_vars(Fetch) /\ WF_vars(Poller) /\ WF_vars(Broker) /\ SF_vars(Hear)

Spec == Init /\ [][Next]_vars
FairSpec == Spec /\ Fairness

-----------------------------------------------------------------------------
(* Properties *)

TextOf(u) == [n \in DOMAIN u |-> u[n].text]

\* A sequence of texts in the order of writing, 0 standing for none.
Ordered(s) == \A m, n \in DOMAIN s : m < n => s[m] = 0 \/ s[n] = 0 \/ s[m] < s[n]

\* Every variable has its type, and no channel holds more than it can.
TypeOK ==
    /\ fetched \in 0..Len(server)
    /\ full \in 0..texts /\ hand \in 0..texts
    /\ Len(textCh) <= TextCap /\ Len(callbackCh) <= PressCap /\ Len(lines) <= 1
    /\ ToSet(textCh) \cup ToSet(lines) \cup ToSet(heard) \cup dropped \cup lost \subseteq 1..texts
    /\ mode \in {"busy", "listen", "ask", "reason"}
    /\ question \in 0..MaxQuestions
    /\ texts \in 0..MaxTexts /\ presses \in 0..MaxPresses /\ restarts \in 0..MaxRestarts

\* A process hears the human in the order of writing, and nothing twice, whoever
\* of the session asks: everything it has still to hear is newer than all it has
\* heard.  (inputBroker, brokeredMessenger)
HeardInOrder ==
    Ordered(heard \o lines \o <<hand>> \o textCh \o <<full>> \o TextOf(updates))

\* What is dropped is older than all that still waits in the poller, and never
\* the newest: something newer was heard or is still held.  How much newer, the
\* capacity does not say, because the broker may take any number of texts after
\* the poller found the channel full and before it makes room.  (offer)
RecentKept ==
    \A d \in dropped :
        /\ \A n \in (ToSet(textCh) \cup {full}) \ {0} : d < n
        /\ \E n \in ToSet(heard) \cup Held : d < n

\* A text that was written is heard, or makes way for newer ones, or is lost in
\* a crash, unless from some time on the session never listens again (a question
\* is never answered, the model never ends its turn) or presses block the
\* poller.  (poll, inputBroker, the selects of the session)
Listening == mode \in {"listen", "reason"}
TextIsHeard ==
    \/ <>[]~Listening
    \/ <>[]Blocked
    \/ \A n \in 1..MaxTexts :
         n \in Held \cup Kept ~> n \in ToSet(heard) \cup dropped \cup lost
=============================================================================
