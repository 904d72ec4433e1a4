------------------------- MODULE HumanChannelProofs -------------------------
(***************************************************************************)
(* Proofs about HumanChannel: types and capacities, that a process hears   *)
(* the human in order and nothing twice, and that what it drops is old.    *)
(* For every capacity and every bound.                                     *)
(***************************************************************************)
EXTENDS HumanChannel, SequenceTheorems, TLAPS

Update == [text : Nat, press : Nat]

\* Every text of S was written before every text of T, 0 standing for none.
Before(S, T) == \A m \in S, n \in T : m = 0 \/ n = 0 \/ m < n

\* The texts that the poller has passed on and that were not dropped.
Passed == ToSet(heard) \cup ToSet(lines) \cup {hand} \cup ToSet(textCh) \cup {full}

\* The queues are sequences.
QueueInv ==
    /\ server \in Seq(Update) /\ updates \in Seq(Update)
    /\ heard \in Seq(Nat) /\ lines \in Seq(Nat)
    /\ textCh \in Seq(Nat) /\ callbackCh \in Seq(Nat)

\* A sequence of updates whose texts are in the order of writing.
InOrderOfWriting(s) ==
    \A m, n \in 1..Len(s) : m < n => s[m].text = 0 \/ s[n].text = 0 \/ s[m].text < s[n].text

\* What Telegram keeps and what the poller has yet to look at is in the order of
\* writing.  What is yet to be fetched is newer than what is yet to be polled, and
\* both are newer than what the poller has passed on.
ServerInv ==
    /\ \A n \in 1..Len(server) : server[n].text <= texts
    /\ \A n \in 1..Len(updates) : updates[n].text <= texts
    /\ InOrderOfWriting(server) /\ InOrderOfWriting(updates)
    /\ \A m \in 1..Len(updates), n \in 1..Len(server) :
         n > fetched => updates[m].text = 0 \/ server[n].text = 0 \/ updates[m].text < server[n].text
    /\ \A n \in 1..Len(updates), m \in Passed \cup dropped :
         updates[n].text = 0 \/ m < updates[n].text
    /\ \A n \in 1..Len(server), m \in Passed \cup dropped :
         n > fetched => server[n].text = 0 \/ m < server[n].text

\* What is further on its way is older.
OrderInv ==
    /\ Ordered(heard) /\ Ordered(textCh)
    /\ Before(ToSet(heard), ToSet(lines) \cup {hand} \cup ToSet(textCh) \cup {full})
    /\ Before(ToSet(lines), {hand} \cup ToSet(textCh) \cup {full})
    /\ Before({hand}, ToSet(textCh) \cup {full})
    /\ Before(ToSet(textCh), {full})

\* What was dropped is older than what waits, and something newer went on.
DropInv ==
    \A d \in dropped :
        /\ Before({d}, ToSet(textCh) \cup {full})
        /\ \E n \in Passed : d < n

IInv == TypeOK /\ QueueInv /\ ServerInv /\ OrderInv /\ DropInv

-----------------------------------------------------------------------------
(* Sequences *)

LEMMA Appended ==
    ASSUME NEW S, NEW s \in Seq(S), NEW x \in S
    PROVE  /\ Append(s, x) \in Seq(S)
           /\ ToSet(Append(s, x)) = ToSet(s) \cup {x}
<1>. DEFINE t == Append(s, x)
<1>1. Len(s) \in Nat /\ DOMAIN s = 1..Len(s) /\ DOMAIN t = 1..(Len(s) + 1)
      /\ t[Len(s) + 1] = x /\ \A j \in 1..Len(s) : t[j] = s[j]
  OBVIOUS
<1>2. ToSet(t) \subseteq ToSet(s) \cup {x}
  BY <1>1 DEF ToSet
<1>3. ToSet(s) \cup {x} \subseteq ToSet(t)
  BY <1>1 DEF ToSet
<1>. QED  BY <1>2, <1>3

LEMMA HeadAndTail ==
    ASSUME NEW S, NEW s \in Seq(S), s # <<>>
    PROVE  /\ Head(s) \in S /\ Tail(s) \in Seq(S) /\ Head(s) = s[1]
           /\ Len(s) \in Nat \ {0} /\ Len(Tail(s)) = Len(s) - 1
           /\ \A j \in 1..(Len(s) - 1) : Tail(s)[j] = s[j + 1]
           /\ ToSet(s) = ToSet(Tail(s)) \cup {Head(s)}
<1>. DEFINE t == Tail(s)
<1>1. Len(s) \in Nat \ {0} /\ DOMAIN s = 1..Len(s) /\ DOMAIN t = 1..(Len(s) - 1)
      /\ Head(s) = s[1] /\ s[1] \in S /\ \A j \in 1..(Len(s) - 1) : t[j] = s[j + 1]
      /\ t \in Seq(S) /\ Len(t) = Len(s) - 1
  OBVIOUS
<1>2. ToSet(s) \subseteq ToSet(t) \cup {s[1]}
  <2>. SUFFICES ASSUME NEW j \in 1..Len(s) PROVE s[j] \in ToSet(t) \cup {s[1]}
    BY <1>1 DEF ToSet
  <2>1. CASE j = 1
    BY <2>1
  <2>2. CASE j # 1
    <3>1. j - 1 \in 1..(Len(s) - 1) /\ t[j - 1] = s[j]
      BY <1>1, <2>2
    <3>. QED  BY <1>1, <3>1 DEF ToSet
  <2>. QED  BY <2>1, <2>2
<1>3. ToSet(t) \cup {s[1]} \subseteq ToSet(s)
  BY <1>1 DEF ToSet
<1>. QED  BY <1>1, <1>2, <1>3

LEMMA Concatenated ==
    ASSUME NEW S, NEW s \in Seq(S), NEW t \in Seq(S)
    PROVE  /\ s \o t \in Seq(S) /\ Len(s) \in Nat /\ Len(s \o t) = Len(s) + Len(t)
           /\ \A j \in 1..Len(s) : (s \o t)[j] = s[j]
           /\ \A j \in 1..Len(t) : (s \o t)[Len(s) + j] = t[j]
OBVIOUS

LEMMA OrderedAppend ==
    ASSUME NEW s \in Seq(Nat), NEW x \in Nat, Ordered(s), Before(ToSet(s), {x})
    PROVE  Ordered(Append(s, x))
<1>. DEFINE t == Append(s, x)
<1>1. Len(s) \in Nat /\ DOMAIN s = 1..Len(s) /\ DOMAIN t = 1..(Len(s) + 1)
      /\ t[Len(s) + 1] = x /\ \A j \in 1..Len(s) : t[j] = s[j]
  OBVIOUS
<1>2. \A j \in 1..Len(s) : s[j] = 0 \/ x = 0 \/ s[j] < x
  BY <1>1 DEF Before, ToSet
<1>. QED  BY <1>1, <1>2 DEF Ordered

LEMMA OrderedTail ==
    ASSUME NEW s \in Seq(Nat), s # <<>>, Ordered(s)
    PROVE  Ordered(Tail(s)) /\ Before({Head(s)}, ToSet(Tail(s)))
<1>. DEFINE t == Tail(s)
<1>1. Len(s) \in Nat \ {0} /\ DOMAIN s = 1..Len(s) /\ DOMAIN t = 1..(Len(s) - 1)
      /\ Head(s) = s[1] /\ \A j \in 1..(Len(s) - 1) : t[j] = s[j + 1]
  OBVIOUS
<1>2. Ordered(t)
  BY <1>1 DEF Ordered
<1>3. \A j \in 1..(Len(s) - 1) : s[1] = 0 \/ t[j] = 0 \/ s[1] < t[j]
  BY <1>1 DEF Ordered
<1>4. Before({Head(s)}, ToSet(t))
  BY <1>1, <1>3 DEF Before, ToSet
<1>. QED  BY <1>2, <1>4

LEMMA OrderedConcat ==
    ASSUME NEW s \in Seq(Nat), NEW t \in Seq(Nat),
           Ordered(s), Ordered(t), Before(ToSet(s), ToSet(t))
    PROVE  s \o t \in Seq(Nat) /\ Ordered(s \o t) /\ ToSet(s \o t) = ToSet(s) \cup ToSet(t)
<1>. DEFINE u == s \o t
<1>1. /\ Len(s) \in Nat /\ Len(t) \in Nat /\ u \in Seq(Nat)
      /\ DOMAIN s = 1..Len(s) /\ DOMAIN t = 1..Len(t) /\ DOMAIN u = 1..(Len(s) + Len(t))
      /\ \A j \in 1..Len(s) : u[j] = s[j]
      /\ \A j \in 1..Len(t) : u[Len(s) + j] = t[j]
  OBVIOUS
<1>2. \A j \in DOMAIN u : j \in 1..Len(s) \/ (j - Len(s) \in 1..Len(t) /\ u[j] = t[j - Len(s)] /\ j > Len(s))
  <2>. SUFFICES ASSUME NEW j \in 1..(Len(s) + Len(t)), j \notin 1..Len(s)
                PROVE  j - Len(s) \in 1..Len(t) /\ u[j] = t[j - Len(s)] /\ j > Len(s)
    BY <1>1
  <2>1. j - Len(s) \in 1..Len(t) /\ j = Len(s) + (j - Len(s)) /\ j > Len(s)
    BY <1>1
  <2>. QED  BY <1>1, <2>1
<1>3. \A j \in 1..Len(s), k \in 1..Len(t) : s[j] = 0 \/ t[k] = 0 \/ s[j] < t[k]
  BY <1>1 DEF Before, ToSet
<1>4. Ordered(u)
  <2>. SUFFICES ASSUME NEW m \in DOMAIN u, NEW n \in DOMAIN u, m < n
                PROVE  u[m] = 0 \/ u[n] = 0 \/ u[m] < u[n]
    BY DEF Ordered
  <2>1. CASE m \in 1..Len(s) /\ n \in 1..Len(s)
    BY <1>1, <2>1 DEF Ordered
  <2>2. CASE m \in 1..Len(s) /\ n \notin 1..Len(s)
    BY <1>1, <1>2, <1>3, <2>2
  <2>3. CASE m \notin 1..Len(s) /\ n \notin 1..Len(s)
    <3>1. m - Len(s) \in DOMAIN t /\ n - Len(s) \in DOMAIN t /\ m - Len(s) < n - Len(s)
      BY <1>1, <1>2, <2>3
    <3>. QED  BY <1>2, <2>3, <3>1 DEF Ordered
  <2>4. CASE m \notin 1..Len(s) /\ n \in 1..Len(s)
    BY <1>1, <1>2, <2>4
  <2>. QED  BY <2>1, <2>2, <2>3, <2>4
<1>5. ToSet(u) \subseteq ToSet(s) \cup ToSet(t)
  BY <1>1, <1>2 DEF ToSet
<1>6. ToSet(s) \cup ToSet(t) \subseteq ToSet(u)
  <2>1. \A j \in 1..Len(t) : Len(s) + j \in DOMAIN u
    BY <1>1
  <2>2. ToSet(s) \subseteq ToSet(u)
    BY <1>1 DEF ToSet
  <2>3. ToSet(t) \subseteq ToSet(u)
    BY <1>1, <2>1 DEF ToSet
  <2>. QED  BY <2>2, <2>3
<1>. QED  BY <1>1, <1>4, <1>5, <1>6

LEMMA Single ==
    ASSUME NEW x \in Nat
    PROVE  <<x>> \in Seq(Nat) /\ Ordered(<<x>>) /\ ToSet(<<x>>) = {x} /\ Len(<<x>>) = 1
BY DEF Ordered, ToSet

LEMMA Nothing ==
    ASSUME NEW S
    PROVE  <<>> \in Seq(S) /\ Ordered(<<>>) /\ ToSet(<<>>) = {} /\ Len(<<>>) = 0
BY DEF Ordered, ToSet

LEMMA OnlyLine ==
    ASSUME QueueInv, TypeOK, lines # <<>>
    PROVE  lines = <<Head(lines)>> /\ Head(lines) \in Nat /\ ToSet(lines) = {Head(lines)}
<1>1. Len(lines) = 1 /\ lines \in Seq(Nat)
  <2>1. lines \in Seq(Nat) /\ Len(lines) <= 1
    BY DEF QueueInv, TypeOK
  <2>2. Len(lines) \in Nat \ {0}
    BY <2>1, EmptySeq
  <2>. DEFINE n == Len(lines)
  <2>3. n <= 1 /\ n \in Nat \ {0}
    BY <2>1, <2>2
  <2>4. n = 1
    <3>. HIDE DEF n
    <3>. QED  BY <2>3
  <2>. QED  BY <2>1, <2>4
<1>. DEFINE s == <<Head(lines)>>
<1>2. Head(lines) \in Nat /\ lines[1] = Head(lines)
  BY <1>1
<1>3. s \in Seq(Nat) /\ Len(s) = 1 /\ s[1] = Head(lines)
  BY <1>2
<1>4. lines = s
  <2>. HIDE DEF s
  <2>1. Len(lines) = Len(s) /\ \A i \in 1..Len(lines) : lines[i] = s[i]
    BY <1>1, <1>2, <1>3
  <2>. QED  BY <1>1, <1>3, <2>1, SeqEqual
<1>. QED  BY <1>2, <1>4, Single

-----------------------------------------------------------------------------
(* What the human and Telegram do *)

LEMMA InitInv == Init => IInv
<1>. SUFFICES ASSUME Init PROVE IInv
  OBVIOUS
<1>1. /\ ToSet(heard) = {} /\ ToSet(lines) = {} /\ ToSet(textCh) = {}
      /\ Ordered(heard) /\ Ordered(textCh)
  BY Nothing DEF Init
<1>2. TypeOK
  BY <1>1, CapAssumption, BoundAssumption DEF Init, TypeOK
<1>3. QueueInv
  BY DEF Init, QueueInv
<1>4. ServerInv
  BY DEF Init, ServerInv, InOrderOfWriting
<1>5. OrderInv
  BY <1>1 DEF Init, OrderInv, Before
<1>6. DropInv
  BY DEF Init, DropInv
<1>. QED  BY <1>2, <1>3, <1>4, <1>5, <1>6 DEF IInv

\* What is passed on or dropped was written.
LEMMA PassedWritten ==
    ASSUME TypeOK, NEW m \in Passed \cup dropped PROVE m \in Nat /\ m <= texts
<1>1. texts \in Nat /\ full \in 0..texts /\ hand \in 0..texts
  BY BoundAssumption DEF TypeOK
<1>2. ToSet(textCh) \cup ToSet(lines) \cup ToSet(heard) \cup dropped \subseteq 1..texts
  BY DEF TypeOK
<1>. QED  BY <1>1, <1>2 DEF Passed

\* An update more, with a text that is newer than all others or with none.
LEMMA ServerGrows ==
    ASSUME IInv, NEW u \in Update, server' = Append(server, u),
           u.text = 0 \/ u.text = texts + 1, u.text <= texts', texts <= texts',
           texts' \in 0..MaxTexts, presses' \in 0..MaxPresses,
           UNCHANGED <<fetched, updates, poller, broker, session, dropped, lost, restarts>>
    PROVE  IInv'
<1>. USE DEF poller, broker, session
<1>1. /\ TypeOK /\ server \in Seq(Update) /\ updates \in Seq(Update) /\ texts \in Nat
      /\ texts' \in Nat /\ fetched \in Nat
  BY BoundAssumption DEF IInv, QueueInv, TypeOK
<1>2. /\ Len(server) \in Nat /\ Len(server') = Len(server) + 1 /\ server' \in Seq(Update)
      /\ server'[Len(server) + 1] = u
      /\ \A n \in 1..Len(server) : server'[n] = server[n] /\ server[n] \in Update
  BY <1>1
<1>3. TypeOK'
  <2>1. fetched \in 0..Len(server') /\ full \in 0..texts' /\ hand \in 0..texts'
    BY <1>1, <1>2 DEF TypeOK
  <2>2. ToSet(textCh) \cup ToSet(lines) \cup ToSet(heard) \cup dropped \cup lost \subseteq 1..texts'
    BY <1>1 DEF TypeOK
  <2>. QED  BY <1>1, <2>1, <2>2 DEF TypeOK
<1>4. QueueInv'
  BY <1>2 DEF IInv, QueueInv
<1>5. ServerInv'
  <2>1. Passed' = Passed
    BY DEF Passed
  <2>2. ServerInv
    BY DEF IInv
  <2>3. /\ \A n \in 1..Len(server') : server'[n].text <= texts'
        /\ \A n \in 1..Len(updates) : updates[n].text <= texts'
    <3>1. \A n \in 1..Len(updates) : updates[n] \in Update /\ updates[n].text <= texts
      BY <1>1, <2>2 DEF ServerInv
    <3>2. \A n \in 1..Len(server) : server[n].text \in Nat /\ server[n].text <= texts
      BY <1>2, <2>2 DEF ServerInv, Update
    <3>3. \A n \in 1..Len(server') : n \in 1..Len(server) \/ n = Len(server) + 1
      BY <1>2
    <3>4. \A n \in 1..Len(server') : server'[n].text <= texts'
      BY <1>1, <1>2, <3>2, <3>3
    <3>5. \A n \in 1..Len(updates) : updates[n].text \in Nat
      BY <3>1 DEF Update
    <3>. QED  BY <1>1, <3>1, <3>4, <3>5
  <2>4. InOrderOfWriting(server')
    <3>. SUFFICES ASSUME NEW m \in 1..Len(server'), NEW n \in 1..Len(server'), m < n
                  PROVE  server'[m].text = 0 \/ server'[n].text = 0 \/ server'[m].text < server'[n].text
      BY DEF InOrderOfWriting
    <3>1. m \in 1..Len(server)
      BY <1>2
    <3>2. CASE n \in 1..Len(server)
      BY <1>2, <2>2, <3>1, <3>2 DEF ServerInv, InOrderOfWriting
    <3>3. CASE n = Len(server) + 1
      <4>1. server[m].text <= texts /\ server[m].text \in Nat /\ server'[n] = u
        BY <1>2, <2>2, <3>1, <3>3 DEF ServerInv, Update
      <4>. QED  BY <1>1, <1>2, <3>1, <4>1
    <3>. QED  BY <1>2, <3>2, <3>3
  <2>5. ASSUME NEW m \in 1..Len(updates), NEW n \in 1..Len(server'), n > fetched
        PROVE  updates[m].text = 0 \/ server'[n].text = 0 \/ updates[m].text < server'[n].text
    <3>1. CASE n \in 1..Len(server)
      BY <1>2, <2>2, <2>5, <3>1 DEF ServerInv
    <3>2. CASE n = Len(server) + 1
      <4>1. updates[m] \in Update /\ updates[m].text <= texts
        BY <1>1, <2>2 DEF ServerInv
      <4>. QED  BY <1>1, <1>2, <3>2, <4>1 DEF Update
    <3>. QED  BY <1>2, <3>1, <3>2
  <2>6. ASSUME NEW n \in 1..Len(server'), NEW m \in Passed \cup dropped, n > fetched
        PROVE  server'[n].text = 0 \/ m < server'[n].text
    <3>1. CASE n \in 1..Len(server)
      BY <1>2, <2>2, <2>6, <3>1 DEF ServerInv
    <3>2. CASE n = Len(server) + 1
      BY <1>1, <1>2, <3>2, PassedWritten
    <3>. QED  BY <1>2, <3>1, <3>2
  <2>. QED  BY <2>1, <2>2, <2>3, <2>4, <2>5, <2>6 DEF ServerInv
<1>6. OrderInv' /\ DropInv'
  BY DEF IInv, OrderInv, DropInv, Passed
<1>. QED  BY <1>3, <1>4, <1>5, <1>6 DEF IInv

LEMMA HumanInv == ASSUME IInv, Human PROVE IInv'
<1>1. texts \in 0..MaxTexts /\ presses \in 0..MaxPresses /\ question \in Nat
      /\ MaxTexts \in Nat /\ MaxPresses \in Nat
  BY BoundAssumption DEF IInv, TypeOK
<1>2. CASE Write
  <2>1. /\ server' = Append(server, Text(texts')) /\ texts' = texts + 1
        /\ texts < MaxTexts /\ presses' = presses
        /\ UNCHANGED <<fetched, updates, poller, broker, session, dropped, lost, restarts>>
    BY <1>2 DEF Write
  <2>2. Text(texts') \in Update /\ Text(texts').text = texts + 1
    BY <1>1, <2>1 DEF Text, Update
  <2>3. texts <= texts' /\ texts' \in 0..MaxTexts /\ presses' \in 0..MaxPresses
    BY <1>1, <2>1
  <2>4. Text(texts').text <= texts'
    BY <1>1, <2>1, <2>2
  <2>. QED  BY <2>1, <2>2, <2>3, <2>4, ServerGrows
<1>3. ASSUME NEW q \in 1..question, PressButton(q) PROVE IInv'
  <2>1. /\ server' = Append(server, Press(q)) /\ texts' = texts
        /\ presses' = presses + 1 /\ presses < MaxPresses
        /\ UNCHANGED <<fetched, updates, poller, broker, session, dropped, lost, restarts>>
    BY <1>3 DEF PressButton
  <2>2. Press(q) \in Update /\ Press(q).text = 0
    BY <1>1, <1>3 DEF Press, Update
  <2>3. texts <= texts' /\ texts' \in 0..MaxTexts /\ presses' \in 0..MaxPresses
    BY <1>1, <2>1
  <2>4. Press(q).text <= texts'
    BY <1>1, <2>1, <2>2
  <2>. QED  BY <2>1, <2>2, <2>3, <2>4, ServerGrows
<1>. QED  BY <1>2, <1>3 DEF Human

LEMMA FetchInv == ASSUME IInv, Fetch PROVE IInv'
<1>. USE DEF poller, broker, session, bounds
<1>1. /\ TypeOK /\ ServerInv /\ server \in Seq(Update) /\ updates \in Seq(Update)
      /\ texts \in Nat /\ fetched \in 0..Len(server) /\ Len(server) \in Nat
  BY BoundAssumption DEF IInv, QueueInv, TypeOK
<1>2. /\ server' \in Seq(Update) /\ fetched' = Len(server')
      /\ Len(server') = Len(server) - fetched
      /\ \A n \in 1..Len(server') : /\ server'[n] = server[fetched + n] /\ fetched + n > fetched
                                    /\ fetched + n \in 1..Len(server)
  <2>1. /\ server' = SubSeq(server, fetched + 1, Len(server)) /\ fetched' = Len(server')
    BY DEF Fetch
  <2>2. \A i \in (fetched + 1)..Len(server) : server[i] \in Update
    BY <1>1
  <2>3. /\ server' \in Seq(Update)
        /\ Len(server') = IF fetched + 1 <= Len(server) THEN Len(server) - (fetched + 1) + 1 ELSE 0
        /\ \A i \in 1..(Len(server) - (fetched + 1) + 1) : server'[i] = server[fetched + 1 + i - 1]
    BY <1>1, <2>1, <2>2, SubSeqProperties
  <2>4. Len(server') = Len(server) - fetched
    BY <1>1, <2>3
  <2>5. ASSUME NEW n \in 1..Len(server')
        PROVE  /\ server'[n] = server[fetched + n] /\ fetched + n > fetched
               /\ fetched + n \in 1..Len(server)
    <3>1. fetched + 1 + n - 1 = fetched + n /\ n \in 1..(Len(server) - (fetched + 1) + 1)
      BY <1>1, <2>4
    <3>. QED  BY <1>1, <2>3, <2>4, <3>1
  <2>. QED  BY <2>1, <2>3, <2>4, <2>5
<1>3. /\ UNCHANGED <<full, textCh, callbackCh, hand, lines, mode, question, heard,
                     dropped, lost, texts, presses, restarts>>
  BY DEF Fetch
<1>4. /\ updates' \in Seq(Update) /\ Len(updates) \in Nat /\ Len(updates') = Len(updates) + Len(server')
      /\ \A n \in 1..Len(updates) : updates'[n] = updates[n]
      /\ \A n \in 1..Len(server') : updates'[Len(updates) + n] = server'[n]
  <2>1. updates' = updates \o server'
    BY DEF Fetch
  <2>2. server' \in Seq(Update) /\ updates \in Seq(Update)
    BY <1>1, <1>2
  <2>. QED  BY <2>1, <2>2, Concatenated
<1>5. ASSUME NEW n \in 1..Len(updates'), n \notin 1..Len(updates)
      PROVE  n - Len(updates) \in 1..Len(server') /\ updates'[n] = server'[n - Len(updates)]
  <2>1. n - Len(updates) \in 1..Len(server') /\ Len(updates) + (n - Len(updates)) = n
    BY <1>2, <1>4, <1>5
  <2>. QED  BY <1>4, <2>1
<1>6. TypeOK'
  <2>1. Len(server') \in Nat /\ fetched' \in 0..Len(server')
    BY <1>1, <1>2
  <2>. QED  BY <1>1, <1>3, <2>1 DEF TypeOK
<1>7. QueueInv'
  BY <1>2, <1>3, <1>4 DEF IInv, QueueInv
<1>8. InOrderOfWriting(server')
  <2>. SUFFICES ASSUME NEW m \in 1..Len(server'), NEW n \in 1..Len(server'), m < n
                PROVE  server'[m].text = 0 \/ server'[n].text = 0 \/ server'[m].text < server'[n].text
    BY DEF InOrderOfWriting
  <2>1. /\ server'[m] = server[fetched + m] /\ fetched + m \in 1..Len(server)
        /\ server'[n] = server[fetched + n] /\ fetched + n \in 1..Len(server)
        /\ fetched + m < fetched + n
    BY <1>1, <1>2
  <2>. QED  BY <1>1, <2>1 DEF ServerInv, InOrderOfWriting
<1>9. InOrderOfWriting(updates')
  <2>. SUFFICES ASSUME NEW m \in 1..Len(updates'), NEW n \in 1..Len(updates'), m < n
                PROVE  updates'[m].text = 0 \/ updates'[n].text = 0 \/ updates'[m].text < updates'[n].text
    BY DEF InOrderOfWriting
  <2>1. CASE m \in 1..Len(updates) /\ n \in 1..Len(updates)
    BY <1>1, <1>4, <2>1 DEF ServerInv, InOrderOfWriting
  <2>2. CASE m \in 1..Len(updates) /\ n \notin 1..Len(updates)
    <3>. DEFINE k == n - Len(updates)
    <3>1. k \in 1..Len(server') /\ updates'[n] = server'[k] /\ updates'[m] = updates[m]
      BY <1>4, <1>5, <2>2
    <3>. HIDE DEF k
    <3>2. server'[k] = server[fetched + k] /\ fetched + k > fetched /\ fetched + k \in 1..Len(server)
      BY <1>2, <3>1
    <3>. QED  BY <1>1, <2>2, <3>1, <3>2 DEF ServerInv
  <2>3. CASE m \notin 1..Len(updates) /\ n \notin 1..Len(updates)
    <3>1. m - Len(updates) < n - Len(updates)
      BY <1>4
    <3>. QED  BY <1>5, <1>8, <2>3, <3>1 DEF InOrderOfWriting
  <2>4. CASE m \notin 1..Len(updates) /\ n \in 1..Len(updates)
    BY <1>4, <2>4
  <2>. QED  BY <2>1, <2>2, <2>3, <2>4
<1>10. ServerInv'
  <2>1. Passed' \cup dropped' = Passed \cup dropped /\ texts' = texts
    BY <1>3 DEF Passed
  <2>2. \A n \in 1..Len(server') : server'[n].text <= texts
    BY <1>1, <1>2 DEF ServerInv
  <2>3. ASSUME NEW n \in 1..Len(updates') PROVE updates'[n].text <= texts
    <3>1. CASE n \in 1..Len(updates)
      BY <1>1, <1>4, <3>1 DEF ServerInv
    <3>2. CASE n \notin 1..Len(updates)
      BY <1>5, <2>2, <3>2
    <3>. QED  BY <3>1, <3>2
  <2>4. ASSUME NEW n \in 1..Len(server'), NEW m \in Passed \cup dropped
        PROVE  server'[n].text = 0 \/ m < server'[n].text
    BY <1>1, <1>2 DEF ServerInv
  <2>5. ASSUME NEW n \in 1..Len(updates'), NEW m \in Passed \cup dropped
        PROVE  updates'[n].text = 0 \/ m < updates'[n].text
    <3>1. CASE n \in 1..Len(updates)
      BY <1>1, <1>4, <3>1 DEF ServerInv
    <3>2. CASE n \notin 1..Len(updates)
      BY <1>5, <2>4, <3>2
    <3>. QED  BY <3>1, <3>2
  <2>6. \A n \in 1..Len(server') : ~(n > fetched')
    BY <1>1, <1>2
  <2>. QED  BY <1>8, <1>9, <2>1, <2>2, <2>3, <2>5, <2>6 DEF ServerInv
<1>11. OrderInv' /\ DropInv'
  BY <1>3 DEF IInv, OrderInv, DropInv, Passed
<1>. QED  BY <1>6, <1>7, <1>10, <1>11 DEF IInv

-----------------------------------------------------------------------------
(* What the poller does *)

\* The next update is newer than everything before it.
LEMMA NextUpdate ==
    ASSUME IInv, updates # <<>>
    PROVE  /\ Head(updates) \in Update /\ Head(updates).text <= texts
           /\ \A m \in Passed \cup dropped : Head(updates).text = 0 \/ m < Head(updates).text
<1>1. ServerInv /\ updates \in Seq(Update)
  BY DEF IInv, QueueInv
<1>2. Head(updates) \in Update /\ Head(updates) = updates[1] /\ Len(updates) \in Nat \ {0}
  BY <1>1, HeadAndTail
<1>3. 1 \in 1..Len(updates)
  BY <1>2
<1>. QED  BY <1>1, <1>2, <1>3 DEF ServerInv

\* Polling an update keeps what is known of Telegram.
LEMMA PollKeeps ==
    ASSUME IInv, updates # <<>>, updates' = Tail(updates),
           UNCHANGED <<server, fetched, texts, dropped>>,
           Passed' \subseteq Passed \cup {Head(updates).text}
    PROVE  ServerInv' /\ updates' \in Seq(Update) /\ fetched' \in 0..Len(server')
<1>1. /\ TypeOK /\ ServerInv /\ server \in Seq(Update) /\ updates \in Seq(Update)
      /\ fetched \in 0..Len(server) /\ Len(server) \in Nat
  BY DEF IInv, QueueInv, TypeOK
<1>2. /\ Len(updates) \in Nat \ {0} /\ Len(updates') = Len(updates) - 1
      /\ updates' \in Seq(Update) /\ Head(updates) = updates[1]
      /\ \A j \in 1..(Len(updates) - 1) : updates'[j] = updates[j + 1]
  BY <1>1, HeadAndTail
<1>3. \A n \in 1..Len(updates') : updates'[n] = updates[n + 1] /\ n + 1 \in 1..Len(updates) /\ 1 < n + 1
  BY <1>2
<1>4. 1 \in 1..Len(updates) /\ \A n \in 1..Len(updates) : updates[n].text \in Nat
  <2>1. \A n \in 1..Len(updates) : updates[n] \in Update
    BY <1>1
  <2>. QED  BY <1>2, <2>1 DEF Update
<1>5. InOrderOfWriting(updates')
  <2>. SUFFICES ASSUME NEW m \in 1..Len(updates'), NEW n \in 1..Len(updates'), m < n
                PROVE  updates'[m].text = 0 \/ updates'[n].text = 0 \/ updates'[m].text < updates'[n].text
    BY DEF InOrderOfWriting
  <2>1. m + 1 < n + 1
    OBVIOUS
  <2>. QED  BY <1>1, <1>3, <2>1 DEF ServerInv, InOrderOfWriting
<1>6. ASSUME NEW n \in 1..Len(updates'), NEW m \in Passed' \cup dropped
      PROVE  updates'[n].text = 0 \/ m < updates'[n].text
  <2>1. CASE m \in Passed \cup dropped
    BY <1>1, <1>3, <2>1 DEF ServerInv
  <2>2. CASE m = updates[1].text
    <3>1. m = 0 \/ updates'[n].text = 0 \/ m < updates'[n].text
      BY <1>1, <1>3, <1>4, <2>2 DEF ServerInv, InOrderOfWriting
    <3>2. m \in Nat /\ updates'[n].text \in Nat
      BY <1>3, <1>4, <2>2
    <3>. QED  BY <3>1, <3>2
  <2>. QED  BY <1>2, <2>1, <2>2
<1>7. ASSUME NEW n \in 1..Len(server), NEW m \in Passed' \cup dropped, n > fetched
      PROVE  server[n].text = 0 \/ m < server[n].text
  <2>1. CASE m \in Passed \cup dropped
    BY <1>1, <1>7, <2>1 DEF ServerInv
  <2>2. CASE m = updates[1].text
    <3>1. m = 0 \/ server[n].text = 0 \/ m < server[n].text
      BY <1>1, <1>4, <1>7, <2>2 DEF ServerInv
    <3>2. m \in Nat /\ server[n].text \in Nat
      <4>1. server[n] \in Update
        BY <1>1
      <4>. QED  BY <1>4, <2>2, <4>1 DEF Update
    <3>. QED  BY <3>1, <3>2
  <2>. QED  BY <1>2, <2>1, <2>2
<1>8. /\ \A n \in 1..Len(updates') : updates'[n].text <= texts
      /\ \A m \in 1..Len(updates'), n \in 1..Len(server) :
           n > fetched => updates'[m].text = 0 \/ server[n].text = 0 \/ updates'[m].text < server[n].text
  BY <1>1, <1>3 DEF ServerInv
<1>9. ServerInv'
  BY <1>1, <1>5, <1>6, <1>7, <1>8 DEF ServerInv
<1>. QED  BY <1>1, <1>2, <1>9

LEMMA OfferTextInv == ASSUME IInv, OfferText PROVE IInv'
<1>. USE DEF broker, session, bounds
<1>. DEFINE x == Head(updates).text
<1>1. /\ updates # <<>> /\ x # 0 /\ full = 0 /\ updates' = Tail(updates)
      /\ UNCHANGED <<server, fetched, callbackCh, hand, lines, mode, question, heard,
                     dropped, lost, texts, presses, restarts>>
  BY DEF OfferText, Polled
<1>2. /\ TypeOK /\ QueueInv /\ OrderInv /\ DropInv
      /\ textCh \in Seq(Nat) /\ texts \in Nat /\ TextCap \in Nat
  BY BoundAssumption, CapAssumption DEF IInv, QueueInv, TypeOK
<1>3. x \in 1..texts /\ \A m \in Passed \cup dropped : m < x
  BY <1>1, <1>2, NextUpdate DEF Update
<1>. HIDE DEF x
<1>4. /\ ToSet(textCh') \subseteq ToSet(textCh) \cup {x} /\ full' \in {0, x}
      /\ ToSet(textCh) \subseteq ToSet(textCh')
      /\ textCh' \in Seq(Nat) /\ Len(textCh') <= TextCap /\ full' \in 0..texts
      /\ Ordered(textCh') /\ Before(ToSet(textCh'), {full'})
      /\ x \in ToSet(textCh') \cup {full'}
  <2>1. ToSet(textCh) \subseteq Passed
    BY DEF Passed
  <2>2. CASE Len(textCh) < TextCap
    <3>1. textCh' = Append(textCh, x) /\ full' = 0
      BY <1>1, <2>2 DEF OfferText, x
    <3>2. textCh' \in Seq(Nat) /\ ToSet(textCh') = ToSet(textCh) \cup {x}
      BY <1>2, <1>3, <3>1, Appended
    <3>3. Len(textCh') = Len(textCh) + 1
      BY <1>2, <1>3, <3>1
    <3>4. Ordered(textCh')
      <4>1. Before(ToSet(textCh), {x})
        BY <1>3, <2>1 DEF Before
      <4>. QED  BY <1>2, <1>3, <3>1, <4>1, OrderedAppend DEF OrderInv
    <3>5. Len(textCh') <= TextCap
      BY <1>2, <2>2, <3>3
    <3>6. Before(ToSet(textCh'), {full'})
      BY <3>1 DEF Before
    <3>7. full' \in 0..texts /\ full' \in {0, x}
      BY <1>2, <3>1
    <3>. QED  BY <3>2, <3>4, <3>5, <3>6, <3>7
  <2>3. CASE ~(Len(textCh) < TextCap)
    <3>1. textCh' = textCh /\ full' = x
      BY <1>1, <2>3 DEF OfferText, x
    <3>2. Before(ToSet(textCh'), {full'})
      BY <1>3, <2>1, <3>1 DEF Before
    <3>3. Ordered(textCh') /\ Len(textCh') <= TextCap
      BY <1>2, <3>1 DEF OrderInv, TypeOK
    <3>. QED  BY <1>2, <1>3, <3>1, <3>2, <3>3
  <2>. QED  BY <2>2, <2>3
<1>5. Passed' \subseteq Passed \cup {x} /\ Passed \subseteq Passed' \cup {0} /\ x \in Passed'
  BY <1>1, <1>4 DEF Passed
<1>6. ServerInv' /\ updates' \in Seq(Update) /\ fetched' \in 0..Len(server')
  BY <1>1, <1>5, PollKeeps DEF x
<1>7. QueueInv'
  BY <1>1, <1>2, <1>4, <1>6 DEF QueueInv
<1>8. TypeOK'
  <2>1. ToSet(textCh') \subseteq 1..texts
    <3>1. 0 \notin ToSet(textCh')
      <4>1. 0 \notin ToSet(textCh)
        BY <1>2 DEF TypeOK
      <4>. QED  BY <1>3, <1>4, <4>1
    <3>2. ToSet(textCh) \subseteq 1..texts
      BY <1>2 DEF TypeOK
    <3>. QED  BY <1>1, <1>3, <1>4, <3>1, <3>2
  <2>. QED  BY <1>1, <1>2, <1>4, <1>6, <2>1 DEF TypeOK
<1>9. OrderInv'
  <2>1. Before(ToSet(heard), {x}) /\ Before(ToSet(lines), {x}) /\ Before({hand}, {x})
    BY <1>3 DEF Before, Passed
  <2>2. Before(ToSet(heard), ToSet(lines) \cup {hand} \cup ToSet(textCh') \cup {full'})
    BY <1>1, <1>2, <1>4, <2>1 DEF OrderInv, Before
  <2>3. Before(ToSet(lines), {hand} \cup ToSet(textCh') \cup {full'})
    BY <1>1, <1>2, <1>4, <2>1 DEF OrderInv, Before
  <2>4. Before({hand}, ToSet(textCh') \cup {full'})
    BY <1>1, <1>2, <1>4, <2>1 DEF OrderInv, Before
  <2>5. Ordered(heard)
    BY <1>2 DEF OrderInv
  <2>. QED  BY <1>1, <1>4, <2>2, <2>3, <2>4, <2>5 DEF OrderInv
<1>10. DropInv'
  <2>. SUFFICES ASSUME NEW d \in dropped
                PROVE  Before({d}, ToSet(textCh') \cup {full'}) /\ \E n \in Passed' : d < n
    BY <1>1 DEF DropInv
  <2>1. d < x
    BY <1>3
  <2>2. Before({d}, ToSet(textCh') \cup {full'})
    BY <1>1, <1>2, <1>4, <2>1 DEF DropInv, Before
  <2>. QED  BY <1>5, <2>1, <2>2
<1>. QED  BY <1>6, <1>7, <1>8, <1>9, <1>10 DEF IInv

LEMMA DeliverPressInv == ASSUME IInv, DeliverPress PROVE IInv'
<1>. USE DEF broker, session, bounds
<1>1. /\ updates # <<>> /\ updates' = Tail(updates)
      /\ callbackCh' = Append(callbackCh, Head(updates).press)
      /\ Len(callbackCh) # PressCap
      /\ UNCHANGED <<server, fetched, full, textCh, hand, lines, mode, question, heard,
                     dropped, lost, texts, presses, restarts>>
  BY DEF DeliverPress, Polled, Blocked
<1>2. TypeOK /\ callbackCh \in Seq(Nat) /\ PressCap \in Nat /\ Len(callbackCh) <= PressCap
  BY CapAssumption DEF IInv, QueueInv, TypeOK
<1>3. Head(updates).press \in Nat
  BY <1>1, NextUpdate DEF Update
<1>4. callbackCh' \in Seq(Nat) /\ Len(callbackCh') = Len(callbackCh) + 1
  BY <1>1, <1>2, <1>3
<1>5. Len(callbackCh') <= PressCap
  BY <1>1, <1>2, <1>4
<1>6. Passed' = Passed
  BY <1>1 DEF Passed
<1>7. ServerInv' /\ updates' \in Seq(Update) /\ fetched' \in 0..Len(server')
  BY <1>1, <1>6, PollKeeps
<1>8. TypeOK'
  BY <1>1, <1>2, <1>5, <1>7 DEF TypeOK
<1>9. QueueInv' /\ OrderInv' /\ DropInv'
  BY <1>1, <1>4, <1>6, <1>7 DEF IInv, QueueInv, OrderInv, DropInv
<1>. QED  BY <1>7, <1>8, <1>9 DEF IInv

\* What only moves on, or is dropped, changes nothing about Telegram.
LEMMA MoveKeeps ==
    ASSUME ServerInv, UNCHANGED <<server, fetched, updates, texts>>, QueueInv,
           Passed' \cup dropped' \subseteq Passed \cup dropped \cup {0}
    PROVE  ServerInv'
<1>1. ASSUME NEW u \in Update, NEW m \in Passed' \cup dropped',
             \A k \in Passed \cup dropped : u.text = 0 \/ k < u.text
      PROVE  u.text = 0 \/ m < u.text
  <2>1. CASE m = 0
    BY <2>1 DEF Update
  <2>2. CASE m \in Passed \cup dropped
    BY <1>1, <2>2
  <2>. QED  BY <2>1, <2>2
<1>2. ASSUME NEW n \in 1..Len(server), NEW m \in Passed' \cup dropped', n > fetched
      PROVE  server[n].text = 0 \/ m < server[n].text
  <2>1. server[n] \in Update
    BY DEF QueueInv
  <2>2. \A k \in Passed \cup dropped : server[n].text = 0 \/ k < server[n].text
    BY <1>2 DEF ServerInv
  <2>. QED  BY <1>1, <2>1, <2>2
<1>3. ASSUME NEW n \in 1..Len(updates), NEW m \in Passed' \cup dropped'
      PROVE  updates[n].text = 0 \/ m < updates[n].text
  <2>1. updates[n] \in Update
    BY DEF QueueInv
  <2>2. \A k \in Passed \cup dropped : updates[n].text = 0 \/ k < updates[n].text
    BY DEF ServerInv
  <2>. QED  BY <1>1, <2>1, <2>2
<1>. QED  BY <1>2, <1>3 DEF ServerInv

LEMMA DropOldestInv == ASSUME IInv, DropOldest PROVE IInv'
<1>. USE DEF broker, session, telegram, bounds
<1>1. /\ full # 0 /\ full' = 0
      /\ UNCHANGED <<server, fetched, updates, callbackCh, hand, lines, mode, question, heard,
                     lost, texts, presses, restarts>>
  BY DEF DropOldest
<1>2. /\ TypeOK /\ QueueInv /\ ServerInv /\ OrderInv /\ DropInv
      /\ textCh \in Seq(Nat) /\ texts \in Nat /\ full \in 1..texts
      /\ TextCap \in Nat \ {0} /\ Len(textCh) <= TextCap
      /\ dropped \subseteq 1..texts /\ ToSet(textCh) \subseteq 1..texts
  <2>1. TypeOK /\ QueueInv /\ ServerInv /\ OrderInv /\ DropInv
    BY DEF IInv
  <2>2. textCh \in Seq(Nat) /\ texts \in Nat /\ TextCap \in Nat \ {0} /\ Len(textCh) <= TextCap
    BY <2>1, BoundAssumption, CapAssumption DEF QueueInv, TypeOK
  <2>3. dropped \subseteq 1..texts /\ ToSet(textCh) \subseteq 1..texts /\ full \in 0..texts
    BY <2>1 DEF TypeOK
  <2>. QED  BY <1>1, <2>1, <2>2, <2>3
<1>3. \A d \in dropped : d < full
  <2>1. DropInv /\ full # 0 /\ full \in Nat /\ dropped \subseteq 1..texts /\ texts \in Nat
    BY <1>2
  <2>. QED  BY <2>1 DEF DropInv, Before
<1>4. CASE textCh = <<>>
  <2>1. textCh' = <<full>> /\ dropped' = dropped
    BY <1>4 DEF DropOldest
  <2>2. ToSet(textCh') = {full} /\ Ordered(textCh') /\ textCh' \in Seq(Nat) /\ Len(textCh') = 1
    BY <1>2, <2>1, Single
  <2>3. Passed' \subseteq Passed \cup {0} /\ full \in Passed'
    BY <1>1, <2>2 DEF Passed
  <2>4. QueueInv' /\ ServerInv'
    BY <1>1, <1>2, <2>1, <2>2, <2>3, MoveKeeps DEF QueueInv
  <2>5. TypeOK'
    BY <1>1, <1>2, <2>1, <2>2 DEF TypeOK
  <2>6. OrderInv'
    BY <1>1, <1>2, <2>2 DEF OrderInv, Before
  <2>7. DropInv'
    BY <1>1, <1>2, <1>3, <2>1, <2>2, <2>3 DEF DropInv, Before
  <2>. QED  BY <2>4, <2>5, <2>6, <2>7 DEF IInv
<1>5. CASE textCh # <<>>
  <2>. DEFINE h == Head(textCh)
              t == Tail(textCh)
  <2>1. textCh' = Append(t, full) /\ dropped' = dropped \cup {h}
    BY <1>5 DEF DropOldest
  <2>2. /\ h \in Nat /\ t \in Seq(Nat) /\ Len(t) = Len(textCh) - 1 /\ Len(textCh) \in Nat
        /\ ToSet(textCh) = ToSet(t) \cup {h}
    BY <1>2, <1>5, HeadAndTail
  <2>3. Ordered(t) /\ Before({h}, ToSet(t))
    BY <1>2, <1>5, OrderedTail DEF OrderInv
  <2>. HIDE DEF h, t
  <2>4. Before(ToSet(textCh), {full})
    BY <1>2 DEF OrderInv
  <2>5. Before(ToSet(t), {full}) /\ h \in 1..texts /\ h < full
    <3>1. Before(ToSet(t), {full})
      BY <2>2, <2>4 DEF Before
    <3>2. h \in 1..texts
      BY <1>2, <2>2
    <3>3. h = 0 \/ full = 0 \/ h < full
      BY <2>2, <2>4 DEF Before
    <3>4. h # 0 /\ full # 0
      <4>1. texts \in Nat /\ full \in 1..texts
        BY <1>2
      <4>. QED  BY <3>2, <4>1
    <3>5. h < full
      BY <3>3, <3>4
    <3>. QED  BY <3>1, <3>2, <3>5
  <2>6. textCh' \in Seq(Nat) /\ ToSet(textCh') = ToSet(t) \cup {full} /\ Ordered(textCh')
    <3>1. full \in Nat /\ t \in Seq(Nat)
      BY <1>2, <2>2
    <3>2. textCh' \in Seq(Nat) /\ ToSet(textCh') = ToSet(t) \cup {full}
      BY <2>1, <3>1, Appended
    <3>3. Ordered(textCh')
      BY <2>1, <2>3, <2>5, <3>1, OrderedAppend
    <3>. QED  BY <3>2, <3>3
  <2>7. Len(textCh') <= TextCap
    BY <1>2, <2>1, <2>2
  <2>8. Passed' \cup dropped' \subseteq Passed \cup dropped \cup {0} /\ full \in Passed'
    BY <1>1, <2>1, <2>2, <2>6 DEF Passed
  <2>9. QueueInv' /\ ServerInv'
    BY <1>1, <1>2, <2>6, <2>8, MoveKeeps DEF QueueInv
  <2>10. TypeOK'
    <3>1. ToSet(textCh') \subseteq 1..texts /\ dropped' \subseteq 1..texts
      BY <1>2, <2>1, <2>2, <2>5, <2>6
    <3>2. full' \in 0..texts' /\ hand' \in 0..texts' /\ fetched' \in 0..Len(server')
      BY <1>1, <1>2 DEF TypeOK
    <3>3. ToSet(textCh') \cup ToSet(lines') \cup ToSet(heard') \cup dropped' \cup lost' \subseteq 1..texts'
      BY <1>1, <1>2, <3>1 DEF TypeOK
    <3>. QED  BY <1>1, <1>2, <2>7, <3>2, <3>3 DEF TypeOK
  <2>11. OrderInv'
    <3>1. ToSet(textCh') \subseteq ToSet(textCh) \cup {full}
      BY <2>2, <2>6
    <3>2. Before(ToSet(heard), ToSet(lines) \cup {hand} \cup ToSet(textCh') \cup {0})
      BY <1>2, <3>1 DEF OrderInv, Before
    <3>3. Before(ToSet(lines), {hand} \cup ToSet(textCh') \cup {0})
      BY <1>2, <3>1 DEF OrderInv, Before
    <3>4. Before({hand}, ToSet(textCh') \cup {0}) /\ Before(ToSet(textCh'), {0})
      BY <1>2, <3>1 DEF OrderInv, Before
    <3>5. Ordered(heard)
      BY <1>2 DEF OrderInv
    <3>. QED  BY <1>1, <2>6, <3>2, <3>3, <3>4, <3>5 DEF OrderInv
  <2>12. DropInv'
    <3>. SUFFICES ASSUME NEW d \in dropped'
                  PROVE  Before({d}, ToSet(textCh') \cup {full'}) /\ \E n \in Passed' : d < n
      BY DEF DropInv
    <3>1. d < full
      BY <1>3, <2>1, <2>5
    <3>2. Before({d}, ToSet(t))
      <4>1. CASE d = h
        BY <2>3, <4>1
      <4>2. CASE d \in dropped
        BY <1>2, <2>2, <4>2 DEF DropInv, Before
      <4>. QED  BY <2>1, <4>1, <4>2
    <3>. QED  BY <1>1, <2>6, <2>8, <3>1, <3>2 DEF Before
  <2>. QED  BY <2>9, <2>10, <2>11, <2>12 DEF IInv
<1>. QED  BY <1>4, <1>5

-----------------------------------------------------------------------------
(* What the broker and the session do *)

LEMMA ReadTextInv == ASSUME IInv, ReadText PROVE IInv'
<1>. USE DEF session, telegram, bounds
<1>. DEFINE h == Head(textCh)
            t == Tail(textCh)
<1>1. /\ hand = 0 /\ textCh # <<>> /\ hand' = h /\ textCh' = t
      /\ UNCHANGED <<server, fetched, updates, full, callbackCh, lines, mode, question, heard,
                     dropped, lost, texts, presses, restarts>>
  BY DEF ReadText
<1>2. /\ TypeOK /\ QueueInv /\ ServerInv /\ OrderInv /\ DropInv
      /\ textCh \in Seq(Nat) /\ texts \in Nat /\ TextCap \in Nat
  BY BoundAssumption, CapAssumption DEF IInv, QueueInv, TypeOK
<1>3. /\ h \in Nat /\ t \in Seq(Nat) /\ Len(t) = Len(textCh) - 1 /\ Len(textCh) \in Nat
      /\ ToSet(textCh) = ToSet(t) \cup {h} /\ Ordered(t) /\ Before({h}, ToSet(t))
  BY <1>1, <1>2, HeadAndTail, OrderedTail DEF OrderInv
<1>. HIDE DEF h, t
<1>4. Passed' \subseteq Passed /\ Passed \subseteq Passed' \cup {0}
  BY <1>1, <1>3 DEF Passed
<1>5. QueueInv' /\ ServerInv'
  BY <1>1, <1>2, <1>3, <1>4, MoveKeeps DEF QueueInv
<1>6. TypeOK'
  <2>1. ToSet(textCh) \subseteq 1..texts /\ Len(textCh) <= TextCap
    BY <1>2 DEF TypeOK
  <2>2. hand' \in 0..texts /\ ToSet(textCh') \subseteq 1..texts /\ Len(textCh') <= TextCap
    BY <1>1, <1>2, <1>3, <2>1
  <2>. QED  BY <1>1, <1>2, <2>2 DEF TypeOK
<1>7. OrderInv'
  <2>1. Ordered(heard) /\ Before(ToSet(heard), ToSet(lines) \cup {h} \cup ToSet(t) \cup {full})
    BY <1>2, <1>3 DEF OrderInv, Before
  <2>2. Before(ToSet(lines), {h} \cup ToSet(t) \cup {full})
    BY <1>2, <1>3 DEF OrderInv, Before
  <2>3. Before({h}, ToSet(t) \cup {full}) /\ Before(ToSet(t), {full})
    BY <1>2, <1>3 DEF OrderInv, Before
  <2>. QED  BY <1>1, <1>3, <2>1, <2>2, <2>3 DEF OrderInv
<1>8. DropInv'
  <2>. SUFFICES ASSUME NEW d \in dropped
                PROVE  Before({d}, ToSet(t) \cup {full}) /\ \E n \in Passed' : d < n
    BY <1>1 DEF DropInv
  <2>1. Before({d}, ToSet(t) \cup {full})
    BY <1>2, <1>3 DEF DropInv, Before
  <2>2. PICK n \in Passed : d < n
    BY <1>2 DEF DropInv
  <2>3. d \in 1..texts
    BY <1>2 DEF TypeOK
  <2>. QED  BY <1>2, <1>4, <2>1, <2>2, <2>3
<1>. QED  BY <1>5, <1>6, <1>7, <1>8 DEF IInv

LEMMA OfferLineInv == ASSUME IInv, OfferLine PROVE IInv'
<1>. USE DEF session, telegram, poller, bounds
<1>1. /\ hand # 0 /\ lines = <<>> /\ hand' = 0 /\ lines' = <<hand>>
      /\ UNCHANGED <<server, fetched, updates, full, textCh, callbackCh, mode, question, heard,
                     dropped, lost, texts, presses, restarts>>
  BY DEF OfferLine
<1>2. /\ TypeOK /\ QueueInv /\ ServerInv /\ OrderInv /\ DropInv
      /\ texts \in Nat /\ hand \in 1..texts
  <2>1. TypeOK /\ QueueInv /\ ServerInv /\ OrderInv /\ DropInv
    BY DEF IInv
  <2>2. texts \in Nat /\ hand \in 0..texts
    BY <2>1, BoundAssumption DEF TypeOK
  <2>. QED  BY <1>1, <2>1, <2>2
<1>3. lines' \in Seq(Nat) /\ ToSet(lines') = {hand} /\ Len(lines') = 1
  BY <1>1, <1>2, Single
<1>4. Passed' \subseteq Passed \cup {0} /\ Passed \subseteq Passed'
  <2>1. ToSet(lines) = {}
    BY <1>1, Nothing
  <2>. QED  BY <1>1, <1>3, <2>1 DEF Passed
<1>5. QueueInv' /\ ServerInv'
  BY <1>1, <1>2, <1>3, <1>4, MoveKeeps DEF QueueInv
<1>6. TypeOK'
  BY <1>1, <1>2, <1>3 DEF TypeOK
<1>7. OrderInv'
  BY <1>1, <1>2, <1>3 DEF OrderInv, Before
<1>8. DropInv'
  BY <1>1, <1>2, <1>4 DEF DropInv
<1>. QED  BY <1>5, <1>6, <1>7, <1>8 DEF IInv

LEMMA HearInv == ASSUME IInv, Hear PROVE IInv'
<1>. USE DEF telegram, poller, bounds
<1>. DEFINE h == Head(lines)
<1>1. /\ lines # <<>> /\ heard' = Append(heard, h) /\ lines' = <<>> /\ mode' = "busy"
      /\ UNCHANGED <<server, fetched, updates, full, textCh, callbackCh, hand, question,
                     dropped, lost, texts, presses, restarts>>
  BY DEF Hear
<1>2. /\ TypeOK /\ QueueInv /\ ServerInv /\ OrderInv /\ DropInv
      /\ heard \in Seq(Nat) /\ ToSet(lines) \cup ToSet(heard) \subseteq 1..texts
  BY DEF IInv, QueueInv, TypeOK
<1>3. h \in Nat /\ ToSet(lines) = {h}
  BY <1>1, <1>2, OnlyLine
<1>. HIDE DEF h
<1>4. Ordered(heard) /\ Before(ToSet(heard), {h})
  BY <1>2, <1>3 DEF OrderInv, Before
<1>5. heard' \in Seq(Nat) /\ ToSet(heard') = ToSet(heard) \cup {h} /\ Ordered(heard')
  BY <1>1, <1>2, <1>3, <1>4, Appended, OrderedAppend
<1>6. lines' \in Seq(Nat) /\ ToSet(lines') = {} /\ Len(lines') = 0
  BY <1>1, Nothing
<1>7. Passed' = Passed
  BY <1>1, <1>3, <1>5, <1>6 DEF Passed
<1>8. QueueInv' /\ ServerInv'
  BY <1>1, <1>2, <1>5, <1>6, <1>7, MoveKeeps DEF QueueInv
<1>9. TypeOK'
  <2>1. ToSet(lines') \cup ToSet(heard') \subseteq 1..texts
    BY <1>2, <1>3, <1>5, <1>6
  <2>. QED  BY <1>1, <1>2, <1>6, <2>1 DEF TypeOK
<1>10. OrderInv'
  BY <1>1, <1>2, <1>3, <1>5, <1>6 DEF OrderInv, Before
<1>11. DropInv'
  BY <1>1, <1>2, <1>7 DEF DropInv
<1>. QED  BY <1>8, <1>9, <1>10, <1>11 DEF IInv

LEMMA SessionInv == ASSUME IInv, Interrupted \/ TurnEnds \/ TakePress PROVE IInv'
<1>. USE DEF telegram, poller, broker, bounds
<1>1. /\ TypeOK /\ QueueInv /\ ServerInv /\ OrderInv /\ DropInv
      /\ callbackCh \in Seq(Nat) /\ Len(callbackCh) <= PressCap
      /\ question \in 0..MaxQuestions /\ MaxQuestions \in Nat /\ PressCap \in Nat
  BY BoundAssumption, CapAssumption DEF IInv, QueueInv, TypeOK
<1>2. /\ UNCHANGED <<server, fetched, updates, full, textCh, hand, lines, heard, dropped, lost,
                     texts, presses, restarts>>
  BY DEF Interrupted, TurnEnds, TakePress
<1>3. /\ mode' \in {"busy", "listen", "ask", "reason"} /\ question' \in 0..MaxQuestions
      /\ callbackCh' \in Seq(Nat) /\ Len(callbackCh') <= PressCap
  <2>1. CASE Interrupted
    BY <1>1, <2>1 DEF Interrupted
  <2>2. CASE TurnEnds
    BY <1>1, <2>2 DEF TurnEnds
  <2>3. CASE TakePress
    <3>1. callbackCh # <<>> /\ callbackCh' = Tail(callbackCh) /\ question' = question
          /\ mode' \in {"busy", "listen", "ask", "reason"}
      BY <2>3 DEF TakePress
    <3>2. callbackCh' \in Seq(Nat) /\ Len(callbackCh) \in Nat /\ Len(callbackCh') = Len(callbackCh) - 1
      BY <1>1, <3>1, HeadAndTail
    <3>. QED  BY <1>1, <3>1, <3>2
  <2>. QED  BY <2>1, <2>2, <2>3
<1>4. Passed' = Passed
  BY <1>2 DEF Passed
<1>5. TypeOK'
  BY <1>1, <1>2, <1>3 DEF TypeOK
<1>6. QueueInv' /\ OrderInv' /\ DropInv'
  BY <1>1, <1>2, <1>3, <1>4 DEF QueueInv, OrderInv, DropInv
<1>7. ServerInv'
  BY <1>1, <1>2, <1>4, MoveKeeps
<1>. QED  BY <1>5, <1>6, <1>7 DEF IInv

LEMMA RestartInv == ASSUME IInv, Restart PROVE IInv'
<1>1. /\ fetched' = 0 /\ updates' = <<>> /\ full' = 0 /\ textCh' = <<>> /\ callbackCh' = <<>>
      /\ hand' = 0 /\ lines' = <<>> /\ mode' = "listen" /\ question' = 0 /\ heard' = <<>>
      /\ dropped' = {} /\ UNCHANGED <<server, texts, presses>>
      /\ restarts' = restarts + 1 /\ restarts < MaxRestarts
      /\ lost' = lost \cup (Held \ (Kept \cup {0}))
  BY DEF Restart
<1>2. TypeOK /\ QueueInv /\ ServerInv
  BY DEF IInv
<1>3. /\ texts \in Nat /\ Len(server) \in Nat /\ server \in Seq(Update) /\ updates \in Seq(Update)
      /\ restarts \in 0..MaxRestarts /\ MaxRestarts \in Nat /\ MaxQuestions \in Nat
      /\ TextCap \in Nat /\ PressCap \in Nat
  BY <1>2, BoundAssumption, CapAssumption DEF TypeOK, QueueInv
<1>4. Held \subseteq 0..texts
  <2>1. \A u \in ToSet(updates) : u.text \in 0..texts
    <3>. SUFFICES ASSUME NEW n \in 1..Len(updates) PROVE updates[n].text \in 0..texts
      BY <1>3 DEF ToSet
    <3>1. updates[n] \in Update
      BY <1>3
    <3>3. updates[n].text <= texts
      BY <1>2 DEF ServerInv
    <3>. QED  BY <1>3, <3>1, <3>3 DEF Update
  <2>2. {full, hand} \subseteq 0..texts
    BY <1>2 DEF TypeOK
  <2>3. ToSet(textCh) \cup ToSet(lines) \subseteq 0..texts
    BY <1>2, <1>3 DEF TypeOK
  <2>. QED  BY <2>1, <2>2, <2>3 DEF Held
<1>5. /\ ToSet(textCh') = {} /\ ToSet(lines') = {} /\ ToSet(heard') = {}
      /\ Len(textCh') = 0 /\ Len(callbackCh') = 0 /\ Len(lines') = 0 /\ Len(updates') = 0
      /\ Ordered(heard') /\ Ordered(textCh')
  BY <1>1, Nothing
<1>6. TypeOK'
  <2>1. lost \subseteq 1..texts
    BY <1>2 DEF TypeOK
  <2>2. lost' \subseteq 1..texts
    <3>1. Held \ (Kept \cup {0}) \subseteq 1..texts
      <4>. SUFFICES ASSUME NEW x \in Held, x # 0 PROVE x \in 1..texts
        OBVIOUS
      <4>1. x \in 0..texts
        BY <1>4
      <4>. QED  BY <1>3, <4>1
    <3>. QED  BY <1>1, <2>1, <3>1
  <2>3. restarts' \in 0..MaxRestarts
    BY <1>1, <1>3
  <2>. QED  BY <1>1, <1>2, <1>3, <1>5, <2>2, <2>3 DEF TypeOK
<1>7. QueueInv'
  <2>1. <<>> \in Seq(Update)
    BY EmptySeq
  <2>2. <<>> \in Seq(Nat)
    BY EmptySeq
  <2>. QED  BY <1>1, <1>2, <2>1, <2>2 DEF QueueInv
<1>8. ServerInv'
  <2>1. Passed' \cup dropped' = {0}
    BY <1>1, <1>5, Zenon DEF Passed
  <2>2. \A n \in 1..Len(server) : server[n].text = 0 \/ 0 < server[n].text
    <3>. SUFFICES ASSUME NEW n \in 1..Len(server) PROVE server[n].text = 0 \/ 0 < server[n].text
      OBVIOUS
    <3>1. server[n] \in Update
      BY <1>3
    <3>. QED  BY <3>1 DEF Update
  <2>3. 1..Len(updates') = {}
    BY <1>5
  <2>. QED  BY <1>1, <1>2, <2>1, <2>2, <2>3 DEF ServerInv, InOrderOfWriting
<1>9. OrderInv' /\ DropInv'
  BY <1>1, <1>5 DEF OrderInv, DropInv, Before
<1>. QED  BY <1>6, <1>7, <1>8, <1>9 DEF IInv

LEMMA Inductive == Spec => []IInv
<1>1. Init => IInv
  BY InitInv
<1>2. IInv /\ [Next]_vars => IInv'
  <2>. SUFFICES ASSUME IInv, [Next]_vars PROVE IInv'
    OBVIOUS
  <2>1. CASE UNCHANGED vars
    BY <2>1 DEF vars, IInv, TypeOK, QueueInv, ServerInv, OrderInv, DropInv, Passed
  <2>2. CASE Human \/ Fetch
    BY <2>2, HumanInv, FetchInv
  <2>3. CASE Poller
    BY <2>3, OfferTextInv, DropOldestInv, DeliverPressInv DEF Poller
  <2>4. CASE Broker
    BY <2>4, ReadTextInv, OfferLineInv DEF Broker
  <2>5. CASE Session
    BY <2>5, HearInv, SessionInv DEF Session
  <2>6. CASE Restart
    BY <2>6, RestartInv
  <2>. QED  BY <2>1, <2>2, <2>3, <2>4, <2>5, <2>6 DEF Next
<1>. QED  BY <1>1, <1>2, PTL DEF Spec

-----------------------------------------------------------------------------
(* The theorems *)

\* Every state has its type, and no channel ever holds more than it can.
\* (the channels of TelegramMessenger and of inputBroker)
THEOREM TypeCorrect == Spec => []TypeOK
<1>1. IInv => TypeOK
  BY DEF IInv
<1>. QED  BY <1>1, Inductive, PTL

\* Whoever of the session reads, a process hears the human in the order of
\* writing and nothing twice, through full channels, drops and restarts.
\* (poll, offer, inputBroker, brokeredMessenger)
THEOREM InOrder == Spec => []HeardInOrder
<1>1. IInv => HeardInOrder
  <2>. SUFFICES ASSUME IInv PROVE HeardInOrder
    OBVIOUS
  <2>1. /\ TypeOK /\ ServerInv /\ OrderInv /\ lines \in Seq(Nat) /\ heard \in Seq(Nat)
        /\ textCh \in Seq(Nat) /\ updates \in Seq(Update) /\ server \in Seq(Update)
        /\ hand \in Nat /\ full \in Nat
    BY DEF IInv, QueueInv, TypeOK
  <2>2. Ordered(lines)
    <3>1. CASE lines = <<>>
      BY <3>1, Nothing
    <3>2. CASE lines # <<>>
      BY <2>1, <3>2, OnlyLine, Single DEF IInv
    <3>. QED  BY <3>1, <3>2
  <2>. DEFINE news == TextOf(updates)
  <2>3. \A j \in 1..Len(updates) : updates[j].text \in Nat
    <3>1. \A j \in 1..Len(updates) : updates[j] \in Update
      BY <2>1
    <3>. QED  BY <3>1 DEF Update
  <2>4. /\ news \in Seq(Nat) /\ Len(news) = Len(updates)
        /\ \A j \in 1..Len(updates) : news[j] = updates[j].text
    <3>. DEFINE n == Len(updates)
    <3>1. n \in Nat /\ DOMAIN updates = 1..n
      BY <2>1
    <3>2. news = [j \in 1..n |-> updates[j].text]
      BY <3>1 DEF TextOf
    <3>3. news \in [1..n -> Nat] /\ \A j \in 1..n : news[j] = updates[j].text
      BY <2>3, <3>2
    <3>. HIDE DEF n, news
    <3>4. news \in Seq(Nat) /\ Len(news) = n
      BY <3>1, <3>3
    <3>. QED  BY <3>3, <3>4 DEF n
  <2>5. Ordered(news)
    <3>. SUFFICES ASSUME NEW m \in 1..Len(updates), NEW n \in 1..Len(updates), m < n
                  PROVE  news[m] = 0 \/ news[n] = 0 \/ news[m] < news[n]
      BY <2>4 DEF Ordered
    <3>. QED  BY <2>1, <2>4 DEF ServerInv, InOrderOfWriting
  <2>6. Before(Passed, ToSet(news))
    <3>. SUFFICES ASSUME NEW m \in Passed, NEW j \in 1..Len(updates)
                  PROVE  news[j] = 0 \/ m < news[j]
      BY <2>4 DEF Before, ToSet
    <3>. QED  BY <2>1, <2>3, <2>4 DEF ServerInv
  <2>. HIDE DEF news
  <2>. DEFINE a == heard \o lines
              held == <<hand>>
              late == <<full>>
              b == a \o held
              c == b \o textCh
              d == c \o late
  <2>7. /\ held \in Seq(Nat) /\ Ordered(held) /\ ToSet(held) = {hand}
         /\ late \in Seq(Nat) /\ Ordered(late) /\ ToSet(late) = {full}
    BY <2>1, Single
  <2>. HIDE DEF a, b, c, d, held, late
  <2>8. a \in Seq(Nat) /\ Ordered(a) /\ ToSet(a) = ToSet(heard) \cup ToSet(lines)
    <3>1. Before(ToSet(heard), ToSet(lines)) /\ Ordered(heard)
      BY <2>1 DEF OrderInv, Before
    <3>. QED  BY <2>1, <2>2, <3>1, OrderedConcat DEF a
  <2>9. b \in Seq(Nat) /\ Ordered(b) /\ ToSet(b) = ToSet(a) \cup ToSet(held)
    <3>1. Before(ToSet(a), ToSet(held))
      <4>1. Before(ToSet(heard), {hand}) /\ Before(ToSet(lines), {hand})
        BY <2>1 DEF OrderInv, Before
      <4>. QED  BY <2>7, <2>8, <4>1 DEF Before
    <3>. QED  BY <2>8, <2>7, <3>1, OrderedConcat DEF b
  <2>10. c \in Seq(Nat) /\ Ordered(c) /\ ToSet(c) = ToSet(b) \cup ToSet(textCh)
    <3>1. /\ Before(ToSet(heard), ToSet(textCh)) /\ Before(ToSet(lines), ToSet(textCh))
          /\ Before({hand}, ToSet(textCh))
      BY <2>1 DEF OrderInv, Before
    <3>2. Ordered(textCh) /\ textCh \in Seq(Nat)
      BY <2>1 DEF OrderInv
    <3>3. Before(ToSet(b), ToSet(textCh))
      <4>1. ToSet(b) = ToSet(heard) \cup ToSet(lines) \cup {hand}
        BY <2>7, <2>8, <2>9
      <4>. QED  BY <3>1, <4>1 DEF Before
    <3>. QED  BY <2>9, <3>2, <3>3, OrderedConcat DEF c
  <2>11. d \in Seq(Nat) /\ Ordered(d) /\ ToSet(d) = ToSet(c) \cup ToSet(late)
    <3>1. Before(ToSet(c), ToSet(late))
      <4>1. /\ ToSet(c) = ToSet(heard) \cup ToSet(lines) \cup {hand} \cup ToSet(textCh)
            /\ ToSet(late) = {full}
        BY <2>7, <2>8, <2>9, <2>10
      <4>2. /\ Before(ToSet(heard), {full}) /\ Before(ToSet(lines), {full})
            /\ Before({hand}, {full}) /\ Before(ToSet(textCh), {full})
        BY <2>1 DEF OrderInv, Before
      <4>. QED  BY <4>1, <4>2 DEF Before
    <3>. QED  BY <2>10, <2>7, <3>1, OrderedConcat DEF d
  <2>12. Ordered(d \o news)
    <3>1. ToSet(d) = Passed
      BY <2>7, <2>8, <2>9, <2>10, <2>11 DEF Passed
    <3>. QED  BY <2>4, <2>5, <2>6, <2>11, <3>1, OrderedConcat
  <2>. QED  BY <2>12 DEF HeardInOrder, a, b, c, d, held, late, news
<1>. QED  BY <1>1, Inductive, PTL

\* What the poller drops is older than all that waits there, and never the newest.
\* (offer)
THEOREM OldestDropped == Spec => []RecentKept
<1>1. IInv => RecentKept
  <2>. SUFFICES ASSUME IInv, NEW d \in dropped
                PROVE  /\ \A n \in (ToSet(textCh) \cup {full}) \ {0} : d < n
                       /\ \E n \in ToSet(heard) \cup Held : d < n
    BY DEF RecentKept
  <2>1. d # 0
    BY DEF IInv, TypeOK
  <2>2. \A n \in (ToSet(textCh) \cup {full}) \ {0} : d < n
    BY <2>1 DEF IInv, DropInv, Before
  <2>3. \E n \in Passed : d < n
    BY DEF IInv, DropInv
  <2>4. Passed \subseteq ToSet(heard) \cup Held
    BY DEF Passed, Held
  <2>. QED  BY <2>2, <2>3, <2>4
<1>. QED  BY <1>1, Inductive, PTL
=============================================================================
