------------------------- MODULE ConversationProofs -------------------------
(***************************************************************************)
(* Proofs about Conversation: types and bounds, that whatever the model is *)
(* sent answers its tool calls, says what was said, and tells of every     *)
(* open incident.  For every set of incidents, either provider and every   *)
(* bound.                                                                  *)
(*                                                                         *)
(* The transcript is taken apart by FlattenSeq and FoldLeft, which are     *)
(* recursive functions.  That they are what their equations say is proved  *)
(* here, by an induction that is stated for sets, not for predicates.      *)
(***************************************************************************)
EXTENDS Conversation, SequenceTheorems, FiniteSetTheorems, WellFoundedInduction, TLAPS

-----------------------------------------------------------------------------
(* Induction, and sequences *)

LEMMA Induct ==
    ASSUME NEW S, 0 \in S, \A n \in Nat : n \in S => n + 1 \in S
    PROVE  Nat \subseteq S
<1>. DEFINE T == Nat \ S
            R == OpToRel(<, Nat)
<1>. SUFFICES ASSUME T # {} PROVE FALSE
  OBVIOUS
<1>1. IsWellFoundedOn(R, Nat)
  BY NatLessThanWellFounded, Zenon
<1>2. R = {ss \in Nat \X Nat : ss[1] < ss[2]}
  BY DEF OpToRel
<1>3. T \subseteq Nat
  OBVIOUS
<1>. HIDE DEF R, T
<1>4. PICK x \in T : \A y \in T : ~ (<<y, x>> \in R)
  BY <1>1, <1>3, WFMin
<1>5. x \in Nat /\ x \notin S /\ x # 0
  BY <1>4 DEF T
<1>6. x - 1 \in Nat /\ x - 1 \notin S /\ x - 1 < x
  BY <1>5
<1>7. x - 1 \in T /\ <<x - 1, x>> \in R
  BY <1>2, <1>5, <1>6 DEF T
<1>. QED  BY <1>4, <1>7

LEMMA Empty ==
    ASSUME NEW S, NEW s \in Seq(S), Len(s) = 0 PROVE s = <<>>
<1>1. <<>> \in Seq(S) /\ Len(<<>>) = 0
  BY EmptySeq
<1>. QED  BY <1>1, SeqEqual

LEMMA One ==
    ASSUME NEW S, NEW x \in S
    PROVE  <<x>> \in Seq(S) /\ Len(<<x>>) = 1 /\ <<x>>[1] = x
OBVIOUS

\* A sequence with an element is its head before its tail.
LEMMA HeadFirst ==
    ASSUME NEW S, NEW s \in Seq(S), s # <<>>
    PROVE  /\ Head(s) \in S /\ Tail(s) \in Seq(S) /\ Head(s) = s[1]
           /\ Len(Tail(s)) = Len(s) - 1 /\ Len(s) \in Nat \ {0}
           /\ s = <<Head(s)>> \o Tail(s)
<1>. DEFINE h == <<Head(s)>>
            t == Tail(s)
<1>1. /\ Head(s) \in S /\ t \in Seq(S) /\ Len(t) = Len(s) - 1 /\ Head(s) = s[1]
      /\ \A i \in 1..Len(t) : t[i] = s[i + 1]
  BY HeadTailProperties
<1>2. Len(s) \in Nat \ {0}
  OBVIOUS
<1>3. h \in Seq(S) /\ Len(h) = 1 /\ h[1] = s[1]
  BY <1>1, One
<1>. HIDE DEF h, t
<1>4. /\ h \o t \in Seq(S) /\ Len(h \o t) = Len(s)
      /\ \A i \in 1..Len(s) : (h \o t)[i] = IF i <= 1 THEN h[i] ELSE t[i - 1]
  <2>1. /\ h \o t \in Seq(S) /\ Len(h \o t) = Len(h) + Len(t)
        /\ \A i \in 1..(Len(h) + Len(t)) : (h \o t)[i] = IF i <= Len(h) THEN h[i] ELSE t[i - Len(h)]
    <3>1. h \in Seq(S) /\ t \in Seq(S)
      BY <1>1, <1>3
    <3>. QED  BY <3>1, ConcatProperties
  <2>2. Len(h) + Len(t) = Len(s)
    BY <1>1, <1>2, <1>3
  <2>. QED  BY <1>3, <2>1, <2>2
<1>5. ASSUME NEW i \in 1..Len(s) PROVE (h \o t)[i] = s[i]
  <2>1. CASE i = 1
    BY <1>2, <1>3, <1>4, <2>1
  <2>2. CASE i # 1
    <3>1. i - 1 \in 1..Len(t) /\ i - 1 + 1 = i
      BY <1>1, <1>2, <2>2
    <3>2. t[i - 1] = s[i - 1 + 1]
      BY <1>1, <3>1
    <3>3. (h \o t)[i] = t[i - 1]
      BY <1>2, <1>4, <2>2
    <3>. QED  BY <3>1, <3>2, <3>3
  <2>. QED  BY <2>1, <2>2
<1>6. h \o t = s
  BY <1>4, <1>5, SeqEqual
<1>. QED  BY <1>1, <1>2, <1>6 DEF h, t

\* An element before a sequence.
LEMMA ElementFirst ==
    ASSUME NEW S, NEW x \in S, NEW s \in Seq(S)
    PROVE  /\ <<x>> \o s \in Seq(S) /\ Len(<<x>> \o s) = Len(s) + 1
           /\ (<<x>> \o s)[1] = x
           /\ \A i \in 1..Len(s) : (<<x>> \o s)[i + 1] = s[i]
           /\ <<x>> \o s # <<>>
<1>. DEFINE h == <<x>>
<1>1. h \in Seq(S) /\ Len(h) = 1 /\ h[1] = x /\ Len(s) \in Nat
  BY One
<1>. HIDE DEF h
<1>2. /\ h \o s \in Seq(S) /\ Len(h \o s) = 1 + Len(s)
      /\ \A i \in 1..(1 + Len(s)) : (h \o s)[i] = IF i <= 1 THEN h[i] ELSE s[i - 1]
  <2>1. /\ h \o s \in Seq(S) /\ Len(h \o s) = Len(h) + Len(s)
        /\ \A i \in 1..(Len(h) + Len(s)) : (h \o s)[i] = IF i <= Len(h) THEN h[i] ELSE s[i - Len(h)]
    <3>1. h \in Seq(S)
      BY <1>1
    <3>. QED  BY <3>1, ConcatProperties
  <2>. QED  BY <1>1, <2>1
<1>3. (h \o s)[1] = x
  BY <1>1, <1>2
<1>4. \A i \in 1..Len(s) : (h \o s)[i + 1] = s[i]
  <2>. SUFFICES ASSUME NEW i \in 1..Len(s) PROVE (h \o s)[i + 1] = s[i]
    OBVIOUS
  <2>1. i + 1 \in 1..(1 + Len(s)) /\ ~(i + 1 <= 1) /\ i + 1 - 1 = i
    BY <1>1
  <2>. QED  BY <1>2, <2>1
<1>5. h \o s # <<>>
  <2>1. Len(<<>>) = 0
    BY EmptySeq
  <2>. QED  BY <1>1, <1>2, <2>1
<1>. QED  BY <1>1, <1>2, <1>3, <1>4, <1>5 DEF h

-----------------------------------------------------------------------------
(* FlattenSeq *)

Flattens(f, s, n) == f = [i \in 1..n |-> IF i = 1 THEN s[i] ELSE f[i - 1] \o s[i]]

LEMMA FlattensExists == ASSUME NEW s PROVE \A n \in Nat : \E f : Flattens(f, s, n)
<1>. DEFINE S == {n \in Nat : \E f : Flattens(f, s, n)}
<1>1. 0 \in S
  <2>. DEFINE e == [i \in 1..0 |-> 0]
  <2>1. e = [i \in 1..0 |-> IF i = 1 THEN s[i] ELSE e[i - 1] \o s[i]]
    OBVIOUS
  <2>. HIDE DEF e
  <2>2. Flattens(e, s, 0)
    BY <2>1 DEF Flattens
  <2>. QED  BY <2>2
<1>2. ASSUME NEW n \in Nat, n \in S PROVE n + 1 \in S
  <2>1. PICK f : Flattens(f, s, n)
    BY <1>2
  <2>. DEFINE g == [i \in 1..(n + 1) |->
                      IF i = n + 1 THEN (IF n = 0 THEN s[1] ELSE f[n] \o s[n + 1]) ELSE f[i]]
              h == [i \in 1..(n + 1) |-> IF i = 1 THEN s[i] ELSE g[i - 1] \o s[i]]
  <2>2. f = [i \in 1..n |-> IF i = 1 THEN s[i] ELSE f[i - 1] \o s[i]]
    BY <2>1 DEF Flattens
  <2>3. ASSUME NEW i \in 1..(n + 1) PROVE g[i] = IF i = 1 THEN s[i] ELSE g[i - 1] \o s[i]
    <3>1. CASE i = n + 1
      BY <3>1
    <3>2. CASE i # n + 1
      <4>1. i \in 1..n /\ g[i] = f[i]
        BY <3>2
      <4>2. f[i] = IF i = 1 THEN s[i] ELSE f[i - 1] \o s[i]
        BY <2>2, <4>1
      <4>3. i # 1 => i - 1 \in 1..(n + 1) /\ i - 1 # n + 1
        BY <4>1
      <4>4. i # 1 => g[i - 1] = f[i - 1]
        BY <4>3
      <4>. QED  BY <4>1, <4>2, <4>4
    <3>. QED  BY <3>1, <3>2
  <2>4. g = [i \in 1..(n + 1) |-> g[i]]
    OBVIOUS
  <2>. HIDE DEF g
  <2>5. \A i \in 1..(n + 1) : h[i] = g[i]
    BY <2>3
  <2>6. h = [i \in 1..(n + 1) |-> h[i]]
    OBVIOUS
  <2>. HIDE DEF h
  <2>7. g = h
    BY <2>4, <2>5, <2>6
  <2>8. g = [i \in 1..(n + 1) |-> IF i = 1 THEN s[i] ELSE g[i - 1] \o s[i]]
    BY <2>7 DEF h
  <2>9. Flattens(g, s, n + 1)
    BY <2>8 DEF Flattens
  <2>. QED  BY <2>9
<1>. HIDE DEF S
<1>3. Nat \subseteq S
  BY <1>1, <1>2, Induct
<1>. QED  BY <1>3 DEF S

\* FlattenSeq as its equations have it.
LEMMA FlattenIs ==
    ASSUME NEW s, Len(s) \in Nat \ {0}
    PROVE  \E f : /\ FlattenSeq(s) = f[Len(s)]
                  /\ f[1] = s[1]
                  /\ \A i \in 1..Len(s) : i # 1 => f[i] = f[i - 1] \o s[i]
<1>. DEFINE f == CHOOSE h : Flattens(h, s, Len(s))
<1>1. Flattens(f, s, Len(s))
  BY FlattensExists
<1>2. FlattenSeq(s) = f[Len(s)]
  BY DEF FlattenSeq, Flattens
<1>. HIDE DEF f
<1>3. f = [i \in 1..Len(s) |-> IF i = 1 THEN s[i] ELSE f[i - 1] \o s[i]]
  BY <1>1 DEF Flattens
<1>4. \A i \in 1..Len(s) : f[i] = IF i = 1 THEN s[i] ELSE f[i - 1] \o s[i]
  BY <1>3
<1>5. 1 \in 1..Len(s)
  OBVIOUS
<1>. QED  BY <1>2, <1>4, <1>5

LEMMA FlattenEmpty == FlattenSeq(<<>>) = <<>>
BY DEF FlattenSeq

LEMMA FlattenCons ==
    ASSUME NEW B, NEW x \in Seq(B), NEW ss \in Seq(Seq(B))
    PROVE  /\ FlattenSeq(ss) \in Seq(B)
           /\ FlattenSeq(<<x>> \o ss) = x \o FlattenSeq(ss)
<1>. DEFINE n == Len(ss)
            s == <<x>> \o ss
<1>1. /\ n \in Nat /\ Len(s) = n + 1 /\ s[1] = x
      /\ \A i \in 1..n : s[i + 1] = ss[i] /\ ss[i] \in Seq(B)
  BY ElementFirst
<1>. HIDE DEF n, s
<1>2. PICK g : /\ FlattenSeq(s) = g[n + 1] /\ g[1] = x
               /\ \A i \in 1..(n + 1) : i # 1 => g[i] = g[i - 1] \o s[i]
  <2>1. Len(s) \in Nat \ {0}
    BY <1>1
  <2>2. \E g : /\ FlattenSeq(s) = g[Len(s)] /\ g[1] = s[1]
               /\ \A i \in 1..Len(s) : i # 1 => g[i] = g[i - 1] \o s[i]
    BY <2>1, FlattenIs
  <2>. QED  BY <1>1, <2>2
<1>3. CASE n = 0
  <2>1. ss = <<>>
    BY <1>3, Empty DEF n
  <2>2. FlattenSeq(ss) = <<>> /\ <<>> \in Seq(B)
    BY <2>1, FlattenEmpty, EmptySeq
  <2>3. x \o <<>> = x
    BY ConcatEmptySeq
  <2>. QED  BY <1>2, <1>3, <2>2, <2>3 DEF s
<1>4. CASE n # 0
  <2>1. PICK f : /\ FlattenSeq(ss) = f[n] /\ f[1] = ss[1]
                 /\ \A i \in 1..n : i # 1 => f[i] = f[i - 1] \o ss[i]
    BY <1>1, <1>4, FlattenIs DEF n
  <2>. DEFINE S == {i \in Nat : i + 1 \in 1..n => f[i + 1] \in Seq(B) /\ g[i + 2] = x \o f[i + 1]}
  <2>2. 0 \in S
    <3>1. 1 \in 1..n /\ 2 \in 1..(n + 1) /\ 0 + 1 = 1 /\ 0 + 2 = 2 /\ 2 - 1 = 1 /\ 1 + 1 = 2
      BY <1>1, <1>4
    <3>2. g[2] = g[1] \o s[2]
      <4>. DEFINE j == 2
      <4>1. j \in 1..(n + 1) /\ j # 1 /\ j - 1 = 1
        BY <3>1
      <4>. HIDE DEF j
      <4>2. g[j] = g[j - 1] \o s[j]
        BY <1>2, <4>1
      <4>. QED  BY <4>1, <4>2 DEF j
    <3>3. s[1 + 1] = ss[1] /\ ss[1] \in Seq(B)
      BY <1>1, <3>1
    <3>. QED  BY <1>2, <2>1, <3>1, <3>2, <3>3
  <2>3. ASSUME NEW i \in Nat, i \in S PROVE i + 1 \in S
    <3>. SUFFICES ASSUME i + 2 \in 1..n
                  PROVE  f[i + 2] \in Seq(B) /\ g[i + 3] = x \o f[i + 2]
      OBVIOUS
    <3>1. /\ i + 1 \in 1..n /\ i + 3 \in 1..(n + 1) /\ i + 2 # 1 /\ i + 3 # 1
          /\ i + 2 - 1 = i + 1 /\ i + 3 - 1 = i + 2 /\ i + 2 + 1 = i + 3
      BY <1>1
    <3>2. f[i + 1] \in Seq(B) /\ g[i + 2] = x \o f[i + 1]
      BY <2>3, <3>1
    <3>3. f[i + 2] = f[i + 1] \o ss[i + 2] /\ ss[i + 2] \in Seq(B)
      <4>. DEFINE j == i + 2
      <4>1. j \in 1..n /\ j # 1 /\ j - 1 = i + 1
        BY <3>1
      <4>. HIDE DEF j
      <4>2. f[j] = f[j - 1] \o ss[j] /\ ss[j] \in Seq(B)
        BY <1>1, <2>1, <4>1
      <4>. QED  BY <4>1, <4>2 DEF j
    <3>4. g[i + 3] = g[i + 2] \o s[i + 3] /\ s[i + 3] = ss[i + 2]
      <4>. DEFINE j == i + 3
      <4>1. j \in 1..(n + 1) /\ j # 1 /\ j - 1 = i + 2 /\ j = i + 2 + 1
        BY <3>1
      <4>. HIDE DEF j
      <4>2. g[j] = g[j - 1] \o s[j]
        BY <1>2, <4>1
      <4>3. s[i + 2 + 1] = ss[i + 2]
        BY <1>1
      <4>. QED  BY <4>1, <4>2, <4>3 DEF j
    <3>5. f[i + 2] \in Seq(B)
      BY <3>2, <3>3, ConcatProperties
    <3>6. (x \o f[i + 1]) \o ss[i + 2] = x \o (f[i + 1] \o ss[i + 2])
      <4>. DEFINE u == f[i + 1]
                  v == ss[i + 2]
      <4>1. u \in Seq(B) /\ v \in Seq(B)
        BY <3>2, <3>3
      <4>. HIDE DEF u, v
      <4>2. (x \o u) \o v = x \o (u \o v)
        BY <4>1, ConcatAssociative
      <4>. QED  BY <4>2 DEF u, v
    <3>. QED  BY <3>2, <3>3, <3>4, <3>5, <3>6
  <2>. HIDE DEF S
  <2>4. n - 1 \in S
    <3>1. n - 1 \in Nat
      BY <1>1, <1>4
    <3>2. Nat \subseteq S
      BY <2>2, <2>3, Induct
    <3>. QED  BY <3>1, <3>2
  <2>5. n - 1 + 1 = n /\ n - 1 + 2 = n + 1 /\ n \in 1..n
    BY <1>1, <1>4
  <2>. QED  BY <1>2, <2>1, <2>4, <2>5 DEF S, s
<1>. QED  BY <1>1, <1>3, <1>4

LEMMA FlattenConcat ==
    ASSUME NEW B, NEW a \in Seq(Seq(B)), NEW b \in Seq(Seq(B))
    PROVE  FlattenSeq(a \o b) = FlattenSeq(a) \o FlattenSeq(b)
<1>. DEFINE T == Seq(Seq(B))
            S == {n \in Nat : \A c \in T : Len(c) = n => FlattenSeq(c \o b) = FlattenSeq(c) \o FlattenSeq(b)}
<1>1. FlattenSeq(b) \in Seq(B)
  <2>1. <<>> \in Seq(B)
    BY EmptySeq
  <2>. QED  BY <2>1, FlattenCons
<1>2. 0 \in S
  <2>. SUFFICES ASSUME NEW c \in T, Len(c) = 0
                PROVE  FlattenSeq(c \o b) = FlattenSeq(c) \o FlattenSeq(b)
    OBVIOUS
  <2>1. c = <<>>
    BY Empty
  <2>2. <<>> \o b = b
    BY ConcatEmptySeq
  <2>3. <<>> \o FlattenSeq(b) = FlattenSeq(b)
    BY <1>1, ConcatEmptySeq
  <2>. QED  BY <2>1, <2>2, <2>3, FlattenEmpty
<1>3. ASSUME NEW n \in Nat, n \in S PROVE n + 1 \in S
  <2>. SUFFICES ASSUME NEW c \in T, Len(c) = n + 1
                PROVE  FlattenSeq(c \o b) = FlattenSeq(c) \o FlattenSeq(b)
    OBVIOUS
  <2>. DEFINE h == Head(c)
              t == Tail(c)
  <2>1. /\ h \in Seq(B) /\ t \in T /\ Len(t) = n /\ c = <<h>> \o t
    <3>1. c # <<>>
      <4>1. Len(<<>>) = 0
        BY EmptySeq
      <4>. QED  BY <4>1
    <3>2. /\ h \in Seq(B) /\ t \in T /\ Len(t) = Len(c) - 1 /\ c = <<h>> \o t
      BY <3>1, HeadFirst
    <3>. QED  BY <3>2
  <2>. HIDE DEF h, t
  <2>2. FlattenSeq(t \o b) = FlattenSeq(t) \o FlattenSeq(b)
    BY <1>3, <2>1
  <2>3. <<h>> \in T /\ t \o b \in T
    BY <2>1, One, ConcatProperties
  <2>4. c \o b = <<h>> \o (t \o b)
    BY <2>1, <2>3, ConcatAssociative
  <2>5. FlattenSeq(c \o b) = h \o FlattenSeq(t \o b)
    BY <2>1, <2>3, <2>4, FlattenCons
  <2>6. FlattenSeq(c) = h \o FlattenSeq(t) /\ FlattenSeq(t) \in Seq(B)
    BY <2>1, FlattenCons
  <2>7. h \o (FlattenSeq(t) \o FlattenSeq(b)) = (h \o FlattenSeq(t)) \o FlattenSeq(b)
    <3>1. h \in Seq(B) /\ FlattenSeq(t) \in Seq(B) /\ FlattenSeq(b) \in Seq(B)
      BY <1>1, <2>1, <2>6
    <3>. HIDE <1>1, <1>2, <1>3 DEF T, S
    <3>. QED  BY ONLY <3>1, ConcatAssociative
  <2>. QED  BY <2>2, <2>5, <2>6, <2>7
<1>. HIDE DEF S
<1>4. Len(a) \in S
  <2>1. Len(a) \in Nat
    OBVIOUS
  <2>. QED  BY <1>2, <1>3, <2>1, Induct
<1>. QED  BY <1>4 DEF S

-----------------------------------------------------------------------------
(* FoldLeft, as OfKind and toOpenAIRequest use it *)

\* A step of either: m is a kind, or "add" for AddUserBlock.
Step(m, acc, b) ==
    IF m = "add" THEN AddUserBlock(acc, b)
    ELSE IF b.kind = m THEN Append(acc, b) ELSE acc

Iterates(f, m, s, n) ==
    f = [d \in SUBSET (1..n) |->
           IF d = {} THEN <<>> ELSE Step(m, f[d \ {Max(d)}], s[Max(d)])]

LEMMA MaxOf ==
    ASSUME NEW n \in Nat, NEW d \in SUBSET (1..(n + 1)), n + 1 \in d
    PROVE  Max(d) = n + 1 /\ d \ {Max(d)} \in SUBSET (1..n)
<1>1. \A y \in d : n + 1 >= y
  OBVIOUS
<1>2. ASSUME NEW x \in d, \A y \in d : x >= y PROVE x = n + 1
  BY <1>1, <1>2
<1>3. Max(d) = n + 1
  BY <1>1, <1>2 DEF Max
<1>. QED  BY <1>3

LEMMA IteratesExists == ASSUME NEW m, NEW s PROVE \A n \in Nat : \E f : Iterates(f, m, s, n)
<1>. DEFINE S == {n \in Nat : \E f : Iterates(f, m, s, n)}
<1>1. 0 \in S
  <2>. DEFINE e == [d \in SUBSET (1..0) |-> <<>>]
              h == [d \in SUBSET (1..0) |->
                      IF d = {} THEN <<>> ELSE Step(m, e[d \ {Max(d)}], s[Max(d)])]
  <2>1. \A d \in SUBSET (1..0) : d = {}
    OBVIOUS
  <2>2. \A d \in SUBSET (1..0) : h[d] = e[d]
    BY <2>1
  <2>3. e = [d \in SUBSET (1..0) |-> e[d]] /\ h = [d \in SUBSET (1..0) |-> h[d]]
    OBVIOUS
  <2>. HIDE DEF h, e
  <2>4. e = h
    BY <2>2, <2>3
  <2>5. Iterates(e, m, s, 0)
    BY <2>4 DEF h, Iterates
  <2>. QED  BY <2>5
<1>2. ASSUME NEW n \in Nat, n \in S PROVE n + 1 \in S
  <2>1. PICK f : Iterates(f, m, s, n)
    BY <1>2
  <2>. DEFINE D == SUBSET (1..(n + 1))
              g == [d \in D |-> IF n + 1 \in d THEN Step(m, f[d \ {n + 1}], s[n + 1]) ELSE f[d]]
              h == [d \in D |-> IF d = {} THEN <<>> ELSE Step(m, g[d \ {Max(d)}], s[Max(d)])]
  <2>2. \A d \in SUBSET (1..n) :
          f[d] = IF d = {} THEN <<>> ELSE Step(m, f[d \ {Max(d)}], s[Max(d)])
    BY <2>1 DEF Iterates
  <2>3. \A d \in SUBSET (1..n) : d \in D /\ n + 1 \notin d /\ g[d] = f[d]
    OBVIOUS
  <2>4. \A d \in D : g[d] = IF n + 1 \in d THEN Step(m, f[d \ {n + 1}], s[n + 1]) ELSE f[d]
    OBVIOUS
  <2>5. g = [d \in D |-> g[d]]
    OBVIOUS
  <2>. HIDE DEF g
  <2>6. ASSUME NEW d \in D
        PROVE  g[d] = IF d = {} THEN <<>> ELSE Step(m, g[d \ {Max(d)}], s[Max(d)])
    <3>1. CASE n + 1 \in d
      <4>1. Max(d) = n + 1 /\ d \ {Max(d)} \in SUBSET (1..n) /\ d # {}
        BY <3>1, MaxOf
      <4>2. g[d \ {n + 1}] = f[d \ {n + 1}]
        BY <2>3, <4>1
      <4>. QED  BY <2>4, <3>1, <4>1, <4>2
    <3>2. CASE n + 1 \notin d
      <4>1. d \in SUBSET (1..n)
        BY <3>2
      <4>2. CASE d = {}
        BY <2>2, <2>3, <4>1, <4>2
      <4>3. CASE d # {}
        <5>1. d \ {Max(d)} \in SUBSET (1..n)
          BY <4>1
        <5>2. g[d \ {Max(d)}] = f[d \ {Max(d)}] /\ g[d] = f[d]
          BY <2>3, <4>1, <5>1
        <5>. QED  BY <2>2, <4>1, <4>3, <5>2
      <4>. QED  BY <4>2, <4>3
    <3>. QED  BY <3>1, <3>2
  <2>7. \A d \in D : h[d] = g[d]
    BY <2>6
  <2>8. h = [d \in D |-> h[d]]
    OBVIOUS
  <2>. HIDE DEF h
  <2>9. g = h
    BY <2>5, <2>7, <2>8
  <2>10. Iterates(g, m, s, n + 1)
    BY <2>9 DEF h, Iterates
  <2>. QED  BY <2>10
<1>. HIDE DEF S
<1>3. Nat \subseteq S
  BY <1>1, <1>2, Induct
<1>. QED  BY <1>3 DEF S

\* What such a fold is after each element.
LEMMA Iterated ==
    ASSUME NEW f, NEW m, NEW s, NEW n \in Nat, Iterates(f, m, s, n)
    PROVE  /\ f[1..0] = <<>>
           /\ \A i \in 1..n : f[1..i] = Step(m, f[1..(i - 1)], s[i])
<1>1. \A d \in SUBSET (1..n) :
        f[d] = IF d = {} THEN <<>> ELSE Step(m, f[d \ {Max(d)}], s[Max(d)])
  BY DEF Iterates
<1>2. 1..0 = {} /\ {} \in SUBSET (1..n)
  OBVIOUS
<1>3. ASSUME NEW i \in 1..n PROVE f[1..i] = Step(m, f[1..(i - 1)], s[i])
  <2>. DEFINE k == i - 1
  <2>1. k \in Nat /\ k + 1 = i
    OBVIOUS
  <2>. HIDE DEF k
  <2>2. 1..i \in SUBSET (1..(k + 1)) /\ k + 1 \in 1..i
    BY <2>1
  <2>3. Max(1..i) = i
    BY <2>1, <2>2, MaxOf
  <2>4. (1..i) \ {i} = 1..(i - 1) /\ 1..i \in SUBSET (1..n) /\ 1..i # {}
    OBVIOUS
  <2>. QED  BY <1>1, <2>3, <2>4
<1>. QED  BY <1>1, <1>2, <1>3

LEMMA OfKindIs ==
    ASSUME NEW k, k # "add", NEW s, Len(s) \in Nat, DOMAIN s = 1..Len(s)
    PROVE  \E f : Iterates(f, k, s, Len(s)) /\ OfKind(k, s) = f[1..Len(s)]
<1>. DEFINE P(f) == f = [d \in SUBSET (1..Len(s)) |->
                           IF d = {} THEN <<>>
                           ELSE IF s[Max(d)].kind = k THEN Append(f[d \ {Max(d)}], s[Max(d)])
                           ELSE f[d \ {Max(d)}]]
            c == CHOOSE f : P(f)
<1>1. ASSUME NEW f PROVE P(f) <=> Iterates(f, k, s, Len(s))
  BY DEF Iterates, Step
<1>2. \E f : P(f)
  BY <1>1, IteratesExists
<1>3. P(c)
  BY <1>2
<1>4. OfKind(k, s) = c[1..Len(s)]
  BY DEF OfKind, FoldLeft, MapThenFoldSet
<1>. HIDE DEF c, P
<1>. QED  BY <1>1, <1>3, <1>4

LEMMA UserBlocksIs ==
    ASSUME NEW s, Len(s) \in Nat, DOMAIN s = 1..Len(s)
    PROVE  \E f : Iterates(f, "add", s, Len(s)) /\ FoldLeft(AddUserBlock, <<>>, s) = f[1..Len(s)]
<1>. DEFINE P(f) == f = [d \in SUBSET (1..Len(s)) |->
                           IF d = {} THEN <<>> ELSE AddUserBlock(f[d \ {Max(d)}], s[Max(d)])]
            c == CHOOSE f : P(f)
<1>1. ASSUME NEW f PROVE P(f) <=> Iterates(f, "add", s, Len(s))
  BY DEF Iterates, Step
<1>2. \E f : P(f)
  BY <1>1, IteratesExists
<1>3. P(c)
  BY <1>2
<1>4. FoldLeft(AddUserBlock, <<>>, s) = c[1..Len(s)]
  BY DEF FoldLeft, MapThenFoldSet
<1>. HIDE DEF c, P
<1>. QED  BY <1>1, <1>3, <1>4

\* Induction over sequences, from either end.
LEMMA BySnoc ==
    ASSUME NEW A, NEW S, <<>> \in S,
           \A s \in Seq(A), a \in A : s \in S => Append(s, a) \in S
    PROVE  Seq(A) \subseteq S
<1>. DEFINE N == {n \in Nat : \A s \in Seq(A) : Len(s) = n => s \in S}
<1>1. 0 \in N
  BY Empty
<1>2. ASSUME NEW n \in Nat, n \in N PROVE n + 1 \in N
  <2>. SUFFICES ASSUME NEW s \in Seq(A), Len(s) = n + 1 PROVE s \in S
    OBVIOUS
  <2>1. s # <<>>
    <3>1. Len(<<>>) = 0
      BY EmptySeq
    <3>. QED  BY <3>1
  <2>2. PICK t \in Seq(A), a \in A : s = Append(t, a)
    BY <2>1, SequenceEmptyOrAppend
  <2>3. Len(t) \in Nat /\ Len(s) = Len(t) + 1
    BY <2>2, AppendProperties
  <2>4. Len(t) = n
    BY <2>3
  <2>. QED  BY <1>2, <2>2, <2>4
<1>3. ASSUME NEW s \in Seq(A) PROVE s \in S
  <2>. HIDE DEF N
  <2>1. Len(s) \in Nat
    OBVIOUS
  <2>2. Len(s) \in N
    BY <1>1, <1>2, <2>1, Induct
  <2>. QED  BY <2>2 DEF N
<1>. QED  BY <1>3

LEMMA ByHead ==
    ASSUME NEW A, NEW S, <<>> \in S,
           \A s \in Seq(A), a \in A : s \in S => <<a>> \o s \in S
    PROVE  Seq(A) \subseteq S
<1>. DEFINE N == {n \in Nat : \A s \in Seq(A) : Len(s) = n => s \in S}
<1>1. 0 \in N
  BY Empty
<1>2. ASSUME NEW n \in Nat, n \in N PROVE n + 1 \in N
  <2>. SUFFICES ASSUME NEW s \in Seq(A), Len(s) = n + 1 PROVE s \in S
    OBVIOUS
  <2>1. s # <<>>
    <3>1. Len(<<>>) = 0
      BY EmptySeq
    <3>. QED  BY <3>1
  <2>2. Head(s) \in A /\ Tail(s) \in Seq(A) /\ Len(Tail(s)) = Len(s) - 1 /\ s = <<Head(s)>> \o Tail(s)
    BY <2>1, HeadFirst
  <2>3. Len(Tail(s)) = n
    BY <2>2
  <2>. QED  BY <1>2, <2>2, <2>3
<1>3. ASSUME NEW s \in Seq(A) PROVE s \in S
  <2>. HIDE DEF N
  <2>1. Len(s) \in Nat
    OBVIOUS
  <2>2. Len(s) \in N
    BY <1>1, <1>2, <2>1, Induct
  <2>. QED  BY <2>2 DEF N
<1>. QED  BY <1>3

\* One element more is one step more.
LEMMA IteratesOn ==
    ASSUME NEW m, NEW A, NEW s \in Seq(A), NEW a \in A, NEW f, NEW g,
           Iterates(f, m, s, Len(s)), Iterates(g, m, Append(s, a), Len(Append(s, a)))
    PROVE  g[1..Len(Append(s, a))] = Step(m, f[1..Len(s)], a)
<1>. DEFINE n == Len(s)
            t == Append(s, a)
<1>1. /\ n \in Nat /\ Len(t) = n + 1 /\ t[n + 1] = a
      /\ \A i \in 1..n : t[i] = s[i]
  BY AppendProperties
<1>2. /\ f[1..0] = <<>>
      /\ \A i \in 1..n : f[1..i] = Step(m, f[1..(i - 1)], s[i])
  BY <1>1, Iterated
<1>3. /\ g[1..0] = <<>>
      /\ \A i \in 1..(n + 1) : g[1..i] = Step(m, g[1..(i - 1)], t[i])
  <2>1. Iterates(g, m, t, n + 1) /\ n + 1 \in Nat
    BY <1>1
  <2>. HIDE DEF n, t
  <2>. QED  BY <2>1, Iterated
<1>. HIDE DEF n, t
<1>. DEFINE S == {i \in Nat : i <= n => g[1..i] = f[1..i]}
<1>4. 0 \in S
  BY <1>2, <1>3
<1>5. ASSUME NEW i \in Nat, i \in S PROVE i + 1 \in S
  <2>. SUFFICES ASSUME i + 1 <= n PROVE g[1..(i + 1)] = f[1..(i + 1)]
    OBVIOUS
  <2>. DEFINE j == i + 1
  <2>1. j \in 1..n /\ j \in 1..(n + 1) /\ j - 1 = i /\ g[1..i] = f[1..i]
    BY <1>1, <1>5
  <2>. HIDE DEF j
  <2>2. g[1..j] = f[1..j]
    BY <1>1, <1>2, <1>3, <2>1
  <2>. QED  BY <2>2 DEF j
<1>6. n \in S
  <2>. HIDE DEF S
  <2>. QED  BY <1>1, <1>4, <1>5, Induct
<1>7. g[1..(n + 1)] = Step(m, f[1..n], a)
  <2>. DEFINE j == n + 1
  <2>1. j \in 1..(n + 1) /\ j - 1 = n /\ g[1..n] = f[1..n] /\ t[j] = a
    BY <1>1, <1>6
  <2>. HIDE DEF j
  <2>2. g[1..j] = Step(m, f[1..n], a)
    BY <1>3, <2>1
  <2>. QED  BY <2>2 DEF j
<1>. QED  BY <1>1, <1>7 DEF n, t

LEMMA OfKindNone == ASSUME NEW k, k # "add" PROVE OfKind(k, <<>>) = <<>>
<1>1. Len(<<>>) = 0 /\ DOMAIN <<>> = 1..Len(<<>>)
  OBVIOUS
<1>2. PICK f : Iterates(f, k, <<>>, Len(<<>>)) /\ OfKind(k, <<>>) = f[1..Len(<<>>)]
  BY <1>1, OfKindIs
<1>3. Iterates(f, k, <<>>, 0) /\ OfKind(k, <<>>) = f[1..0]
  BY <1>1, <1>2
<1>4. f[1..0] = <<>>
  BY <1>3, Iterated
<1>. QED  BY <1>3, <1>4

LEMMA OfKindOn ==
    ASSUME NEW k, k # "add", NEW A, NEW s \in Seq(A), NEW a \in A
    PROVE  OfKind(k, Append(s, a)) = IF a.kind = k THEN Append(OfKind(k, s), a) ELSE OfKind(k, s)
<1>. DEFINE t == Append(s, a)
<1>1. t \in Seq(A)
  BY AppendProperties
<1>. HIDE DEF t
<1>2. /\ Len(s) \in Nat /\ DOMAIN s = 1..Len(s)
      /\ Len(t) \in Nat /\ DOMAIN t = 1..Len(t)
  BY <1>1
<1>3. PICK f : Iterates(f, k, s, Len(s)) /\ OfKind(k, s) = f[1..Len(s)]
  BY <1>2, OfKindIs
<1>4. PICK g : Iterates(g, k, t, Len(t)) /\ OfKind(k, t) = g[1..Len(t)]
  BY <1>2, OfKindIs
<1>5. g[1..Len(t)] = Step(k, f[1..Len(s)], a)
  BY <1>3, <1>4, IteratesOn DEF t
<1>. QED  BY <1>3, <1>4, <1>5 DEF Step, t

UserWire(content) == FoldLeft(AddUserBlock, <<>>, content)

LEMMA UserWireNone == UserWire(<<>>) = <<>>
<1>1. Len(<<>>) = 0 /\ DOMAIN <<>> = 1..Len(<<>>)
  OBVIOUS
<1>2. PICK f : Iterates(f, "add", <<>>, Len(<<>>)) /\ UserWire(<<>>) = f[1..Len(<<>>)]
  BY <1>1, UserBlocksIs DEF UserWire
<1>3. Iterates(f, "add", <<>>, 0) /\ UserWire(<<>>) = f[1..0]
  BY <1>1, <1>2
<1>4. f[1..0] = <<>>
  BY <1>3, Iterated
<1>. QED  BY <1>3, <1>4

LEMMA UserWireOn ==
    ASSUME NEW A, NEW s \in Seq(A), NEW a \in A
    PROVE  UserWire(Append(s, a)) = AddUserBlock(UserWire(s), a)
<1>. DEFINE t == Append(s, a)
<1>1. t \in Seq(A)
  BY AppendProperties
<1>. HIDE DEF t
<1>2. /\ Len(s) \in Nat /\ DOMAIN s = 1..Len(s)
      /\ Len(t) \in Nat /\ DOMAIN t = 1..Len(t)
  BY <1>1
<1>3. PICK f : Iterates(f, "add", s, Len(s)) /\ UserWire(s) = f[1..Len(s)]
  BY <1>2, UserBlocksIs DEF UserWire
<1>4. PICK g : Iterates(g, "add", t, Len(t)) /\ UserWire(t) = g[1..Len(t)]
  BY <1>2, UserBlocksIs DEF UserWire
<1>5. g[1..Len(t)] = Step("add", f[1..Len(s)], a)
  BY <1>3, <1>4, IteratesOn DEF t
<1>. QED  BY <1>3, <1>4, <1>5 DEF Step, t

LEMMA AppendConcat ==
    ASSUME NEW A, NEW r \in Seq(A), NEW s \in Seq(A), NEW a \in A
    PROVE  r \o Append(s, a) = Append(r \o s, a) /\ r \o s \in Seq(A)
<1>1. r \o s \in Seq(A) /\ <<a>> \in Seq(A)
  BY ConcatProperties, One
<1>2. Append(s, a) = s \o <<a>> /\ Append(r \o s, a) = (r \o s) \o <<a>>
  BY <1>1, AppendIsConcat
<1>3. (r \o s) \o <<a>> = r \o (s \o <<a>>)
  BY <1>1, ConcatAssociative
<1>. QED  BY <1>1, <1>2, <1>3

LEMMA OfKindConcat ==
    ASSUME NEW k, NEW A, NEW r \in Seq(A), NEW s \in Seq(A), k # "add"
    PROVE  OfKind(k, s) \in Seq(A) /\ OfKind(k, r \o s) = OfKind(k, r) \o OfKind(k, s)
<1>1. OfKind(k, <<>>) = <<>> /\ <<>> \in Seq(A)
  BY OfKindNone, EmptySeq
<1>. DEFINE S == {x \in Seq(A) : OfKind(k, x) \in Seq(A)}
            T == {x \in Seq(A) : OfKind(k, r \o x) = OfKind(k, r) \o OfKind(k, x)}
<1>2. <<>> \in S
  BY <1>1
<1>3. ASSUME NEW x \in Seq(A), NEW a \in A, x \in S PROVE Append(x, a) \in S
  <2>1. Append(x, a) \in Seq(A)
    BY AppendProperties
  <2>2. OfKind(k, Append(x, a)) = IF a.kind = k THEN Append(OfKind(k, x), a) ELSE OfKind(k, x)
    BY OfKindOn
  <2>3. Append(OfKind(k, x), a) \in Seq(A)
    BY <1>3, AppendProperties
  <2>. QED  BY <1>3, <2>1, <2>2, <2>3
<1>4. Seq(A) \subseteq S
  <2>. HIDE DEF S
  <2>. QED  BY <1>2, <1>3, BySnoc
<1>5. \A x \in Seq(A) : OfKind(k, x) \in Seq(A)
  BY <1>4
<1>6. <<>> \in T
  <2>1. r \o <<>> = r /\ OfKind(k, r) \o <<>> = OfKind(k, r)
    BY <1>5, ConcatEmptySeq
  <2>. QED  BY <1>1, <2>1
<1>7. ASSUME NEW x \in Seq(A), NEW a \in A, x \in T PROVE Append(x, a) \in T
  <2>1. r \o Append(x, a) = Append(r \o x, a) /\ r \o x \in Seq(A) /\ Append(x, a) \in Seq(A)
    BY AppendConcat, AppendProperties
  <2>2. OfKind(k, Append(x, a)) = IF a.kind = k THEN Append(OfKind(k, x), a) ELSE OfKind(k, x)
    BY OfKindOn
  <2>3. OfKind(k, Append(r \o x, a))
          = IF a.kind = k THEN Append(OfKind(k, r \o x), a) ELSE OfKind(k, r \o x)
    BY <2>1, OfKindOn
  <2>4. OfKind(k, r) \o Append(OfKind(k, x), a) = Append(OfKind(k, r) \o OfKind(k, x), a)
    BY <1>5, AppendConcat
  <2>. QED  BY <1>7, <2>1, <2>2, <2>3, <2>4
<1>8. Seq(A) \subseteq T
  <2>. HIDE DEF T
  <2>. QED  BY <1>6, <1>7, BySnoc
<1>. QED  BY <1>5, <1>8

LEMMA OfKindAll ==
    ASSUME NEW k, NEW A, NEW s \in Seq(A), k # "add", \A a \in A : a.kind = k
    PROVE  OfKind(k, s) = s
<1>. DEFINE S == {x \in Seq(A) : OfKind(k, x) = x}
<1>1. <<>> \in S
  BY OfKindNone, EmptySeq
<1>2. ASSUME NEW x \in Seq(A), NEW a \in A, x \in S PROVE Append(x, a) \in S
  <2>1. Append(x, a) \in Seq(A)
    BY AppendProperties
  <2>2. OfKind(k, Append(x, a)) = IF a.kind = k THEN Append(OfKind(k, x), a) ELSE OfKind(k, x)
    BY OfKindOn
  <2>. QED  BY <1>2, <2>1, <2>2
<1>. HIDE DEF S
<1>3. Seq(A) \subseteq S
  BY <1>1, <1>2, BySnoc
<1>. QED  BY <1>3 DEF S

LEMMA OfKindOthers ==
    ASSUME NEW k, NEW A, NEW s \in Seq(A), k # "add", \A a \in A : a.kind # k
    PROVE  OfKind(k, s) = <<>>
<1>. DEFINE S == {x \in Seq(A) : OfKind(k, x) = <<>>}
<1>1. <<>> \in S
  BY OfKindNone, EmptySeq
<1>2. ASSUME NEW x \in Seq(A), NEW a \in A, x \in S PROVE Append(x, a) \in S
  <2>1. Append(x, a) \in Seq(A)
    BY AppendProperties
  <2>2. OfKind(k, Append(x, a)) = IF a.kind = k THEN Append(OfKind(k, x), a) ELSE OfKind(k, x)
    BY OfKindOn
  <2>. QED  BY <1>2, <2>1, <2>2
<1>. HIDE DEF S
<1>3. Seq(A) \subseteq S
  BY <1>1, <1>2, BySnoc
<1>. QED  BY <1>3 DEF S

-----------------------------------------------------------------------------
(* What messages are *)

Id == Nat \X Nat
TextBlock == [kind : {"text"}, about : SUBSET Incidents]
CallBlock == [kind : {"call"}, id : Id, tool : Tools]
ResultBlock == [kind : {"result"}, id : Id, failed : BOOLEAN]
Block == TextBlock \cup CallBlock \cup ResultBlock

\* As the adapters make them.
Sent == [role : {"user", "assistant", "tool"}, content : Seq(Block)]

IsUserText(m) == \E A \in SUBSET Incidents : m = UserText(A)
IsReport(m) == m.role = "user" /\ m.content \in Seq(ResultBlock)
IsAnswer(p, m) ==
    /\ m.role = "assistant"
    /\ \E ts \in Seq(TextBlock), cs \in Seq(CallBlock) :
          m.content = ts \o cs /\ (p = "openai" => Len(ts) <= 1)

\* As converse makes them, with provider p.
Said(p) == {m \in [role : {"user", "assistant"}, content : Seq(Block)] :
              IsUserText(m) \/ IsReport(m) \/ IsAnswer(p, m)}

\* What an answer says and what it calls.
LEMMA AnswerSplits ==
    ASSUME NEW ts \in Seq(TextBlock), NEW cs \in Seq(CallBlock)
    PROVE  /\ OfKind("text", ts \o cs) = ts /\ CallsOf(ts \o cs) = cs
           /\ CallsOf(cs) = cs /\ CallsOf(ts) = <<>>
           /\ ts \in Seq(Block) /\ cs \in Seq(Block) /\ ts \o cs \in Seq(Block)
<1>1. ts \in Seq(Block) /\ cs \in Seq(Block)
  <2>1. TextBlock \subseteq Block /\ CallBlock \subseteq Block
    BY DEF Block
  <2>. QED  BY <2>1, SeqMonotonic
<1>2. /\ \A b \in TextBlock : b.kind = "text" /\ b.kind # "call"
      /\ \A b \in CallBlock : b.kind = "call" /\ b.kind # "text"
  BY DEF TextBlock, CallBlock
<1>3. /\ OfKind("text", ts) = ts /\ OfKind("call", ts) = <<>>
      /\ OfKind("text", cs) = <<>> /\ OfKind("call", cs) = cs
  BY <1>2, OfKindAll, OfKindOthers
<1>4. /\ OfKind("text", ts \o cs) = ts \o <<>>
      /\ OfKind("call", ts \o cs) = <<>> \o cs
  <2>1. ASSUME NEW k, k # "add" PROVE OfKind(k, ts \o cs) = OfKind(k, ts) \o OfKind(k, cs)
    BY <1>1, <2>1, OfKindConcat
  <2>. QED  BY <1>1, <1>3, <2>1
<1>5. ts \o <<>> = ts /\ <<>> \o cs = cs /\ ts \o cs \in Seq(Block)
  BY <1>1, ConcatEmptySeq, ConcatProperties
<1>. QED  BY <1>1, <1>3, <1>4, <1>5 DEF CallsOf

-----------------------------------------------------------------------------
(* Blocks *)

LEMMA BlocksConcat ==
    ASSUME NEW a \in Seq(Sent), NEW b \in Seq(Sent)
    PROVE  /\ Blocks(a) \in Seq(Block)
           /\ Blocks(a \o b) = Blocks(a) \o Blocks(b)
<1>. DEFINE C(s) == [i \in DOMAIN s |-> s[i].content]
<1>1. ASSUME NEW s \in Seq(Sent)
      PROVE  C(s) \in Seq(Seq(Block)) /\ Len(C(s)) = Len(s)
  <2>1. DOMAIN s = 1..Len(s) /\ Len(s) \in Nat /\ \A i \in 1..Len(s) : s[i].content \in Seq(Block)
    <3>1. \A m \in Sent : m.content \in Seq(Block)
      BY DEF Sent
    <3>2. DOMAIN s = 1..Len(s) /\ Len(s) \in Nat /\ \A i \in 1..Len(s) : s[i] \in Sent
      OBVIOUS
    <3>. QED  BY <3>1, <3>2
  <2>. QED  BY <2>1
<1>2. a \o b \in Seq(Sent) /\ Len(a \o b) = Len(a) + Len(b)
  BY ConcatProperties
<1>3. C(a \o b) = C(a) \o C(b)
  <2>. DEFINE u == C(a)
              v == C(b)
              w == C(a \o b)
              ab == a \o b
  <2>1. /\ u \in Seq(Seq(Block)) /\ Len(u) = Len(a) /\ v \in Seq(Seq(Block)) /\ Len(v) = Len(b)
        /\ w \in Seq(Seq(Block)) /\ Len(w) = Len(a) + Len(b) /\ Len(a) \in Nat /\ Len(b) \in Nat
    BY <1>1, <1>2
  <2>2. /\ \A i \in 1..Len(a) : u[i] = a[i].content
        /\ \A i \in 1..Len(b) : v[i] = b[i].content
        /\ \A i \in 1..(Len(a) + Len(b)) : w[i] = ab[i].content
    BY <1>2
  <2>3. \A i \in 1..(Len(a) + Len(b)) : ab[i] = IF i <= Len(a) THEN a[i] ELSE b[i - Len(a)]
    BY ConcatProperties
  <2>. HIDE DEF u, v, w, ab
  <2>4. /\ u \o v \in Seq(Seq(Block)) /\ Len(u \o v) = Len(u) + Len(v)
        /\ \A i \in 1..(Len(u) + Len(v)) : (u \o v)[i] = IF i <= Len(u) THEN u[i] ELSE v[i - Len(u)]
    <3>1. u \in Seq(Seq(Block)) /\ v \in Seq(Seq(Block))
      BY <2>1
    <3>. HIDE DEF Block
    <3>. QED  BY <3>1, ConcatProperties
  <2>5. ASSUME NEW i \in 1..Len(w) PROVE w[i] = (u \o v)[i]
    <3>1. CASE i <= Len(a)
      <4>1. i \in 1..Len(a) /\ i \in 1..(Len(a) + Len(b))
        BY <2>1, <3>1
      <4>. QED  BY <2>1, <2>2, <2>3, <2>4, <3>1, <4>1
    <3>2. CASE ~(i <= Len(a))
      <4>1. i - Len(a) \in 1..Len(b) /\ i \in 1..(Len(a) + Len(b))
        BY <2>1, <3>2
      <4>. QED  BY <2>1, <2>2, <2>3, <2>4, <3>2, <4>1
    <3>. QED  BY <3>1, <3>2
  <2>6. w = u \o v
    BY <2>1, <2>4, <2>5, SeqEqual
  <2>. QED  BY <2>6 DEF u, v, w, ab
<1>4. C(a) \in Seq(Seq(Block)) /\ C(b) \in Seq(Seq(Block))
  BY <1>1
<1>5. Blocks(a) = FlattenSeq(C(a)) /\ Blocks(b) = FlattenSeq(C(b)) /\ Blocks(a \o b) = FlattenSeq(C(a \o b))
  BY DEF Blocks
<1>. HIDE DEF C
<1>6. FlattenSeq(C(a)) \in Seq(Block)
  <2>1. <<>> \in Seq(Block)
    BY EmptySeq
  <2>. QED  BY <1>4, <2>1, FlattenCons
<1>7. FlattenSeq(C(a) \o C(b)) = FlattenSeq(C(a)) \o FlattenSeq(C(b))
  BY <1>4, FlattenConcat
<1>. QED  BY <1>3, <1>5, <1>6, <1>7

LEMMA FlattenOne == ASSUME NEW B, NEW x \in Seq(B) PROVE FlattenSeq(<<x>>) = x
<1>1. <<>> \in Seq(Seq(B)) /\ <<x>> \in Seq(Seq(B))
  BY EmptySeq, One
<1>2. <<x>> \o <<>> = <<x>> /\ x \o <<>> = x
  BY <1>1, ConcatEmptySeq
<1>3. FlattenSeq(<<x>> \o <<>>) = x \o FlattenSeq(<<>>)
  BY <1>1, FlattenCons
<1>. QED  BY <1>2, <1>3, FlattenEmpty

LEMMA BlocksOne ==
    ASSUME NEW m \in Sent
    PROVE  <<m>> \in Seq(Sent) /\ Blocks(<<m>>) = m.content /\ m.content \in Seq(Block)
<1>1. m.content \in Seq(Block)
  BY DEF Sent
<1>2. [i \in DOMAIN <<m>> |-> <<m>>[i].content] = <<m.content>>
  OBVIOUS
<1>. QED  BY <1>1, <1>2, FlattenOne, One DEF Blocks

LEMMA BlocksNone == Blocks(<<>>) = <<>>
<1>1. [i \in DOMAIN <<>> |-> <<>>[i].content] = <<>>
  OBVIOUS
<1>. QED  BY <1>1, FlattenEmpty DEF Blocks

LEMMA BlocksOn ==
    ASSUME NEW a \in Seq(Sent), NEW m \in Sent
    PROVE  Blocks(Append(a, m)) = Blocks(a) \o m.content /\ Blocks(a) \in Seq(Block)
<1>1. Append(a, m) = a \o <<m>>
  BY AppendIsConcat
<1>2. <<m>> \in Seq(Sent) /\ Blocks(<<m>>) = m.content
  BY BlocksOne
<1>3. Blocks(a) \in Seq(Block) /\ Blocks(a \o <<m>>) = Blocks(a) \o Blocks(<<m>>)
  BY <1>2, BlocksConcat
<1>. QED  BY <1>1, <1>2, <1>3

\* What a message says is said.
LEMMA BlocksHas ==
    ASSUME NEW ms \in Seq(Sent), NEW k \in 1..Len(ms), NEW j \in 1..Len(ms[k].content)
    PROVE  ms[k].content[j] \in ToSet(Blocks(ms))
<1>. DEFINE S == {s \in Seq(Sent) : \A i \in 1..Len(s) : \A l \in 1..Len(s[i].content) :
                      s[i].content[l] \in ToSet(Blocks(s))}
<1>1. <<>> \in S
  BY EmptySeq
<1>2. ASSUME NEW s \in Seq(Sent), NEW m \in Sent, s \in S PROVE Append(s, m) \in S
  <2>. DEFINE t == Append(s, m)
              x == Blocks(s)
              y == m.content
  <2>1. /\ t \in Seq(Sent) /\ Len(t) = Len(s) + 1 /\ t[Len(s) + 1] = m /\ Len(s) \in Nat
        /\ \A i \in 1..Len(s) : t[i] = s[i]
    BY AppendProperties
  <2>2. Blocks(t) = x \o y /\ x \in Seq(Block) /\ y \in Seq(Block)
    BY BlocksOn, BlocksOne
  <2>. SUFFICES ASSUME NEW i \in 1..Len(t), NEW l \in 1..Len(t[i].content)
                PROVE  t[i].content[l] \in ToSet(Blocks(t))
    BY <2>1
  <2>3. t[i].content[l] \in ToSet(x) \cup ToSet(y)
    <3>1. CASE i = Len(s) + 1
      <4>1. l \in DOMAIN y /\ t[i].content[l] = y[l]
        BY <2>1, <2>2, <3>1
      <4>. QED  BY <4>1 DEF ToSet
    <3>2. CASE i # Len(s) + 1
      <4>1. i \in 1..Len(s) /\ t[i] = s[i]
        BY <2>1, <3>2
      <4>. QED  BY <1>2, <4>1
    <3>. QED  BY <3>1, <3>2
  <2>. HIDE DEF x, y, t
  <2>4. ToSet(x) \cup ToSet(y) \subseteq ToSet(x \o y)
    <3>. DEFINE z == x \o y
    <3>1. DOMAIN x = 1..Len(x) /\ DOMAIN y = 1..Len(y) /\ Len(x) \in Nat /\ Len(y) \in Nat
      BY <2>2
    <3>2. /\ \A e \in 1..Len(x) : e \in DOMAIN z /\ z[e] = x[e]
          /\ \A e \in 1..Len(y) : Len(x) + e \in DOMAIN z /\ z[Len(x) + e] = y[e]
      BY <2>2
    <3>. HIDE DEF z
    <3>3. ToSet(x) \cup ToSet(y) \subseteq ToSet(z)
      BY <3>1, <3>2 DEF ToSet
    <3>. QED  BY <3>3 DEF z
  <2>. QED  BY <2>2, <2>3, <2>4
<1>. HIDE DEF S
<1>3. ms \in S
  BY <1>1, <1>2, BySnoc
<1>. QED  BY <1>3 DEF S

-----------------------------------------------------------------------------
(* The translation for OpenAI *)

Translated(m) == IF m.role = "user" THEN UserWire(m.content) ELSE <<Assistant(m.content)>>

\* A message that calls nothing.
Quiet == {m \in Sent : m.role # "assistant"}

LEMMA SaidIsSent == ASSUME NEW p PROVE Said(p) \subseteq Sent
BY DEF Said, Sent

LEMMA UserTextWire ==
    ASSUME NEW A \in SUBSET Incidents
    PROVE  /\ UserWire(<<Text(A)>>) = <<UserText(A)>>
           /\ Text(A) \in TextBlock /\ UserText(A) \in Quiet /\ UserText(A).content = <<Text(A)>>
<1>. DEFINE b == Text(A)
<1>1. b \in TextBlock /\ b \in Block /\ b.kind = "text"
  BY DEF Text, TextBlock, Block
<1>2. <<>> \in Seq(Block) /\ <<b>> \in Seq(Block) /\ Append(<<>>, b) = <<b>>
  BY <1>1, EmptySeq, One
<1>. HIDE DEF b
<1>3. UserWire(Append(<<>>, b)) = AddUserBlock(UserWire(<<>>), b)
  BY <1>1, <1>2, UserWireOn
<1>4. AddUserBlock(<<>>, b) = <<Message("user", <<b>>)>>
  <2>1. ~IsResult(b)
    BY <1>1 DEF IsResult
  <2>2. Append(<<>>, Message("user", <<b>>)) = <<Message("user", <<b>>)>>
    OBVIOUS
  <2>. QED  BY <2>1, <2>2 DEF AddUserBlock
<1>5. Message("user", <<b>>) \in Quiet /\ Message("user", <<b>>).content = <<b>>
  BY <1>2 DEF Message, Quiet, Sent
<1>6. UserText(A) = Message("user", <<b>>)
  BY DEF UserText, b
<1>. QED  BY <1>1, <1>2, <1>3, <1>4, <1>5, <1>6, UserWireNone DEF b

LEMMA ReportWire ==
    ASSUME NEW c \in Seq(ResultBlock)
    PROVE  UserWire(c) \in Seq(Quiet) /\ Blocks(UserWire(c)) = c
<1>. DEFINE S == {s \in Seq(ResultBlock) : UserWire(s) \in Seq(Quiet) /\ Blocks(UserWire(s)) = s}
<1>1. <<>> \in S
  <2>1. <<>> \in Seq(ResultBlock)
    BY EmptySeq
  <2>2. <<>> \in Seq(Quiet)
    BY EmptySeq
  <2>. QED  BY <2>1, <2>2, UserWireNone, BlocksNone
<1>2. ASSUME NEW s \in Seq(ResultBlock), NEW b \in ResultBlock, s \in S PROVE Append(s, b) \in S
  <2>. DEFINE m == Message("tool", <<b>>)
              u == UserWire(s)
  <2>1. b \in Block /\ IsResult(b)
    BY DEF ResultBlock, Block, IsResult
  <2>2. m \in Quiet /\ m.content = <<b>>
    <3>1. <<b>> \in Seq(Block)
      BY <2>1, One
    <3>. QED  BY <3>1 DEF Message, Quiet, Sent
  <2>3. u \in Seq(Quiet) /\ Blocks(u) = s
    BY <1>2
  <2>4. UserWire(Append(s, b)) = Append(u, m)
    BY <2>1, UserWireOn DEF AddUserBlock
  <2>. HIDE DEF m, u
  <2>5. m \in Sent /\ u \in Seq(Sent)
    <3>1. Quiet \subseteq Sent
      BY DEF Quiet
    <3>. QED  BY <2>2, <2>3, <3>1, SeqMonotonic
  <2>6. Blocks(Append(u, m)) = s \o <<b>>
    BY <2>2, <2>3, <2>5, BlocksOn
  <2>7. s \o <<b>> = Append(s, b) /\ Append(s, b) \in Seq(ResultBlock)
    BY AppendIsConcat, AppendProperties
  <2>8. Append(u, m) \in Seq(Quiet)
    BY <2>2, <2>3, AppendProperties
  <2>. QED  BY <2>4, <2>6, <2>7, <2>8
<1>. HIDE DEF S
<1>3. Seq(ResultBlock) \subseteq S
  BY <1>1, <1>2, BySnoc
<1>. QED  BY <1>3 DEF S

\* One text at most: the last is all of it.
LEMMA AnswerWire ==
    ASSUME NEW m \in Said("openai"), m.role = "assistant"
    PROVE  Assistant(m.content) = m
<1>1. PICK ts \in Seq(TextBlock), cs \in Seq(CallBlock) : m.content = ts \o cs /\ Len(ts) <= 1
  BY DEF Said, IsUserText, UserText, Message, IsReport, IsAnswer
<1>2. OfKind("text", m.content) = ts /\ CallsOf(m.content) = cs
  BY <1>1, AnswerSplits
<1>3. (IF ts = <<>> THEN <<>> ELSE <<Last(ts)>>) = ts
  <2>1. CASE ts = <<>>
    BY <2>1
  <2>2. CASE ts # <<>>
    <3>1. Len(ts) = 1
      <4>1. Len(ts) \in Nat \ {0}
        BY <2>2
      <4>2. Len(ts) <= 1
        BY <1>1
      <4>. DEFINE n == Len(ts)
      <4>. HIDE DEF n
      <4>3. n \in Nat \ {0} /\ n <= 1
        BY <4>1, <4>2 DEF n
      <4>4. n = 1
        BY <4>3
      <4>. QED  BY <4>4 DEF n
    <3>2. ts[1] \in TextBlock
      <4>1. 1 \in 1..Len(ts)
        BY <3>1
      <4>2. ts \in Seq(TextBlock)
        BY <1>1
      <4>. HIDE DEF TextBlock
      <4>. QED  BY <4>1, <4>2
    <3>3. <<ts[1]>> \in Seq(TextBlock) /\ Len(<<ts[1]>>) = 1 /\ <<ts[1]>>[1] = ts[1]
      BY <3>2, One
    <3>4. <<ts[1]>> = ts
      BY <3>1, <3>3, SeqEqual
    <3>. QED  BY <2>2, <3>1, <3>4 DEF Last
  <2>. QED  BY <2>1, <2>2
<1>4. Assistant(m.content) = Message("assistant", ts \o cs)
  BY <1>2, <1>3 DEF Assistant
<1>5. m = [role |-> "assistant", content |-> m.content]
  BY DEF Said
<1>. QED  BY <1>1, <1>4, <1>5 DEF Message

LEMMA TranslatedIs ==
    ASSUME NEW m \in Said("openai")
    PROVE  /\ Translated(m) \in Seq(Sent) /\ Blocks(Translated(m)) = m.content
           /\ m.role = "assistant" => Translated(m) = <<m>>
           /\ m.role # "assistant" => Translated(m) \in Seq(Quiet)
<1>0. Quiet \subseteq Sent /\ m \in Sent
  BY SaidIsSent DEF Quiet
<1>1. CASE IsUserText(m)
  <2>1. PICK A \in SUBSET Incidents : m = UserText(A)
    BY <1>1 DEF IsUserText
  <2>2. m.content = <<Text(A)>> /\ m \in Quiet /\ UserWire(m.content) = <<m>> /\ m.role = "user"
    BY <2>1, UserTextWire DEF UserText, Message
  <2>3. <<m>> \in Seq(Quiet)
    BY <2>2, One
  <2>. QED  BY <1>0, <2>2, <2>3, BlocksOne DEF Translated
<1>2. CASE IsReport(m)
  <2>1. m.role = "user" /\ m.content \in Seq(ResultBlock)
    BY <1>2 DEF IsReport
  <2>2. Translated(m) \in Seq(Quiet) /\ Blocks(Translated(m)) = m.content
    BY <2>1, ReportWire DEF Translated
  <2>3. Translated(m) \in Seq(Sent)
    BY <1>0, <2>2, SeqMonotonic
  <2>. QED  BY <2>1, <2>2, <2>3
<1>3. CASE IsAnswer("openai", m)
  <2>1. m.role = "assistant"
    BY <1>3 DEF IsAnswer
  <2>2. Translated(m) = <<m>>
    BY <2>1, AnswerWire DEF Translated
  <2>. QED  BY <1>0, <2>1, <2>2, BlocksOne
<1>. QED  BY <1>1, <1>2, <1>3 DEF Said

LEMMA RequestNone == toOpenAIRequest(<<>>) = <<>>
<1>1. [i \in DOMAIN <<>> |->
         IF <<>>[i].role = "user" THEN FoldLeft(AddUserBlock, <<>>, <<>>[i].content)
                                  ELSE <<Assistant(<<>>[i].content)>>] = <<>>
  OBVIOUS
<1>. QED  BY <1>1, FlattenEmpty DEF toOpenAIRequest

LEMMA RequestFirst ==
    ASSUME NEW m \in Said("openai"), NEW ms \in Seq(Said("openai"))
    PROVE  /\ toOpenAIRequest(ms) \in Seq(Sent)
           /\ toOpenAIRequest(<<m>> \o ms) = Translated(m) \o toOpenAIRequest(ms)
<1>. DEFINE T(s) == [i \in DOMAIN s |-> Translated(s[i])]
<1>1. ASSUME NEW s PROVE toOpenAIRequest(s) = FlattenSeq(T(s))
  BY DEF toOpenAIRequest, Translated, UserWire
<1>2. ASSUME NEW s \in Seq(Said("openai"))
      PROVE  T(s) \in Seq(Seq(Sent)) /\ Len(T(s)) = Len(s) /\ \A i \in 1..Len(s) : T(s)[i] = Translated(s[i])
  <2>1. DOMAIN s = 1..Len(s) /\ Len(s) \in Nat /\ \A i \in 1..Len(s) : s[i] \in Said("openai")
    OBVIOUS
  <2>2. \A i \in 1..Len(s) : Translated(s[i]) \in Seq(Sent)
    BY <2>1, TranslatedIs
  <2>. HIDE DEF Said, Translated
  <2>. QED  BY <2>1, <2>2
<1>3. /\ <<m>> \o ms \in Seq(Said("openai")) /\ Len(<<m>> \o ms) = Len(ms) + 1 /\ Len(ms) \in Nat
      /\ (<<m>> \o ms)[1] = m /\ \A i \in 1..Len(ms) : (<<m>> \o ms)[i + 1] = ms[i]
  BY ElementFirst
<1>4. T(<<m>> \o ms) = <<Translated(m)>> \o T(ms)
  <2>. DEFINE w == T(<<m>> \o ms)
              v == T(ms)
              x == Translated(m)
              u == <<x>> \o v
  <2>1. /\ w \in Seq(Seq(Sent)) /\ Len(w) = Len(ms) + 1 /\ w[1] = x
        /\ \A i \in 1..Len(ms) : w[i + 1] = Translated(ms[i])
    <3>. DEFINE a == <<m>> \o ms
    <3>1. a \in Seq(Said("openai")) /\ Len(a) = Len(ms) + 1 /\ a[1] = m /\ \A i \in 1..Len(ms) : a[i + 1] = ms[i]
      BY <1>3
    <3>. HIDE DEF a
    <3>2. T(a) \in Seq(Seq(Sent)) /\ Len(T(a)) = Len(ms) + 1 /\ \A i \in 1..(Len(ms) + 1) : T(a)[i] = Translated(a[i])
      BY <1>2, <3>1
    <3>. HIDE DEF T
    <3>3. T(a)[1] = x /\ \A i \in 1..Len(ms) : T(a)[i + 1] = Translated(ms[i])
      BY <1>3, <3>1, <3>2
    <3>. QED  BY <3>2, <3>3 DEF a
  <2>2. v \in Seq(Seq(Sent)) /\ Len(v) = Len(ms) /\ \A i \in 1..Len(ms) : v[i] = Translated(ms[i])
    BY <1>2
  <2>3. x \in Seq(Sent)
    BY TranslatedIs
  <2>. HIDE DEF w, v, x
  <2>4. /\ u \in Seq(Seq(Sent)) /\ Len(u) = Len(v) + 1 /\ u[1] = x
        /\ \A i \in 1..Len(v) : u[i + 1] = v[i]
    BY <2>2, <2>3, ElementFirst
  <2>. HIDE DEF u
  <2>5. ASSUME NEW i \in 1..Len(w) PROVE w[i] = u[i]
    <3>1. CASE i = 1
      BY <2>1, <2>4, <3>1
    <3>2. CASE i # 1
      <4>. DEFINE j == i - 1
      <4>1. j \in 1..Len(ms) /\ j + 1 = i
        BY <1>3, <2>1, <3>2
      <4>. HIDE DEF j
      <4>2. w[j + 1] = u[j + 1]
        BY <2>1, <2>2, <2>4, <4>1
      <4>. QED  BY <4>1, <4>2
    <3>. QED  BY <3>1, <3>2
  <2>6. w = u
    BY <2>1, <2>2, <2>4, <2>5, SeqEqual
  <2>. QED  BY <2>6 DEF w, u, v, x
<1>5. Translated(m) \in Seq(Sent) /\ T(ms) \in Seq(Seq(Sent))
  BY <1>2, TranslatedIs
<1>6. /\ FlattenSeq(T(ms)) \in Seq(Sent)
      /\ FlattenSeq(<<Translated(m)>> \o T(ms)) = Translated(m) \o FlattenSeq(T(ms))
  <2>. HIDE DEF T, Translated, Sent
  <2>. QED  BY <1>5, FlattenCons
<1>. HIDE DEF T
<1>. QED  BY <1>1, <1>4, <1>6

\* What is sent is what was said.
LEMMA RequestSays ==
    ASSUME NEW ms \in Seq(Said("openai"))
    PROVE  Blocks(toOpenAIRequest(ms)) = Blocks(ms)
<1>. DEFINE A == Said("openai")
            S == {s \in Seq(A) : Blocks(toOpenAIRequest(s)) = Blocks(s)}
<1>1. <<>> \in S
  BY EmptySeq, RequestNone
<1>2. ASSUME NEW s \in Seq(A), NEW m \in A, s \in S PROVE <<m>> \o s \in S
  <2>1. toOpenAIRequest(<<m>> \o s) = Translated(m) \o toOpenAIRequest(s) /\ toOpenAIRequest(s) \in Seq(Sent)
    BY RequestFirst
  <2>2. Translated(m) \in Seq(Sent) /\ Blocks(Translated(m)) = m.content
    BY TranslatedIs
  <2>3. Blocks(Translated(m) \o toOpenAIRequest(s)) = m.content \o Blocks(toOpenAIRequest(s))
    BY <2>1, <2>2, BlocksConcat
  <2>4. m \in Sent /\ s \in Seq(Sent)
    BY SaidIsSent, SeqMonotonic
  <2>5. Blocks(<<m>> \o s) = m.content \o Blocks(s)
    BY <2>4, BlocksOne, BlocksConcat
  <2>6. <<m>> \o s \in Seq(A)
    BY ElementFirst
  <2>. QED  BY <1>2, <2>1, <2>3, <2>5, <2>6
<1>. HIDE DEF S, A
<1>3. Seq(A) \subseteq S
  BY <1>1, <1>2, ByHead
<1>. QED  BY <1>3 DEF S, A

-----------------------------------------------------------------------------
(* Calls and their answers *)

\* What follows m answers its calls.
Met(m, after) ==
    /\ Len(CallsOf(m.content)) <= Len(after)
    /\ \A k \in DOMAIN CallsOf(m.content) :
          IsResult(after[k]) /\ after[k].id = CallsOf(m.content)[k].id

AnsweredAt(ms, i) ==
    ms[i].role = "assistant" => Met(ms[i], Blocks(SubSeq(ms, i + 1, Len(ms))))

LEMMA CallsAnsweredIs ==
    ASSUME NEW ms
    PROVE  CallsAnswered(ms) <=> \A i \in DOMAIN ms : AnsweredAt(ms, i)
BY DEF CallsAnswered, AnsweredAt, Met

\* What follows goes on to answer when more follows.
LEMMA MetOn ==
    ASSUME NEW m \in Sent, NEW a \in Seq(Block), NEW b \in Seq(Block), Met(m, a)
    PROVE  Met(m, a \o b)
<1>. DEFINE c == CallsOf(m.content)
            w == a \o b
<1>1. c \in Seq(Block)
  <2>1. m.content \in Seq(Block) /\ "call" # "add"
    BY BlocksOne
  <2>. QED  BY <2>1, OfKindConcat DEF CallsOf
<1>2. /\ Len(w) = Len(a) + Len(b) /\ Len(a) \in Nat /\ Len(b) \in Nat /\ Len(c) \in Nat
      /\ DOMAIN c = 1..Len(c) /\ \A i \in 1..Len(a) : w[i] = a[i]
  BY <1>1
<1>3. Len(c) <= Len(a) /\ \A k \in DOMAIN c : IsResult(a[k]) /\ a[k].id = c[k].id
  BY DEF Met
<1>. HIDE DEF c, w
<1>4. Len(c) <= Len(w)
  BY <1>2, <1>3
<1>5. ASSUME NEW k \in DOMAIN c PROVE IsResult(w[k]) /\ w[k].id = c[k].id
  <2>1. k \in 1..Len(a)
    BY <1>2, <1>3
  <2>. QED  BY <1>2, <1>3, <2>1
<1>. QED  BY <1>4, <1>5 DEF Met, c, w

LEMMA Rest ==
    ASSUME NEW A, NEW s \in Seq(A), NEW i \in 0..Len(s)
    PROVE  /\ SubSeq(s, i + 1, Len(s)) \in Seq(A)
           /\ Len(SubSeq(s, i + 1, Len(s))) = Len(s) - i
           /\ \A j \in 1..(Len(s) - i) : SubSeq(s, i + 1, Len(s))[j] = s[i + j]
<1>. DEFINE n == Len(s)
            x == SubSeq(s, i + 1, n)
<1>1. n \in Nat /\ \A j \in 1..n : s[j] \in A
  OBVIOUS
<1>. HIDE DEF n
<1>2. i \in 0..n
  BY DEF n
<1>. HIDE DEF x
<1>3. /\ x \in Seq(A) /\ Len(x) = (IF i + 1 <= n THEN n - (i + 1) + 1 ELSE 0)
      /\ \A j \in 1..(n - (i + 1) + 1) : x[j] = s[i + 1 + j - 1]
  <2>1. i + 1 \in Int /\ n \in Int /\ \A j \in (i + 1)..n : s[j] \in A
    BY <1>1, <1>2
  <2>. QED  BY <2>1, SubSeqProperties DEF x
<1>4. Len(x) = n - i
  BY <1>1, <1>2, <1>3
<1>5. ASSUME NEW j \in 1..(n - i) PROVE x[j] = s[i + j]
  <2>1. j \in 1..(n - (i + 1) + 1) /\ i + 1 + j - 1 = i + j
    BY <1>1, <1>2
  <2>2. x[j] = s[i + 1 + j - 1]
    BY <1>3, <2>1
  <2>. QED  BY <2>1, <2>2
<1>. QED  BY <1>3, <1>4, <1>5 DEF x, n

LEMMA AnsweredOn ==
    ASSUME NEW ms \in Seq(Sent), NEW m \in Sent, NEW i \in 1..Len(ms), AnsweredAt(ms, i)
    PROVE  AnsweredAt(Append(ms, m), i)
<1>. DEFINE t == Append(ms, m)
            n == Len(ms)
<1>1. /\ t \in Seq(Sent) /\ Len(t) = n + 1 /\ t[n + 1] = m /\ n \in Nat
      /\ \A j \in 1..n : t[j] = ms[j] /\ ms[j] \in Sent
  BY AppendProperties
<1>2. SubSeq(t, i + 1, n + 1) = Append(SubSeq(ms, i + 1, n), m) /\ SubSeq(ms, i + 1, n) \in Seq(Sent)
  <2>. DEFINE x == SubSeq(ms, i + 1, n)
              y == SubSeq(t, i + 1, n + 1)
              z == Append(x, m)
  <2>. HIDE DEF t, n
  <2>0. i \in 1..n
    BY DEF n
  <2>1. x \in Seq(Sent) /\ Len(x) = n - i /\ \A j \in 1..(n - i) : x[j] = ms[i + j]
    <3>1. i \in 0..Len(ms)
      BY <1>1, <2>0 DEF n
    <3>. QED  BY <3>1, Rest DEF n
  <2>2. y \in Seq(Sent) /\ Len(y) = n - i + 1 /\ \A j \in 1..(n - i + 1) : y[j] = t[i + j]
    <3>1. t \in Seq(Sent) /\ i \in 0..Len(t) /\ Len(t) = n + 1
      BY <1>1, <2>0
    <3>2. y \in Seq(Sent) /\ Len(y) = Len(t) - i /\ \A j \in 1..(Len(t) - i) : y[j] = t[i + j]
      BY <3>1, Rest
    <3>3. Len(t) - i = n - i + 1
      BY <1>1, <2>0, <3>1
    <3>. QED  BY <3>2, <3>3
  <2>. HIDE DEF x, y
  <2>3. /\ z \in Seq(Sent) /\ Len(z) = Len(x) + 1 /\ z[Len(x) + 1] = m
        /\ \A j \in 1..Len(x) : z[j] = x[j]
    <3>1. x \in Seq(Sent)
      BY <2>1
    <3>. QED  BY <3>1, AppendProperties
  <2>. HIDE DEF z
  <2>4. ASSUME NEW j \in 1..Len(y) PROVE y[j] = z[j]
    <3>1. CASE j = n - i + 1
      <4>1. i + j = n + 1 /\ j = Len(x) + 1 /\ j \in 1..(n - i + 1)
        BY <1>1, <2>0, <2>1, <3>1
      <4>2. z[j] = m /\ y[j] = t[n + 1]
        BY <2>2, <2>3, <4>1
      <4>. QED  BY <1>1, <4>2
    <3>2. CASE j # n - i + 1
      <4>1. j \in 1..(n - i) /\ i + j \in 1..n /\ j \in 1..Len(x) /\ j \in 1..(n - i + 1)
        BY <1>1, <2>0, <2>1, <2>2, <3>2
      <4>2. t[i + j] = ms[i + j]
        BY <1>1, <4>1
      <4>. QED  BY <2>1, <2>2, <2>3, <4>1, <4>2
    <3>. QED  BY <3>1, <3>2
  <2>5. Len(y) = Len(z)
    BY <1>1, <2>1, <2>2, <2>3
  <2>6. y = z
    BY <2>2, <2>3, <2>4, <2>5, SeqEqual
  <2>. QED  BY <2>1, <2>6 DEF x, y, z
<1>. DEFINE a == Blocks(SubSeq(ms, i + 1, n))
<1>3. Blocks(SubSeq(t, i + 1, n + 1)) = a \o m.content /\ a \in Seq(Block) /\ m.content \in Seq(Block)
  BY <1>2, BlocksOn, BlocksOne
<1>4. t[i] = ms[i] /\ ms[i] \in Sent
  BY <1>1
<1>5. ms[i].role = "assistant" => Met(ms[i], a)
  BY DEF AnsweredAt
<1>6. ms[i].role = "assistant" => Met(ms[i], a \o m.content)
  <2>. HIDE DEF a
  <2>. QED  BY <1>3, <1>4, <1>5, MetOn
<1>. QED  BY <1>1, <1>3, <1>4, <1>6 DEF AnsweredAt

\* Nothing follows the last message.
LEMMA AnsweredLast ==
    ASSUME NEW ms \in Seq(Sent), NEW m \in Sent, m.role = "assistant" => CallsOf(m.content) = <<>>
    PROVE  AnsweredAt(Append(ms, m), Len(ms) + 1)
<1>. DEFINE t == Append(ms, m)
<1>1. Len(t) = Len(ms) + 1 /\ t[Len(ms) + 1] = m /\ Len(ms) \in Nat
  BY AppendProperties
<1>. HIDE DEF t
<1>2. SubSeq(t, Len(ms) + 1 + 1, Len(t)) = <<>>
  BY <1>1, SubSeqEmpty
<1>3. Len(<<>>) = 0 /\ DOMAIN <<>> = {}
  OBVIOUS
<1>. QED  BY <1>1, <1>2, <1>3, BlocksNone DEF AnsweredAt, Met, t

\* From the front.
LEMMA CallsAnsweredFirst ==
    ASSUME NEW m \in Sent, NEW ms \in Seq(Sent)
    PROVE  CallsAnswered(<<m>> \o ms)
             <=> /\ m.role = "assistant" => Met(m, Blocks(ms))
                 /\ CallsAnswered(ms)
<1>. DEFINE t == <<m>> \o ms
            n == Len(ms)
<1>1. /\ t \in Seq(Sent) /\ Len(t) = n + 1 /\ t[1] = m /\ n \in Nat
      /\ \A j \in 1..n : t[j + 1] = ms[j] /\ ms[j] \in Sent
      /\ DOMAIN t = 1..(n + 1) /\ DOMAIN ms = 1..n
  BY ElementFirst
<1>2. ASSUME NEW i \in 0..n
      PROVE  SubSeq(t, i + 2, n + 1) = SubSeq(ms, i + 1, n)
  <2>. DEFINE x == SubSeq(ms, i + 1, n)
              y == SubSeq(t, i + 2, n + 1)
  <2>. HIDE DEF t, n
  <2>1. x \in Seq(Sent) /\ Len(x) = n - i /\ \A j \in 1..(n - i) : x[j] = ms[i + j]
    BY Rest DEF n
  <2>2. y \in Seq(Sent) /\ Len(y) = n - i /\ \A j \in 1..(n - i) : y[j] = t[i + j + 1]
    <3>. DEFINE k == i + 1
    <3>1. k \in 0..Len(t) /\ k + 1 = i + 2 /\ Len(t) = n + 1 /\ Len(t) - k = n - i
          /\ \A j \in 1..(n - i) : k + j = i + j + 1
      BY <1>1
    <3>. HIDE DEF k
    <3>2. t \in Seq(Sent)
      BY <1>1
    <3>3. /\ SubSeq(t, k + 1, Len(t)) \in Seq(Sent) /\ Len(SubSeq(t, k + 1, Len(t))) = Len(t) - k
          /\ \A j \in 1..(Len(t) - k) : SubSeq(t, k + 1, Len(t))[j] = t[k + j]
      BY <3>1, <3>2, Rest
    <3>. QED  BY <3>1, <3>3
  <2>. HIDE DEF x, y
  <2>3. ASSUME NEW j \in 1..Len(y) PROVE y[j] = x[j]
    <3>1. j \in 1..(n - i) /\ i + j \in 1..n
      BY <1>1, <2>2
    <3>2. t[i + j + 1] = ms[i + j]
      BY <1>1, <3>1
    <3>. QED  BY <2>1, <2>2, <3>1, <3>2
  <2>4. y = x
    BY <2>1, <2>2, <2>3, SeqEqual
  <2>. QED  BY <2>4 DEF x, y
<1>3. AnsweredAt(t, 1) <=> (m.role = "assistant" => Met(m, Blocks(ms)))
  <2>1. SubSeq(t, 2, n + 1) = SubSeq(ms, 1, n)
    <3>. DEFINE i == 0
    <3>1. i \in 0..n /\ i + 2 = 2 /\ i + 1 = 1
      BY <1>1
    <3>. HIDE DEF i
    <3>2. SubSeq(t, i + 2, n + 1) = SubSeq(ms, i + 1, n)
      BY <1>2, <3>1
    <3>. QED  BY <3>1, <3>2
  <2>2. SubSeq(ms, 1, n) = ms
    BY SubSeqFull
  <2>3. 1 + 1 = 2
    OBVIOUS
  <2>. HIDE DEF t
  <2>. QED  BY <1>1, <2>1, <2>2, <2>3 DEF AnsweredAt
<1>4. ASSUME NEW j \in 1..n PROVE AnsweredAt(t, j + 1) <=> AnsweredAt(ms, j)
  <2>1. SubSeq(t, j + 2, n + 1) = SubSeq(ms, j + 1, n) /\ j + 1 + 1 = j + 2
    BY <1>1, <1>2
  <2>. HIDE DEF t
  <2>. QED  BY <1>1, <2>1 DEF AnsweredAt
<1>. HIDE DEF t
<1>5. (\A i \in 1..(n + 1) : AnsweredAt(t, i)) <=> AnsweredAt(t, 1) /\ \A j \in 1..n : AnsweredAt(t, j + 1)
  <2>1. ASSUME \A i \in 1..(n + 1) : AnsweredAt(t, i)
        PROVE  AnsweredAt(t, 1) /\ \A j \in 1..n : AnsweredAt(t, j + 1)
    BY <1>1, <2>1
  <2>2. ASSUME AnsweredAt(t, 1), \A j \in 1..n : AnsweredAt(t, j + 1), NEW i \in 1..(n + 1)
        PROVE  AnsweredAt(t, i)
    <3>1. CASE i = 1
      BY <2>2, <3>1
    <3>2. CASE i # 1
      <4>. DEFINE j == i - 1
      <4>1. j \in 1..n /\ j + 1 = i
        BY <1>1, <3>2
      <4>. HIDE DEF j
      <4>2. AnsweredAt(t, j + 1)
        BY <2>2, <4>1
      <4>. QED  BY <4>1, <4>2
    <3>. QED  BY <3>1, <3>2
  <2>. QED  BY <2>1, <2>2
<1>6. /\ CallsAnswered(t) <=> \A i \in 1..(n + 1) : AnsweredAt(t, i)
      /\ CallsAnswered(ms) <=> \A j \in 1..n : AnsweredAt(ms, j)
  BY <1>1, CallsAnsweredIs
<1>7. CallsAnswered(t) <=> AnsweredAt(t, 1) /\ \A j \in 1..n : AnsweredAt(ms, j)
  BY <1>4, <1>5, <1>6
<1>. QED  BY <1>3, <1>6, <1>7 DEF t

LEMMA CallsAnsweredNone == CallsAnswered(<<>>)
<1>1. DOMAIN <<>> = {}
  OBVIOUS
<1>. QED  BY <1>1, CallsAnsweredIs

\* Before a message nobody has to answer anything for what calls nothing.
LEMMA CallsAnsweredQuiet ==
    ASSUME NEW q \in Seq(Quiet), NEW ms \in Seq(Sent), CallsAnswered(ms)
    PROVE  CallsAnswered(q \o ms)
<1>. DEFINE S == {s \in Seq(Quiet) : CallsAnswered(s \o ms)}
<1>0. Quiet \subseteq Sent
  BY DEF Quiet
<1>1. <<>> \in S
  <2>1. <<>> \o ms = ms
    BY ConcatEmptySeq
  <2>. QED  BY <2>1, EmptySeq
<1>2. ASSUME NEW s \in Seq(Quiet), NEW m \in Quiet, s \in S PROVE <<m>> \o s \in S
  <2>1. m \in Sent /\ s \in Seq(Sent) /\ <<m>> \in Seq(Sent) /\ m.role # "assistant"
    <3>1. m \in Sent /\ s \in Seq(Sent)
      BY <1>0, SeqMonotonic
    <3>. QED  BY <3>1, One DEF Quiet
  <2>2. (<<m>> \o s) \o ms = <<m>> \o (s \o ms) /\ s \o ms \in Seq(Sent)
    BY <2>1, ConcatAssociative, ConcatProperties
  <2>3. CallsAnswered(s \o ms)
    BY <1>2
  <2>4. CallsAnswered(<<m>> \o (s \o ms))
    BY <2>1, <2>2, <2>3, CallsAnsweredFirst
  <2>5. <<m>> \o s \in Seq(Quiet)
    BY ElementFirst
  <2>. QED  BY <2>2, <2>4, <2>5
<1>. HIDE DEF S
<1>3. Seq(Quiet) \subseteq S
  BY <1>1, <1>2, ByHead
<1>. QED  BY <1>3 DEF S

\* A transcript that answers its calls answers them as it is sent.
LEMMA RequestAnswers ==
    ASSUME NEW ms \in Seq(Said("openai")), CallsAnswered(ms)
    PROVE  CallsAnswered(toOpenAIRequest(ms))
<1>. DEFINE A == Said("openai")
            S == {s \in Seq(A) : CallsAnswered(s) => CallsAnswered(toOpenAIRequest(s))}
<1>1. <<>> \in S
  BY EmptySeq, RequestNone, CallsAnsweredNone
<1>2. ASSUME NEW s \in Seq(A), NEW m \in A, s \in S PROVE <<m>> \o s \in S
  <2>0. <<m>> \o s \in Seq(A)
    BY ElementFirst
  <2>. SUFFICES ASSUME CallsAnswered(<<m>> \o s) PROVE CallsAnswered(toOpenAIRequest(<<m>> \o s))
    BY <2>0
  <2>1. m \in Sent /\ s \in Seq(Sent)
    BY SaidIsSent, SeqMonotonic
  <2>2. (m.role = "assistant" => Met(m, Blocks(s))) /\ CallsAnswered(s)
    BY <2>1, CallsAnsweredFirst
  <2>3. CallsAnswered(toOpenAIRequest(s))
    BY <1>2, <2>2
  <2>4. toOpenAIRequest(<<m>> \o s) = Translated(m) \o toOpenAIRequest(s) /\ toOpenAIRequest(s) \in Seq(Sent)
    BY RequestFirst
  <2>5. Blocks(toOpenAIRequest(s)) = Blocks(s)
    BY RequestSays
  <2>. DEFINE w == toOpenAIRequest(s)
  <2>. HIDE DEF w
  <2>6. CASE m.role = "assistant"
    <3>1. Translated(m) = <<m>>
      BY <2>6, TranslatedIs
    <3>2. w \in Seq(Sent) /\ CallsAnswered(w) /\ Blocks(w) = Blocks(s)
      BY <2>3, <2>4, <2>5 DEF w
    <3>3. CallsAnswered(<<m>> \o w)
      BY <2>1, <2>2, <3>2, CallsAnsweredFirst
    <3>. QED  BY <2>4, <3>1, <3>3 DEF w
  <2>7. CASE m.role # "assistant"
    <3>1. Translated(m) \in Seq(Quiet)
      BY <2>7, TranslatedIs
    <3>. QED  BY <2>3, <2>4, <3>1, CallsAnsweredQuiet
  <2>. QED  BY <2>6, <2>7
<1>. HIDE DEF S, A
<1>3. Seq(A) \subseteq S
  BY <1>1, <1>2, ByHead
<1>. QED  BY <1>3 DEF S, A

-----------------------------------------------------------------------------
(* The inductive invariant *)

ShapeInv ==
    /\ provider \in {"anthropic", "openai"}
    /\ pc \in {"idle", "request", "backoff", "tools", "turn", "await", "failed"}
    /\ messages \in Seq(Said(provider))
    /\ open \subseteq Incidents /\ Cardinality(open) <= MaxOpen
    /\ pc = "idle" => open = {}
    /\ attempt \in 1..MaxAttempts
    /\ pc = "backoff" => attempt < MaxAttempts
    /\ staged \in BOOLEAN /\ cut \in BOOLEAN

LengthInv ==
    /\ Len(messages) <= MaxMessages + 1
    /\ pc \in {"request", "backoff"} => Len(messages) <= MaxMessages
    /\ pc = "tools" => /\ Len(messages) \in 1..(MaxMessages - 1)
                       /\ Last(messages).role = "assistant"

\* While the tools run the last answer is still to be met.
AnswerInv ==
    ~cut => \A i \in 1..Len(messages) :
               (pc = "tools" => i < Len(messages)) => AnsweredAt(messages, i)

Told(ms, i) == \E b \in ToSet(Blocks(ms)) : IsText(b) /\ i \in b.about

ToldInv == \A i \in open : Told(messages, i)

IInv == ShapeInv /\ LengthInv /\ AnswerInv /\ ToldInv

-----------------------------------------------------------------------------
(* What a step adds *)

LEMMA SaysMore ==
    ASSUME NEW p, NEW ms \in Seq(Said(p)), NEW m \in Said(p)
    PROVE  /\ Append(ms, m) \in Seq(Said(p)) /\ Len(Append(ms, m)) = Len(ms) + 1
           /\ Append(ms, m)[Len(ms) + 1] = m
           /\ \A i : Told(ms, i) => Told(Append(ms, m), i)
           /\ \A i \in 1..Len(ms) : AnsweredAt(ms, i) => AnsweredAt(Append(ms, m), i)
           /\ (m.role = "assistant" => CallsOf(m.content) = <<>>)
                => AnsweredAt(Append(ms, m), Len(ms) + 1)
<1>1. ms \in Seq(Sent) /\ m \in Sent
  BY SaidIsSent, SeqMonotonic
<1>2. ASSUME NEW i, Told(ms, i) PROVE Told(Append(ms, m), i)
  <2>. DEFINE x == Blocks(ms)
              y == m.content
              z == x \o y
  <2>1. Blocks(Append(ms, m)) = z /\ x \in Seq(Block) /\ y \in Seq(Block)
    BY <1>1, BlocksOn, BlocksOne
  <2>2. PICK b \in ToSet(x) : IsText(b) /\ i \in b.about
    BY <1>2 DEF Told
  <2>. HIDE DEF x, y
  <2>3. PICK j \in 1..Len(x) : b = x[j]
    BY <2>1, <2>2 DEF ToSet
  <2>4. j \in DOMAIN z /\ z[j] = b
    BY <2>1, <2>3
  <2>5. b \in ToSet(z)
    BY <2>4 DEF ToSet
  <2>. QED  BY <2>1, <2>2, <2>5 DEF Told
<1>3. Append(ms, m) \in Seq(Said(p)) /\ Len(Append(ms, m)) = Len(ms) + 1 /\ Append(ms, m)[Len(ms) + 1] = m
  BY AppendProperties
<1>4. \A i \in 1..Len(ms) : AnsweredAt(ms, i) => AnsweredAt(Append(ms, m), i)
  BY <1>1, AnsweredOn
<1>5. (m.role = "assistant" => CallsOf(m.content) = <<>>) => AnsweredAt(Append(ms, m), Len(ms) + 1)
  BY <1>1, AnsweredLast
<1>. QED  BY <1>2, <1>3, <1>4, <1>5

LEMMA UserTextSaid ==
    ASSUME NEW p, NEW A \in SUBSET Incidents
    PROVE  UserText(A) \in Said(p) /\ UserText(A).role = "user"
<1>1. <<Text(A)>> \in Seq(Block)
  <2>1. Text(A) \in Block
    BY DEF Text, Block, TextBlock
  <2>. QED  BY <2>1, One
<1>. QED  BY <1>1 DEF UserText, Message, Said, IsUserText

\* A text tells of its incidents.
LEMMA UserTextTells ==
    ASSUME NEW p, NEW ms \in Seq(Said(p)), NEW A \in SUBSET Incidents, NEW k \in 1..Len(ms),
           ms[k] = UserText(A), NEW i \in A
    PROVE  Told(ms, i)
<1>1. ms \in Seq(Sent)
  BY SaidIsSent, SeqMonotonic
<1>2. ms[k].content = <<Text(A)>>
  BY UserTextWire
<1>3. 1 \in 1..Len(ms[k].content) /\ ms[k].content[1] = Text(A)
  BY <1>2
<1>4. Text(A) \in ToSet(Blocks(ms))
  BY <1>1, <1>3, BlocksHas
<1>5. IsText(Text(A)) /\ i \in Text(A).about
  BY DEF IsText, Text
<1>. QED  BY <1>4, <1>5 DEF Told

\* What a provider answers.
LEMMA ReplySaid ==
    ASSUME messages \in Seq(Said(provider)), NEW n \in Int, NEW r \in Replies(n)
    PROVE  /\ Message("assistant", Content(r)) \in Said(provider)
           /\ Message("assistant", Content(r)).role = "assistant"
           /\ r.tools = <<>> => CallsOf(Message("assistant", Content(r)).content) = <<>>
<1>. DEFINE ts == [i \in 1..r.texts |-> Text({})]
            cs == [i \in DOMAIN r.tools |-> Call(<<Len(messages) + 1, i>>, r.tools[i])]
            c == Content(r)
<1>1. /\ r.texts \in Nat /\ (provider = "openai" => r.texts <= 1)
      /\ r.tools \in SeqOf(Tools, n)
  BY DEF Replies
<1>2. PICK k \in 0..n : r.tools \in [1..k -> Tools]
  BY <1>1 DEF SeqOf
<1>3. k \in Nat
  BY <1>2
<1>4. ts \in Seq(TextBlock) /\ Len(ts) = r.texts
  <2>1. Text({}) \in TextBlock
    BY DEF Text, TextBlock
  <2>. QED  BY <1>1, <2>1
<1>5. cs \in Seq(CallBlock) /\ Len(cs) = k
  <2>1. \A i \in 1..k : Call(<<Len(messages) + 1, i>>, r.tools[i]) \in CallBlock
    <3>1. Len(messages) \in Nat
      OBVIOUS
    <3>. QED  BY <1>2, <1>3, <3>1 DEF Call, CallBlock, Id
  <2>2. DOMAIN r.tools = 1..k
    BY <1>2
  <2>. QED  BY <1>3, <2>1, <2>2
<1>6. c = ts \o cs
  BY DEF Content
<1>. HIDE DEF ts, cs, c
<1>7. CallsOf(c) = cs /\ c \in Seq(Block)
  BY <1>4, <1>5, <1>6, AnswerSplits
<1>8. IsAnswer(provider, Message("assistant", c))
  BY <1>1, <1>4, <1>5, <1>6 DEF IsAnswer, Message
<1>9. r.tools = <<>> => cs = <<>>
  <2>. SUFFICES ASSUME r.tools = <<>> PROVE cs = <<>>
    OBVIOUS
  <2>1. DOMAIN r.tools = {} /\ DOMAIN r.tools = 1..k
    BY <1>2
  <2>2. k = 0
    BY <1>3, <2>1
  <2>. QED  BY <1>5, <2>2, Empty
<1>. QED  BY <1>7, <1>8, <1>9 DEF Message, Said, c

\* What runTools reports.
LEMMA ReportSaid ==
    ASSUME NEW p, NEW a \in Said(p), a.role = "assistant",
           NEW errors \in SUBSET DOMAIN CallsOf(a.content)
    PROVE  /\ Message("user", Results(CallsOf(a.content), errors)) \in Said(p)
           /\ Message("user", Results(CallsOf(a.content), errors)).role = "user"
           /\ Met(a, Results(CallsOf(a.content), errors))
           /\ Message("user", Results(CallsOf(a.content), errors)).content
                = Results(CallsOf(a.content), errors)
<1>. DEFINE c == CallsOf(a.content)
            r == Results(c, errors)
<1>1. c \in Seq(CallBlock)
  <2>1. PICK ts \in Seq(TextBlock), cs \in Seq(CallBlock) : a.content = ts \o cs
    BY DEF Said, IsUserText, UserText, Message, IsReport, IsAnswer
  <2>. QED  BY <2>1, AnswerSplits
<1>. HIDE DEF c
<1>2. DOMAIN c = 1..Len(c) /\ Len(c) \in Nat /\ \A i \in 1..Len(c) : c[i].id \in Id
  <2>1. \A i \in 1..Len(c) : c[i] \in CallBlock
    BY <1>1
  <2>2. \A b \in CallBlock : b.id \in Id
    BY DEF CallBlock
  <2>. QED  BY <1>1, <2>1, <2>2
<1>3. \A i \in DOMAIN c : Fails(c, i, errors) \in BOOLEAN
  BY DEF Fails
<1>4. /\ r \in Seq(ResultBlock) /\ Len(r) = Len(c)
      /\ \A i \in 1..Len(c) : r[i] = Result(c[i].id, Fails(c, i, errors))
  <2>1. \A i \in 1..Len(c) : Result(c[i].id, Fails(c, i, errors)) \in ResultBlock
    BY <1>2, <1>3 DEF Result, ResultBlock
  <2>. QED  BY <1>2, <2>1 DEF Results
<1>5. r \in Seq(Block)
  <2>1. ResultBlock \subseteq Block
    BY DEF Block
  <2>. QED  BY <1>4, <2>1, SeqMonotonic
<1>. HIDE DEF r
<1>6. ASSUME NEW k \in DOMAIN c PROVE IsResult(r[k]) /\ r[k].id = c[k].id
  <2>1. r[k] = Result(c[k].id, Fails(c, k, errors))
    BY <1>2, <1>4
  <2>. QED  BY <2>1 DEF Result, IsResult
<1>7. Met(a, r)
  BY <1>2, <1>4, <1>6 DEF Met, c
<1>8. Message("user", r) \in Said(p)
  BY <1>4, <1>5 DEF Message, Said, IsReport
<1>. QED  BY <1>7, <1>8 DEF Message, r, c

-----------------------------------------------------------------------------
(* Lists of every element of a finite set *)

\* All of them, in some order.
LEMMA Enumerated ==
    ASSUME NEW A, IsFiniteSet(A), NEW s \in SetToSeqs(A)
    PROVE  /\ Cardinality(A) \in Nat /\ s \in [1..Cardinality(A) -> A]
           /\ \A i \in A : \E k \in 1..Cardinality(A) : s[k] = i
<1>. DEFINE n == Cardinality(A)
            D == 1..n
<1>1. n \in Nat
  BY FS_CardinalityType
<1>2. s \in [D -> A] /\ \A i, j \in D : i # j => s[i] # s[j]
  BY DEF SetToSeqs
<1>. HIDE DEF n
<1>3. Cardinality(D) = n
  BY <1>1, FS_Interval
<1>. HIDE DEF D
<1>4. s \in Injection(D, A)
  BY <1>2 DEF Injection, IsInjective
<1>5. s \in Surjection(D, A)
  BY <1>3, <1>4, FS_Injection DEF n
<1>6. \A i \in A : \E k \in D : s[k] = i
  BY <1>5 DEF Surjection
<1>. QED  BY <1>1, <1>2, <1>6 DEF D, n

LEMMA Few ==
    ASSUME NEW A \in SUBSET Incidents
    PROVE  IsFiniteSet(A) /\ Cardinality(A) \in Nat
BY IncidentAssumption, FS_Subset, FS_CardinalityType

LEMMA Fewer ==
    ASSUME NEW A \in SUBSET Incidents, NEW B \in SUBSET A
    PROVE  Cardinality(B) <= Cardinality(A)
BY Few, FS_Subset

LEMMA InitInv == Init => IInv
<1>. SUFFICES ASSUME Init PROVE IInv
  OBVIOUS
<1>1. messages = <<>> /\ open = {} /\ <<>> \in Seq(Said(provider)) /\ Len(<<>>) = 0
  BY EmptySeq DEF Init
<1>2. Cardinality({}) = 0
  BY FS_EmptySet
<1>3. ShapeInv
  <2>1. messages \in Seq(Said(provider))
    BY <1>1
  <2>2. open \subseteq Incidents /\ Cardinality(open) <= MaxOpen /\ open = {}
    BY <1>1, <1>2, OpenAssumption
  <2>3. attempt \in 1..MaxAttempts /\ pc = "idle" /\ provider \in {"anthropic", "openai"}
    BY AttemptAssumption DEF Init
  <2>4. staged \in BOOLEAN /\ cut \in BOOLEAN
    BY DEF Init
  <2>. QED  BY <2>1, <2>2, <2>3, <2>4 DEF ShapeInv
<1>4. LengthInv
  BY <1>1, BoundAssumption DEF Init, LengthInv
<1>5. AnswerInv /\ ToldInv
  BY <1>1 DEF Init, AnswerInv, ToldInv
<1>. QED  BY <1>3, <1>4, <1>5 DEF IInv

LEMMA LeaveInv ==
    ASSUME IInv, NEW where \in {"idle", "failed"}, Leave(where)
    PROVE  IInv'
<1>1. messages' = <<>> /\ open' = {} /\ <<>> \in Seq(Said(provider)) /\ Len(<<>>) = 0
  BY EmptySeq DEF Leave
<1>2. Cardinality({}) = 0
  BY FS_EmptySet
<1>3. pc' = where /\ attempt' = 1 /\ staged' = FALSE /\ cut' = FALSE /\ provider' = provider
  BY DEF Leave, config
<1>4. ShapeInv'
  <2>1. messages' \in Seq(Said(provider))
    BY <1>1
  <2>2. open' \subseteq Incidents /\ Cardinality(open') <= MaxOpen /\ open' = {}
    BY <1>1, <1>2, OpenAssumption
  <2>3. attempt' \in 1..MaxAttempts /\ pc' \in {"idle", "failed"} /\ provider' = provider
    BY <1>3, AttemptAssumption
  <2>4. staged' \in BOOLEAN /\ cut' \in BOOLEAN /\ provider \in {"anthropic", "openai"}
    BY <1>3 DEF IInv, ShapeInv
  <2>. QED  BY <2>1, <2>2, <2>3, <2>4 DEF ShapeInv
<1>5. LengthInv'
  BY <1>1, <1>3, BoundAssumption DEF LengthInv
<1>6. AnswerInv' /\ ToldInv'
  BY <1>1 DEF AnswerInv, ToldInv
<1>. QED  BY <1>4, <1>5, <1>6 DEF IInv

\* A step that says nothing keeps what was said.
LEMMA SilentInv ==
    ASSUME IInv, UNCHANGED <<config, messages, cut>>,
           open' \subseteq open, attempt' \in 1..MaxAttempts, staged' \in BOOLEAN,
           pc # "tools", pc' \in {"request", "backoff", "turn", "await", "failed"},
           pc' \in {"request", "backoff"} => Len(messages) <= MaxMessages,
           pc' = "backoff" => attempt' < MaxAttempts
    PROVE  IInv'
<1>0. ShapeInv /\ LengthInv /\ AnswerInv /\ ToldInv /\ provider' = provider
  BY DEF IInv, config
<1>1. Cardinality(open') <= MaxOpen
  <2>1. open \in SUBSET Incidents /\ open' \in SUBSET open /\ open' \in SUBSET Incidents
    BY <1>0 DEF ShapeInv
  <2>2. /\ Cardinality(open') \in Nat /\ Cardinality(open) \in Nat
        /\ Cardinality(open') <= Cardinality(open) /\ Cardinality(open) <= MaxOpen
    BY <1>0, <2>1, Few, Fewer DEF ShapeInv
  <2>. QED  BY <2>2, OpenAssumption
<1>2. ShapeInv'
  BY <1>0, <1>1 DEF ShapeInv
<1>3. LengthInv'
  BY <1>0 DEF LengthInv
<1>4. AnswerInv'
  BY <1>0 DEF AnswerInv
<1>5. ToldInv'
  BY <1>0 DEF ToldInv
<1>. QED  BY <1>2, <1>3, <1>4, <1>5 DEF IInv

\* A message that is not an answer, of whatever incidents join.
LEMMA UserInv ==
    ASSUME IInv, UNCHANGED <<config, cut>>, NEW A \in SUBSET Incidents,
           messages' = Append(messages, UserText(A)),
           open' \subseteq open \cup A, Cardinality(open') <= MaxOpen,
           attempt' = attempt, staged' \in BOOLEAN, Len(messages) < MaxMessages,
           pc # "tools", pc' = "request"
    PROVE  IInv'
<1>0. ShapeInv /\ LengthInv /\ AnswerInv /\ ToldInv /\ provider' = provider
  BY DEF IInv, config
<1>. DEFINE m == UserText(A)
            S == Said(provider)
<1>1. m \in S /\ m.role = "user" /\ messages \in Seq(S) /\ messages' = Append(messages, m)
  BY <1>0, UserTextSaid DEF ShapeInv
<1>. HIDE DEF m, S
<1>2. /\ messages' \in Seq(S) /\ Len(messages') = Len(messages) + 1 /\ messages'[Len(messages) + 1] = m
      /\ \A i : Told(messages, i) => Told(messages', i)
      /\ \A i \in 1..Len(messages) : AnsweredAt(messages, i) => AnsweredAt(messages', i)
      /\ AnsweredAt(messages', Len(messages) + 1)
  BY <1>1, SaysMore DEF S
<1>3. Len(messages) \in Nat
  BY <1>1
<1>4. ShapeInv'
  BY <1>0, <1>2 DEF ShapeInv, S
<1>5. LengthInv'
  BY <1>2, <1>3, BoundAssumption DEF LengthInv
<1>6. AnswerInv'
  <2>. SUFFICES ASSUME ~cut, NEW i \in 1..(Len(messages) + 1) PROVE AnsweredAt(messages', i)
    BY <1>2 DEF AnswerInv
  <2>1. CASE i = Len(messages) + 1
    BY <1>2, <2>1
  <2>2. CASE i # Len(messages) + 1
    <3>1. i \in 1..Len(messages)
      BY <1>3, <2>2
    <3>. QED  BY <1>0, <1>2, <3>1 DEF AnswerInv
  <2>. QED  BY <2>1, <2>2
<1>7. ToldInv'
  <2>. SUFFICES ASSUME NEW i \in open' PROVE Told(messages', i)
    BY DEF ToldInv
  <2>1. CASE i \in open
    BY <1>0, <1>2, <2>1 DEF ToldInv
  <2>2. CASE i \in A
    <3>1. Len(messages) + 1 \in 1..Len(messages')
      BY <1>2, <1>3
    <3>. QED  BY <1>2, <2>2, <3>1, UserTextTells DEF m, S
  <2>. QED  BY <2>1, <2>2
<1>. QED  BY <1>4, <1>5, <1>6, <1>7 DEF IInv

-----------------------------------------------------------------------------
(* Every action keeps it *)

LEMMA BeginInv == ASSUME IInv, Begin PROVE IInv'
<1>0. ShapeInv /\ LengthInv /\ provider' = provider /\ pc = "idle" /\ pc' = "request"
      /\ UNCHANGED <<attempt, staged, cut>> /\ open = {}
  BY DEF IInv, ShapeInv, Begin, config
<1>. DEFINE S == Said(provider)
<1>1. ASSUME NEW A \in SUBSET Incidents, Cardinality(A) <= MaxOpen, open' = A,
             NEW s \in SetToSeqs(A), messages' = [i \in DOMAIN s |-> UserText({s[i]})]
      PROVE  IInv'
  <2>. DEFINE n == Cardinality(A)
  <2>1. n \in Nat /\ s \in [1..n -> A] /\ \A i \in A : \E k \in 1..n : s[k] = i
    BY <1>1, Few, Enumerated
  <2>2. n <= MaxOpen
    BY <1>1
  <2>. HIDE DEF n, S
  <2>3. ASSUME NEW k \in 1..n
        PROVE  /\ {s[k]} \in SUBSET Incidents /\ UserText({s[k]}) \in S
               /\ UserText({s[k]}).role = "user"
    BY <2>1, UserTextSaid DEF S
  <2>4. /\ messages' \in Seq(S) /\ Len(messages') = n
        /\ \A k \in 1..n : messages'[k] = UserText({s[k]})
    <3>1. DOMAIN s = 1..n
      BY <2>1
    <3>. HIDE DEF S
    <3>. QED  BY <1>1, <2>1, <2>3, <3>1
  <2>5. ShapeInv'
    <3>1. open' \subseteq Incidents /\ Cardinality(open') <= MaxOpen
      BY <1>1
    <3>. QED  BY <1>0, <2>4, <3>1 DEF ShapeInv, S
  <2>6. LengthInv'
    BY <1>0, <2>1, <2>2, <2>4, OpenAssumption, BoundAssumption DEF LengthInv
  <2>7. AnswerInv'
    <3>1. ASSUME NEW k \in 1..n PROVE AnsweredAt(messages', k)
      <4>1. messages'[k].role # "assistant"
        BY <2>3, <2>4
      <4>. QED  BY <4>1 DEF AnsweredAt
    <3>. QED  BY <2>4, <3>1 DEF AnswerInv
  <2>8. ToldInv'
    <3>. SUFFICES ASSUME NEW i \in A PROVE Told(messages', i)
      BY <1>1 DEF ToldInv
    <3>1. PICK k \in 1..n : s[k] = i
      BY <2>1
    <3>2. messages'[k] = UserText({i}) /\ k \in 1..Len(messages') /\ {i} \in SUBSET Incidents
      BY <2>4, <3>1
    <3>. DEFINE ms == messages'
                B == {i}
    <3>3. ms \in Seq(Said(provider)) /\ ms[k] = UserText(B) /\ k \in 1..Len(ms) /\ B \in SUBSET Incidents /\ i \in B
      BY <2>4, <3>2 DEF S
    <3>. HIDE DEF ms, B
    <3>4. Told(ms, i)
      BY <3>3, UserTextTells
    <3>. QED  BY <3>4 DEF ms
  <2>. QED  BY <2>5, <2>6, <2>7, <2>8 DEF IInv
<1>2. CASE messages' = <<UserText({})>> /\ UNCHANGED open
  <2>. DEFINE m == UserText({})
  <2>1. m \in S /\ m.role = "user"
    BY UserTextSaid
  <2>. HIDE DEF m, S
  <2>2. messages' \in Seq(S) /\ Len(messages') = 1 /\ messages'[1] = m
    BY <1>2, <2>1, One DEF m
  <2>3. ShapeInv'
    BY <1>0, <1>2, <2>2 DEF ShapeInv, S
  <2>4. LengthInv'
    BY <1>0, <2>2, OpenAssumption, BoundAssumption DEF LengthInv
  <2>5. AnswerInv'
    <3>1. AnsweredAt(messages', 1)
      BY <2>1, <2>2 DEF AnsweredAt
    <3>. QED  BY <2>2, <3>1 DEF AnswerInv
  <2>6. ToldInv'
    BY <1>0, <1>2 DEF ToldInv
  <2>. QED  BY <2>3, <2>4, <2>5, <2>6 DEF IInv
<1>. QED  BY <1>1, <1>2 DEF Begin

LEMMA AnsweredInv == ASSUME IInv, Answered PROVE IInv'
<1>. DEFINE n == MaxCalls - Len(CallsOf(Blocks(messages)))
            S == Said(provider)
<1>0. /\ ShapeInv /\ LengthInv /\ AnswerInv /\ ToldInv
      /\ provider' = provider /\ pc = "request" /\ attempt' = 1 /\ UNCHANGED <<open, staged>>
  BY DEF IInv, Answered, config
<1>1. PICK r \in Replies(n) :
         /\ Proper(r) /\ Untimely(r)
         /\ Len(messages) + 2 > MaxMessages => r.finish # "calls"
         /\ messages' = Append(messages, Message("assistant", Content(r)))
         /\ pc' = IF StopReason(r) = "tool_use" THEN "tools" ELSE "turn"
         /\ cut' = (cut \/ (r.finish = "length" /\ r.tools # <<>>))
  BY DEF Answered
<1>2. n \in Int /\ messages \in Seq(S)
  <2>1. messages \in Seq(Said(provider)) /\ Said(provider) \subseteq Sent
    BY <1>0, SaidIsSent DEF ShapeInv
  <2>2. messages \in Seq(Sent)
    BY <2>1, SeqMonotonic
  <2>3. Blocks(messages) \in Seq(Block)
    BY <2>2, BlocksConcat
  <2>4. CallsOf(Blocks(messages)) \in Seq(Block)
    BY <2>3, OfKindConcat DEF CallsOf
  <2>. QED  BY <2>1, <2>4, BoundAssumption
<1>. DEFINE m == Message("assistant", Content(r))
<1>3. m \in S /\ m.role = "assistant" /\ (r.tools = <<>> => CallsOf(m.content) = <<>>)
  <2>. HIDE DEF n
  <2>. QED  BY <1>2, ReplySaid
<1>4. messages' = Append(messages, m)
  BY <1>1
<1>. HIDE DEF m, S, n
<1>5. /\ messages' \in Seq(S) /\ Len(messages') = Len(messages) + 1 /\ messages'[Len(messages) + 1] = m
      /\ \A i : Told(messages, i) => Told(messages', i)
      /\ \A i \in 1..Len(messages) : AnsweredAt(messages, i) => AnsweredAt(messages', i)
      /\ (m.role = "assistant" => CallsOf(m.content) = <<>>) => AnsweredAt(messages', Len(messages) + 1)
  BY <1>2, <1>3, <1>4, SaysMore DEF S
<1>6. Len(messages) \in Nat /\ Len(messages) <= MaxMessages
  BY <1>0, <1>2 DEF LengthInv
<1>7. pc' \in {"tools", "turn"} /\ (pc' = "tools" <=> r.finish = "calls")
  BY <1>1 DEF StopReason
<1>8. cut' \in BOOLEAN
  BY <1>0, <1>1 DEF ShapeInv
<1>9. ShapeInv'
  <2>1. attempt' \in 1..MaxAttempts
    BY <1>0, AttemptAssumption
  <2>. QED  BY <1>0, <1>5, <1>7, <1>8, <2>1 DEF ShapeInv, S
<1>10. LengthInv'
  <2>1. pc' = "tools" => Len(messages) + 2 <= MaxMessages
    BY <1>1, <1>6, <1>7, BoundAssumption
  <2>2. Last(messages)' = m
    BY <1>5, <1>6 DEF Last
  <2>. QED  BY <1>3, <1>5, <1>6, <1>7, <2>1, <2>2, BoundAssumption DEF LengthInv
<1>11. AnswerInv'
  <2>. SUFFICES ASSUME ~cut', NEW i \in 1..(Len(messages) + 1), pc' = "tools" => i < Len(messages) + 1
                PROVE  AnsweredAt(messages', i)
    BY <1>5 DEF AnswerInv
  <2>1. ~cut /\ (r.finish = "length" => r.tools = <<>>)
    BY <1>0, <1>1 DEF ShapeInv
  <2>2. CASE i = Len(messages) + 1
    <3>1. pc' # "tools"
      BY <1>6, <2>2
    <3>2. r.finish # "calls" /\ r.finish \in {"calls", "stop", "length"}
      BY <1>1, <1>7, <3>1 DEF Replies
    <3>3. r.tools = <<>>
      BY <1>1, <2>1, <3>2 DEF Untimely
    <3>. QED  BY <1>3, <1>5, <2>2, <3>3
  <2>3. CASE i # Len(messages) + 1
    <3>1. i \in 1..Len(messages)
      BY <1>6, <2>3
    <3>2. AnsweredAt(messages, i)
      BY <1>0, <2>1, <3>1 DEF AnswerInv
    <3>. QED  BY <1>5, <3>1, <3>2
  <2>. QED  BY <2>2, <2>3
<1>12. ToldInv'
  BY <1>0, <1>5 DEF ToldInv
<1>. QED  BY <1>9, <1>10, <1>11, <1>12 DEF IInv

LEMMA RunToolsInv == ASSUME IInv, RunTools PROVE IInv'
<1>. DEFINE a == Last(messages)
            calls == CallsOf(a.content)
            S == Said(provider)
<1>0. ShapeInv /\ LengthInv /\ AnswerInv /\ ToldInv /\ pc = "tools"
  BY DEF IInv, RunTools
<1>1. \/ Leave("idle")
      \/ \E errors \in SUBSET DOMAIN calls :
            /\ messages' = Append(messages, Message("user", Results(calls, errors)))
            /\ staged' \in BOOLEAN
            /\ pc' = "request"
            /\ UNCHANGED <<config, open, attempt, cut>>
  BY <1>0 DEF RunTools, ShapeInv
<1>2. CASE Leave("idle")
  BY <1>2, LeaveInv
<1>3. ASSUME NEW errors \in SUBSET DOMAIN calls,
             messages' = Append(messages, Message("user", Results(calls, errors))),
             staged' \in BOOLEAN, pc' = "request", UNCHANGED <<config, open, attempt, cut>>
      PROVE  IInv'
  <2>. DEFINE n == Len(messages)
              r == Results(calls, errors)
              m == Message("user", r)
  <2>1. /\ messages \in Seq(S) /\ n \in Nat /\ n \in 1..(MaxMessages - 1)
        /\ a = messages[n] /\ a.role = "assistant" /\ provider' = provider
    BY <1>0, <1>3 DEF ShapeInv, LengthInv, Last, config
  <2>2. a \in S
    BY <2>1
  <2>3. m \in S /\ m.role = "user" /\ Met(a, r) /\ m.content = r
    BY <2>1, <2>2, ReportSaid
  <2>4. messages' = Append(messages, m)
    BY <1>3
  <2>. HIDE DEF m, r, S, a, n
  <2>5. /\ messages' \in Seq(S) /\ Len(messages') = n + 1 /\ messages'[n + 1] = m
        /\ \A i : Told(messages, i) => Told(messages', i)
        /\ \A i \in 1..n : AnsweredAt(messages, i) => AnsweredAt(messages', i)
        /\ AnsweredAt(messages', n + 1)
    BY <2>1, <2>3, <2>4, SaysMore DEF S, n
  <2>6. AnsweredAt(messages', n)
    <3>1. m \in Sent /\ messages \in Seq(Sent) /\ messages' \in Seq(Sent)
      <4>1. S \subseteq Sent
        BY SaidIsSent DEF S
      <4>. QED  BY <2>1, <2>3, <2>5, <4>1, SeqMonotonic
    <3>2. SubSeq(messages', n + 1, n + 1) = <<m>>
      <4>. DEFINE t == messages'
                  x == SubSeq(t, n + 1, Len(t))
      <4>1. t \in Seq(Sent) /\ n \in 0..Len(t) /\ Len(t) = n + 1 /\ t[n + 1] = m
        BY <2>1, <2>5, <3>1
      <4>. HIDE DEF t
      <4>2. x \in Seq(Sent) /\ Len(x) = Len(t) - n /\ \A j \in 1..(Len(t) - n) : x[j] = t[n + j]
        BY <4>1, Rest
      <4>3. Len(x) = 1 /\ x[1] = m
        BY <2>1, <4>1, <4>2
      <4>. DEFINE y == <<m>>
      <4>4. y \in Seq(Sent) /\ Len(y) = 1 /\ y[1] = m
        BY <3>1, One
      <4>5. x = <<m>>
        <5>. HIDE DEF x, y
        <5>1. x \in Seq(Sent) /\ y \in Seq(Sent) /\ Len(x) = Len(y)
          BY <4>2, <4>3, <4>4
        <5>2. \A j \in 1..Len(x) : x[j] = y[j]
          BY <4>3, <4>4
        <5>3. x = y
          BY <5>1, <5>2, SeqEqual
        <5>. QED  BY <5>3 DEF y
      <4>. QED  BY <4>1, <4>5 DEF t
    <3>3. Blocks(<<m>>) = r
      BY <2>3, <3>1, BlocksOne
    <3>4. messages'[n] = a
      <4>1. \A j \in 1..n : messages'[j] = messages[j]
        BY <2>1, <2>3, <2>4, AppendProperties DEF n
      <4>. QED  BY <2>1, <4>1
    <3>. QED  BY <2>3, <2>5, <3>2, <3>3, <3>4 DEF AnsweredAt
  <2>7. ShapeInv'
    BY <1>0, <1>3, <2>1, <2>5 DEF ShapeInv, S
  <2>8. LengthInv'
    BY <1>3, <2>1, <2>5, BoundAssumption DEF LengthInv
  <2>9. AnswerInv'
    <3>. SUFFICES ASSUME ~cut, NEW i \in 1..(n + 1) PROVE AnsweredAt(messages', i)
      BY <1>3, <2>5 DEF AnswerInv
    <3>1. CASE i < n
      <4>1. i \in 1..n
        BY <2>1, <3>1
      <4>2. AnsweredAt(messages, i)
        BY <1>0, <3>1, <4>1 DEF AnswerInv, n
      <4>. QED  BY <2>5, <4>1, <4>2
    <3>2. CASE ~(i < n)
      <4>1. i = n \/ i = n + 1
        BY <2>1, <3>2
      <4>. QED  BY <2>5, <2>6, <4>1
    <3>. QED  BY <3>1, <3>2
  <2>10. ToldInv'
    BY <1>0, <1>3, <2>5 DEF ToldInv
  <2>. QED  BY <2>7, <2>8, <2>9, <2>10 DEF IInv
<1>. QED  BY <1>1, <1>2, <1>3

LEMMA AfterTurnInv == ASSUME IInv, AfterTurn PROVE IInv'
<1>0. ShapeInv /\ LengthInv /\ pc = "turn" /\ staged' = FALSE /\ UNCHANGED <<config, attempt, cut>>
  BY DEF IInv, AfterTurn
<1>1. CASE /\ Room
           /\ messages' = Append(messages, UserText({}))
           /\ open' \in SUBSET open
           /\ pc' = "request"
  <2>1. Cardinality(open') <= MaxOpen
    <3>1. open \in SUBSET Incidents /\ open' \in SUBSET open /\ open' \in SUBSET Incidents
      BY <1>0, <1>1 DEF ShapeInv
    <3>2. /\ Cardinality(open') \in Nat /\ Cardinality(open) \in Nat
          /\ Cardinality(open') <= Cardinality(open) /\ Cardinality(open) <= MaxOpen
      BY <1>0, <3>1, Few, Fewer DEF ShapeInv
    <3>. QED  BY <3>2, OpenAssumption
  <2>2. {} \in SUBSET Incidents /\ open' \subseteq open \cup {}
    BY <1>1
  <2>3. Len(messages) < MaxMessages
    BY <1>1 DEF Room
  <2>. QED  BY <1>0, <1>1, <2>1, <2>2, <2>3, UserInv
<1>2. CASE pc' = "failed" /\ UNCHANGED <<messages, open>>
  BY <1>0, <1>2, SilentInv DEF ShapeInv
<1>. QED  BY <1>1, <1>2 DEF AfterTurn

LEMMA EndTurnInv == ASSUME IInv, EndTurn PROVE IInv'
<1>1. CASE Leave("idle")
  BY <1>1, LeaveInv
<1>2. ASSUME NEW rest \in SUBSET open, open' = rest, pc' = "await",
             UNCHANGED <<config, messages, attempt, staged, cut>>
      PROVE  IInv'
  BY <1>2, SilentInv DEF EndTurn, IInv, ShapeInv
<1>. QED  BY <1>1, <1>2 DEF EndTurn

LEMMA HumanSaysInv == ASSUME IInv, HumanSays PROVE IInv'
<1>0. /\ ShapeInv /\ pc = "await" /\ pc' = "request" /\ Len(messages) < MaxMessages
      /\ UNCHANGED <<config, open, attempt, staged, cut>>
  BY DEF IInv, HumanSays, Room
<1>1. CASE messages' = Append(messages, UserText({}))
  <2>1. {} \in SUBSET Incidents /\ open' \subseteq open \cup {} /\ Cardinality(open') <= MaxOpen
    BY <1>0 DEF ShapeInv
  <2>. QED  BY <1>0, <1>1, <2>1, UserInv DEF ShapeInv
<1>2. CASE UNCHANGED messages
  <2>1. Len(messages) <= MaxMessages
    BY <1>0, BoundAssumption DEF ShapeInv
  <2>. QED  BY <1>0, <1>2, <2>1, SilentInv DEF ShapeInv
<1>. QED  BY <1>1, <1>2 DEF HumanSays

\* A burst and a resync do the same to the transcript.
LEMMA SelectInv == ASSUME IInv, Burst \/ Resync PROVE IInv'
<1>0. /\ ShapeInv /\ pc = "await" /\ pc' = "request" /\ Len(messages) < MaxMessages
      /\ UNCHANGED <<config, attempt, staged, cut>>
  BY DEF IInv, Burst, Resync, Room
<1>1. PICK A \in Admissible :
         /\ open' = open \cup A
         /\ messages' = IF A = {} THEN messages ELSE Append(messages, UserText(A))
  BY DEF Burst, Resync
<1>2. A \in SUBSET Incidents /\ Cardinality(open \cup A) <= MaxOpen
  BY <1>1 DEF Admissible
<1>3. CASE A = {}
  <2>1. Len(messages) <= MaxMessages
    BY <1>0, BoundAssumption DEF ShapeInv
  <2>2. open' \subseteq open /\ UNCHANGED messages
    BY <1>1, <1>3
  <2>. QED  BY <1>0, <2>1, <2>2, SilentInv DEF ShapeInv
<1>4. CASE A # {}
  <2>1. messages' = Append(messages, UserText(A)) /\ open' \subseteq open \cup A /\ Cardinality(open') <= MaxOpen
    BY <1>1, <1>2, <1>4
  <2>. QED  BY <1>0, <1>2, <2>1, UserInv DEF ShapeInv
<1>. QED  BY <1>3, <1>4

LEMMA SendInv == ASSUME IInv, Overloaded \/ CallFails \/ Retry PROVE IInv'
<1>0. ShapeInv /\ LengthInv /\ UNCHANGED <<config, messages, open, staged, cut>>
  BY DEF IInv, Overloaded, CallFails, Retry
<1>1. CASE Overloaded
  <2>1. attempt' \in 1..MaxAttempts /\ pc' \in {"failed", "backoff"} /\ (pc' = "backoff" => attempt' < MaxAttempts)
    BY <1>0, <1>1, AttemptAssumption DEF Overloaded, ShapeInv
  <2>. QED  BY <1>0, <1>1, <2>1, SilentInv DEF Overloaded, ShapeInv, LengthInv
<1>2. CASE CallFails
  BY <1>0, <1>2, SilentInv DEF CallFails, ShapeInv
<1>3. CASE Retry
  <2>1. attempt' \in 1..MaxAttempts /\ pc' = "request" /\ pc = "backoff"
    BY <1>0, <1>3, AttemptAssumption DEF Retry, ShapeInv
  <2>. QED  BY <1>0, <2>1, SilentInv DEF ShapeInv, LengthInv
<1>. QED  BY <1>1, <1>2, <1>3

LEMMA StepInv == ASSUME IInv, [Next]_vars PROVE IInv'
<1>1. CASE Begin
  BY <1>1, BeginInv
<1>2. CASE Send
  BY <1>2, AnsweredInv, SendInv DEF Send
<1>3. CASE Retry
  BY <1>3, SendInv
<1>4. CASE RunTools
  BY <1>4, RunToolsInv
<1>5. CASE AfterTurn
  BY <1>5, AfterTurnInv
<1>6. CASE EndTurn
  BY <1>6, EndTurnInv
<1>7. CASE Select
  BY <1>7, HumanSaysInv, SelectInv DEF Select
<1>8. CASE Restart
  BY <1>8, LeaveInv DEF Restart
<1>9. CASE UNCHANGED vars
  BY <1>9 DEF vars, config, IInv, ShapeInv, LengthInv, AnswerInv, ToldInv
<1>. QED  BY <1>1, <1>2, <1>3, <1>4, <1>5, <1>6, <1>7, <1>8, <1>9 DEF Next

LEMMA Inductive == Spec => []IInv
BY InitInv, StepInv, PTL DEF Spec

-----------------------------------------------------------------------------
(* What it gives *)

LEMMA TypeHolds == IInv => TypeOK
<1>. SUFFICES ASSUME IInv PROVE TypeOK
  OBVIOUS
<1>1. ShapeInv /\ LengthInv
  BY DEF IInv
<1>2. \A m \in ToSet(messages) : m.role \in {"user", "assistant"}
  <2>1. \A m \in Said(provider) : m.role \in {"user", "assistant"}
    BY DEF Said
  <2>2. \A i \in DOMAIN messages : messages[i] \in Said(provider)
    BY <1>1 DEF ShapeInv
  <2>. QED  BY <2>1, <2>2 DEF ToSet
<1>. QED  BY <1>1, <1>2 DEF ShapeInv, LengthInv, TypeOK

LEMMA SaysHolds == IInv => SentAsSaid
<1>. SUFFICES ASSUME IInv PROVE SentAsSaid
  OBVIOUS
<1>1. CASE provider = "openai"
  <2>1. messages \in Seq(Said("openai"))
    BY <1>1 DEF IInv, ShapeInv
  <2>. QED  BY <1>1, <2>1, RequestSays DEF SentAsSaid, Wire
<1>. QED  BY <1>1 DEF SentAsSaid, Wire

LEMMA AnswersHolds == IInv => EveryCallIsAnswered
<1>. SUFFICES ASSUME IInv, pc = "request", ~cut PROVE CallsAnswered(Wire(messages))
  BY DEF EveryCallIsAnswered
<1>1. messages \in Seq(Said(provider)) /\ DOMAIN messages = 1..Len(messages)
  BY DEF IInv, ShapeInv
<1>2. \A i \in 1..Len(messages) : AnsweredAt(messages, i)
  BY DEF IInv, AnswerInv
<1>3. CallsAnswered(messages)
  BY <1>1, <1>2, CallsAnsweredIs
<1>4. CASE provider = "openai"
  <2>1. messages \in Seq(Said("openai"))
    BY <1>1, <1>4
  <2>. QED  BY <1>3, <1>4, <2>1, RequestAnswers DEF Wire
<1>. QED  BY <1>3, <1>4 DEF Wire

LEMMA TellsHolds == IInv => OpenIsTold
BY SaysHolds DEF IInv, ToldInv, Told, OpenIsTold, SentAsSaid

\* Every variable has its type; the transcript and the attempts are bounded.
THEOREM TypeCorrect == Spec => []TypeOK
BY Inductive, TypeHolds, PTL

\* Whatever the model is sent answers its tool calls, where the provider looks for
\* the answers: runTools answers all of them before anything else is said, and
\* toOpenAIRequest keeps them next to their calls.
THEOREM Answers == Spec => []EveryCallIsAnswered
BY Inductive, AnswersHolds, PTL

\* toOpenAIRequest loses nothing of what converse made, and changes no order.
THEOREM Translates == Spec => []SentAsSaid
BY Inductive, SaysHolds, PTL

\* The model is told of every incident of the conversation, and it is told again
\* each time: the transcript only grows.
THEOREM Tells == Spec => []OpenIsTold
BY Inductive, TellsHolds, PTL
=============================================================================
