------------------------------ MODULE LineDiff ------------------------------
(***************************************************************************)
(* lcsLineDiff, which turns a pod spec before and after a patch into what  *)
(* the human is shown, and what such a diff ought to be.  A text is a      *)
(* sequence of lines.                                                      *)
(***************************************************************************)
EXTENDS SequencesExt

\* dp: the length of the longest common subsequence of a[1..i] and b[1..j], in
\* the order in which the code fills the table; a row from the one above it.
Row(a, b, above, i) ==
    FoldLeft(LAMBDA r, j :
               Append(r, IF a[i] = b[j] THEN above[j] + 1
                         ELSE IF above[j + 1] >= r[j] THEN above[j + 1] ELSE r[j]),
             <<0>>, [j \in 1..Len(b) |-> j])

Table(a, b) ==
    FoldLeft(LAMBDA t, i : Append(t, Row(a, b, t[i], i)),
             <<[j \in 1..(Len(b) + 1) |-> 0]>>, [i \in 1..Len(a) |-> i])

Line(op, text) == [op |-> op, text |-> text]

\* MUTANT: the table is not asked.
EditsAdding(a, b) ==
    LET walk[p \in (0..Len(a)) \X (0..Len(b))] ==
          LET i == p[1]
              j == p[2]
          IN  IF i = 0 /\ j = 0 THEN <<>>
              ELSE IF i > 0 /\ j > 0 /\ a[i] = b[j]
                   THEN Append(walk[<<i - 1, j - 1>>], Line("=", a[i]))
              ELSE IF j > 0 THEN Append(walk[<<i, j - 1>>], Line("+", b[j]))
              ELSE Append(walk[<<i - 1, j>>], Line("-", a[i]))
    IN  walk[<<Len(a), Len(b)>>]

\* edits: the way back through the table, from its last corner.
Edits(a, b) ==
    LET dp == Table(a, b)
        walk[p \in (0..Len(a)) \X (0..Len(b))] ==
          LET i == p[1]
              j == p[2]
          IN  IF i = 0 /\ j = 0 THEN <<>>
              ELSE IF i > 0 /\ j > 0 /\ a[i] = b[j]
                   THEN Append(walk[<<i - 1, j - 1>>], Line("=", a[i]))
              ELSE IF j > 0 /\ (i = 0 \/ dp[i + 1][j] >= dp[i][j + 1])
                   THEN Append(walk[<<i, j - 1>>], Line("+", b[j]))
              ELSE Append(walk[<<i - 1, j>>], Line("-", a[i]))
    IN  walk[<<Len(a), Len(b)>>]

\* show: the changed lines, and those at most ctx away from one.
Show(e, ctx) == {n \in 1..Len(e) : \E k \in 1..Len(e) : e[k].op # "=" /\ n \in (k - ctx)..(k + ctx)}

\* The output: a run of lines that are not shown becomes one line that counts them.
Gap(out, skipped) == IF skipped > 0 THEN Append(out, Line("...", skipped)) ELSE out

Render(e, ctx) ==
    LET shown == Show(e, ctx)
        end == FoldLeft(LAMBDA r, n :
                          IF n \in shown
                          THEN [out |-> Append(Gap(r.out, r.skipped), e[n]), skipped |-> 0]
                          ELSE [r EXCEPT !.skipped = @ + 1],
                        [out |-> <<>>, skipped |-> 0], [n \in 1..Len(e) |-> n])
    IN  Gap(end.out, end.skipped)

lcsLineDiff(before, after, ctx) == Render(Edits(before, after), ctx)

-----------------------------------------------------------------------------
(* What a diff ought to be *)

\* A reader who has the old text goes through the diff line by line: `at' is how
\* many old lines are consumed, `ok' whether the diff fits them, `new' the new
\* text as far as it is known.
Start == [at |-> 0, ok |-> TRUE, new |-> <<>>]

Keep(before, r, n) ==
    IF r.at + n > Len(before) THEN [r EXCEPT !.ok = FALSE]
    ELSE [r EXCEPT !.at = @ + n, !.new = @ \o SubSeq(before, r.at + 1, r.at + n)]

\* The next old line is the one that l names.
Names(before, r, l) == r.at < Len(before) /\ before[r.at + 1] = l.text

Read(before, r, l) ==
    CASE l.op = "..." -> Keep(before, r, l.text)
      [] l.op = "=" -> [Keep(before, r, 1) EXCEPT !.ok = @ /\ Names(before, r, l)]
      [] l.op = "-" -> [r EXCEPT !.at = @ + 1, !.ok = @ /\ Names(before, r, l)]
      [] l.op = "+" -> [r EXCEPT !.new = Append(@, l.text)]

Follow(diff, before) == FoldLeft(LAMBDA r, l : Read(before, r, l), Start, diff)

\* The diff tells the new text to whoever knows the old one, to the line.
Tells(diff, before, after) ==
    LET r == Follow(diff, before) IN r.ok /\ r.at = Len(before) /\ r.new = after

\* The lines of a at the positions D and those of b at E are the same, in order:
\* the first is the first, the second the second, and so on.
Place(D, i) == Cardinality({k \in D : k <= i})
InCommon(a, b, D, E) ==
    /\ Cardinality(D) = Cardinality(E)
    /\ \A i \in D, j \in E : Place(D, i) = Place(E, j) => a[i] = b[j]

Changed(diff) == Cardinality({n \in DOMAIN diff : diff[n].op \in {"+", "-"}})

\* No choice of lines that a diff could leave unchanged leaves more of them so,
\* of both texts together.
Least(diff, before, after) ==
    \A D \in SUBSET DOMAIN before, E \in SUBSET DOMAIN after :
       InCommon(before, after, D, E) =>
          Changed(diff) <= Len(before) + Len(after) - 2 * Cardinality(D)
=============================================================================
