------------------------------- MODULE Lists -------------------------------
(***************************************************************************)
(* What the code does to lists with Python's comprehensions, sorted() and  *)
(* slices.  They are written here as recursive functions and sets, without *)
(* operators as arguments, so that they can be reasoned about.             *)
(***************************************************************************)
EXTENDS Integers, Sequences, FiniteSets

\* The elements of s at the given positions, in their order: [x for x in s if ...].
Picked(s, positions) ==
    LET kept[i \in 0 .. Len(s)] ==
            IF i = 0 THEN <<>>
            ELSE IF i \in positions THEN Append(kept[i - 1], s[i]) ELSE kept[i - 1]
    IN kept[Len(s)]

\* The members of a set of numbers, best score first; of equals the one that comes
\* first, since the sort is stable.
Ranked(S, score) ==
    LET Better(i) == {j \in S : score[j] > score[i] \/ (score[j] = score[i] /\ j < i)}
    IN [r \in 1 .. Cardinality(S) |-> CHOOSE i \in S : Cardinality(Better(i)) = r - 1]

\* How much the first i of a list of numbers come to, for every i.
Totals(s) ==
    LET total[i \in 0 .. Len(s)] == IF i = 0 THEN 0 ELSE total[i - 1] + s[i]
    IN total

\* The first n elements: s[:n].
Top(s, n) == SubSeq(s, 1, IF n < Len(s) THEN n ELSE Len(s))
=============================================================================
