----------------------------- MODULE SequenceTools -----------------------------
(* Sequences: the elements at some places, in order, sums, and sorting.    *)
EXTENDS Integers, Sequences, FiniteSets, Functions

(* The members of I up to n in increasing order.                           *)
Increasing(I, n) ==
  LET upTo[k \in 0..n] == IF k = 0 THEN <<>>
                          ELSE IF k \in I THEN Append(upTo[k - 1], k) ELSE upTo[k - 1]
  IN upTo[n]
Those(s, I) == LET p == Increasing(I, Len(s)) IN [k \in DOMAIN p |-> s[p[k]]]

SumOf(s) ==
  LET upTo[k \in 0..Len(s)] == IF k = 0 THEN 0 ELSE upTo[k - 1] + s[k]
  IN upTo[Len(s)]

(* What sorted() makes of the members of a set in the order of a relation. *)
Foremost(I, R) == CHOOSE x \in I : \A y \in I \ {x} : <<x, y>> \in R
OrderedBy(I, R) ==
  LET n == Cardinality(I)
      upTo[k \in 0..n] ==
        IF k = 0 THEN <<>>
        ELSE LET taken == upTo[k - 1] IN Append(taken, Foremost(I \ Range(taken), R))
  IN upTo[n]
=============================================================================
