----------------------------- MODULE Subsequence -----------------------------
(***************************************************************************)
(* What the filters of the two languages do with a sequence                *)
(* (Array.prototype.filter, Iterator::filter, Vec::retain): they keep some *)
(* of its elements, in their order.  SelectSeq says the same by recursion; *)
(* said by counting it can be reasoned about.                              *)
(***************************************************************************)
EXTENDS Naturals, FiniteSets, Sequences

Rank(I, i) == Cardinality({k \in I : k <= i})

\* The elements of s at the indexes in I.
Keep(s, I) == [j \in 1..Cardinality(I) |-> s[CHOOSE i \in I : Rank(I, i) = j]]
=============================================================================
