---------------------------- MODULE Subsequences ----------------------------
(***************************************************************************)
(* What a filter keeps of a sequence.  SelectSeq says it by recursion;     *)
(* here the element of rank k among the kept places is the k-th of the     *)
(* result, which can be reasoned about without induction.                  *)
(***************************************************************************)
EXTENDS Naturals, Sequences, FiniteSets

\* How many of the places P are at or before place i.
Rank(P, i) == Cardinality({j \in P : j <= i})

\* The elements of s at the places P, in their order.
Subsequence(s, P) == [k \in 1 .. Cardinality(P) |-> s[CHOOSE i \in P : Rank(P, i) = k]]
=============================================================================
