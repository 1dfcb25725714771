----------------------------- MODULE Selections -----------------------------
(***************************************************************************)
(* Filters of lists.  SelectSeq says the same by recursion; by ranks it    *)
(* can be reasoned about.                                                  *)
(***************************************************************************)
EXTENDS Naturals, Sequences, FiniteSets

\* What is left of a sequence at the positions I, in its order.
Subsequence(seq, I) ==
  [n \in 1..Cardinality(I) |->
     seq[CHOOSE i \in I : Cardinality({j \in I : j <= i}) = n]]
=============================================================================
