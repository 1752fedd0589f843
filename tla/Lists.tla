------------------------------- MODULE Lists --------------------------------
(***************************************************************************)
(* A list that keeps some of its elements: Python's comprehension with a   *)
(* condition and JavaScript's filter.  What SelectSeq says, without        *)
(* recursion, so that it can be reasoned about.                            *)
(***************************************************************************)
EXTENDS Integers, FiniteSets

\* The k-th of the places I.
Place(I, k) == CHOOSE i \in I : Cardinality({j \in I : j <= i}) = k

\* What stands at the places I of s, in the order of s.
Keep(s, I) == [k \in 1..Cardinality(I) |-> s[Place(I, k)]]

=============================================================================
