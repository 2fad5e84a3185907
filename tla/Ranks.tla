-------------------------------- MODULE Ranks --------------------------------
(***************************************************************************)
(* Finite sets of integers in their order.                                 *)
(***************************************************************************)
EXTENDS Integers, FiniteSets

\* The number of elements of S below i, and the element with r below it.
Rank(S, i) == Cardinality({j \in S : j < i})
Nth(S, r) == CHOOSE i \in S : Rank(S, i) = r
=============================================================================
