----------------------------- MODULE Ascending ------------------------------
(* A finite set of numbers as a sequence: the n-th of them has n of them   *)
(* up to itself.  (SetToSortSeq chooses among all permutations; this form  *)
(* is one that the proofs can use.)                                        *)
EXTENDS Naturals, FiniteSets

UpTo(S, k) == {j \in S : j <= k}
Nth(S, n) == CHOOSE k \in S : Cardinality(UpTo(S, k)) = n

(* What is left of a list of which only these places are kept.             *)
Remaining(list, places) ==
  [n \in 1..Cardinality(places) |-> list[Nth(places, n)]]

(* The numbers themselves.                                                 *)
Ascending(S) == [n \in 1..Cardinality(S) |-> Nth(S, n)]
=============================================================================
