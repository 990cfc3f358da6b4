---------------------------- MODULE Subsequences ----------------------------
(***************************************************************************)
(* What a loop that appends some of the elements of a slice to a new slice *)
(* makes of it.                                                            *)
(***************************************************************************)
EXTENDS Integers, Sequences, FiniteSets

\* The indices of a set in increasing order.
Ascending(indices) ==
  CHOOSE f \in [1..Cardinality(indices) -> indices] : \A i, j \in DOMAIN f : i < j => f[i] < f[j]

\* The elements of s at the indices of a set, in their order in s.
Subsequence(s, indices) == [k \in 1..Cardinality(indices) |-> s[Ascending(indices)[k]]]
=============================================================================
