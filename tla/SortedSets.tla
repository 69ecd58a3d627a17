----------------------------- MODULE SortedSets ------------------------------
(***************************************************************************)
(* A finite set of integers as a sequence, smallest first.                 *)
(*                                                                         *)
(* This is SetToSortSeq of the community modules, for the order on the     *)
(* integers and without a sort: an element is placed by the number of      *)
(* those below it, which is a definition that proofs can use.              *)
(***************************************************************************)
EXTENDS Integers, Sequences, FiniteSetsExt

Below(S, x) == {y \in S : y < x}
Ascending(S) == [i \in 1..Cardinality(S) |-> CHOOSE x \in S : Cardinality(Below(S, x)) = i - 1]

\* The elements of the sequence s at the indices in I, in their order.
Selected(s, I) == [k \in DOMAIN Ascending(I) |-> s[Ascending(I)[k]]]
=============================================================================
