-------------------------------- MODULE Picking --------------------------------
(***************************************************************************)
(* Some elements of a sequence, by their positions, in their order.        *)
(***************************************************************************)
EXTENDS Integers, Sequences, FiniteSets

\* The n-th of a set of positions.
Nth(S, n) == CHOOSE i \in S : Cardinality({j \in S : j <= i}) = n
Picked(s, S) == [n \in 1..Cardinality(S) |-> s[Nth(S, n)]]
================================================================================
