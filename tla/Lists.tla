-------------------------------- MODULE Lists --------------------------------
(***************************************************************************)
(* Entries of a list at some of its indexes.                               *)
(***************************************************************************)
EXTENDS Naturals, FiniteSets

\* The n-th of a set of indexes, and the entries of a list at a set of indexes, in the order of the list.
Nth(indexes, n) == CHOOSE k \in indexes : Cardinality(indexes \cap (1 .. k)) = n
Selected(list, indexes) == [n \in 1 .. Cardinality(indexes) |-> list[Nth(indexes, n)]]
=============================================================================
