------------------------------ MODULE Selection ------------------------------
(* A selection from a sequence, by the positions of what is selected. *)
EXTENDS Integers, FiniteSets

\* The position of the k-th element that is selected.
Nth(I, k) == CHOOSE i \in I : Cardinality(I \cap 1..i) = k

\* The elements of q at the positions I, in their order.
Pick(q, I) == [k \in 1..Cardinality(I) |-> q[Nth(I, k)]]
=============================================================================
