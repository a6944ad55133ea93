------------------------------ MODULE VectorOps ------------------------------
(***************************************************************************)
(* Operations of the standard library on the vectors of the servers.       *)
(***************************************************************************)
EXTENDS Integers, FiniteSets, Sequences

\* erase of what remove_if moved to the end: what is at the kept positions of q, in the same
\* order.
KeptAt(q, kept) ==
  LET rank(i) == Cardinality({j \in kept : j <= i})
  IN  [n \in 1 .. Cardinality(kept) |-> q[CHOOSE i \in kept : rank(i) = n]]
==============================================================================
