----------------------------- MODULE MCInvoicing -----------------------------
(* Invoicing on small sets of processes. *)
EXTENDS Invoicing, TLC

CONSTANTS g1, g2, g3, w1, w2

MCAmounts == {5, -3}
Symmetry == Permutations(Generators) \cup Permutations(Writers)
==============================================================================
