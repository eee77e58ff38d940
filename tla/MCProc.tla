------------------------------- MODULE MCProc -------------------------------
(* Instances of the process table for TLC. *)
EXTENDS Proc, TLC

\* The harts are interchangeable; the slots are not, the table has an order.
Symmetry == Permutations(CPU)
=============================================================================
