----------------------- MODULE MCConstraintTransaction ----------------------
(* ConstraintTransaction with two clock names. The operations only compare    *)
(* names, so behaviours that differ in which name is which are explored once. *)
EXTENDS ConstraintTransaction, TLC

CONSTANTS c1, c2

MCNames == {c1, c2}
MCSymmetry == Permutations(MCNames)
=============================================================================
