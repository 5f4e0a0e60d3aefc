-------------------------- MODULE MCCheckpointing ---------------------------
(***************************************************************************)
(* Model-checking instances of Checkpointing.                              *)
(***************************************************************************)
EXTENDS Checkpointing, TLC

CONSTANTS t1, t2

TwoTasks == {t1, t2}
Symmetry == Permutations(TwoTasks)
=============================================================================
