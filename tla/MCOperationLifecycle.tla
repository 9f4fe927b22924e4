------------------------- MODULE MCOperationLifecycle -------------------------
(***************************************************************************)
(* Instance of OperationLifecycle for TLC.                                 *)
(***************************************************************************)
EXTENDS OperationLifecycle, TLC

Symmetry == Permutations(Ops) \cup Permutations(Writers)

=============================================================================
