---------------------------- MODULE MCRefreshLocks ----------------------------
(***************************************************************************)
(* An instance of CalmRefresh for TLC.                                     *)
(***************************************************************************)
EXTENDS CalmRefresh, TLC

FullSymmetry == Permutations(Ops) \cup Permutations(Workers)

=============================================================================
