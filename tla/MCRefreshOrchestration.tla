----------------------- MODULE MCRefreshOrchestration -----------------------
(***************************************************************************)
(* Instances of RefreshOrchestration in its environments for TLC.          *)
(***************************************************************************)
EXTENDS RefreshEnvironments, TLC

FullSymmetry == Permutations(Ops) \cup Permutations(Workers)

=============================================================================
