----------------------------- MODULE CalmRefresh -----------------------------
(***************************************************************************)
(* Two environments of RefreshOrchestration in one run: everything for two *)
(* operations, and the calm environment of RefreshEnvironments for all of  *)
(* them.                                                                   *)
(***************************************************************************)
EXTENDS RefreshEnvironments

VARIABLE calm  \* the environment of this behaviour

LocksInit == Init /\ calm \in BOOLEAN

LocksNext ==
  /\ \/ calm /\ CalmNext
     \/ ~calm /\ Next /\ \E o \in Ops : pc'[o] = "new"
  /\ UNCHANGED calm

LocksSpec == LocksInit /\ [][LocksNext]_<<vars, calm>>

-----------------------------------------------------------------------------
\* In the calm environment pipelines of two operations are never inside their
\* stages at once, what the refresh lock of execute is for, and a refresh is
\* refused while an accepted one has not reached its end (accept_refresh
\* answers already_running).
ExclusiveWhenCalm == calm => NoOverlap /\ DuplicatePrevented

=============================================================================
