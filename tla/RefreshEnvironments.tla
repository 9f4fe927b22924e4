------------------------- MODULE RefreshEnvironments -------------------------
(***************************************************************************)
(* The environments RefreshOrchestration is checked in.  Next allows       *)
(* everything; the others leave actions out:                               *)
(*                                                                         *)
(*   CalmNext    requests one at a time, none forced, no reset; a worker   *)
(*               picks a job up, beats and makes progress in time; Redis   *)
(*               takes every write; nobody promotes a delayed retry, as in *)
(*               this deployment;                                          *)
(*   RacingNext  CalmNext with requests that interleave;                   *)
(*   WatchedNext everything, but nobody promotes a delayed retry.          *)
(***************************************************************************)
EXTENDS RefreshOrchestration

InFlight(o) == pc[o] \notin {"new", "accepted", "rejected", "dispatch_failed"}

OnWorker(o) == \E w \in Workers : job[w] = o

\* An operation accepted with 202 whose pipeline has not reached its end.
Live(o) ==
  \/ pc[o] \in {"init", "enqueue"}
  \/ o \in queued
  \/ \E w \in Workers : job[w] = o /\ wpc[w] \in {"begin", "locked", "working"}

-----------------------------------------------------------------------------
OneAtATime(o) == Submit(o) /\ \A p \in Ops : ~InFlight(p)

\* Time passes only while no operation is live, so no live blob grows old.
CalmTick == Tick /\ \A o \in Ops : ~Live(o)

CommonNext ==
  \/ \E c \in Callers : Reconcile(c) \/ ReconcileDies(c)
  \/ \E o \in Ops : Request(o)
  \/ \E w \in Workers : Work(w)
  \/ WatchdogLockExpires

CalmNext == CommonNext \/ CalmTick \/ \E o \in Ops : OneAtATime(o)
RacingNext == CommonNext \/ CalmTick \/ \E o \in Ops : Submit(o)

WatchedNext ==
  \/ CommonNext \/ LockExpires \/ Reset \/ Tick
  \/ \E o \in Ops : Submit(o) \/ SubmitForced(o) \/ SetInitialStatusFails(o)

RacingSpec == Init /\ [][RacingNext]_vars

\* The watchdogs keep looking and clocks keep running; a pass is not killed
\* every time; a request finishes the pass it has begun.  Workers and the
\* operator owe nothing, and a request may stop anywhere else.
FairSpec ==
  /\ Init /\ [][WatchedNext]_vars
  /\ WF_vars(Tick)
  /\ WF_vars(WatchdogLockExpires)
  /\ \A d \in Watchdogs :
       /\ SF_vars(ReconcileRead(d))
       /\ SF_vars(ReconcilePersist(d))
       /\ WF_vars(ReconcileCleanup(d))
  /\ \A o \in Ops : WF_vars(ReconcilePersist(o)) /\ WF_vars(ReconcileCleanup(o))

-----------------------------------------------------------------------------
\* Pipelines of two operations are never inside their stages at once: what
\* the refresh lock of execute is for.
NoOverlap ==
  \A w1, w2 \in Workers :
    /\ wpc[w1] \in {"locked", "working"}
    /\ wpc[w2] \in {"locked", "working"}
    => w1 = w2

\* A refresh is refused while an accepted one has not reached its end
\* (accept_refresh answers already_running).
DuplicatePrevented == \A o, p \in Ops : Live(o) /\ Live(p) => o = p

\* The blob shows a running operation that nobody executes or will execute.
Abandoned(o) ==
  /\ status.op = o
  /\ Running(status)
  /\ ~OnWorker(o)
  /\ o \notin queued

\* A crashed, lost or never enqueued operation is not shown as running for
\* ever: the watchdog marks it stalled (or something newer replaces it).
AbandonedIsReported == \A o \in Ops : []<>(~Abandoned(o))

=============================================================================
