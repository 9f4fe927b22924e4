------------------------ MODULE RefreshOrchestration ------------------------
(***************************************************************************)
(* How a refresh operation is accepted, queued, executed, watched and      *)
(* released.  Four kinds of process share five Redis keys and one RQ queue *)
(* without any transaction:                                                *)
(*                                                                         *)
(*   - API requests (api/operations_dispatch.py), one per operation id;    *)
(*   - RQ workers running OperationalRefreshPipeline.execute               *)
(*     (worker/orchestration/refresh_pipeline.py);                         *)
(*   - watchdogs (pipeline_watchdog.py): the loop of every API process,    *)
(*     the scheduled RQ job, and every reader of GET /operations/status;   *)
(*   - the operator's POST /operations/reset.                              *)
(*                                                                         *)
(* Every action is one visit to Redis, or a run of visits nothing in the   *)
(* properties can tell apart.  OperationLifecycle opens up the two runs    *)
(* taken as one step here: accept_refresh and transition.                  *)
(*                                                                         *)
(* Time is the age of the last write of the status blob, counted in the    *)
(* classes the code compares it with, and it saturates at QueuedGrace.     *)
(***************************************************************************)
EXTENDS Naturals, FiniteSets

CONSTANTS
  Ops,               \* operation ids; each is one POST /operations/refresh
  Workers,           \* RQ worker processes on the "default" queue
  Watchdogs,         \* processes running reconcile_pipeline_state
  NoOp,              \* the empty operation id
  MaxRetries,        \* Retry(max=...) of the RQ job
  RetriesPromoted,   \* whether an RQ scheduler moves delayed retries back
  HeartbeatTimeout,  \* HEARTBEAT_TIMEOUT_S as an age class
  StageStalls,       \* the stall thresholds of the stages likewise
  QueuedGrace        \* QUEUED_GRACE_S likewise; ages stop here

ASSUME OpsAssumption == NoOp \notin Ops /\ Ops \cap Watchdogs = {}
ASSUME RetryAssumption == MaxRetries \in Nat /\ RetriesPromoted \in BOOLEAN
ASSUME AgeAssumption ==
  /\ HeartbeatTimeout \in Nat \ {0}
  /\ QueuedGrace \in Nat
  /\ StageStalls \subseteq HeartbeatTimeout + 1 .. QueuedGrace
  /\ StageStalls # {}

VARIABLES
  lock,      \* skytrax:ops:refresh:lock, the operation id stored in it
  wdLock,    \* skytrax:ops:watchdog:reconcile:lock is set
  record,    \* skytrax:ops:refresh:operation, the lifecycle record
  status,    \* skytrax:ops:refresh:status, the blob GET /status serves
  queued,    \* jobs on the RQ queue
  delayed,   \* jobs in RQ's ScheduledJobRegistry, waiting for a retry
  retries,   \* retries RQ has spent on an operation's job
  pc,        \* control point of every request and watchdog
  view,      \* the status blob a request or watchdog acts upon
  wpc,       \* control point of every worker
  job,       \* the operation a worker executes
  deprived   \* history: operations whose lock something else took away

redisVars == <<lock, wdLock, record, status>>
rqVars == <<queued, delayed, retries>>
callerVars == <<pc, view>>
workerVars == <<wpc, job>>
vars == <<lock, wdLock, record, status, queued, delayed, retries,
          pc, view, wpc, job, deprived>>

-----------------------------------------------------------------------------
Callers == Ops \cup Watchdogs
AnyOp == Ops \cup {NoOp}
Ages == 0 .. QueuedGrace

Stages == {"idle", "queued", "working", "completed", "failed", "stalled"}
LifecycleStates == {"none", "queued", "running", "completed", "failed"}

StatusType == [op : AnyOp, stage : Stages, age : Ages]
RecordType == [op : AnyOp, state : LifecycleStates]

CallerStates == {"idle", "new", "reconcile", "persist", "cleanup",
                 "read", "force_read", "release", "accept", "init",
                 "enqueue", "accepted", "rejected", "dispatch_failed"}
WorkerStates == {"idle", "begin", "locked", "working", "unlock"}

\* No key, or the payload clear_status leaves: either way not running.
IdleStatus == [op |-> NoOp, stage |-> "idle", age |-> 0]
NoRecord == [op |-> NoOp, state |-> "none"]

-----------------------------------------------------------------------------
(* The lifecycle record. *)

\* Mutation: a queued operation does not count as active.
ActiveOnceRunning(r) == r.state = "running"

\* get_active_operation: a record in a terminal state does not count.
Active(r) == r.state \in {"queued", "running"}

\* Mutation: transition without the operation id test.
TransitionedAnyOp(r, o, state) == [op |-> o, state |-> state]

\* transition: another operation's record is left alone, a missing one created.
Transitioned(r, o, state) ==
  IF r.op \in {o, NoOp} THEN [op |-> o, state |-> state] ELSE r

\* transition(o, "stalled") followed by clear_terminal(o); without an
\* operation id, the same for whichever operation is active.
Released(r, o) ==
  IF o = NoOp
  THEN IF Active(r) THEN NoRecord ELSE r
  ELSE IF r.op \in {o, NoOp} THEN NoRecord ELSE r

\* lifecycle_from_stage.
LifecycleOf(stage) == IF stage = "working" THEN "running" ELSE stage

-----------------------------------------------------------------------------
(* The status blob. *)

Running(s) == s.stage \in {"queued", "working"}

\* Mutation: a queued job is never declared an orphan.
StalledOnlyWorking(s, limit) == s.stage = "working" /\ s.age >= limit

\* classify_stall: a queued job is given QueuedGrace, a stage its own limit.
\* A worker that beats and makes no progress is one that does not beat here.
Stalled(s, limit) ==
  \/ s.stage = "queued" /\ s.age >= QueuedGrace
  \/ s.stage = "working" /\ s.age >= limit

\* evaluate_pipeline_health.
Evaluated(s, limit) == IF Stalled(s, limit) THEN [s EXCEPT !.stage = "stalled"] ELSE s

\* compute_worker_alive.
WorkerAlive(s) == s.age < HeartbeatTimeout

\* _set_status with its _sync_lifecycle.
SetStatus(o, stage) ==
  /\ status' = [op |-> o, stage |-> stage, age |-> 0]
  /\ record' = Transitioned(record, o, LifecycleOf(stage))

-----------------------------------------------------------------------------
(* The pipeline lock. *)

Executing(w) == wpc[w] \in {"locked", "working", "unlock"}

\* r.delete(REDIS_LOCK_KEY): nobody checks whose lock it is.
DeleteLock(deleter) ==
  /\ lock' = NoOp
  /\ deprived' = IF lock \in {NoOp, deleter} THEN deprived
                 ELSE deprived \cup {lock}

\* The caller's copy of the blob goes out of scope.
Forget(c) == view' = [view EXCEPT ![c] = IdleStatus]

-----------------------------------------------------------------------------
Init ==
  /\ lock = NoOp
  /\ wdLock = FALSE
  /\ record = NoRecord
  /\ status = IdleStatus
  /\ queued = {}
  /\ delayed = {}
  /\ retries = [o \in Ops |-> 0]
  /\ pc = [c \in Callers |-> IF c \in Ops THEN "new" ELSE "idle"]
  /\ view = [c \in Callers |-> IdleStatus]
  /\ wpc = [w \in Workers |-> "idle"]
  /\ job = [w \in Workers |-> NoOp]
  /\ deprived = {}

-----------------------------------------------------------------------------
(* reconcile_pipeline_state, run by a watchdog or by prepare_accept_path.  *)

ReconcileStart(c) == IF c \in Ops THEN "reconcile" ELSE "idle"
ReconcileEnd(c) == IF c \in Ops THEN "read" ELSE "idle"

\* The watchdog lock is held by someone: this pass is skipped.
ReconcileSkipped(c) ==
  /\ pc[c] = ReconcileStart(c)
  /\ wdLock
  /\ pc' = [pc EXCEPT ![c] = ReconcileEnd(c)]
  /\ UNCHANGED <<redisVars, rqVars, view, workerVars, deprived>>

\* Take the watchdog lock and read the blob; nothing runs: release it again.
ReconcileNothing(c) ==
  /\ pc[c] = ReconcileStart(c)
  /\ ~wdLock
  /\ ~Running(status)
  /\ pc' = [pc EXCEPT ![c] = ReconcileEnd(c)]
  /\ UNCHANGED <<redisVars, rqVars, view, workerVars, deprived>>

\* Take the watchdog lock, read the blob and evaluate it.
ReconcileRead(c) ==
  /\ pc[c] = ReconcileStart(c)
  /\ ~wdLock
  /\ Running(status)
  /\ wdLock' = TRUE
  /\ \E limit \in StageStalls : view' = [view EXCEPT ![c] = Evaluated(status, limit)]
  /\ pc' = [pc EXCEPT ![c] = "persist"]
  /\ UNCHANGED <<lock, record, status, rqVars, workerVars, deprived>>

\* _persist_status: the blob read earlier goes back, whatever was written
\* since.  Only a stall is followed by apply_stall_cleanup.
ReconcilePersist(c) ==
  /\ pc[c] = "persist"
  /\ status' = view[c]
  /\ \/ /\ view[c].stage = "stalled"
        /\ pc' = [pc EXCEPT ![c] = "cleanup"]
        /\ UNCHANGED <<wdLock, view>>
     \/ /\ view[c].stage # "stalled"
        /\ wdLock' = FALSE
        /\ pc' = [pc EXCEPT ![c] = ReconcileEnd(c)]
        /\ Forget(c)
  /\ UNCHANGED <<lock, record, rqVars, workerVars, deprived>>

\* apply_stall_cleanup, then the finally clause drops the watchdog lock.
ReconcileCleanup(c) ==
  /\ pc[c] = "cleanup"
  /\ DeleteLock(NoOp)
  /\ record' = IF view[c].op = NoOp THEN record
               ELSE Released(record, view[c].op)
  /\ wdLock' = FALSE
  /\ pc' = [pc EXCEPT ![c] = ReconcileEnd(c)]
  /\ Forget(c)
  /\ UNCHANGED <<status, rqVars, workerVars>>

\* The process dies inside reconcile_pipeline_state (API restart).
ReconcileDies(c) ==
  /\ c \in Watchdogs
  /\ pc[c] \in {"persist", "cleanup"}
  /\ pc' = [pc EXCEPT ![c] = "idle"]
  /\ Forget(c)
  /\ UNCHANGED <<redisVars, rqVars, workerVars, deprived>>

\* A pass takes far less than the 25 s TTL, so only an orphaned lock expires.
WatchdogLockExpires ==
  /\ wdLock
  /\ \A c \in Callers : pc[c] \notin {"persist", "cleanup"}
  /\ wdLock' = FALSE
  /\ UNCHANGED <<lock, record, status, rqVars, callerVars, workerVars, deprived>>

-----------------------------------------------------------------------------
(* accept_and_dispatch_refresh. *)

Submit(o) ==
  /\ pc[o] = "new"
  /\ pc' = [pc EXCEPT ![o] = "reconcile"]
  /\ UNCHANGED <<redisVars, rqVars, view, workerVars, deprived>>

SubmitForced(o) ==
  /\ pc[o] = "new"
  /\ pc' = [pc EXCEPT ![o] = "force_read"]
  /\ UNCHANGED <<redisVars, rqVars, view, workerVars, deprived>>

\* The side effect of get_live_status_fast: enrich_live_status persists and
\* cleans up a stall it finds, if it gets the watchdog lock.
EnrichOnRead(limit) ==
  IF Stalled(status, limit) /\ ~wdLock
  THEN /\ status' = Evaluated(status, limit)
       /\ record' = IF status.op = NoOp THEN record ELSE Released(record, status.op)
       /\ DeleteLock(NoOp)
  ELSE UNCHANGED <<status, record, lock, deprived>>

\* The condition under which prepare_accept_path releases what it has read.
ReleaseWanted(s) == ~Running(s) \/ ~WorkerAlive(s)

ReadLive(o) ==
  /\ pc[o] \in {"read", "force_read"}
  /\ \E limit \in StageStalls :
       /\ EnrichOnRead(limit)
       /\ \/ /\ pc[o] = "force_read" \/ ReleaseWanted(Evaluated(status, limit))
             /\ view' = [view EXCEPT ![o] = Evaluated(status, limit)]
             /\ pc' = [pc EXCEPT ![o] = "release"]
          \/ /\ pc[o] = "read" /\ ~ReleaseWanted(Evaluated(status, limit))
             /\ pc' = [pc EXCEPT ![o] = "accept"]
             /\ UNCHANGED view
  /\ UNCHANGED <<wdLock, rqVars, workerVars>>

\* release_stalled_state(operation_id=live.get("operation_id")).
ReleaseStalledState(o) ==
  /\ pc[o] = "release"
  /\ DeleteLock(NoOp)
  /\ wdLock' = FALSE
  /\ record' = Released(record, view[o].op)
  /\ pc' = [pc EXCEPT ![o] = "accept"]
  /\ Forget(o)
  /\ UNCHANGED <<status, rqVars, workerVars>>

\* accept_refresh: 409 when an operation is active ...
Reject(o) ==
  /\ pc[o] = "accept"
  /\ Active(record)
  /\ pc' = [pc EXCEPT ![o] = "rejected"]
  /\ UNCHANGED <<redisVars, rqVars, view, workerVars, deprived>>

\* ... and otherwise create_queued.
Accept(o) ==
  /\ pc[o] = "accept"
  /\ ~Active(record)
  /\ record' = [op |-> o, state |-> "queued"]
  /\ pc' = [pc EXCEPT ![o] = "init"]
  /\ UNCHANGED <<lock, wdLock, status, rqVars, view, workerVars, deprived>>

SetInitialStatus(o) ==
  /\ pc[o] = "init"
  /\ SetStatus(o, "queued")
  /\ pc' = [pc EXCEPT ![o] = "enqueue"]
  /\ UNCHANGED <<lock, wdLock, rqVars, view, workerVars, deprived>>

\* Redis fails in set_initial_status, which swallows the exception before or
\* after its transition to "queued": the blob keeps what it said before.
SetInitialStatusFails(o) ==
  /\ pc[o] = "init"
  /\ record' \in {record, Transitioned(record, o, "queued")}
  /\ pc' = [pc EXCEPT ![o] = "enqueue"]
  /\ UNCHANGED <<lock, wdLock, status, rqVars, view, workerVars, deprived>>

Enqueue(o) ==
  /\ pc[o] = "enqueue"
  /\ queued' = queued \cup {o}
  /\ pc' = [pc EXCEPT ![o] = "accepted"]
  /\ UNCHANGED <<redisVars, delayed, retries, view, workerVars, deprived>>

\* queue.enqueue raises: mark_dispatch_failed, the status blob stays "queued".
EnqueueFails(o) ==
  /\ pc[o] = "enqueue"
  /\ record' = Transitioned(record, o, "failed")
  /\ pc' = [pc EXCEPT ![o] = "dispatch_failed"]
  /\ UNCHANGED <<lock, wdLock, status, rqVars, view, workerVars, deprived>>

\* POST /operations/reset: release_stalled_state, then clear_status.
Reset ==
  /\ DeleteLock(NoOp)
  /\ wdLock' = FALSE
  /\ record' = Released(record, status.op)
  /\ status' = IdleStatus
  /\ UNCHANGED <<rqVars, callerVars, workerVars>>

-----------------------------------------------------------------------------
(* run_operational_refresh on an RQ worker. *)

\* Mutation: the job stays on the queue while it is executed.
DequeuePeek(w, o) ==
  /\ wpc[w] = "idle"
  /\ o \in queued
  /\ record' = Transitioned(record, o, "running")
  /\ wpc' = [wpc EXCEPT ![w] = "begin"]
  /\ job' = [job EXCEPT ![w] = o]
  /\ UNCHANGED <<lock, wdLock, status, rqVars, callerVars, deprived>>

\* RQ hands the job over; the job's first call is transition(op, "running").
Dequeue(w, o) ==
  /\ wpc[w] = "idle"
  /\ o \in queued
  /\ queued' = queued \ {o}
  /\ record' = Transitioned(record, o, "running")
  /\ wpc' = [wpc EXCEPT ![w] = "begin"]
  /\ job' = [job EXCEPT ![w] = o]
  /\ UNCHANGED <<lock, wdLock, status, delayed, retries, callerVars, deprived>>

\* Mutation: SET without NX.
AcquireLockAnyHolder(w) ==
  /\ wpc[w] = "begin"
  /\ lock' = job[w]
  /\ deprived' = deprived \ {job[w]}
  /\ wpc' = [wpc EXCEPT ![w] = "locked"]
  /\ UNCHANGED <<wdLock, record, status, rqVars, callerVars, job>>

\* SET NX of the pipeline lock, or the lock a killed attempt left behind.
AcquireLock(w) ==
  /\ wpc[w] = "begin"
  /\ lock \in {NoOp, job[w]}
  /\ lock' = job[w]
  /\ deprived' = deprived \ {job[w]}
  /\ wpc' = [wpc EXCEPT ![w] = "locked"]
  /\ UNCHANGED <<wdLock, record, status, rqVars, callerVars, job>>

\* Someone else holds the lock: {"status": "skipped"}; nothing is written.
SkipLocked(w) ==
  /\ wpc[w] = "begin"
  /\ lock \notin {NoOp, job[w]}
  /\ wpc' = [wpc EXCEPT ![w] = "idle"]
  /\ job' = [job EXCEPT ![w] = NoOp]
  /\ UNCHANGED <<redisVars, rqVars, callerVars, deprived>>

\* Mutation: a heartbeat may still follow the terminal write.
BeatAfterFinish(w) ==
  /\ wpc[w] \in {"locked", "working", "unlock"}
  /\ SetStatus(job[w], "working")
  /\ wpc' = [wpc EXCEPT ![w] = "working"]
  /\ UNCHANGED <<lock, wdLock, rqVars, callerVars, job, deprived>>

\* The first status write, and every later heartbeat or stage boundary.
Beat(w) ==
  /\ wpc[w] \in {"locked", "working"}
  /\ SetStatus(job[w], "working")
  /\ wpc' = [wpc EXCEPT ![w] = "working"]
  /\ UNCHANGED <<lock, wdLock, rqVars, callerVars, job, deprived>>

\* The terminal status write; stage is "completed" or "failed".
Finish(w, stage) ==
  /\ wpc[w] = "working"
  /\ SetStatus(job[w], stage)
  /\ wpc' = [wpc EXCEPT ![w] = "unlock"]
  /\ UNCHANGED <<lock, wdLock, rqVars, callerVars, job, deprived>>

\* The finally clause: delete the lock, whoever holds it by now.
Unlock(w) ==
  /\ wpc[w] = "unlock"
  /\ DeleteLock(job[w])
  /\ wpc' = [wpc EXCEPT ![w] = "idle"]
  /\ job' = [job EXCEPT ![w] = NoOp]
  /\ UNCHANGED <<wdLock, record, status, rqVars, callerVars>>

\* The work-horse is killed: no finally clause; RQ schedules a retry while
\* the job has any left, and otherwise moves it to the FailedJobRegistry.
Crash(w) ==
  /\ wpc[w] # "idle"
  /\ \/ /\ retries[job[w]] < MaxRetries
        /\ delayed' = delayed \cup {job[w]}
        /\ retries' = [retries EXCEPT ![job[w]] = @ + 1]
     \/ /\ retries[job[w]] >= MaxRetries
        /\ UNCHANGED <<delayed, retries>>
  /\ wpc' = [wpc EXCEPT ![w] = "idle"]
  /\ job' = [job EXCEPT ![w] = NoOp]
  /\ UNCHANGED <<redisVars, queued, callerVars, deprived>>

\* An RQ scheduler moves a delayed retry back onto the queue.
PromoteRetry(o) ==
  /\ RetriesPromoted
  /\ o \in delayed
  /\ delayed' = delayed \ {o}
  /\ queued' = queued \cup {o}
  /\ UNCHANGED <<redisVars, retries, callerVars, workerVars, deprived>>

\* The lock's TTL is never refreshed: a run of four hours outlives it.
LockExpires ==
  /\ lock # NoOp
  /\ DeleteLock(NoOp)
  /\ UNCHANGED <<wdLock, record, status, rqVars, callerVars, workerVars>>

-----------------------------------------------------------------------------
\* Timestamps live in the blob, so a copy ages with the original.  Nothing
\* looks at the age of a blob that is not running.
Older(s) ==
  IF Running(s) /\ s.age < QueuedGrace THEN [s EXCEPT !.age = @ + 1] ELSE s

Tick ==
  /\ status' = Older(status)
  /\ view' = [c \in Callers |-> Older(view[c])]
  /\ UNCHANGED <<lock, wdLock, record, rqVars, pc, workerVars, deprived>>

Reconcile(c) ==
  \/ ReconcileSkipped(c)
  \/ ReconcileNothing(c)
  \/ ReconcileRead(c)
  \/ ReconcilePersist(c)
  \/ ReconcileCleanup(c)

Request(o) ==
  \/ ReadLive(o)
  \/ ReleaseStalledState(o)
  \/ Reject(o)
  \/ Accept(o)
  \/ SetInitialStatus(o)
  \/ Enqueue(o)
  \/ EnqueueFails(o)

Work(w) ==
  \/ \E o \in Ops : Dequeue(w, o)
  \/ AcquireLock(w)
  \/ SkipLocked(w)
  \/ Beat(w)
  \/ \E stage \in {"completed", "failed"} : Finish(w, stage)
  \/ Unlock(w)
  \/ Crash(w)

Next ==
  \/ \E c \in Callers : Reconcile(c) \/ ReconcileDies(c)
  \/ \E o \in Ops : Submit(o) \/ SubmitForced(o) \/ Request(o)
                   \/ SetInitialStatusFails(o) \/ PromoteRetry(o)
  \/ \E w \in Workers : Work(w)
  \/ WatchdogLockExpires
  \/ LockExpires
  \/ Reset
  \/ Tick

Spec == Init /\ [][Next]_vars

-----------------------------------------------------------------------------
(* Correctness. *)

\* Every variable keeps its type (the Redis payloads of _set_status,
\* OperationLifecycleManager and the RQ job states).
TypeOK ==
  /\ lock \in AnyOp
  /\ wdLock \in BOOLEAN
  /\ record \in RecordType
  /\ status \in StatusType
  /\ queued \subseteq Ops
  /\ delayed \subseteq Ops
  /\ retries \in [Ops -> 0 .. MaxRetries]
  /\ pc \in [Callers -> CallerStates]
  /\ view \in [Callers -> StatusType]
  /\ wpc \in [Workers -> WorkerStates]
  /\ job \in [Workers -> AnyOp]
  /\ deprived \subseteq Ops

\* A pipeline past execute's lock check still holds the lock, unless some
\* other party deleted or outlived it: SET NX and the owner test of a retry
\* never hand the lock of one running operation to another.
WorkingHoldsLock ==
  \A w \in Workers : Executing(w) /\ job[w] \notin deprived => lock = job[w]

\* Two pipelines overlap only after one of them was deprived of its lock: by
\* the watchdog, an accept path, a reset, its TTL or a finally clause that
\* deleted a lock it no longer owned.
OverlapNeedsDeprivation ==
  \A w1, w2 \in Workers :
    /\ w1 # w2
    /\ Executing(w1)
    /\ Executing(w2)
    => job[w1] \in deprived \/ job[w2] \in deprived

\* RQ holds an operation's job in one place only, and never before the
\* request that enqueues it has done so (RQ moves jobs between registries).
OneJobPerOperation ==
  /\ \A w \in Workers : wpc[w] = "idle" <=> job[w] = NoOp
  /\ \A w1, w2 \in Workers : job[w1] = job[w2] /\ job[w1] # NoOp => w1 = w2
  /\ \A w \in Workers : job[w] \notin queued \cup delayed
  /\ queued \cap delayed = {}
  /\ \A w \in Workers : job[w] \in Ops => pc[job[w]] = "accepted"
  /\ \A o \in queued \cup delayed : pc[o] = "accepted"

\* A record without an operation is no record (create_queued and transition
\* always store the operation id).
RecordNamed == record.op = NoOp => record = NoRecord

\* What the proofs carry from step to step.
LockDiscipline == TypeOK /\ OneJobPerOperation /\ RecordNamed /\ WorkingHoldsLock

\* The lifecycle record of an active operation is never replaced by that of
\* another: it is released or reaches a terminal state first (the operation
\* id test of transition, the active check of accept_refresh).
RecordNotStolen ==
  [][Active(record) => record'.op \in {record.op, NoOp}]_vars

\* A job that died has been queued again: only an RQ scheduler does that.
Promoted(o) == retries[o] > 0 /\ o \notin delayed

\* Once an operation's record says completed it never says anything else of
\* that operation, because set_initial_status writes the queued state BEFORE
\* the job reaches RQ and the worker's terminal write is its last.  Only a
\* worker that died after that write, and whose job RQ runs again, undoes it.
CompletedIsFinal ==
  [][record.state = "completed" =>
       record'.op # record.op \/ record' = record \/ Promoted(record.op)]_vars

=============================================================================
