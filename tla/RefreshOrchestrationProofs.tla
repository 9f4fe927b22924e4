--------------------- MODULE RefreshOrchestrationProofs ---------------------
(***************************************************************************)
(* Proofs, for any number of operations, workers and watchdogs and any     *)
(* thresholds, of what RefreshOrchestration guarantees without assumptions *)
(* on timing (types, the lock discipline and the ownership of the record)  *)
(* and of what it guarantees in the calm environment: one refresh at once. *)
(***************************************************************************)
EXTENDS CalmRefresh, TLAPS

USE DEF OpsAssumption, RetryAssumption, AgeAssumption

LEMMA InitType == Init => TypeOK
<1> SUFFICES ASSUME Init PROVE TypeOK
  OBVIOUS
<1>1. IdleStatus \in StatusType
  BY AgeAssumption DEF IdleStatus, StatusType, AnyOp, Ages, Stages
<1>2. NoRecord \in RecordType
  BY DEF NoRecord, RecordType, AnyOp, LifecycleStates
<1>3. 0 \in 0 .. MaxRetries
  BY RetryAssumption
<1>4. pc \in [Callers -> CallerStates]
  BY DEF Init, CallerStates
<1>5. QED
  BY <1>1, <1>2, <1>3, <1>4 DEF Init, TypeOK, AnyOp, WorkerStates

\* The operators on blobs and records stay within their types.
LEMMA BlobTypes ==
  ASSUME NEW s \in StatusType
  PROVE  /\ Older(s) \in StatusType
         /\ \A limit \in StageStalls : Evaluated(s, limit) \in StatusType
  BY AgeAssumption DEF Evaluated, Older, StatusType, Stages, Ages

LEMMA RecordTypes ==
  ASSUME NEW r \in RecordType, NEW o \in Ops, NEW p \in AnyOp,
         NEW state \in LifecycleStates
  PROVE  Transitioned(r, o, state) \in RecordType /\ Released(r, p) \in RecordType
  BY DEF Transitioned, Released, RecordType, NoRecord, AnyOp, LifecycleStates

LEMMA SetStatusTypes ==
  ASSUME TypeOK, NEW o \in Ops,
         NEW stage \in {"queued", "working", "completed", "failed"},
         SetStatus(o, stage)
  PROVE  status' \in StatusType /\ record' \in RecordType
<1>1. LifecycleOf(stage) \in LifecycleStates
  BY DEF LifecycleOf, LifecycleStates
<1>2. record' \in RecordType
  BY <1>1, RecordTypes DEF SetStatus, TypeOK, AnyOp
<1>3. status' \in StatusType
  BY AgeAssumption DEF SetStatus, StatusType, Stages, Ages, AnyOp
<1>4. QED
  BY <1>2, <1>3

LEMMA DeleteLockTypes ==
  ASSUME TypeOK, NEW d, DeleteLock(d)
  PROVE  lock' \in AnyOp /\ deprived' \subseteq Ops
  BY DEF DeleteLock, TypeOK, AnyOp

\* A worker outside "idle" has the job of an operation.
LEMMA BusyHasJob ==
  ASSUME TypeOK, OneJobPerOperation, NEW w \in Workers, wpc[w] # "idle"
  PROVE  job[w] \in Ops
  BY DEF TypeOK, OneJobPerOperation, AnyOp

-----------------------------------------------------------------------------
LEMMA TypeStep ==
  ASSUME TypeOK, OneJobPerOperation, [Next]_vars
  PROVE  TypeOK'
<1> USE DEF redisVars, rqVars, callerVars, workerVars
<1>1. ASSUME NEW c \in Callers, ReconcileSkipped(c) PROVE TypeOK'
  BY <1>1 DEF ReconcileSkipped, ReconcileEnd, TypeOK, CallerStates
<1>2. ASSUME NEW c \in Callers, ReconcileNothing(c) PROVE TypeOK'
  BY <1>2 DEF ReconcileNothing, ReconcileEnd, TypeOK, CallerStates
<1>3. ASSUME NEW c \in Callers, ReconcileRead(c) PROVE TypeOK'
  <2>1. PICK limit \in StageStalls : view' = [view EXCEPT ![c] = Evaluated(status, limit)]
    BY <1>3 DEF ReconcileRead
  <2>2. Evaluated(status, limit) \in StatusType
    BY BlobTypes DEF TypeOK
  <2>3. QED
    BY <1>3, <2>1, <2>2 DEF ReconcileRead, TypeOK, CallerStates
<1>4. ASSUME NEW c \in Callers, ReconcilePersist(c) PROVE TypeOK'
  <2>1. view' \in [Callers -> StatusType]
    BY <1>4, AgeAssumption
    DEF ReconcilePersist, Forget, TypeOK, IdleStatus, StatusType, Stages, Ages, AnyOp
  <2>2. QED
    BY <1>4, <2>1 DEF ReconcilePersist, ReconcileEnd, TypeOK, CallerStates
<1>5. ASSUME NEW c \in Callers, ReconcileCleanup(c) PROVE TypeOK'
  <2>1. view' \in [Callers -> StatusType]
    BY <1>5, AgeAssumption
    DEF ReconcileCleanup, Forget, TypeOK, IdleStatus, StatusType, Stages, Ages, AnyOp
  <2>2. lock' \in AnyOp /\ deprived' \subseteq Ops
    BY <1>5, DeleteLockTypes DEF ReconcileCleanup
  <2>3. record' \in RecordType
    <3>1. view[c].op \in AnyOp
      BY DEF TypeOK, StatusType
    <3>2. Released(record, view[c].op) \in RecordType
      BY <3>1 DEF Released, TypeOK, RecordType, NoRecord, AnyOp, LifecycleStates
    <3>3. QED
      BY <1>5, <3>2 DEF ReconcileCleanup, TypeOK
  <2>4. QED
    BY <1>5, <2>1, <2>2, <2>3 DEF ReconcileCleanup, ReconcileEnd, TypeOK, CallerStates
<1>6. ASSUME NEW c \in Callers, ReconcileDies(c) PROVE TypeOK'
  <2>1. view' \in [Callers -> StatusType]
    BY <1>6, AgeAssumption
    DEF ReconcileDies, Forget, TypeOK, IdleStatus, StatusType, Stages, Ages, AnyOp
  <2>2. QED
    BY <1>6, <2>1 DEF ReconcileDies, TypeOK, CallerStates
<1>7. ASSUME NEW o \in Ops, Submit(o) \/ SubmitForced(o) PROVE TypeOK'
  BY <1>7 DEF Submit, SubmitForced, TypeOK, CallerStates
<1>8. ASSUME NEW o \in Ops, ReadLive(o) PROVE TypeOK'
  <2>1. PICK limit \in StageStalls :
          /\ EnrichOnRead(limit)
          /\ view' \in {view, [view EXCEPT ![o] = Evaluated(status, limit)]}
    BY <1>8 DEF ReadLive
  <2>2. Evaluated(status, limit) \in StatusType
    BY BlobTypes DEF TypeOK
  <2>3. /\ status' \in StatusType
        /\ record' \in RecordType
        /\ lock' \in AnyOp
        /\ deprived' \subseteq Ops
    <3>1. CASE Stalled(status, limit) /\ ~wdLock
      <4>1. status' = Evaluated(status, limit) /\ DeleteLock(NoOp)
        BY <2>1, <3>1 DEF EnrichOnRead
      <4>2. Released(record, status.op) \in RecordType
        BY DEF Released, TypeOK, StatusType, RecordType, NoRecord, AnyOp, LifecycleStates
      <4>3. record' \in RecordType
        BY <2>1, <3>1, <4>2 DEF EnrichOnRead, TypeOK
      <4>4. QED
        BY <2>2, <4>1, <4>3, DeleteLockTypes
    <3>2. CASE ~(Stalled(status, limit) /\ ~wdLock)
      BY <2>1, <3>2 DEF EnrichOnRead, TypeOK
    <3>3. QED
      BY <3>1, <3>2
  <2>4. view' \in [Callers -> StatusType]
    BY <2>1, <2>2 DEF TypeOK
  <2>5. QED
    BY <1>8, <2>3, <2>4 DEF ReadLive, TypeOK, CallerStates
<1>9. ASSUME NEW o \in Ops, ReleaseStalledState(o) PROVE TypeOK'
  <2>1. view' \in [Callers -> StatusType]
    BY <1>9, AgeAssumption
    DEF ReleaseStalledState, Forget, TypeOK, IdleStatus, StatusType, Stages, Ages, AnyOp,
        Callers
  <2>2. lock' \in AnyOp /\ deprived' \subseteq Ops
    BY <1>9, DeleteLockTypes DEF ReleaseStalledState
  <2>3. view[o].op \in AnyOp
    BY DEF TypeOK, StatusType, Callers
  <2>4. record' \in RecordType
    BY <1>9, <2>3
    DEF ReleaseStalledState, Released, TypeOK, RecordType, NoRecord, AnyOp, LifecycleStates
  <2>5. QED
    BY <1>9, <2>1, <2>2, <2>4 DEF ReleaseStalledState, TypeOK, CallerStates
<1>10. ASSUME NEW o \in Ops, Reject(o) PROVE TypeOK'
  BY <1>10 DEF Reject, TypeOK, CallerStates
<1>11. ASSUME NEW o \in Ops, Accept(o) PROVE TypeOK'
  BY <1>11 DEF Accept, TypeOK, CallerStates, RecordType, AnyOp, LifecycleStates
<1>12. ASSUME NEW o \in Ops, SetInitialStatus(o) PROVE TypeOK'
  BY <1>12, SetStatusTypes DEF SetInitialStatus, TypeOK, CallerStates
<1>13. ASSUME NEW o \in Ops, Enqueue(o) PROVE TypeOK'
  BY <1>13 DEF Enqueue, TypeOK, CallerStates
<1>14. ASSUME NEW o \in Ops, EnqueueFails(o) PROVE TypeOK'
  BY <1>14
  DEF EnqueueFails, TypeOK, CallerStates, Transitioned, RecordType, AnyOp, LifecycleStates
<1>15. ASSUME Reset PROVE TypeOK'
  <2>1. lock' \in AnyOp /\ deprived' \subseteq Ops
    BY <1>15, DeleteLockTypes DEF Reset
  <2>2. record' \in RecordType
    BY <1>15
    DEF Reset, Released, TypeOK, StatusType, RecordType, NoRecord, AnyOp, LifecycleStates
  <2>3. status' \in StatusType
    BY <1>15, AgeAssumption DEF Reset, IdleStatus, StatusType, Stages, Ages, AnyOp
  <2>4. QED
    BY <1>15, <2>1, <2>2, <2>3 DEF Reset, TypeOK
<1>16. ASSUME NEW w \in Workers, NEW o \in Ops, Dequeue(w, o) PROVE TypeOK'
  BY <1>16
  DEF Dequeue, TypeOK, WorkerStates, Transitioned, RecordType, AnyOp, LifecycleStates
<1>17. ASSUME NEW w \in Workers, AcquireLock(w) PROVE TypeOK'
  BY <1>17 DEF AcquireLock, TypeOK, WorkerStates
<1>18. ASSUME NEW w \in Workers, SkipLocked(w) PROVE TypeOK'
  BY <1>18 DEF SkipLocked, TypeOK, WorkerStates, AnyOp
<1>19. ASSUME NEW w \in Workers, Beat(w) PROVE TypeOK'
  <2>1. job[w] \in Ops
    BY <1>19, BusyHasJob DEF Beat
  <2>2. QED
    BY <1>19, <2>1, SetStatusTypes DEF Beat, TypeOK, WorkerStates
<1>20. ASSUME NEW w \in Workers, NEW stage \in {"completed", "failed"}, Finish(w, stage)
       PROVE  TypeOK'
  <2>1. job[w] \in Ops
    BY <1>20, BusyHasJob DEF Finish
  <2>2. QED
    BY <1>20, <2>1, SetStatusTypes DEF Finish, TypeOK, WorkerStates
<1>21. ASSUME NEW w \in Workers, Unlock(w) PROVE TypeOK'
  <2>1. lock' \in AnyOp /\ deprived' \subseteq Ops
    BY <1>21, DeleteLockTypes DEF Unlock
  <2>2. QED
    BY <1>21, <2>1 DEF Unlock, TypeOK, WorkerStates, AnyOp
<1>22. ASSUME NEW w \in Workers, Crash(w) PROVE TypeOK'
  <2>1. job[w] \in Ops
    BY <1>22, BusyHasJob DEF Crash
  <2>2. QED
    BY <1>22, <2>1, RetryAssumption DEF Crash, TypeOK, WorkerStates, AnyOp
<1>23. ASSUME NEW o \in Ops, PromoteRetry(o) PROVE TypeOK'
  BY <1>23 DEF PromoteRetry, TypeOK
<1>24. ASSUME WatchdogLockExpires PROVE TypeOK'
  BY <1>24 DEF WatchdogLockExpires, TypeOK
<1>25. ASSUME LockExpires PROVE TypeOK'
  BY <1>25, DeleteLockTypes DEF LockExpires, TypeOK
<1>26. ASSUME Tick PROVE TypeOK'
  BY <1>26, BlobTypes DEF Tick, TypeOK
<1>27. ASSUME NEW o \in Ops, SetInitialStatusFails(o) PROVE TypeOK'
  <2>1. record' \in RecordType
    <3>1. "queued" \in LifecycleStates /\ NoOp \in AnyOp
      BY DEF LifecycleStates, AnyOp
    <3>2. QED
      BY <1>27, <3>1, RecordTypes DEF SetInitialStatusFails, TypeOK
  <2>2. QED
    BY <1>27, <2>1 DEF SetInitialStatusFails, TypeOK, CallerStates
<1>28. ASSUME UNCHANGED vars PROVE TypeOK'
  BY <1>28 DEF vars, TypeOK
<1>29. QED
  BY <1>1, <1>2, <1>3, <1>4, <1>5, <1>6, <1>7, <1>8, <1>9, <1>10, <1>11, <1>12,
     <1>13, <1>14, <1>15, <1>16, <1>17, <1>18, <1>19, <1>20, <1>21, <1>22,
     <1>23, <1>24, <1>25, <1>26, <1>27, <1>28
  DEF Next, Reconcile, Request, Work

-----------------------------------------------------------------------------
\* A caller's step that touches neither RQ nor a worker, and moves only the
\* control point of a caller that has not been answered with 202 yet, keeps
\* every job where it is.
LEMMA CallerKeepsJobs ==
  ASSUME TypeOK, OneJobPerOperation, NEW c \in Callers, NEW next,
         pc[c] # "accepted", pc' = [pc EXCEPT ![c] = next],
         UNCHANGED <<queued, delayed, wpc, job>>
  PROVE  OneJobPerOperation'
<1>1. \A o \in Ops : pc[o] = "accepted" => pc'[o] = "accepted"
  BY DEF TypeOK, Callers
<1>2. queued \subseteq Ops /\ delayed \subseteq Ops
  BY DEF TypeOK
<1>3. QED
  BY <1>1, <1>2 DEF OneJobPerOperation

\* A worker's step that leaves RQ, the callers and all jobs alone and does
\* not make a worker idle or busy.
LEMMA WorkerKeepsJobs ==
  ASSUME TypeOK, OneJobPerOperation, NEW w \in Workers, NEW next,
         wpc[w] # "idle", next # "idle", wpc' = [wpc EXCEPT ![w] = next],
         UNCHANGED <<queued, delayed, pc, job>>
  PROVE  OneJobPerOperation'
  BY DEF OneJobPerOperation, TypeOK

\* A worker that drops its job, which nobody else takes up.
LEMMA WorkerDropsJob ==
  ASSUME TypeOK, OneJobPerOperation, NEW w \in Workers, wpc[w] # "idle",
         wpc' = [wpc EXCEPT ![w] = "idle"], job' = [job EXCEPT ![w] = NoOp],
         UNCHANGED <<queued, delayed, pc>>
  PROVE  OneJobPerOperation'
<1>1. NoOp \notin queued \cup delayed
  BY OpsAssumption DEF TypeOK
<1>2. NoOp \notin Ops
  BY OpsAssumption
<1>3. QED
  BY <1>1, <1>2 DEF OneJobPerOperation, TypeOK

LEMMA JobsStep ==
  ASSUME TypeOK, OneJobPerOperation, [Next]_vars
  PROVE  OneJobPerOperation'
<1> USE DEF redisVars, rqVars, callerVars, workerVars
<1>1. ASSUME NEW c \in Callers, Reconcile(c) \/ ReconcileDies(c)
      PROVE  OneJobPerOperation'
  <2>1. CASE ReconcileSkipped(c)
    BY <2>1, CallerKeepsJobs DEF ReconcileSkipped, ReconcileStart
  <2>2. CASE ReconcileNothing(c)
    BY <2>2, CallerKeepsJobs DEF ReconcileNothing, ReconcileStart
  <2>3. CASE ReconcileRead(c)
    BY <2>3, CallerKeepsJobs DEF ReconcileRead, ReconcileStart
  <2>4. CASE ReconcilePersist(c)
    BY <2>4, CallerKeepsJobs DEF ReconcilePersist
  <2>5. CASE ReconcileCleanup(c)
    BY <2>5, CallerKeepsJobs DEF ReconcileCleanup
  <2>6. CASE ReconcileDies(c)
    BY <2>6, CallerKeepsJobs DEF ReconcileDies
  <2>7. QED
    BY <1>1, <2>1, <2>2, <2>3, <2>4, <2>5, <2>6 DEF Reconcile
<1>2. ASSUME NEW o \in Ops, Submit(o) \/ SubmitForced(o) \/ SetInitialStatusFails(o)
      PROVE  OneJobPerOperation'
  BY <1>2, CallerKeepsJobs DEF Submit, SubmitForced, SetInitialStatusFails, Callers
<1>3. ASSUME NEW o \in Ops, Request(o) PROVE OneJobPerOperation'
  <2> o \in Callers
    BY DEF Callers
  <2>1. CASE ReadLive(o)
    BY <2>1, CallerKeepsJobs DEF ReadLive
  <2>2. CASE ReleaseStalledState(o)
    BY <2>2, CallerKeepsJobs DEF ReleaseStalledState
  <2>3. CASE Reject(o)
    BY <2>3, CallerKeepsJobs DEF Reject
  <2>4. CASE Accept(o)
    BY <2>4, CallerKeepsJobs DEF Accept
  <2>5. CASE SetInitialStatus(o)
    BY <2>5, CallerKeepsJobs DEF SetInitialStatus
  <2>6. CASE EnqueueFails(o)
    BY <2>6, CallerKeepsJobs DEF EnqueueFails
  <2>7. CASE Enqueue(o)
    <3>1. /\ o \notin delayed
          /\ \A w \in Workers : job[w] # o
      BY <2>7 DEF Enqueue, OneJobPerOperation
    <3>2. \A p \in Ops : pc'[p] = "accepted" <=> (pc[p] = "accepted" \/ p = o)
      BY <2>7 DEF Enqueue, TypeOK
    <3>3. queued' = queued \cup {o} /\ UNCHANGED <<delayed, wpc, job>>
      BY <2>7 DEF Enqueue
    <3>4. queued \subseteq Ops /\ delayed \subseteq Ops
      BY DEF TypeOK
    <3>5. QED
      BY <3>1, <3>2, <3>3, <3>4 DEF OneJobPerOperation
  <2>8. QED
    BY <1>3, <2>1, <2>2, <2>3, <2>4, <2>5, <2>6, <2>7 DEF Request
<1>4. ASSUME NEW w \in Workers, Work(w) PROVE OneJobPerOperation'
  <2>1. ASSUME NEW o \in Ops, Dequeue(w, o) PROVE OneJobPerOperation'
    <3>1. /\ job' = [job EXCEPT ![w] = o]
          /\ wpc' = [wpc EXCEPT ![w] = "begin"]
          /\ queued' = queued \ {o}
          /\ UNCHANGED <<delayed, pc>>
      BY <2>1 DEF Dequeue
    <3>2. /\ o \notin delayed
          /\ \A v \in Workers : job[v] # o
          /\ pc[o] = "accepted"
          /\ o # NoOp
      BY <2>1, OpsAssumption DEF Dequeue, OneJobPerOperation
    <3>3. QED
      BY <3>1, <3>2 DEF OneJobPerOperation, TypeOK
  <2>2. CASE AcquireLock(w)
    BY <2>2, WorkerKeepsJobs DEF AcquireLock
  <2>3. CASE SkipLocked(w)
    BY <2>3, WorkerDropsJob DEF SkipLocked
  <2>4. CASE Beat(w)
    BY <2>4, WorkerKeepsJobs DEF Beat
  <2>5. ASSUME NEW stage \in {"completed", "failed"}, Finish(w, stage)
        PROVE  OneJobPerOperation'
    BY <2>5, WorkerKeepsJobs DEF Finish
  <2>6. CASE Unlock(w)
    BY <2>6, WorkerDropsJob DEF Unlock
  <2>7. CASE Crash(w)
    <3>1. CASE delayed' = delayed
      BY <2>7, <3>1, WorkerDropsJob DEF Crash
    <3>2. CASE delayed' = delayed \cup {job[w]}
      <4>1. /\ wpc' = [wpc EXCEPT ![w] = "idle"]
            /\ job' = [job EXCEPT ![w] = NoOp]
            /\ UNCHANGED <<queued, pc>>
        BY <2>7 DEF Crash
      <4>2. /\ NoOp \notin queued \cup delayed
            /\ NoOp \notin Ops
        BY OpsAssumption DEF TypeOK
      <4>3. job[w] \in Ops
        BY <2>7, BusyHasJob DEF Crash
      <4>4. QED
        BY <3>2, <4>1, <4>2, <4>3 DEF OneJobPerOperation, TypeOK
    <3>3. QED
      BY <2>7, <3>1, <3>2 DEF Crash
  <2>8. QED
    BY <1>4, <2>1, <2>2, <2>3, <2>4, <2>5, <2>6, <2>7 DEF Work
<1>5. ASSUME NEW o \in Ops, PromoteRetry(o) PROVE OneJobPerOperation'
  BY <1>5 DEF PromoteRetry, OneJobPerOperation
<1>6. ASSUME WatchdogLockExpires \/ LockExpires \/ Reset \/ Tick PROVE OneJobPerOperation'
  BY <1>6 DEF WatchdogLockExpires, LockExpires, Reset, Tick, OneJobPerOperation
<1>7. ASSUME UNCHANGED vars PROVE OneJobPerOperation'
  BY <1>7 DEF vars, OneJobPerOperation
<1>8. QED
  BY <1>1, <1>2, <1>3, <1>4, <1>5, <1>6, <1>7 DEF Next

-----------------------------------------------------------------------------
\* A step either leaves the record alone, writes a state of the operation it
\* belongs to (or of any, if there is none), drops it, or replaces one that
\* is not active.
RecordStep ==
  \/ record' = record
  \/ record' = NoRecord
  \/ /\ record'.op \in Ops
     /\ record.op \in {record'.op, NoOp} \/ ~Active(record)

LEMMA TransitionedStep ==
  ASSUME TypeOK, NEW o \in Ops, NEW state, record' = Transitioned(record, o, state)
  PROVE  RecordStep
  BY DEF Transitioned, RecordStep

LEMMA ReleasedStep ==
  ASSUME TypeOK, NEW o, record' = Released(record, o)
  PROVE  RecordStep
  BY DEF Released, RecordStep

LEMMA EveryRecordStep ==
  ASSUME TypeOK, OneJobPerOperation, [Next]_vars
  PROVE  RecordStep
<1> USE DEF redisVars
<1>1. ASSUME NEW c \in Callers, Reconcile(c) \/ ReconcileDies(c) PROVE RecordStep
  <2>1. CASE ReconcileCleanup(c)
    BY <2>1, ReleasedStep DEF ReconcileCleanup, RecordStep
  <2>2. CASE ~ReconcileCleanup(c)
    BY <1>1, <2>2
    DEF Reconcile, ReconcileSkipped, ReconcileNothing, ReconcileRead,
        ReconcilePersist, ReconcileDies, RecordStep
  <2>3. QED
    BY <2>1, <2>2
<1>2. ASSUME NEW o \in Ops, Submit(o) \/ SubmitForced(o) \/ PromoteRetry(o)
      PROVE  RecordStep
  BY <1>2 DEF Submit, SubmitForced, PromoteRetry, RecordStep
<1>3. ASSUME NEW o \in Ops, Request(o) PROVE RecordStep
  <2>1. CASE ReadLive(o)
    <3>1. PICK limit \in StageStalls : EnrichOnRead(limit)
      BY <2>1 DEF ReadLive
    <3>2. QED
      BY <3>1, ReleasedStep DEF EnrichOnRead, RecordStep
  <2>2. CASE ReleaseStalledState(o)
    BY <2>2, ReleasedStep DEF ReleaseStalledState
  <2>3. CASE Accept(o)
    BY <2>3 DEF Accept, RecordStep
  <2>4. CASE SetInitialStatus(o)
    BY <2>4, TransitionedStep DEF SetInitialStatus, SetStatus
  <2>5. CASE EnqueueFails(o)
    BY <2>5, TransitionedStep DEF EnqueueFails
  <2>6. CASE Reject(o) \/ Enqueue(o)
    BY <2>6 DEF Reject, Enqueue, RecordStep
  <2>7. QED
    BY <1>3, <2>1, <2>2, <2>3, <2>4, <2>5, <2>6 DEF Request
<1>4. ASSUME NEW w \in Workers, Work(w) PROVE RecordStep
  <2>1. ASSUME NEW o \in Ops, Dequeue(w, o) PROVE RecordStep
    BY <2>1, TransitionedStep DEF Dequeue
  <2>2. CASE Beat(w)
    BY <2>2, BusyHasJob, TransitionedStep DEF Beat, SetStatus
  <2>3. ASSUME NEW stage \in {"completed", "failed"}, Finish(w, stage) PROVE RecordStep
    BY <2>3, BusyHasJob, TransitionedStep DEF Finish, SetStatus
  <2>4. CASE AcquireLock(w) \/ SkipLocked(w) \/ Unlock(w) \/ Crash(w)
    BY <2>4 DEF AcquireLock, SkipLocked, Unlock, Crash, RecordStep
  <2>5. QED
    BY <1>4, <2>1, <2>2, <2>3, <2>4 DEF Work
<1>5. CASE Reset
  BY <1>5, ReleasedStep DEF Reset
<1>6. CASE WatchdogLockExpires \/ LockExpires \/ Tick \/ UNCHANGED vars
  BY <1>6 DEF WatchdogLockExpires, LockExpires, Tick, vars, RecordStep
<1>7. ASSUME NEW o \in Ops, SetInitialStatusFails(o) PROVE RecordStep
  BY <1>7, TransitionedStep DEF SetInitialStatusFails, RecordStep
<1>8. QED
  BY <1>1, <1>2, <1>3, <1>4, <1>5, <1>6, <1>7 DEF Next

LEMMA NamedStep ==
  ASSUME TypeOK, OneJobPerOperation, RecordNamed, [Next]_vars
  PROVE  RecordNamed'
<1>1. RecordStep
  BY EveryRecordStep
<1>2. QED
  BY <1>1, OpsAssumption DEF RecordStep, RecordNamed, NoRecord

-----------------------------------------------------------------------------
\* A step that neither touches the lock nor lets a worker past the lock check.
LEMMA LockUntouched ==
  ASSUME WorkingHoldsLock, UNCHANGED <<lock, deprived>>,
         \A w \in Workers : Executing(w)' => Executing(w) /\ job'[w] = job[w]
  PROVE  WorkingHoldsLock'
  BY DEF WorkingHoldsLock

\* Deleting the lock is harmless to the discipline: whoever held it has just
\* been recorded as deprived.
LEMMA DeletionDeprives ==
  ASSUME TypeOK, OneJobPerOperation, WorkingHoldsLock,
         DeleteLock(NoOp), UNCHANGED <<wpc, job>>
  PROVE  WorkingHoldsLock'
<1> SUFFICES ASSUME NEW w \in Workers, Executing(w), job[w] \notin deprived'
             PROVE  FALSE
  BY DEF WorkingHoldsLock, Executing
<1>1. deprived \subseteq deprived'
  BY DEF DeleteLock
<1>2. lock = job[w]
  BY <1>1 DEF WorkingHoldsLock
<1>3. lock # NoOp
  BY <1>2, BusyHasJob, OpsAssumption DEF Executing
<1>4. QED
  BY <1>2, <1>3 DEF DeleteLock

LEMMA LockStep ==
  ASSUME TypeOK, OneJobPerOperation, WorkingHoldsLock, [Next]_vars
  PROVE  WorkingHoldsLock'
<1> USE DEF redisVars, rqVars, callerVars, workerVars
<1>1. ASSUME NEW c \in Callers, Reconcile(c) \/ ReconcileDies(c)
      PROVE  WorkingHoldsLock'
  <2>1. CASE ReconcileCleanup(c)
    BY <2>1, DeletionDeprives DEF ReconcileCleanup
  <2>2. CASE ~ReconcileCleanup(c)
    <3>1. UNCHANGED <<lock, deprived, wpc, job>>
      BY <1>1, <2>2
      DEF Reconcile, ReconcileSkipped, ReconcileNothing, ReconcileRead,
          ReconcilePersist, ReconcileDies
    <3>2. QED
      BY <3>1, LockUntouched DEF Executing
  <2>3. QED
    BY <2>1, <2>2
<1>2. ASSUME NEW o \in Ops,
             Submit(o) \/ SubmitForced(o) \/ SetInitialStatusFails(o) \/ PromoteRetry(o)
      PROVE  WorkingHoldsLock'
  BY <1>2, LockUntouched
  DEF Submit, SubmitForced, SetInitialStatusFails, PromoteRetry, Executing
<1>3. ASSUME NEW o \in Ops, Request(o) PROVE WorkingHoldsLock'
  <2>1. CASE ReadLive(o)
    <3>1. PICK limit \in StageStalls : EnrichOnRead(limit)
      BY <2>1 DEF ReadLive
    <3>2. CASE Stalled(status, limit) /\ ~wdLock
      BY <2>1, <3>1, <3>2, DeletionDeprives DEF ReadLive, EnrichOnRead
    <3>3. CASE ~(Stalled(status, limit) /\ ~wdLock)
      BY <2>1, <3>1, <3>3, LockUntouched DEF ReadLive, EnrichOnRead, Executing
    <3>4. QED
      BY <3>2, <3>3
  <2>2. CASE ReleaseStalledState(o)
    BY <2>2, DeletionDeprives DEF ReleaseStalledState
  <2>3. CASE Reject(o) \/ Accept(o) \/ SetInitialStatus(o) \/ Enqueue(o) \/ EnqueueFails(o)
    BY <2>3, LockUntouched
    DEF Reject, Accept, SetInitialStatus, Enqueue, EnqueueFails, Executing
  <2>4. QED
    BY <1>3, <2>1, <2>2, <2>3 DEF Request
<1>4. ASSUME NEW w \in Workers, Work(w) PROVE WorkingHoldsLock'
  <2>1. ASSUME NEW o \in Ops, Dequeue(w, o) PROVE WorkingHoldsLock'
    BY <2>1, LockUntouched DEF Dequeue, Executing, TypeOK
  <2>2. CASE AcquireLock(w)
    \* The only worker whose claim can be new is w, and any other one with a
    \* lock of its own would have kept w out.
    <3>1. /\ lock' = job[w]
          /\ deprived' = deprived \ {job[w]}
          /\ lock \in {NoOp, job[w]}
          /\ wpc' = [wpc EXCEPT ![w] = "locked"]
          /\ job' = job
          /\ wpc[w] = "begin"
      BY <2>2 DEF AcquireLock
    <3>2. ASSUME NEW v \in Workers, Executing(v)', job[v] \notin deprived'
          PROVE  job[w] = job[v]
      <4>1. CASE v = w
        BY <4>1
      <4>2. CASE v # w
        <5>1. Executing(v) /\ job[v] \in Ops
          BY <3>1, <3>2, <4>2, BusyHasJob DEF Executing, TypeOK
        <5>2. job[v] # job[w]
          BY <4>2, <5>1, OpsAssumption DEF OneJobPerOperation
        <5>3. lock = job[v]
          BY <3>1, <3>2, <5>1, <5>2 DEF WorkingHoldsLock
        <5>4. QED
          BY <3>1, <5>1, <5>2, <5>3, OpsAssumption
      <4>3. QED
        BY <4>1, <4>2
    <3>3. QED
      BY <3>1, <3>2 DEF WorkingHoldsLock
  <2>3. CASE SkipLocked(w)
    BY <2>3, LockUntouched DEF SkipLocked, Executing, TypeOK
  <2>4. CASE Beat(w)
    BY <2>4, LockUntouched DEF Beat, Executing, TypeOK
  <2>5. ASSUME NEW stage \in {"completed", "failed"}, Finish(w, stage)
        PROVE  WorkingHoldsLock'
    BY <2>5, LockUntouched DEF Finish, Executing, TypeOK
  <2>6. CASE Unlock(w)
    <3>1. /\ DeleteLock(job[w])
          /\ wpc' = [wpc EXCEPT ![w] = "idle"]
          /\ job' = [job EXCEPT ![w] = NoOp]
      BY <2>6 DEF Unlock
    <3>2. ASSUME NEW v \in Workers, Executing(v)', job'[v] \notin deprived'
          PROVE  FALSE
      <4>1. v # w /\ Executing(v) /\ job'[v] = job[v]
        BY <3>1, <3>2 DEF Executing, TypeOK
      <4>2. job[v] \in Ops /\ job[v] # job[w]
        BY <4>1, BusyHasJob, OpsAssumption DEF Executing, OneJobPerOperation
      <4>3. deprived \subseteq deprived'
        BY <3>1 DEF DeleteLock
      <4>4. lock = job[v]
        BY <3>2, <4>1, <4>3 DEF WorkingHoldsLock
      <4>5. QED
        BY <3>1, <3>2, <4>1, <4>2, <4>4, OpsAssumption DEF DeleteLock
    <3>3. QED
      BY <3>2 DEF WorkingHoldsLock
  <2>7. CASE Crash(w)
    BY <2>7, LockUntouched DEF Crash, Executing, TypeOK
  <2>8. QED
    BY <1>4, <2>1, <2>2, <2>3, <2>4, <2>5, <2>6, <2>7 DEF Work
<1>5. CASE Reset
  BY <1>5, DeletionDeprives DEF Reset
<1>6. CASE LockExpires
  BY <1>6, DeletionDeprives DEF LockExpires
<1>7. CASE WatchdogLockExpires \/ Tick \/ UNCHANGED vars
  BY <1>7, LockUntouched DEF WatchdogLockExpires, Tick, vars, Executing
<1>8. QED
  BY <1>1, <1>2, <1>3, <1>4, <1>5, <1>6, <1>7 DEF Next

-----------------------------------------------------------------------------
\* The inductive invariant: types, one job per operation, named records and
\* the lock discipline hold in every reachable state, however long a stage is
\* silent and whatever the watchdog, the operator and the clocks do.
THEOREM LockDisciplineHolds == Spec => []LockDiscipline
<1>1. Init => LockDiscipline
  <2> SUFFICES ASSUME Init PROVE LockDiscipline
    OBVIOUS
  <2>1. TypeOK
    BY InitType
  <2>2. OneJobPerOperation /\ WorkingHoldsLock
    BY OpsAssumption DEF Init, OneJobPerOperation, WorkingHoldsLock, Executing
  <2>3. RecordNamed
    BY DEF Init, RecordNamed
  <2>4. QED
    BY <2>1, <2>2, <2>3 DEF LockDiscipline
<1>2. LockDiscipline /\ [Next]_vars => LockDiscipline'
  BY TypeStep, JobsStep, NamedStep, LockStep DEF LockDiscipline
<1>3. QED
  BY <1>1, <1>2, PTL DEF Spec

\* Every variable of the orchestration keeps its type.
THEOREM TypeCorrect == Spec => []TypeOK
<1>1. LockDiscipline => TypeOK
  BY DEF LockDiscipline
<1>2. QED
  BY <1>1, LockDisciplineHolds, PTL

\* A pipeline that nobody deprived of the refresh lock holds it while it
\* executes (execute's SET NX and finally clause).
THEOREM WorkingHoldsLockHolds == Spec => []WorkingHoldsLock
<1>1. LockDiscipline => WorkingHoldsLock
  BY DEF LockDiscipline
<1>2. QED
  BY <1>1, LockDisciplineHolds, PTL

\* Two pipelines execute at once only if one of them was deprived of its lock
\* while it ran.
THEOREM OverlapNeedsDeprivationHolds == Spec => []OverlapNeedsDeprivation
<1>1. LockDiscipline => OverlapNeedsDeprivation
  <2> SUFFICES ASSUME LockDiscipline,
                      NEW w1 \in Workers, NEW w2 \in Workers, w1 # w2,
                      Executing(w1), Executing(w2),
                      job[w1] \notin deprived, job[w2] \notin deprived
               PROVE  FALSE
    BY DEF OverlapNeedsDeprivation
  <2>1. job[w1] = lock /\ job[w2] = lock
    BY DEF LockDiscipline, WorkingHoldsLock
  <2>2. job[w1] \in Ops
    BY BusyHasJob DEF LockDiscipline, Executing
  <2>3. QED
    BY <2>1, <2>2, OpsAssumption DEF LockDiscipline, OneJobPerOperation
<1>2. QED
  BY <1>1, LockDisciplineHolds, PTL

\* The record of an active operation is only ever rewritten for that
\* operation or dropped, never handed to another one.
THEOREM RecordNotStolenHolds == Spec => RecordNotStolen
<1>1. LockDiscipline /\ [Next]_vars
      => [Active(record) => record'.op \in {record.op, NoOp}]_vars
  <2> SUFFICES ASSUME LockDiscipline, [Next]_vars, Active(record)
               PROVE  record'.op \in {record.op, NoOp}
    OBVIOUS
  <2>1. RecordStep
    BY EveryRecordStep DEF LockDiscipline
  <2>2. record.op # NoOp
    BY DEF LockDiscipline, RecordNamed, Active, NoRecord
  <2>3. QED
    BY <2>1, <2>2 DEF RecordStep, NoRecord
<1>2. QED
  BY <1>1, LockDisciplineHolds, PTL DEF Spec, RecordNotStolen

-----------------------------------------------------------------------------
\* A completed record belongs to an operation whose job is over: its request
\* was answered, and no worker will start or repeat the pipeline, except one
\* that RQ handed a promoted retry to.
CompletedRests ==
  record.state = "completed" =>
    /\ record.op \in Ops
    /\ pc[record.op] = "accepted"
    /\ \/ Promoted(record.op)
       \/ /\ record.op \notin queued
          /\ \A w \in Workers : job[w] = record.op => wpc[w] = "unlock"

\* RQ counts a retry before it schedules it.
DelayedWasRetried == \A o \in delayed : retries[o] > 0

LEMMA RetriedStep ==
  ASSUME TypeOK, OneJobPerOperation, DelayedWasRetried, [Next]_vars
  PROVE  DelayedWasRetried'
<1> USE DEF redisVars, rqVars, callerVars, workerVars
<1>1. ASSUME NEW w \in Workers, Crash(w) PROVE DelayedWasRetried'
  <2>1. job[w] \in Ops
    BY <1>1, BusyHasJob DEF Crash
  <2>2. QED
    BY <1>1, <2>1 DEF Crash, DelayedWasRetried, TypeOK
<1>2. ASSUME NEW w \in Workers, Work(w), ~Crash(w) PROVE DelayedWasRetried'
  BY <1>2
  DEF Work, Dequeue, AcquireLock, SkipLocked, Beat, Finish, Unlock, DelayedWasRetried
<1>3. ASSUME NEW c \in Callers, Reconcile(c) \/ ReconcileDies(c) PROVE DelayedWasRetried'
  BY <1>3
  DEF Reconcile, ReconcileSkipped, ReconcileNothing, ReconcileRead, ReconcilePersist,
      ReconcileCleanup, ReconcileDies, DelayedWasRetried
<1>4. ASSUME NEW o \in Ops,
             Submit(o) \/ SubmitForced(o) \/ Request(o) \/ SetInitialStatusFails(o)
               \/ PromoteRetry(o)
      PROVE  DelayedWasRetried'
  BY <1>4
  DEF Submit, SubmitForced, Request, ReadLive, ReleaseStalledState, Reject, Accept,
      SetInitialStatus, SetInitialStatusFails, Enqueue, EnqueueFails, PromoteRetry,
      DelayedWasRetried
<1>5. CASE WatchdogLockExpires \/ LockExpires \/ Reset \/ Tick \/ UNCHANGED vars
  BY <1>5
  DEF WatchdogLockExpires, LockExpires, Reset, Tick, vars, DelayedWasRetried
<1>6. QED
  BY <1>1, <1>2, <1>3, <1>4, <1>5 DEF Next

\* A step that leaves RQ and the workers alone, and writes no completion.
LEMMA RestsWithoutJobs ==
  ASSUME TypeOK, CompletedRests, record' = record \/ record'.state # "completed",
         UNCHANGED <<queued, delayed, retries, wpc, job>>,
         \A o \in Ops : pc[o] = "accepted" => pc'[o] = "accepted"
  PROVE  CompletedRests'
  BY DEF CompletedRests, Promoted

\* What the callers, the operator and the clock write to the record: nothing,
\* a release, or a state of an operation that has not been answered yet.
LEMMA ReleasedWritesNoCompletion ==
  ASSUME NEW o, record' = Released(record, o)
  PROVE  record' = record \/ record'.state # "completed"
  BY DEF Released, NoRecord

LEMMA TransitionedWritesNoCompletion ==
  ASSUME NEW o, NEW state, state # "completed", record' = Transitioned(record, o, state)
  PROVE  record' = record \/ record'.state # "completed"
  BY DEF Transitioned

LEMMA CallerRests ==
  ASSUME TypeOK, CompletedRests, NEW c \in Callers,
         Reconcile(c) \/ ReconcileDies(c)
  PROVE  CompletedRests'
<1> USE DEF redisVars, rqVars, callerVars, workerVars
<1>1. record' = record \/ record'.state # "completed"
  BY ReleasedWritesNoCompletion
  DEF Reconcile, ReconcileSkipped, ReconcileNothing, ReconcileRead, ReconcilePersist,
      ReconcileCleanup, ReconcileDies
<1>2. UNCHANGED <<queued, delayed, retries, wpc, job>>
  BY DEF Reconcile, ReconcileSkipped, ReconcileNothing, ReconcileRead, ReconcilePersist,
         ReconcileCleanup, ReconcileDies
<1>3. pc[c] # "accepted" /\ \E next : pc' = [pc EXCEPT ![c] = next]
  BY DEF Reconcile, ReconcileSkipped, ReconcileNothing, ReconcileRead, ReconcilePersist,
         ReconcileCleanup, ReconcileDies, ReconcileStart
<1>4. \A o \in Ops : pc[o] = "accepted" => pc'[o] = "accepted"
  BY <1>3 DEF TypeOK, Callers
<1>5. QED
  BY <1>1, <1>2, <1>4, RestsWithoutJobs

LEMMA RequestRests ==
  ASSUME TypeOK, OneJobPerOperation, CompletedRests, NEW o \in Ops,
         Submit(o) \/ SubmitForced(o) \/ Request(o) \/ SetInitialStatusFails(o)
  PROVE  CompletedRests'
<1> USE DEF redisVars, rqVars, callerVars, workerVars
<1>1. \A p \in Ops : pc[p] = "accepted" => pc'[p] = "accepted"
  <2>1. pc[o] # "accepted"
    BY DEF Submit, SubmitForced, Request, ReadLive, ReleaseStalledState, Reject, Accept,
           SetInitialStatus, SetInitialStatusFails, Enqueue, EnqueueFails
  <2>2. \E next : pc' = [pc EXCEPT ![o] = next]
    <3>1. CASE ReadLive(o)
      BY <3>1 DEF ReadLive
    <3>2. CASE ~ReadLive(o)
      BY <3>2 DEF Submit, SubmitForced, Request, ReleaseStalledState, Reject, Accept,
                  SetInitialStatus, SetInitialStatusFails, Enqueue, EnqueueFails
    <3>3. QED
      BY <3>1, <3>2
  <2>3. QED
    BY <2>1, <2>2 DEF TypeOK, Callers
<1>2. record' = record \/ record'.state # "completed"
  BY ReleasedWritesNoCompletion, TransitionedWritesNoCompletion
  DEF Submit, SubmitForced, Request, ReadLive, EnrichOnRead, ReleaseStalledState, Reject,
      Accept, SetInitialStatus, SetInitialStatusFails, SetStatus, LifecycleOf, Enqueue,
      EnqueueFails
<1>3. CASE ~Enqueue(o)
  <2>1. UNCHANGED <<queued, delayed, retries, wpc, job>>
    BY <1>3 DEF Submit, SubmitForced, Request, ReadLive, ReleaseStalledState, Reject,
                Accept, SetInitialStatus, SetInitialStatusFails, EnqueueFails
  <2>2. QED
    BY <1>1, <1>2, <2>1, RestsWithoutJobs
<1>4. CASE Enqueue(o)
  <2>1. pc[o] # "accepted" /\ queued' = queued \cup {o} /\ record' = record
        /\ UNCHANGED <<delayed, retries, wpc, job>>
    BY <1>4 DEF Enqueue
  <2>2. QED
    BY <1>1, <2>1 DEF CompletedRests, Promoted
<1>5. QED
  BY <1>3, <1>4

LEMMA WorkerRests ==
  ASSUME TypeOK, OneJobPerOperation, RecordNamed, CompletedRests,
         NEW w \in Workers, Work(w)
  PROVE  CompletedRests'
<1> USE DEF redisVars, rqVars, callerVars, workerVars
<1>1. ASSUME NEW o \in Ops, Dequeue(w, o) PROVE CompletedRests'
  <2>1. record' = record \/ record'.state # "completed"
    BY <1>1, TransitionedWritesNoCompletion DEF Dequeue
  <2>2. SUFFICES ASSUME record' = record, record.state = "completed" PROVE CompletedRests'
    BY <2>1 DEF CompletedRests
  <2>3. /\ job' = [job EXCEPT ![w] = o]
        /\ wpc' = [wpc EXCEPT ![w] = "begin"]
        /\ queued' = queued \ {o}
        /\ o \in queued
        /\ UNCHANGED <<delayed, retries, pc>>
    BY <1>1 DEF Dequeue
  <2>4. CASE o = record.op
    <3>1. Promoted(o)
      BY <2>2, <2>3, <2>4 DEF CompletedRests
    <3>2. QED
      BY <2>2, <2>3, <2>4, <3>1 DEF CompletedRests, Promoted
  <2>5. CASE o # record.op
    <3>1. \A v \in Workers : job'[v] = record.op => job[v] = record.op /\ wpc'[v] = wpc[v]
      BY <2>3, <2>5 DEF TypeOK
    <3>2. QED
      BY <2>2, <2>3, <3>1 DEF CompletedRests, Promoted
  <2>6. QED
    BY <2>4, <2>5
<1>2. CASE AcquireLock(w)
  <2>1. wpc[w] = "begin" /\ wpc' = [wpc EXCEPT ![w] = "locked"]
        /\ UNCHANGED <<record, queued, delayed, retries, pc, job>>
    BY <1>2 DEF AcquireLock
  <2>2. QED
    BY <2>1 DEF CompletedRests, Promoted, TypeOK
<1>3. CASE SkipLocked(w) \/ Unlock(w)
  <2>1. wpc' = [wpc EXCEPT ![w] = "idle"] /\ job' = [job EXCEPT ![w] = NoOp]
        /\ UNCHANGED <<record, queued, delayed, retries, pc>>
    BY <1>3 DEF SkipLocked, Unlock
  <2>2. QED
    BY <2>1, OpsAssumption DEF CompletedRests, Promoted, TypeOK
<1>4. CASE Beat(w)
  <2>1. record' = record \/ record'.state # "completed"
    BY <1>4, TransitionedWritesNoCompletion DEF Beat, SetStatus, LifecycleOf
  <2>2. SUFFICES ASSUME record' = record, record.state = "completed" PROVE CompletedRests'
    BY <2>1 DEF CompletedRests
  <2>3. wpc[w] \in {"locked", "working"} /\ wpc' = [wpc EXCEPT ![w] = "working"]
        /\ UNCHANGED <<queued, delayed, retries, pc, job>>
    BY <1>4 DEF Beat
  <2>4. QED
    BY <2>2, <2>3 DEF CompletedRests, Promoted, TypeOK
<1>5. ASSUME NEW stage \in {"completed", "failed"}, Finish(w, stage) PROVE CompletedRests'
  <2>1. job[w] \in Ops
    BY <1>5, BusyHasJob DEF Finish
  <2>2. wpc[w] = "working" /\ wpc' = [wpc EXCEPT ![w] = "unlock"]
        /\ UNCHANGED <<queued, delayed, retries, pc, job>>
    BY <1>5 DEF Finish
  <2>3. record' = record \/ record' = [op |-> job[w], state |-> stage]
    BY <1>5 DEF Finish, SetStatus, LifecycleOf, Transitioned
  <2>4. CASE record' = record
    BY <2>2, <2>4 DEF CompletedRests, Promoted, TypeOK
  <2>5. CASE record' = [op |-> job[w], state |-> stage]
    <3>1. pc[job[w]] = "accepted" /\ job[w] \notin queued
      BY <2>1 DEF OneJobPerOperation
    <3>2. \A v \in Workers : job[v] = job[w] => wpc'[v] = "unlock"
      BY <2>1, <2>2, OpsAssumption DEF OneJobPerOperation, TypeOK
    <3>3. QED
      BY <2>1, <2>2, <2>5, <3>1, <3>2 DEF CompletedRests
  <2>6. QED
    BY <2>3, <2>4, <2>5
<1>6. CASE Crash(w)
  <2>1. job[w] \in Ops /\ job[w] \notin queued
    BY <1>6, BusyHasJob DEF Crash, OneJobPerOperation
  <2>2. wpc' = [wpc EXCEPT ![w] = "idle"] /\ job' = [job EXCEPT ![w] = NoOp]
        /\ UNCHANGED <<record, queued, pc>>
    BY <1>6 DEF Crash
  <2>3. \A o \in Ops : o # job[w] => (Promoted(o)' <=> Promoted(o))
    BY <1>6, <2>1 DEF Crash, Promoted, TypeOK
  <2>4. \A v \in Workers : job'[v] # job[w]
    BY <2>1, <2>2, OpsAssumption DEF OneJobPerOperation, TypeOK
  <2>5. QED
    BY <2>1, <2>2, <2>3, <2>4, OpsAssumption DEF CompletedRests, TypeOK
<1>7. QED
  BY <1>1, <1>2, <1>3, <1>4, <1>5, <1>6 DEF Work

LEMMA RestsStep ==
  ASSUME LockDiscipline, DelayedWasRetried, CompletedRests, [Next]_vars
  PROVE  CompletedRests'
<1> USE DEF redisVars, rqVars, callerVars, workerVars
<1>1. TypeOK /\ OneJobPerOperation /\ RecordNamed
  BY DEF LockDiscipline
<1>2. ASSUME NEW o \in Ops, PromoteRetry(o) PROVE CompletedRests'
  <2>1. o \in delayed /\ delayed' = delayed \ {o} /\ queued' = queued \cup {o}
        /\ UNCHANGED <<record, retries, pc, wpc, job>>
    BY <1>2 DEF PromoteRetry
  <2>2. retries[o] > 0
    BY <2>1 DEF DelayedWasRetried
  <2>3. QED
    BY <2>1, <2>2 DEF CompletedRests, Promoted
<1>3. CASE WatchdogLockExpires \/ LockExpires \/ Reset \/ Tick \/ UNCHANGED vars
  <2>1. record' = record \/ record'.state # "completed"
    BY <1>3, ReleasedWritesNoCompletion
    DEF WatchdogLockExpires, LockExpires, Reset, Tick, vars
  <2>2. UNCHANGED <<queued, delayed, retries, pc, wpc, job>>
    BY <1>3 DEF WatchdogLockExpires, LockExpires, Reset, Tick, vars
  <2>3. QED
    BY <1>1, <2>1, <2>2, RestsWithoutJobs
<1>4. QED
  BY <1>1, <1>2, <1>3, CallerRests, RequestRests, WorkerRests DEF Next

\* What a step does to a completed record: nothing, a release, or a write of
\* the one worker that RQ gave a promoted retry of the same operation.
LEMMA CompletedStep ==
  ASSUME LockDiscipline, CompletedRests, [Next]_vars, record.state = "completed"
  PROVE  record'.op # record.op \/ record' = record \/ Promoted(record.op)
<1> USE DEF redisVars, rqVars, callerVars, workerVars
<1> DEFINE Kept == record'.op # record.op \/ record' = record
<1>1. record.op \in Ops /\ record.op # NoOp /\ pc[record.op] = "accepted"
  BY OpsAssumption DEF CompletedRests
<1>2. ASSUME NEW o, record' = Released(record, o) PROVE Kept
  BY <1>1, <1>2 DEF Released, NoRecord
<1>3. ASSUME NEW o, NEW state, o # record.op, record' = Transitioned(record, o, state)
      PROVE  Kept
  BY <1>1, <1>3 DEF Transitioned
<1>4. ASSUME NEW c \in Callers, Reconcile(c) \/ ReconcileDies(c) PROVE Kept
  BY <1>2, <1>4
  DEF Reconcile, ReconcileSkipped, ReconcileNothing, ReconcileRead, ReconcilePersist,
      ReconcileCleanup, ReconcileDies
<1>5. ASSUME NEW o \in Ops, Submit(o) \/ SubmitForced(o) \/ PromoteRetry(o) PROVE Kept
  BY <1>5 DEF Submit, SubmitForced, PromoteRetry
<1>6. ASSUME NEW o \in Ops, Request(o) PROVE Kept
  <2>1. CASE ReadLive(o) \/ ReleaseStalledState(o)
    BY <1>2, <2>1 DEF ReadLive, EnrichOnRead, ReleaseStalledState
  <2>2. CASE Accept(o) \/ SetInitialStatus(o) \/ EnqueueFails(o)
    <3>1. o # record.op
      BY <1>1, <2>2 DEF Accept, SetInitialStatus, EnqueueFails
    <3>2. CASE Accept(o)
      BY <3>1, <3>2 DEF Accept
    <3>3. CASE SetInitialStatus(o) \/ EnqueueFails(o)
      BY <1>3, <3>1, <3>3 DEF SetInitialStatus, SetStatus, EnqueueFails
    <3>4. QED
      BY <2>2, <3>2, <3>3
  <2>3. CASE Reject(o) \/ Enqueue(o)
    BY <2>3 DEF Reject, Enqueue
  <2>4. QED
    BY <1>6, <2>1, <2>2, <2>3 DEF Request
<1>7. ASSUME NEW w \in Workers, Work(w) PROVE Kept \/ Promoted(record.op)
  <2>1. ASSUME NEW o \in Ops, Dequeue(w, o) PROVE Kept \/ Promoted(record.op)
    <3>1. CASE o = record.op
      BY <2>1, <3>1 DEF Dequeue, CompletedRests
    <3>2. CASE o # record.op
      BY <1>3, <2>1, <3>2 DEF Dequeue
    <3>3. QED
      BY <3>1, <3>2
  <2>2. ASSUME wpc[w] \in {"locked", "working"}, NEW stage, SetStatus(job[w], stage)
        PROVE  Kept \/ Promoted(record.op)
    <3>1. CASE job[w] = record.op
      BY <2>2, <3>1 DEF CompletedRests
    <3>2. CASE job[w] # record.op
      BY <1>3, <2>2, <3>2 DEF SetStatus
    <3>3. QED
      BY <3>1, <3>2
  <2>3. CASE Beat(w)
    BY <2>2, <2>3 DEF Beat
  <2>4. ASSUME NEW stage \in {"completed", "failed"}, Finish(w, stage)
        PROVE  Kept \/ Promoted(record.op)
    BY <2>2, <2>4 DEF Finish
  <2>5. CASE AcquireLock(w) \/ SkipLocked(w) \/ Unlock(w) \/ Crash(w)
    BY <2>5 DEF AcquireLock, SkipLocked, Unlock, Crash
  <2>6. QED
    BY <1>7, <2>1, <2>3, <2>4, <2>5 DEF Work
<1>8. CASE Reset
  BY <1>2, <1>8 DEF Reset
<1>9. CASE WatchdogLockExpires \/ LockExpires \/ Tick \/ UNCHANGED vars
  BY <1>9 DEF WatchdogLockExpires, LockExpires, Tick, vars
<1>10. ASSUME NEW o \in Ops, SetInitialStatusFails(o) PROVE Kept
  <2>1. o # record.op
    BY <1>1, <1>10 DEF SetInitialStatusFails
  <2>2. QED
    BY <1>3, <1>10, <2>1 DEF SetInitialStatusFails
<1>11. QED
  BY <1>4, <1>5, <1>6, <1>7, <1>8, <1>9, <1>10 DEF Next

\* Once the lifecycle record of an operation says completed, only the repeat
\* of a pipeline that RQ promoted after a crash makes it say anything else of
\* that operation (set_initial_status comes before the enqueue).
THEOREM CompletedIsFinalHolds == Spec => CompletedIsFinal
<1>1. Init => DelayedWasRetried /\ CompletedRests
  BY DEF Init, DelayedWasRetried, CompletedRests, NoRecord
<1>2. LockDiscipline /\ DelayedWasRetried /\ CompletedRests /\ [Next]_vars
      => DelayedWasRetried' /\ CompletedRests'
  BY RetriedStep, RestsStep DEF LockDiscipline
<1>3. LockDiscipline /\ CompletedRests /\ [Next]_vars
      => [record.state = "completed" =>
            record'.op # record.op \/ record' = record \/ Promoted(record.op)]_vars
  BY CompletedStep
<1>4. QED
  BY <1>1, <1>2, <1>3, LockDisciplineHolds, PTL DEF Spec, CompletedIsFinal

-----------------------------------------------------------------------------
(* The calm environment.                                                   *)

LiveOps == {o \in Ops : Live(o)}

\* A request that has written a blob for its operation.
Late == {"enqueue", "accepted", "dispatch_failed"}

\* A blob, in Redis or in somebody's hands, is of an operation that has come so
\* far; if that one is live, the blob is as it was written.
FreshBlob(s, points, live) ==
  /\ s.op = NoOp => s.stage = "idle"
  /\ s.op # NoOp => points[s.op] \in Late
  /\ s.op \in live => Running(s) /\ s.age = 0

\* What the caller c at a point knows of the blob v it has read.
SoundView(c, point, v, live) ==
  /\ point # "force_read"
  /\ point = "persist" => v.stage # "idle"
  /\ point = "cleanup" => v.stage = "stalled"
  /\ point = "release" => c \in Ops /\ v.op \notin live /\ (v.op = NoOp => live = {})

OneInFlight == \A o, p \in Ops : InFlight(o) /\ InFlight(p) => o = p

LiveIsRecorded == \A o \in LiveOps : record.op = o /\ Active(record)

\* Before the first blob a live operation can only be about to write it.
LiveIsShown == status.op = NoOp => \A o \in LiveOps : pc[o] = "init"

BlobsAreFresh ==
  /\ FreshBlob(status, pc, LiveOps)
  /\ \A c \in Callers : FreshBlob(view[c], pc, LiveOps)

ViewsAreSound == \A c \in Callers : SoundView(c, pc[c], view[c], LiveOps)

CalmInv ==
  /\ OneInFlight
  /\ LiveIsRecorded
  /\ LiveIsShown
  /\ BlobsAreFresh
  /\ ViewsAreSound

LEMMA IdleIsFresh == ASSUME NEW points, NEW live \in SUBSET Ops
                     PROVE FreshBlob(IdleStatus, points, live)
BY OpsAssumption DEF FreshBlob, IdleStatus

\* What is known of a blob stays known when operations end and requests go on.
LEMMA BlobStaysFresh ==
  ASSUME NEW s \in StatusType, NEW points, NEW live \in SUBSET Ops,
         NEW later, NEW left \in SUBSET live, FreshBlob(s, points, live),
         \A o \in Ops : points[o] \in Late => later[o] \in Late
  PROVE /\ FreshBlob(s, later, left)
        /\ \A limit \in StageStalls : FreshBlob(Evaluated(s, limit), later, left)
<1>1. FreshBlob(s, later, left)
  BY DEF FreshBlob, StatusType, AnyOp
<1>2. ASSUME NEW limit \in StageStalls PROVE FreshBlob(Evaluated(s, limit), later, left)
  <2>1. Evaluated(s, limit).op = s.op
    BY DEF Evaluated, StatusType
  <2>2. CASE ~Stalled(s, limit)
    BY <1>1, <2>2 DEF Evaluated
  <2>3. CASE Stalled(s, limit)
    <3>1. s.op \notin live /\ s.op # NoOp
      BY <2>3, AgeAssumption DEF FreshBlob, Stalled
    <3> QED
      BY <1>1, <2>1, <3>1 DEF FreshBlob
  <2> QED
    BY <2>2, <2>3
<1> QED
  BY <1>1, <1>2

LEMMA ViewStaysSound ==
  ASSUME NEW c, NEW point, NEW v, NEW live, NEW left \in SUBSET live,
         SoundView(c, point, v, live)
  PROVE SoundView(c, point, v, left)
BY DEF SoundView

\* Releasing an operation that is not live leaves the record of a live one.
LEMMA ReleaseSparesLive ==
  ASSUME CalmInv, NEW p, p \notin LiveOps, p # NoOp, NEW o \in LiveOps
  PROVE Released(record, p) = record
BY OpsAssumption DEF CalmInv, LiveIsRecorded, Released, LiveOps

LEMMA OneLive ==
  ASSUME CalmInv, NEW o \in LiveOps, NEW p \in LiveOps PROVE o = p
BY DEF CalmInv, LiveIsRecorded

\* A job is of a request that has been answered, and in one place.
LEMMA LiveJobs ==
  ASSUME OneJobPerOperation, NEW o \in Ops
  PROVE /\ o \in queued => pc[o] = "accepted"
        /\ \A w \in Workers : job[w] = o => pc[o] = "accepted"
BY DEF OneJobPerOperation

\* A step of the caller c to the point l, which may put a blob into its hands
\* and another one into Redis.
LEMMA CallerKeepsCalm ==
  ASSUME LockDiscipline, CalmInv, NEW c \in Callers, NEW l \in CallerStates,
         pc' = [pc EXCEPT ![c] = l], LiveOps' \subseteq LiveOps,
         c \in Ops => \/ InFlight(c)
                      \/ \A p \in Ops : ~InFlight(p),
         pc[c] \in Late => l \in Late,
         view' = view
           \/ \E v \in StatusType :
                view' = [view EXCEPT ![c] = v] /\ FreshBlob(v, pc, LiveOps),
         FreshBlob(status', pc', LiveOps'),
         \A o \in LiveOps' : record'.op = o /\ Active(record'),
         status'.op = NoOp => status.op = NoOp /\ pc[c] # "init",
         SoundView(c, l, view'[c], LiveOps)
  PROVE CalmInv'
<1>1. /\ pc \in [Callers -> CallerStates] /\ view \in [Callers -> StatusType]
      /\ Ops \subseteq Callers
  BY DEF LockDiscipline, TypeOK, Callers
<1>2. pc'[c] = l /\ \A d \in Callers \ {c} : pc'[d] = pc[d] /\ view'[d] = view[d]
  BY <1>1
<1>3. OneInFlight'
  BY <1>1, <1>2 DEF CalmInv, OneInFlight, InFlight
<1>4. LiveIsRecorded'
  BY DEF LiveIsRecorded
<1>5. LiveIsShown'
  <2>1. SUFFICES ASSUME status'.op = NoOp, NEW o \in LiveOps' PROVE pc'[o] = "init"
    BY DEF LiveIsShown
  <2>2. o \in LiveOps /\ o \in Ops /\ pc[o] = "init"
    BY <2>1 DEF CalmInv, LiveIsShown, LiveOps
  <2> QED
    BY <1>1, <1>2, <2>1, <2>2
<1>6. \A o \in Ops : pc[o] \in Late => pc'[o] \in Late
  BY <1>1, <1>2
<1>7. LiveOps \in SUBSET Ops /\ LiveOps' \in SUBSET LiveOps
  BY DEF LiveOps
<1>8. ASSUME NEW d \in Callers PROVE FreshBlob(view'[d], pc', LiveOps')
  <2>1. view'[d] \in StatusType /\ FreshBlob(view'[d], pc, LiveOps)
    BY <1>1 DEF CalmInv, BlobsAreFresh
  <2> QED
    BY <1>6, <1>7, <2>1, BlobStaysFresh
<1>9. ASSUME NEW d \in Callers PROVE SoundView(d, pc'[d], view'[d], LiveOps')
  <2>1. SoundView(d, pc'[d], view'[d], LiveOps)
    BY <1>2 DEF CalmInv, ViewsAreSound
  <2> QED
    BY <1>7, <2>1, ViewStaysSound
<1> QED
  BY <1>3, <1>4, <1>5, <1>8, <1>9 DEF CalmInv, BlobsAreFresh, ViewsAreSound

\* A step that moves no caller.
LEMMA OthersKeepCalm ==
  ASSUME LockDiscipline, CalmInv, UNCHANGED <<pc, view>>, LiveOps' \subseteq LiveOps,
         status' = status \/ (FreshBlob(status', pc, LiveOps') /\ status'.op # NoOp),
         \A o \in LiveOps' : record'.op = o /\ Active(record')
  PROVE CalmInv'
<1>1. LiveOps \in SUBSET Ops /\ LiveOps' \in SUBSET LiveOps
  BY DEF LiveOps
<1>2. OneInFlight' /\ LiveIsRecorded'
  BY DEF CalmInv, OneInFlight, InFlight, LiveIsRecorded
<1>3. LiveIsShown'
  BY DEF CalmInv, LiveIsShown
<1>4. FreshBlob(status', pc', LiveOps')
  <2>1. status \in StatusType /\ FreshBlob(status, pc, LiveOps)
    BY DEF LockDiscipline, TypeOK, CalmInv, BlobsAreFresh
  <2>2. FreshBlob(status, pc, LiveOps')
    BY <1>1, <2>1, BlobStaysFresh
  <2> QED
    BY <2>2
<1>5. ASSUME NEW c \in Callers
      PROVE FreshBlob(view'[c], pc', LiveOps') /\ SoundView(c, pc'[c], view'[c], LiveOps')
  <2>1. /\ view[c] \in StatusType /\ FreshBlob(view[c], pc, LiveOps)
        /\ SoundView(c, pc[c], view[c], LiveOps)
    BY DEF LockDiscipline, TypeOK, CalmInv, BlobsAreFresh, ViewsAreSound
  <2>2. FreshBlob(view[c], pc, LiveOps') /\ SoundView(c, pc[c], view[c], LiveOps')
    BY <1>1, <2>1, BlobStaysFresh, ViewStaysSound
  <2> QED
    BY <2>2
<1> QED
  BY <1>2, <1>3, <1>4, <1>5 DEF CalmInv, BlobsAreFresh, ViewsAreSound

\* A caller elsewhere than at its first blob and its job makes nothing live.
LEMMA CallerMakesNoneLive ==
  ASSUME LockDiscipline, NEW c \in Callers, NEW l \in CallerStates \ {"init", "enqueue"},
         pc' = [pc EXCEPT ![c] = l], UNCHANGED <<queued, wpc, job>>
  PROVE LiveOps' \subseteq LiveOps
<1>1. \A o \in Ops : pc'[o] = pc[o] \/ pc'[o] = l
  BY DEF LockDiscipline, TypeOK, Callers
<1> QED
  BY <1>1 DEF LiveOps, Live

LEMMA ReconcileKeepsCalm ==
  ASSUME LockDiscipline, CalmInv, NEW c \in Callers, Reconcile(c) \/ ReconcileDies(c)
  PROVE CalmInv'
<1> USE DEF redisVars, rqVars, callerVars, workerVars
<1>0. /\ status \in StatusType /\ view[c] \in StatusType /\ IdleStatus \in StatusType
      /\ FreshBlob(status, pc, LiveOps) /\ FreshBlob(view[c], pc, LiveOps)
      /\ SoundView(c, pc[c], view[c], LiveOps)
      /\ LiveOps \in SUBSET Ops
  <2>1. IdleStatus \in StatusType
    BY AgeAssumption DEF IdleStatus, StatusType, AnyOp, Ages, Stages
  <2> QED
    BY <2>1 DEF LockDiscipline, TypeOK, CalmInv, BlobsAreFresh, ViewsAreSound, LiveOps
<1>1. PICK l \in CallerStates \ {"init", "enqueue"} : pc' = [pc EXCEPT ![c] = l]
  BY DEF Reconcile, ReconcileSkipped, ReconcileNothing, ReconcileRead,
         ReconcilePersist, ReconcileCleanup, ReconcileDies, ReconcileEnd, CallerStates
<1>2. UNCHANGED <<queued, wpc, job>>
  BY DEF Reconcile, ReconcileSkipped, ReconcileNothing, ReconcileRead,
         ReconcilePersist, ReconcileCleanup, ReconcileDies
<1>3. LiveOps' \subseteq LiveOps
  BY <1>1, <1>2, CallerMakesNoneLive
<1>4. /\ pc[c] \notin Late \cup {"init"}
      /\ c \in Ops => InFlight(c)
  BY OpsAssumption DEF Reconcile, ReconcileSkipped, ReconcileNothing, ReconcileRead,
     ReconcilePersist, ReconcileCleanup, ReconcileDies, ReconcileStart, Late, InFlight
<1>5. FreshBlob(status', pc', LiveOps') /\ (status'.op = NoOp => status.op = NoOp)
  <2>1. status' = status \/ (status' = view[c] /\ pc[c] = "persist")
    BY DEF Reconcile, ReconcileSkipped, ReconcileNothing, ReconcileRead,
           ReconcilePersist, ReconcileCleanup, ReconcileDies
  <2>2. \A o \in Ops : pc[o] \in Late => pc'[o] \in Late
    BY <1>1, <1>4 DEF LockDiscipline, TypeOK, Callers
  <2>3. /\ FreshBlob(status, pc', LiveOps') /\ FreshBlob(view[c], pc', LiveOps')
    BY <1>0, <1>3, <2>2, BlobStaysFresh
  <2>4. pc[c] = "persist" => view[c].op # NoOp
    BY <1>0 DEF SoundView, FreshBlob
  <2> QED
    BY <2>1, <2>3, <2>4
<1>6. ASSUME NEW o \in LiveOps' PROVE record'.op = o /\ Active(record')
  <2>1. o \in LiveOps /\ record.op = o /\ Active(record)
    BY <1>3 DEF CalmInv, LiveIsRecorded
  <2>2. CASE record' = record
    BY <2>1, <2>2
  <2>3. CASE ReconcileCleanup(c) /\ view[c].op # NoOp
    <3>1. record' = Released(record, view[c].op)
      BY <2>3 DEF ReconcileCleanup
    <3>2. view[c].op \notin LiveOps
      BY <1>0, <2>3 DEF ReconcileCleanup, SoundView, FreshBlob, Running
    <3> QED
      BY <2>1, <2>3, <3>1, <3>2, ReleaseSparesLive
  <2> QED
    BY <2>2, <2>3 DEF Reconcile, ReconcileSkipped, ReconcileNothing, ReconcileRead,
       ReconcilePersist, ReconcileCleanup, ReconcileDies
<1>7. /\ view' = view
         \/ \E v \in StatusType :
              view' = [view EXCEPT ![c] = v] /\ FreshBlob(v, pc, LiveOps)
      /\ SoundView(c, l, view'[c], LiveOps)
  <2>0. view \in [Callers -> StatusType] /\ pc'[c] = l
    BY <1>1 DEF LockDiscipline, TypeOK
  <2>1. FreshBlob(IdleStatus, pc, LiveOps)
    BY <1>0, IdleIsFresh
  <2>2. CASE ReconcileRead(c)
    <3>0. PICK limit \in StageStalls : view' = [view EXCEPT ![c] = Evaluated(status, limit)]
      BY <2>2 DEF ReconcileRead
    <3>1. /\ Evaluated(status, limit) \in StatusType
          /\ FreshBlob(Evaluated(status, limit), pc, LiveOps)
      BY <1>0, BlobTypes, BlobStaysFresh
    <3>2. l = "persist"
      BY <2>0, <2>2 DEF ReconcileRead, LockDiscipline, TypeOK
    <3>3. Evaluated(status, limit).stage # "idle"
      BY <1>0, <2>2 DEF ReconcileRead, Evaluated, Running, StatusType
    <3>4. view'[c] = Evaluated(status, limit)
      BY <2>0, <3>0
    <3> QED
      BY <3>0, <3>1, <3>2, <3>3, <3>4 DEF SoundView
  <2>3. CASE ReconcilePersist(c) /\ view[c].stage = "stalled"
    <3>1. view' = view /\ l = "cleanup"
      BY <2>0, <2>3 DEF ReconcilePersist, LockDiscipline, TypeOK
    <3> QED
      BY <2>3, <3>1 DEF SoundView
  <2>4. ASSUME l \in {"idle", "read"}, view' = view \/ Forget(c)
        PROVE /\ view' = view
                 \/ \E v \in StatusType :
                      view' = [view EXCEPT ![c] = v] /\ FreshBlob(v, pc, LiveOps)
              /\ SoundView(c, l, view'[c], LiveOps)
    <3>1. SoundView(c, l, view'[c], LiveOps)
      BY <2>4 DEF SoundView
    <3> QED
      BY <1>0, <2>1, <2>4, <3>1 DEF Forget
  <2>5. CASE ~ReconcileRead(c) /\ ~(ReconcilePersist(c) /\ view[c].stage = "stalled")
    <3>1. pc'[c] \in {"idle", "read"} /\ (view' = view \/ Forget(c))
      BY <2>0, <2>5 DEF Reconcile, ReconcileSkipped, ReconcileNothing, ReconcilePersist,
         ReconcileCleanup, ReconcileDies, ReconcileEnd, LockDiscipline, TypeOK
    <3> QED
      BY <2>0, <2>4, <3>1
  <2> QED
    BY <2>2, <2>3, <2>5
<1> QED
  BY <1>1, <1>3, <1>4, <1>5, <1>6, <1>7, CallerKeepsCalm

\* What the cases of a request have in common.
LEMMA RequestFacts ==
  ASSUME LockDiscipline, CalmInv, NEW o \in Ops
  PROVE /\ o \in Callers /\ pc \in [Callers -> CallerStates]
        /\ view \in [Callers -> StatusType]
        /\ status \in StatusType /\ IdleStatus \in StatusType
        /\ FreshBlob(status, pc, LiveOps) /\ FreshBlob(view[o], pc, LiveOps)
        /\ FreshBlob(IdleStatus, pc, LiveOps)
        /\ SoundView(o, pc[o], view[o], LiveOps)
        /\ LiveOps \in SUBSET Ops
<1>1. IdleStatus \in StatusType
  BY AgeAssumption DEF IdleStatus, StatusType, AnyOp, Ages, Stages
<1>2. LiveOps \in SUBSET Ops
  BY DEF LiveOps
<1> QED
  BY <1>1, <1>2, IdleIsFresh
  DEF LockDiscipline, TypeOK, CalmInv, BlobsAreFresh, ViewsAreSound, Callers

\* The read of the live status: what is released afterwards is not live.
LEMMA ReadKeepsCalm ==
  ASSUME LockDiscipline, CalmInv, NEW o \in Ops, ReadLive(o)
  PROVE CalmInv'
<1> USE DEF redisVars, rqVars, callerVars, workerVars
<1>0. /\ o \in Callers /\ pc \in [Callers -> CallerStates]
      /\ view \in [Callers -> StatusType]
      /\ status \in StatusType /\ FreshBlob(status, pc, LiveOps)
      /\ LiveOps \in SUBSET Ops
  BY RequestFacts
<1>1. PICK limit \in StageStalls, l \in {"release", "accept"} :
        /\ EnrichOnRead(limit)
        /\ pc' = [pc EXCEPT ![o] = l]
        /\ \/ /\ l = "release"
              /\ pc[o] = "force_read" \/ ReleaseWanted(Evaluated(status, limit))
              /\ view' = [view EXCEPT ![o] = Evaluated(status, limit)]
           \/ l = "accept" /\ view' = view
  BY DEF ReadLive
<1>2. pc[o] = "read"
  BY <1>0, RequestFacts DEF ReadLive, SoundView
<1>3. LiveOps' \subseteq LiveOps
  <2>1. l \in CallerStates \ {"init", "enqueue"} /\ UNCHANGED <<queued, wpc, job>>
    BY DEF ReadLive, CallerStates
  <2> QED
    BY <1>0, <1>1, <2>1, CallerMakesNoneLive
<1>4. /\ Evaluated(status, limit).op = status.op /\ Evaluated(status, limit) \in StatusType
      /\ FreshBlob(Evaluated(status, limit), pc, LiveOps)
      /\ FreshBlob(Evaluated(status, limit), pc', LiveOps') /\ FreshBlob(status, pc', LiveOps')
  <2>1. \A p \in Ops : pc[p] \in Late => pc'[p] \in Late
    BY <1>0, <1>1, <1>2 DEF Late
  <2>2. Evaluated(status, limit).op = status.op
    BY <1>0 DEF Evaluated, StatusType
  <2> QED
    BY <1>0, <1>3, <2>1, <2>2, BlobTypes, BlobStaysFresh
<1>5. status' \in {status, Evaluated(status, limit)}
  BY <1>1 DEF EnrichOnRead
<1>6. ASSUME NEW p \in LiveOps' PROVE record'.op = p /\ Active(record')
  <2>1. p \in LiveOps /\ record.op = p /\ Active(record)
    BY <1>3 DEF CalmInv, LiveIsRecorded
  <2>2. CASE record' = record
    BY <2>1, <2>2
  <2>3. CASE record' # record
    <3>1. record' = Released(record, status.op) /\ Stalled(status, limit) /\ status.op # NoOp
      BY <1>1, <2>3 DEF EnrichOnRead
    <3>2. status.op \notin LiveOps
      BY <1>0, <3>1, AgeAssumption DEF FreshBlob, Stalled
    <3> QED
      BY <2>1, <3>1, <3>2, ReleaseSparesLive
  <2> QED
    BY <2>2, <2>3
<1>7. SoundView(o, l, view'[o], LiveOps)
  <2>1. CASE l = "accept"
    BY <2>1 DEF SoundView
  <2>2. CASE l = "release"
    <3>1. ReleaseWanted(Evaluated(status, limit)) /\ view'[o] = Evaluated(status, limit)
      BY <1>0, <1>1, <1>2, <2>2
    <3>2. status.op \notin LiveOps
      <4>1. SUFFICES ASSUME status.op \in LiveOps PROVE FALSE
        OBVIOUS
      <4>2. Running(status) /\ status.age = 0
        BY <1>0, <4>1 DEF FreshBlob
      <4>3. Evaluated(status, limit) = status
        BY <4>2, AgeAssumption DEF Evaluated, Stalled
      <4> QED
        BY <3>1, <4>2, <4>3, AgeAssumption DEF ReleaseWanted, WorkerAlive
    <3>3. status.op = NoOp => LiveOps = {}
      <4>1. SUFFICES ASSUME status.op = NoOp, NEW p \in LiveOps PROVE FALSE
        OBVIOUS
      <4>2. pc[p] = "init" /\ p \in Ops
        BY <1>0, <4>1 DEF CalmInv, LiveIsShown
      <4>3. InFlight(p) /\ InFlight(o)
        BY <1>2, <4>2 DEF InFlight
      <4> QED
        BY <1>2, <4>2, <4>3 DEF CalmInv, OneInFlight
    <3> QED
      BY <1>4, <2>2, <3>1, <3>2, <3>3 DEF SoundView
  <2> QED
    BY <2>1, <2>2
<1>8. /\ FreshBlob(status', pc', LiveOps')
      /\ status'.op = NoOp => status.op = NoOp
  BY <1>4, <1>5
<1>9. /\ InFlight(o) /\ pc[o] # "init" /\ pc[o] \notin Late /\ l \in CallerStates
  BY <1>2 DEF InFlight, Late, CallerStates
<1>10. view' = view
         \/ \E v \in StatusType :
              view' = [view EXCEPT ![o] = v] /\ FreshBlob(v, pc, LiveOps)
  BY <1>1, <1>4
<1> QED
  BY <1>0, <1>1, <1>3, <1>6, <1>7, <1>8, <1>9, <1>10, CallerKeepsCalm

\* The release itself, and a refusal.
LEMMA ReleaseKeepsCalm ==
  ASSUME LockDiscipline, CalmInv, NEW o \in Ops, ReleaseStalledState(o) \/ Reject(o)
  PROVE CalmInv'
<1> USE DEF redisVars, rqVars, callerVars, workerVars
<1>1. PICK l \in {"accept", "rejected"} : pc' = [pc EXCEPT ![o] = l]
  BY DEF ReleaseStalledState, Reject
<1>2. /\ UNCHANGED <<queued, wpc, job, status>>
      /\ pc[o] \in {"release", "accept"}
      /\ view' = view \/ view' = [view EXCEPT ![o] = IdleStatus]
      /\ l \in CallerStates \ {"init", "enqueue"} /\ o \in Callers
  BY DEF ReleaseStalledState, Reject, Forget, CallerStates, Callers
<1>3. LiveOps' \subseteq LiveOps
  BY <1>1, <1>2, CallerMakesNoneLive
<1>4. ASSUME NEW p \in LiveOps' PROVE record'.op = p /\ Active(record')
  <2>1. p \in LiveOps /\ record.op = p /\ Active(record)
    BY <1>3 DEF CalmInv, LiveIsRecorded
  <2>2. CASE Reject(o)
    BY <2>1, <2>2 DEF Reject
  <2>3. CASE ReleaseStalledState(o)
    <3>1. record' = Released(record, view[o].op)
      BY <2>3 DEF ReleaseStalledState
    <3>2. view[o].op \notin LiveOps /\ view[o].op # NoOp
      BY <2>1, <2>3, RequestFacts DEF ReleaseStalledState, SoundView
    <3> QED
      BY <2>1, <3>1, <3>2, ReleaseSparesLive
  <2> QED
    BY <2>2, <2>3
<1>5. FreshBlob(status', pc', LiveOps')
  <2>1. \A p \in Ops : pc[p] \in Late => pc'[p] \in Late
    BY <1>1, <1>2, RequestFacts DEF Late
  <2> QED
    BY <1>2, <1>3, <2>1, RequestFacts, BlobStaysFresh
<1>6. SoundView(o, l, view'[o], LiveOps)
  BY DEF SoundView
<1>7. InFlight(o) /\ pc[o] # "init" /\ pc[o] \notin Late /\ l \in CallerStates
  BY <1>2 DEF InFlight, Late
<1>8. view' = view
        \/ \E v \in StatusType :
             view' = [view EXCEPT ![o] = v] /\ FreshBlob(v, pc, LiveOps)
  BY <1>2, RequestFacts
<1> QED
  BY <1>1, <1>2, <1>3, <1>4, <1>5, <1>6, <1>7, <1>8, CallerKeepsCalm

\* Only an acceptance makes an operation live, and it finds none.
LEMMA AcceptKeepsCalm ==
  ASSUME LockDiscipline, CalmInv, NEW o \in Ops, Accept(o)
  PROVE CalmInv'
<1> USE DEF redisVars, rqVars, callerVars, workerVars
<1>1. /\ pc[o] = "accept" /\ pc' = [pc EXCEPT ![o] = "init"]
      /\ record' = [op |-> o, state |-> "queued"]
      /\ UNCHANGED <<status, view, queued, wpc, job>>
  BY DEF Accept
<1>2. LiveOps = {}
  BY DEF Accept, CalmInv, LiveIsRecorded
<1>3. /\ pc'[o] = "init" /\ \A c \in Callers \ {o} : pc'[c] = pc[c]
      /\ o \in Callers
  BY <1>1, RequestFacts
<1>4. LiveOps' \subseteq {o}
  <2>1. SUFFICES ASSUME NEW p \in Ops, Live(p)', p # o PROVE FALSE
    BY DEF LiveOps
  <2>2. pc'[p] = pc[p]
    BY <1>3, <2>1 DEF Callers
  <2>3. Live(p)
    BY <1>1, <2>1, <2>2 DEF Live
  <2> QED
    BY <1>2, <2>3 DEF LiveOps
<1>5. InFlight(o)
  BY <1>1 DEF InFlight
<1>6. OneInFlight'
  <2>1. \A p \in Ops : InFlight(p)' => InFlight(p)
    BY <1>1, <1>3, <1>5 DEF InFlight, Callers
  <2> QED
    BY <2>1 DEF CalmInv, OneInFlight
<1>7. LiveIsRecorded' /\ LiveIsShown'
  BY <1>1, <1>3, <1>4 DEF LiveIsRecorded, LiveIsShown, Active
<1>8. ASSUME NEW s \in StatusType, FreshBlob(s, pc, LiveOps)
      PROVE FreshBlob(s, pc', LiveOps')
  <2>1. s.op # o
    BY <1>1, <1>8, OpsAssumption DEF FreshBlob, Late
  <2>2. s.op # NoOp => pc'[s.op] \in Late
    BY <1>3, <1>8, <2>1 DEF FreshBlob, StatusType, AnyOp, Callers
  <2> QED
    BY <1>4, <1>8, <2>1, <2>2 DEF FreshBlob
<1>9. BlobsAreFresh'
  <2>1. /\ status' \in StatusType /\ FreshBlob(status', pc, LiveOps)
        /\ \A c \in Callers :
             view'[c] \in StatusType /\ FreshBlob(view'[c], pc, LiveOps)
    BY <1>1 DEF LockDiscipline, TypeOK, CalmInv, BlobsAreFresh
  <2> QED
    BY <1>8, <2>1 DEF BlobsAreFresh
<1>10. ViewsAreSound'
  <2>1. SUFFICES ASSUME NEW c \in Callers PROVE SoundView(c, pc'[c], view'[c], LiveOps')
    BY DEF ViewsAreSound
  <2>2. SoundView(c, pc[c], view[c], LiveOps)
    BY DEF CalmInv, ViewsAreSound
  <2>3. CASE c = o
    BY <1>3, <2>3 DEF SoundView
  <2>4. CASE c # o
    <3>1. pc[c] # "release"
      <4>1. SUFFICES ASSUME pc[c] = "release" PROVE FALSE
        OBVIOUS
      <4>2. c \in Ops /\ InFlight(c)
        BY <2>2, <4>1 DEF SoundView, InFlight
      <4> QED
        BY <1>5, <2>4, <4>2 DEF CalmInv, OneInFlight
    <3> QED
      BY <1>1, <1>3, <2>2, <2>4, <3>1 DEF SoundView
  <2> QED
    BY <2>3, <2>4
<1> QED
  BY <1>6, <1>7, <1>9, <1>10 DEF CalmInv

\* A request that leaves a point past acceptance for a later one.
LEMMA DispatchKeepsCalm ==
  ASSUME LockDiscipline, CalmInv, NEW o \in Ops,
         SetInitialStatus(o) \/ Enqueue(o) \/ EnqueueFails(o)
  PROVE CalmInv'
<1> USE DEF redisVars, rqVars, callerVars, workerVars
<1>1. /\ o \in LiveOps /\ record.op = o /\ Active(record)
      /\ \A p \in LiveOps : p = o
  <2>1. o \in LiveOps
    BY DEF SetInitialStatus, Enqueue, EnqueueFails, LiveOps, Live
  <2> QED
    BY <2>1, OneLive DEF CalmInv, LiveIsRecorded
<1>2. PICK l \in Late : pc' = [pc EXCEPT ![o] = l]
  BY DEF SetInitialStatus, Enqueue, EnqueueFails, Late
<1>3. /\ UNCHANGED <<wpc, job, view>> /\ o \in Callers /\ l \in CallerStates
      /\ pc[o] \in {"init", "enqueue"}
      /\ pc'[o] = l /\ \A p \in Ops \ {o} : pc'[p] = pc[p]
  BY <1>2, RequestFacts
  DEF SetInitialStatus, Enqueue, EnqueueFails, Late, CallerStates, Callers
<1>4. LiveOps' \subseteq LiveOps
  <2>1. SUFFICES ASSUME NEW p \in Ops, Live(p)', p # o PROVE Live(p)
    BY <1>1 DEF LiveOps
  <2>2. pc'[p] = pc[p] /\ (p \in queued' => p \in queued)
    BY <1>3, <2>1 DEF SetInitialStatus, Enqueue, EnqueueFails
  <2> QED
    BY <1>3, <2>1, <2>2 DEF Live
<1>5. EnqueueFails(o) => LiveOps' = {}
  <2>1. SUFFICES ASSUME EnqueueFails(o), Live(o)' PROVE FALSE
    BY <1>1, <1>4 DEF LiveOps
  <2>2. pc'[o] = "dispatch_failed" /\ queued' = queued /\ pc[o] = "enqueue"
    BY <1>3, <2>1, RequestFacts DEF EnqueueFails
  <2>3. o \in queued \/ \E w \in Workers : job[w] = o
    BY <1>3, <2>1, <2>2 DEF Live
  <2> QED
    BY <2>2, <2>3, LiveJobs DEF LockDiscipline
<1>6. ASSUME NEW p \in LiveOps' PROVE record'.op = p /\ Active(record')
  <2>1. p = o /\ ~EnqueueFails(o)
    BY <1>1, <1>4, <1>5, <1>6
  <2>2. CASE Enqueue(o)
    BY <1>1, <2>1, <2>2 DEF Enqueue
  <2>3. CASE SetInitialStatus(o)
    BY <1>1, <2>1, <2>3 DEF SetInitialStatus, SetStatus, Transitioned, LifecycleOf, Active
  <2> QED
    BY <2>1, <2>2, <2>3
<1>7. /\ FreshBlob(status', pc', LiveOps')
      /\ status'.op = NoOp => pc[o] # "init" /\ status.op = NoOp
  <2>1. CASE SetInitialStatus(o)
    <3>1. status' = [op |-> o, stage |-> "queued", age |-> 0]
      BY <2>1 DEF SetInitialStatus, SetStatus
    <3> QED
      BY <1>3, <3>1, OpsAssumption DEF FreshBlob, Running
  <2>2. CASE ~SetInitialStatus(o)
    <3>1. status' = status /\ pc[o] = "enqueue"
      BY <2>2 DEF Enqueue, EnqueueFails
    <3>2. \A p \in Ops : pc[p] \in Late => pc'[p] \in Late
      BY <1>3
    <3> QED
      BY <1>4, <3>1, <3>2, RequestFacts, BlobStaysFresh
  <2> QED
    BY <2>1, <2>2
<1>8. InFlight(o)
  BY <1>3 DEF InFlight
<1>9. SoundView(o, l, view'[o], LiveOps)
  BY <1>2 DEF SoundView, Late
<1> QED
  BY <1>2, <1>3, <1>4, <1>6, <1>7, <1>8, <1>9, CallerKeepsCalm

LEMMA SubmitKeepsCalm ==
  ASSUME LockDiscipline, CalmInv, NEW o \in Ops, OneAtATime(o)
  PROVE CalmInv'
<1> USE DEF redisVars, rqVars, callerVars, workerVars
<1>1. /\ pc[o] = "new" /\ pc' = [pc EXCEPT ![o] = "reconcile"]
      /\ UNCHANGED <<status, view, queued, wpc, job, record>>
      /\ \A p \in Ops : ~InFlight(p)
      /\ o \in Callers /\ "reconcile" \in CallerStates \ {"init", "enqueue"}
  BY DEF OneAtATime, Submit, Callers, CallerStates
<1>2. LiveOps' \subseteq LiveOps
  BY <1>1, CallerMakesNoneLive
<1>3. \A p \in LiveOps' : record'.op = p /\ Active(record')
  BY <1>1, <1>2 DEF CalmInv, LiveIsRecorded
<1>4. FreshBlob(status', pc', LiveOps')
  <2>1. \A p \in Ops : pc[p] \in Late => pc'[p] \in Late
    BY <1>1, RequestFacts DEF Late
  <2> QED
    BY <1>1, <1>2, <2>1, RequestFacts, BlobStaysFresh
<1>5. SoundView(o, "reconcile", view'[o], LiveOps)
  BY DEF SoundView
<1>6. pc[o] \notin Late /\ pc[o] # "init" /\ status' = status
  BY <1>1 DEF Late
<1> QED
  BY <1>1, <1>2, <1>3, <1>4, <1>5, <1>6, CallerKeepsCalm

-----------------------------------------------------------------------------
\* A worker's step: it executes or ends what is live already.
LEMMA WorkerMakesNoneLive ==
  ASSUME LockDiscipline, NEW w \in Workers, Work(w)
  PROVE LiveOps' \subseteq LiveOps
<1> USE DEF redisVars, rqVars, callerVars, workerVars
<1>1. SUFFICES ASSUME NEW o \in Ops, Live(o)' PROVE Live(o)
  BY DEF LiveOps
<1>2. pc' = pc /\ queued' \subseteq queued
  BY DEF Work, Dequeue, AcquireLock, SkipLocked, Beat, Finish, Unlock, Crash
<1>3. ASSUME NEW v \in Workers, job'[v] = o, wpc'[v] \in {"begin", "locked", "working"}
      PROVE Live(o)
  <2>1. CASE v # w
    <3>1. job'[v] = job[v] /\ wpc'[v] = wpc[v]
      BY <2>1 DEF Work, Dequeue, AcquireLock, SkipLocked, Beat, Finish, Unlock, Crash,
                  LockDiscipline, TypeOK
    <3> QED
      BY <1>3, <3>1 DEF Live
  <2>2. CASE v = w
    <3>1. CASE \E p \in Ops : Dequeue(w, p)
      BY <1>3, <2>2, <3>1 DEF Dequeue, LockDiscipline, TypeOK, Live
    <3>2. CASE AcquireLock(w) \/ Beat(w)
      BY <1>3, <2>2, <3>2 DEF AcquireLock, Beat, LockDiscipline, TypeOK, Live
    <3>3. CASE SkipLocked(w) \/ Unlock(w) \/ Crash(w)
               \/ \E stage \in {"completed", "failed"} : Finish(w, stage)
      BY <1>3, <2>2, <3>3 DEF SkipLocked, Unlock, Crash, Finish, LockDiscipline, TypeOK
    <3> QED
      BY <3>1, <3>2, <3>3 DEF Work
  <2> QED
    BY <2>1, <2>2
<1> QED
  BY <1>1, <1>2, <1>3 DEF Live

LEMMA WorkKeepsCalm ==
  ASSUME LockDiscipline, CalmInv, NEW w \in Workers, Work(w)
  PROVE CalmInv'
<1> USE DEF redisVars, rqVars, callerVars, workerVars
<1>1. LiveOps' \subseteq LiveOps
  BY WorkerMakesNoneLive
<1>2. UNCHANGED <<pc, view>>
  BY DEF Work, Dequeue, AcquireLock, SkipLocked, Beat, Finish, Unlock, Crash
<1>3. \A p \in LiveOps' : record.op = p /\ Active(record)
  BY <1>1 DEF CalmInv, LiveIsRecorded
<1>4. CASE \E o \in Ops : Dequeue(w, o)
  <2>1. PICK o \in Ops : Dequeue(w, o)
    BY <1>4
  <2>2. o \in LiveOps /\ record.op = o
    BY <2>1 DEF Dequeue, LiveOps, Live, CalmInv, LiveIsRecorded
  <2>3. record'.op = o /\ Active(record') /\ status' = status
    BY <2>1, <2>2 DEF Dequeue, Transitioned, Active
  <2> QED
    BY <1>1, <1>2, <1>3, <2>2, <2>3, OthersKeepCalm
<1>5. CASE AcquireLock(w) \/ SkipLocked(w) \/ Unlock(w) \/ Crash(w)
  <2>1. record' = record /\ status' = status
    BY <1>5 DEF AcquireLock, SkipLocked, Unlock, Crash
  <2> QED
    BY <1>1, <1>2, <1>3, <2>1, OthersKeepCalm
<1>6. ASSUME wpc[w] \in {"locked", "working"}
      PROVE /\ job[w] \in LiveOps /\ job[w] \in Ops /\ job[w] # NoOp
            /\ record.op = job[w] /\ pc[job[w]] = "accepted"
  <2>1. job[w] \in Ops
    BY <1>6, BusyHasJob DEF LockDiscipline
  <2>2. job[w] \in LiveOps
    BY <1>6, <2>1 DEF LiveOps, Live
  <2> QED
    BY <2>1, <2>2, LiveJobs, OpsAssumption
    DEF CalmInv, LiveIsRecorded, LockDiscipline
<1>7. CASE Beat(w)
  <2>1. /\ status' = [op |-> job[w], stage |-> "working", age |-> 0]
        /\ record' = Transitioned(record, job[w], "running")
        /\ wpc[w] \in {"locked", "working"}
    BY <1>7 DEF Beat, SetStatus, LifecycleOf
  <2>2. record'.op = job[w] /\ Active(record')
    BY <1>6, <2>1 DEF Transitioned, Active
  <2>3. FreshBlob(status', pc, LiveOps') /\ status'.op # NoOp
    BY <1>6, <2>1 DEF FreshBlob, Late, Running
  <2> QED
    BY <1>1, <1>2, <1>3, <1>6, <2>1, <2>2, <2>3, OthersKeepCalm
<1>8. CASE \E stage \in {"completed", "failed"} : Finish(w, stage)
  <2>1. PICK stage \in {"completed", "failed"} : Finish(w, stage)
    BY <1>8
  <2>2. /\ status' = [op |-> job[w], stage |-> stage, age |-> 0]
        /\ wpc[w] = "working" /\ wpc' = [wpc EXCEPT ![w] = "unlock"]
        /\ UNCHANGED <<queued, job, pc>>
    BY <2>1 DEF Finish, SetStatus
  <2>3. job[w] \notin LiveOps'
    <3>1. SUFFICES ASSUME Live(job[w])' PROVE FALSE
      BY <2>2 DEF LiveOps
    <3>2. pc'[job[w]] = "accepted" /\ job[w] \notin queued' /\ job[w] # NoOp
      BY <1>6, <2>2 DEF LockDiscipline, OneJobPerOperation
    <3>3. PICK v \in Workers : job'[v] = job'[w]
                               /\ wpc'[v] \in {"begin", "locked", "working"}
      BY <2>2, <3>1, <3>2 DEF Live
    <3>4. v = w
      BY <2>2, <3>2, <3>3 DEF LockDiscipline, OneJobPerOperation
    <3> QED
      BY <2>2, <3>3, <3>4 DEF LockDiscipline, TypeOK
  <2>4. LiveOps' = {}
    BY <1>1, <1>6, <2>2, <2>3, OneLive
  <2>5. FreshBlob(status', pc, LiveOps') /\ status'.op # NoOp
    BY <1>6, <2>2, <2>4 DEF FreshBlob, Late
  <2> QED
    BY <1>1, <1>2, <2>4, <2>5, OthersKeepCalm
<1> QED
  BY <1>4, <1>5, <1>7, <1>8 DEF Work

-----------------------------------------------------------------------------
\* Clocks run only while nothing is live.
LEMMA TickKeepsCalm ==
  ASSUME LockDiscipline, CalmInv, CalmTick PROVE CalmInv'
<1>1. /\ status' = Older(status) /\ view' = [c \in Callers |-> Older(view[c])]
      /\ UNCHANGED <<record, queued, pc, wpc, job>>
  BY DEF CalmTick, Tick, rqVars, workerVars
<1>2. LiveOps = {} /\ LiveOps' = {}
  <2>1. LiveOps = {}
    BY DEF CalmTick, LiveOps
  <2> QED
    BY <1>1, <2>1 DEF LiveOps, Live
<1>3. ASSUME NEW s \in StatusType, FreshBlob(s, pc, {})
      PROVE FreshBlob(Older(s), pc, {}) /\ Older(s).op = s.op /\ Older(s).stage = s.stage
  <2>1. Older(s).op = s.op /\ Older(s).stage = s.stage
    BY DEF Older, StatusType
  <2> QED
    BY <1>3, <2>1 DEF FreshBlob
<1>4. OneInFlight' /\ LiveIsRecorded' /\ LiveIsShown'
  BY <1>1, <1>2 DEF CalmInv, OneInFlight, InFlight, LiveIsRecorded, LiveIsShown
<1>5. BlobsAreFresh'
  <2>1. status \in StatusType /\ \A c \in Callers : view[c] \in StatusType
    BY DEF LockDiscipline, TypeOK
  <2> QED
    BY <1>1, <1>2, <1>3, <2>1 DEF CalmInv, BlobsAreFresh
<1>6. ViewsAreSound'
  <2>1. SUFFICES ASSUME NEW c \in Callers PROVE SoundView(c, pc'[c], view'[c], LiveOps')
    BY DEF ViewsAreSound
  <2>2. /\ view[c] \in StatusType /\ FreshBlob(view[c], pc, {})
        /\ SoundView(c, pc[c], view[c], {})
    BY <1>2 DEF LockDiscipline, TypeOK, CalmInv, BlobsAreFresh, ViewsAreSound
  <2>3. view'[c].op = view[c].op /\ view'[c].stage = view[c].stage /\ pc'[c] = pc[c]
    BY <1>1, <1>3, <2>2
  <2> QED
    BY <1>2, <2>2, <2>3 DEF SoundView
<1> QED
  BY <1>4, <1>5, <1>6 DEF CalmInv

LEMMA CalmStep ==
  ASSUME LockDiscipline, CalmInv, CalmNext PROVE CalmInv'
<1>1. CASE WatchdogLockExpires
  <2>1. UNCHANGED <<pc, view, status, record, queued, wpc, job>>
    BY <1>1 DEF WatchdogLockExpires, rqVars, callerVars, workerVars
  <2>2. LiveOps' = LiveOps
    BY <2>1 DEF LiveOps, Live
  <2> QED
    BY <2>1, <2>2, OthersKeepCalm DEF CalmInv, LiveIsRecorded
<1>2. ASSUME NEW o \in Ops, Request(o) PROVE CalmInv'
  BY <1>2, ReadKeepsCalm, ReleaseKeepsCalm, AcceptKeepsCalm, DispatchKeepsCalm DEF Request
<1> QED
  BY <1>1, <1>2, ReconcileKeepsCalm, WorkKeepsCalm, TickKeepsCalm, SubmitKeepsCalm
  DEF CalmNext, CommonNext

LEMMA CalmInit == Init => CalmInv
<1> SUFFICES ASSUME Init PROVE CalmInv
  OBVIOUS
<1>1. /\ \A o \in Ops : pc[o] = "new" /\ o \in Callers
      /\ status = IdleStatus /\ \A c \in Callers : view[c] = IdleStatus
      /\ \A c \in Callers : pc[c] \in {"new", "idle"}
  BY DEF Init, Callers
<1>2. LiveOps = {}
  BY <1>1, OpsAssumption DEF Init, LiveOps, Live
<1>3. OneInFlight /\ LiveIsRecorded /\ LiveIsShown
  BY <1>1, <1>2 DEF OneInFlight, InFlight, LiveIsRecorded, LiveIsShown
<1>4. BlobsAreFresh
  BY <1>1, <1>2, IdleIsFresh DEF BlobsAreFresh
<1>5. ViewsAreSound
  BY <1>1 DEF ViewsAreSound, SoundView
<1> QED
  BY <1>3, <1>4, <1>5 DEF CalmInv

\* Every behaviour of the two environments is one of the orchestration.
LEMMA LocksRefine == LocksSpec => Spec
<1>1. LocksInit => Init
  BY DEF LocksInit
<1>2. [LocksNext]_<<vars, calm>> => [Next]_vars
  BY DEF LocksNext, CalmNext, CommonNext, CalmTick, OneAtATime, Next, vars
<1> QED
  BY <1>1, <1>2, PTL DEF LocksSpec, Spec

\* While nothing disturbs the requests, two pipelines are never inside their
\* stages at once, and no second refresh is accepted before the first has
\* reached its end: the record of a live operation is its own, since a pass or
\* a request that would release it has a blob that was written as it was read.
THEOREM CalmIsExclusive == LocksSpec => []ExclusiveWhenCalm
<1>1. LocksInit => (calm => CalmInv)
  BY CalmInit DEF LocksInit
<1>2. LockDiscipline /\ (calm => CalmInv) /\ [LocksNext]_<<vars, calm>>
        => (calm => CalmInv)'
  <2> SUFFICES ASSUME LockDiscipline, calm => CalmInv, [LocksNext]_<<vars, calm>>, calm'
               PROVE CalmInv'
    OBVIOUS
  <2>1. CASE LocksNext
    BY <2>1, CalmStep DEF LocksNext
  <2>2. CASE UNCHANGED <<vars, calm>>
    BY <2>2 DEF vars, CalmInv, OneInFlight, LiveIsRecorded, LiveIsShown, BlobsAreFresh,
                ViewsAreSound, LiveOps, Live, InFlight
  <2> QED
    BY <2>1, <2>2
<1>3. LockDiscipline /\ (calm => CalmInv) => ExclusiveWhenCalm
  <2> SUFFICES ASSUME LockDiscipline, CalmInv PROVE NoOverlap /\ DuplicatePrevented
    BY DEF ExclusiveWhenCalm
  <2>1. DuplicatePrevented
    BY OneLive DEF DuplicatePrevented, LiveOps
  <2>2. ASSUME NEW w1 \in Workers, NEW w2 \in Workers,
               wpc[w1] \in {"locked", "working"}, wpc[w2] \in {"locked", "working"}
        PROVE w1 = w2
    <3>1. /\ job[w1] \in Ops /\ job[w2] \in Ops
      BY <2>2, BusyHasJob DEF LockDiscipline
    <3>2. Live(job[w1]) /\ Live(job[w2])
      BY <2>2 DEF Live
    <3> QED
      BY <2>1, <3>1, <3>2, OpsAssumption
      DEF DuplicatePrevented, LockDiscipline, OneJobPerOperation
  <2> QED
    BY <2>1, <2>2 DEF NoOverlap
<1> QED
  BY <1>1, <1>2, <1>3, LocksRefine, LockDisciplineHolds, PTL DEF LocksSpec

=============================================================================
