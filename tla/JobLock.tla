------------------------------- MODULE JobLock -------------------------------
(***************************************************************************)
(* The overlap lock of the periodic jobs: a row of scheduled_jobs per job  *)
(* name (worker/job_lock.py), taken and given back by _with_lock           *)
(* (worker/jobs.py) around the job's function, inside RQ jobs that are     *)
(* retried at once when they fail (worker/scheduler.py).                   *)
(*                                                                         *)
(* One job name is modelled: rows of different names do not interact.      *)
(* acquire_job_lock and release_job_lock are transactions at READ          *)
(* COMMITTED that read the row, decide, and write back the attributes that *)
(* differ from what they read, without locking the row in between.         *)
(*                                                                         *)
(* overlap_lock_until is a timestamp without time zone, so what comes back *)
(* from the database is a naive datetime, while acquire_job_lock compares  *)
(* it with an aware one: whenever the column is set, expired or not, the   *)
(* comparison raises TypeError.                                            *)
(***************************************************************************)
EXTENDS Naturals

CONSTANTS
  Execs,       \* RQ jobs the scheduler enqueues for this job name
  MaxRetries   \* job_retry_attempts

ASSUME MaxRetriesAssumption == MaxRetries \in Nat

VARIABLES
  row,      \* the committed scheduled_jobs row
  point,    \* control point of every execution
  loaded,   \* the row as an execution's session has loaded it
  outcome,  \* what the pending release_job_lock will record
  retries,  \* retries RQ has spent on the execution
  alerted,  \* executions whose failure emit_alert has reported
  orphaned, \* history: an execution ended without giving the lock back
  raced     \* history: two acquire_job_lock calls have interleaved

history == <<orphaned, raced>>
jobVars == <<row, point, loaded, outcome, retries, alerted, history>>

\* overlap_lock_until: NULL, later than now, or not later than now.
Untils == {"null", "future", "past"}
RowStatuses == {"idle", "running", "success", "failed"}
RowType == [exists : BOOLEAN, status : RowStatuses, until : Untils]
ExecStates == {"idle", "queued", "acquire", "run", "release", "commit",
               "ended", "failed"}

NoRow == [exists |-> FALSE, status |-> "idle", until |-> "null"]

\* Past acquire_job_lock: the job's function runs or the lock is given back.
Inside(e) == point[e] \in {"run", "release", "commit"}

-----------------------------------------------------------------------------
JobInit ==
  /\ row = NoRow
  /\ point = [e \in Execs |-> "idle"]
  /\ loaded = [e \in Execs |-> NoRow]
  /\ outcome = [e \in Execs |-> "success"]
  /\ retries = [e \in Execs |-> 0]
  /\ alerted = {}
  /\ orphaned = FALSE
  /\ raced = FALSE

\* RQ after an exception or a dead work-horse: Retry(max) without interval
\* puts the job back on its queue, and then the job has failed.
Fails(e) ==
  \/ /\ retries[e] < MaxRetries
     /\ retries' = [retries EXCEPT ![e] = @ + 1]
     /\ point' = [point EXCEPT ![e] = "queued"]
  \/ /\ retries[e] >= MaxRetries
     /\ point' = [point EXCEPT ![e] = "failed"]
     /\ UNCHANGED retries

\* session.close(): what it had loaded is gone.
Close(e) == loaded' = [loaded EXCEPT ![e] = NoRow]

\* The session emits only attributes whose value differs from the loaded one.
Flushed(e, status, until) ==
  [exists |-> TRUE,
   status |-> IF loaded[e].status = status THEN row.status ELSE status,
   until |-> IF loaded[e].until = until THEN row.until ELSE until]

-----------------------------------------------------------------------------
(* acquire_job_lock. *)

\* A worker starts the job; the SELECT.
Read(e) ==
  /\ point[e] = "queued"
  /\ loaded' = [loaded EXCEPT ![e] = row]
  /\ point' = [point EXCEPT ![e] = "acquire"]
  /\ raced' = (raced \/ \E x \in Execs : point[x] = "acquire")
  /\ UNCHANGED <<row, outcome, retries, alerted, orphaned>>

\* The column is set: naive > aware raises, _with_lock's try has not begun.
MeetsLock(e) ==
  /\ point[e] = "acquire"
  /\ loaded[e].until # "null"
  /\ Fails(e)
  /\ Close(e)
  /\ UNCHANGED <<row, outcome, alerted, history>>

\* The first execution ever inserts the row; a second one at the same time
\* waits for the unique index and gets an IntegrityError.
CreateRow(e) ==
  /\ point[e] = "acquire"
  /\ ~loaded[e].exists
  /\ \/ /\ ~row.exists
        /\ row' = [exists |-> TRUE, status |-> "running", until |-> "future"]
        /\ point' = [point EXCEPT ![e] = "run"]
        /\ UNCHANGED retries
     \/ /\ row.exists
        /\ Fails(e)
        /\ UNCHANGED row
  /\ Close(e)
  /\ UNCHANGED <<outcome, alerted, history>>

\* Mutation: the lock test is dropped.
TakeLockAlways(e) ==
  /\ point[e] = "acquire"
  /\ loaded[e].exists
  /\ row' = Flushed(e, "running", "future")
  /\ point' = [point EXCEPT ![e] = "run"]
  /\ Close(e)
  /\ UNCHANGED <<outcome, retries, alerted, history>>

\* The lock was free when it was read; UPDATE and COMMIT.
TakeLock(e) ==
  /\ point[e] = "acquire"
  /\ loaded[e].exists
  /\ loaded[e].until = "null"
  /\ row' = Flushed(e, "running", "future")
  /\ point' = [point EXCEPT ![e] = "run"]
  /\ Close(e)
  /\ UNCHANGED <<outcome, retries, alerted, history>>

-----------------------------------------------------------------------------
(* _with_lock around the job's function, and release_job_lock. *)

FnReturns(e) ==
  /\ point[e] = "run"
  /\ outcome' = [outcome EXCEPT ![e] = "success"]
  /\ point' = [point EXCEPT ![e] = "release"]
  /\ UNCHANGED <<row, loaded, retries, alerted, history>>

\* The function raises, RQ's job timeout included.
FnRaises(e) ==
  /\ point[e] = "run"
  /\ outcome' = [outcome EXCEPT ![e] = "failed"]
  /\ point' = [point EXCEPT ![e] = "release"]
  /\ UNCHANGED <<row, loaded, retries, alerted, history>>

ReleaseRead(e) ==
  /\ point[e] = "release"
  /\ loaded' = [loaded EXCEPT ![e] = row]
  /\ point' = [point EXCEPT ![e] = "commit"]
  /\ UNCHANGED <<row, outcome, retries, alerted, history>>

\* Mutation: a failed run leaves the lock to its expiry.
ReleaseCommitKeepsFailed(e) ==
  /\ point[e] = "commit"
  /\ \/ /\ outcome[e] = "success"
        /\ row' = Flushed(e, "success", "null")
        /\ point' = [point EXCEPT ![e] = "ended"]
        /\ UNCHANGED <<retries, alerted>>
     \/ /\ outcome[e] = "failed"
        /\ row' = Flushed(e, "failed", row.until)
        /\ alerted' = alerted \cup {e}
        /\ Fails(e)
  /\ outcome' = [outcome EXCEPT ![e] = "success"]
  /\ Close(e)
  /\ UNCHANGED history

\* Nobody asks whose lock it is; a failure is reported and raised to RQ.
ReleaseCommit(e) ==
  /\ point[e] = "commit"
  /\ row' = Flushed(e, outcome[e], "null")
  /\ \/ /\ outcome[e] = "success"
        /\ point' = [point EXCEPT ![e] = "ended"]
        /\ UNCHANGED <<retries, alerted>>
     \/ /\ outcome[e] = "failed"
        /\ alerted' = alerted \cup {e}
        /\ Fails(e)
  /\ outcome' = [outcome EXCEPT ![e] = "success"]
  /\ Close(e)
  /\ UNCHANGED history

\* The database refuses release_job_lock: the except clause tries it once
\* more, and an exception of that one leaves _with_lock without an alert.
ReleaseFails(e) ==
  /\ point[e] \in {"release", "commit"}
  /\ \/ /\ outcome[e] = "success"
        /\ outcome' = [outcome EXCEPT ![e] = "failed"]
        /\ point' = [point EXCEPT ![e] = "release"]
        /\ UNCHANGED <<retries, orphaned>>
     \/ /\ outcome[e] = "failed"
        /\ orphaned' = TRUE
        /\ outcome' = [outcome EXCEPT ![e] = "success"]
        /\ Fails(e)
  /\ Close(e)
  /\ UNCHANGED <<row, alerted, raced>>

-----------------------------------------------------------------------------
\* The scheduler's next firing, once the previous job of e is over.
Enqueue(e) ==
  /\ point[e] \in {"idle", "ended", "failed"}
  /\ point' = [point EXCEPT ![e] = "queued"]
  /\ retries' = [retries EXCEPT ![e] = 0]
  /\ alerted' = alerted \ {e}
  /\ UNCHANGED <<row, loaded, outcome, history>>

\* The work-horse is killed: an open transaction is rolled back, a committed
\* lock stays.
Crash(e) ==
  /\ point[e] \in {"acquire", "run", "release", "commit"}
  /\ orphaned' = (orphaned \/ Inside(e))
  /\ Fails(e)
  /\ Close(e)
  /\ outcome' = [outcome EXCEPT ![e] = "success"]
  /\ UNCHANGED <<row, alerted, raced>>

\* lock_minutes pass.
Expire ==
  /\ row.until = "future"
  /\ row' = [row EXCEPT !.until = "past"]
  /\ UNCHANGED <<point, loaded, outcome, retries, alerted, history>>

\* One execution's way through _with_lock.
Step(e) ==
  \/ MeetsLock(e)
  \/ CreateRow(e)
  \/ TakeLock(e)
  \/ FnReturns(e)
  \/ FnRaises(e)
  \/ ReleaseRead(e)
  \/ ReleaseCommit(e)

Disturbance == Expire \/ \E e \in Execs : Crash(e) \/ ReleaseFails(e)

JobNext == Disturbance \/ \E e \in Execs : Enqueue(e) \/ Read(e) \/ Step(e)

JobSpec == JobInit /\ [][JobNext]_jobVars

\* RQ workers take jobs off the queue, and a job's function ends, at the
\* latest with RQ's job timeout.
FairJobSpec == JobSpec /\ \A e \in Execs : WF_jobVars(Read(e)) /\ WF_jobVars(Step(e))

-----------------------------------------------------------------------------
(* Correctness. *)

\* Every variable keeps its type (the columns of ScheduledJob).
JobTypeOK ==
  /\ row \in RowType
  /\ point \in [Execs -> ExecStates]
  /\ loaded \in [Execs -> RowType]
  /\ outcome \in [Execs -> {"success", "failed"}]
  /\ retries \in [Execs -> 0 .. MaxRetries]
  /\ alerted \subseteq Execs
  /\ orphaned \in BOOLEAN
  /\ raced \in BOOLEAN

\* Two executions of a job run at once only if their acquire_job_lock calls
\* have read the free row before either took the lock.
OverlapNeedsRace ==
  ~raced => \A e1, e2 \in Execs : Inside(e1) /\ Inside(e2) => e1 = e2

\* Without such a race, an execution that runs has its row say so, and its
\* lock set, for GET /scheduler/status and the next acquire_job_lock.
RowShowsRun ==
  ~raced =>
    \A e \in Execs : Inside(e) => row.status = "running" /\ row.until # "null"

\* However executions interleave, a lock that is set belongs to an execution
\* that will reset it, or somebody died or failed while releasing:
\* release_job_lock's write back of loaded attributes loses no reset.
WillReset(e) ==
  \/ point[e] \in {"run", "release"}
  \/ point[e] = "commit" /\ loaded[e].until # "null"

LockAccounted == row.until # "null" => orphaned \/ \E e \in Execs : WillReset(e)

\* As long as nobody dies holding it, the lock becomes free again and again:
\* both ways out of _with_lock's try release it.
LockFreed == []<>(row.until = "null" \/ orphaned)

\* What keeps the first two true from step to step.
RaceFree ==
  /\ \A e1, e2 \in Execs : Inside(e1) /\ Inside(e2) => e1 = e2
  /\ \A e1, e2 \in Execs : point[e1] = "acquire" /\ point[e2] = "acquire" => e1 = e2
  /\ row.status = "running" <=> row.until # "null"
  /\ ~row.exists => row.until = "null"
  /\ \A e \in Execs : Inside(e) => row.until # "null"
  /\ \A e \in Execs :
       point[e] = "acquire" /\ ~loaded[e].exists => loaded[e].until = "null"
  /\ \A e, x \in Execs :
       point[e] = "acquire" /\ loaded[e].until = "null"
       => loaded[e].status # "running" /\ ~Inside(x)
  /\ \A e \in Execs :
       point[e] = "commit" => loaded[e].status = "running" /\ loaded[e].until # "null"

RaceInv == JobTypeOK /\ (~raced => RaceFree)

=============================================================================
