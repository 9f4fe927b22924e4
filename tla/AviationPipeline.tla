-------------------------- MODULE AviationPipeline --------------------------
(***************************************************************************)
(* Who runs the transactions of AviationSync: AviationSyncPipeline.execute *)
(* (worker/orchestration/refresh_pipeline.py) and the aviation parts of    *)
(* the full refresh, which exclude each other by one Redis lock and share  *)
(* one status document, and the bootstrap (worker/jobs.py, the API), which *)
(* takes no notice of that lock.  Who watches, reads or accepts operations *)
(* (worker/orchestration/pipeline_watchdog.py) writes the document back    *)
(* and deletes the lock of a job that looks stalled, as an aviation run,   *)
(* whose stages send no heartbeats, soon does.                             *)
(*                                                                         *)
(* A job is a list of parts, each a transaction but "hubs", which only     *)
(* reads.  aviation.operational_propagation, which the last part of the    *)
(* pipeline imports, is not in the repository: world.propagation says      *)
(* whether a deployment has it.  world.jobs and world.losses are bounds:   *)
(* how many jobs start, and what may go wrong: workers that die, and what  *)
(* takes the lock from its holder.                                         *)
(***************************************************************************)
EXTENDS AviationSync

CONSTANTS SyncJob, Refresh, Boot   \* the three processes

ASSUME ThreeJobs ==
  Procs = {SyncJob, Refresh, Boot} /\ Cardinality(Procs) = 3 /\ Nothing \notin Procs

VARIABLES
  lock,       \* skytrax:ops:refresh:lock: its holder, or Nothing
  job,        \* what each process does: idle, running, failing
  todo,       \* the parts its job has left
  left,       \* bound: the jobs that may still start
  results,    \* AviationSyncPipeline.results
  errors,     \* the stages in AviationSyncPipeline.errors
  blob,       \* skytrax:ops:refresh:status
  view,       \* the status that a watcher or a reader has found, or has
              \* written back; one at a time (skytrax:ops:watchdog:lock)
  stored,     \* history: the stages of this run that have committed
  lost        \* history: what took the lock from somebody running

pvars == <<lock, job, todo, left, results, errors, blob, view, stored, lost>>
vars == <<svars, pvars>>

-----------------------------------------------------------------------------
SyncParts == <<"master", "discovery", "metadata", "hubs">>
RefreshParts == <<"master", "sync", "crawlAirports", "pairs">>
BootParts == <<"crawlAirlines", "crawlAirports", "sync", "crawlAirports", "pairs">>

Stages == {"master", "discovery", "metadata", "hubs"}

Kind(part) ==
  CASE part \in {"master", "again"} -> "master"
    [] part \in {"discovery", "crawlAirports"} -> "crawlAirports"
    [] part = "metadata" -> "stage"
    [] OTHER -> part

StepsOf(kind) ==
  CASE kind = "master" -> MasterSteps
    [] kind = "sync" -> SyncSteps
    [] kind = "pairs" -> PairsSteps
    [] kind = "stage" -> StageSteps
    [] kind = "crawlAirlines" -> CrawlSteps(world.pages)
    [] kind = "crawlAirports" -> CrawlSteps(world.places)

Running(p) == job[p] = "running"
Resting(p) == plan[p] = <<>> /\ outcome[p] = "none"

\* Mutation: only what was raised counts.
FailedRaised(err, res) == err

\* derive_failed_stages, _failed_stage_keys
Failed(err, res) ==
  err \cup {s \in DOMAIN res : res[s] \in {"error", "drift"}}

Status(op, status, failed) == [op |-> op, status |-> status, failed |-> failed]
Progress == blob' = Status(SyncJob, "running", Failed(errors', results'))

Takes(p, parts) ==
  /\ job[p] = "idle"
  /\ left[p] > 0
  /\ left' = [left EXCEPT ![p] = @ - 1]
  /\ job' = [job EXCEPT ![p] = "running"]
  /\ todo' = [todo EXCEPT ![p] = parts]
  /\ UNCHANGED svars

Lock(p) == lock \in {Nothing, p} /\ lock' = p

StillLost(p) == IF \E q \in {SyncJob, Refresh} \ {p} : job[q] # "idle" THEN lost ELSE {}

\* r.delete(REDIS_LOCK_KEY)
Unlock(p) == lock' = Nothing /\ lost' = StillLost(p)

\* execute, from the lock to the first status; a retry finds its own lock.
StartSync ==
  /\ Takes(SyncJob, SyncParts)
  /\ Lock(SyncJob)
  /\ results' = None /\ errors' = {} /\ stored' = {}
  /\ blob' = Status(SyncJob, "running", {})
  /\ UNCHANGED <<view, lost>>

\* Before the try: nobody deletes the lock.
StartRaises ==
  /\ job[SyncJob] = "idle"
  /\ left[SyncJob] > 0
  /\ left' = [left EXCEPT ![SyncJob] = @ - 1]
  /\ Lock(SyncJob)
  /\ UNCHANGED <<svars, job, todo, results, errors, blob, view, stored, lost>>

\* Mutation: a run that is skipped passes through the finally.
SkipDeletes ==
  /\ job[SyncJob] = "idle"
  /\ left[SyncJob] > 0
  /\ lock # Nothing
  /\ left' = [left EXCEPT ![SyncJob] = @ - 1]
  /\ lock' = Nothing
  /\ UNCHANGED <<svars, job, todo, results, errors, blob, view, stored, lost>>

\* "already_running"
Skip ==
  /\ job[SyncJob] = "idle"
  /\ left[SyncJob] > 0
  /\ lock # Nothing
  /\ left' = [left EXCEPT ![SyncJob] = @ - 1]
  /\ UNCHANGED <<svars, lock, job, todo, results, errors, blob, view, stored, lost>>

StartRefresh ==
  /\ Takes(Refresh, RefreshParts)
  /\ Lock(Refresh)
  /\ blob' = Status(Refresh, "running", {})
  /\ UNCHANGED <<results, errors, view, stored, lost>>

StartBoot ==
  /\ Takes(Boot, BootParts)
  /\ UNCHANGED <<lock, results, errors, blob, view, stored, lost>>

Part(p) ==
  /\ Running(p)
  /\ Resting(p)
  /\ todo[p] # <<>>
  /\ Head(todo[p]) # "hubs"
  /\ LET kind == Kind(Head(todo[p])) IN Begin(p, kind, StepsOf(kind))
  /\ UNCHANGED pvars

PartOver(p) == Running(p) /\ plan[p] = <<>> /\ outcome[p] \in {"ok", "error", "raised"}
Close(p) ==
  /\ outcome' = [outcome EXCEPT ![p] = "none"]
  /\ tx' = [tx EXCEPT ![p] = Blank]
  /\ UNCHANGED <<rows, others, world, plan, synced>>

-----------------------------------------------------------------------------
(* AviationSyncPipeline._run_stage. *)

Result(stage, r) ==
  results' = [s \in DOMAIN results \cup {stage} |-> IF s = stage THEN r ELSE results[s]]
Returned(stage, r) == Result(stage, r) /\ UNCHANGED errors
Raised(stage) == Result(stage, "error") /\ errors' = errors \cup {stage}

\* A stage after its transaction.  The master sync's own handler turns what
\* it raises into a result, a crawl that fails is one that found nothing, and
\* each may fail after it has committed, by the status that reports it if not
\* by its own totals.
StageEnds ==
  /\ PartOver(SyncJob)
  /\ LET stage == Head(todo[SyncJob])
         ok == outcome[SyncJob] = "ok"
     IN /\ \/ (ok \/ stage = "discovery") /\ Returned(stage, "ok")
           \/ stage = "master" /\ outcome[SyncJob] = "error" /\ Returned(stage, "drift")
           \/ stage = "master" /\ outcome[SyncJob] # "error" /\ Returned(stage, "error")
           \/ Raised(stage)
        /\ stored' = IF ok THEN stored \cup {stage} ELSE stored
  /\ Progress
  /\ todo' = [todo EXCEPT ![SyncJob] = Tail(@)]
  /\ Close(SyncJob)
  /\ UNCHANGED <<lock, job, left, view, lost>>

\* A stage that has no transaction, or raises before it.
StageWithout ==
  /\ Running(SyncJob)
  /\ Resting(SyncJob)
  /\ todo[SyncJob] # <<>>
  /\ LET stage == Head(todo[SyncJob])
     IN \/ stage \in {"master", "hubs"} /\ Raised(stage)
        \/ stage = "hubs" /\ Returned(stage, "ok")
  /\ Progress
  /\ todo' = [todo EXCEPT ![SyncJob] = Tail(@)]
  /\ UNCHANGED <<svars, lock, job, left, view, stored, lost>>

\* Redis fails under a status, or the last part cannot be imported.
Breaks ==
  /\ Running(SyncJob)
  /\ Resting(SyncJob)
  /\ job' = [job EXCEPT ![SyncJob] = "failing"]
  /\ todo' = [todo EXCEPT ![SyncJob] = <<>>]
  /\ UNCHANGED <<svars, lock, left, results, errors, blob, view, stored, lost>>

\* _reconcile_operational_state: a schema that is healthy takes back a drift.
Reconciled ==
  \/ /\ "master" \in DOMAIN results /\ results["master"] = "drift"
     /\ results' = [results EXCEPT !["master"] = "reconciled"]
     /\ errors' = errors \ {"master"}
  \/ UNCHANGED <<results, errors>>

\* The last part, and the end of a run whose stages are over.
Completes ==
  /\ Running(SyncJob)
  /\ Resting(SyncJob)
  /\ todo[SyncJob] = <<>>
  /\ world.propagation
  /\ Reconciled
  /\ blob' = Status(SyncJob, IF errors' = {} THEN "completed" ELSE "completed_degraded",
                    Failed(errors', results'))
  /\ job' = [job EXCEPT ![SyncJob] = "idle"]
  /\ Unlock(SyncJob)
  /\ UNCHANGED <<svars, todo, left, view, stored>>

\* The handler of execute; its status may raise as well.
Fails ==
  /\ job[SyncJob] = "failing"
  /\ \/ blob' = Status(SyncJob, "failed", {})
     \/ UNCHANGED blob
  /\ errors' = errors \cup {"pipeline"}
  /\ job' = [job EXCEPT ![SyncJob] = "idle"]
  /\ Unlock(SyncJob)
  /\ UNCHANGED <<svars, todo, left, results, view, stored>>

-----------------------------------------------------------------------------
(* The refresh and the bootstrap. *)

\* What is left after a part: a master sync that met a stale schema is tried
\* once more, an enrichment ends early when it raises, finds no iata_code or
\* is out of time, and the refresh may leave it out.
Rest(p) ==
  LET part == Head(todo[p])
      rest == Tail(todo[p])
      early == part = "sync" \/ (rest # <<>> /\ Head(rest) = "pairs")
  IN (IF part = "sync" /\ outcome[p] = "raised" THEN {} ELSE {rest})
       \cup (IF early \/ (p = Refresh /\ part \in {"master", "again"})
             THEN {<<>>} ELSE {})
       \cup (IF p = Refresh /\ part = "master" /\ outcome[p] = "raised"
             THEN {<<"again">> \o rest} ELSE {})

PartEnds(p) ==
  /\ p # SyncJob
  /\ PartOver(p)
  /\ \E rest \in Rest(p) : todo' = [todo EXCEPT ![p] = rest]
  /\ blob' = IF p = Refresh THEN Status(Refresh, "running", {}) ELSE blob
  /\ Close(p)
  /\ UNCHANGED <<lock, job, left, results, errors, view, stored, lost>>

RefreshEnds ==
  /\ Running(Refresh)
  /\ Resting(Refresh)
  /\ todo[Refresh] = <<>>
  /\ job' = [job EXCEPT ![Refresh] = "idle"]
  /\ blob' = Status(Refresh, "completed", {})
  /\ Unlock(Refresh)
  /\ UNCHANGED <<svars, todo, left, results, errors, view, stored>>

BootEnds ==
  /\ Running(Boot)
  /\ Resting(Boot)
  /\ todo[Boot] = <<>>
  /\ job' = [job EXCEPT ![Boot] = "idle"]
  /\ UNCHANGED <<svars, lock, todo, left, results, errors, blob, view, stored, lost>>

\* The worker dies: its lock stays until somebody else deletes it.
Crash(p) ==
  /\ "worker" \in world.losses
  /\ job[p] # "idle"
  /\ job' = [job EXCEPT ![p] = "idle"]
  /\ todo' = [todo EXCEPT ![p] = <<>>]
  /\ Leave(p, "none")
  /\ lost' = StillLost(p)
  /\ UNCHANGED <<lock, left, results, errors, blob, view, stored>>

-----------------------------------------------------------------------------
(* Who else deletes the lock: it is not looked at whose it is, nor whether   *)
(* its holder still runs.                                                    *)

Removed(cause) ==
  /\ cause \in world.losses
  /\ lock' = Nothing
  /\ lost' = IF lock # Nothing /\ job[lock] # "idle" THEN lost \cup {cause} ELSE lost

Expires ==
  /\ lock # Nothing
  /\ Removed("expiry")
  /\ UNCHANGED <<svars, job, todo, left, results, errors, blob, view, stored>>

\* evaluate_pipeline_health, of the status of a job that runs or has died: no
\* time passes here, so each may be found old enough for a stall, or not.
Judge ==
  /\ "stall" \in world.losses
  /\ blob.status = "running"
  /\ view.status = "none"
  /\ \E status \in {"running", "stalled"} : view' = [blob EXCEPT !.status = status]
  /\ UNCHANGED <<svars, lock, job, todo, left, results, errors, blob, stored, lost>>

\* _persist_status, of what has been read: the job may have gone on or ended.
WriteBack ==
  /\ view.status \in {"running", "stalled"}
  /\ blob' = view
  /\ view' = IF view.status = "stalled" THEN [view EXCEPT !.status = "written"]
             ELSE Status(Nothing, "none", {})
  /\ UNCHANGED <<svars, lock, job, todo, left, results, errors, stored, lost>>

\* apply_stall_cleanup; a delete that fails is swallowed.
CleanUp ==
  /\ view.status = "written"
  /\ view' = Status(Nothing, "none", {})
  /\ Removed("stall") \/ UNCHANGED <<lock, lost>>
  /\ UNCHANGED <<svars, job, todo, left, results, errors, blob, stored>>

\* An operation is accepted: prepare_accept_path, when the status that it read
\* does not run or is older than 60 s, and "force" call release_stalled_state;
\* set_initial_status writes, before the job is queued.  Either may fail, and
\* is swallowed.
Accepts ==
  /\ "accept" \in world.losses
  /\ \/ Removed("accept") /\ UNCHANGED blob
     \/ /\ \E p \in {SyncJob, Refresh} :
             left[p] > 0 /\ blob' = Status(p, "running", {})
        /\ UNCHANGED <<lock, lost>>
  /\ UNCHANGED <<svars, job, todo, left, results, errors, view, stored>>

\* reset_pipeline_status: release_stalled_state and clear_status, likewise.
Resets ==
  /\ "reset" \in world.losses
  /\ \/ Removed("reset") /\ UNCHANGED blob
     \/ blob' = Status(Nothing, "idle", {}) /\ UNCHANGED <<lock, lost>>
  /\ UNCHANGED <<svars, job, todo, left, results, errors, view, stored>>

-----------------------------------------------------------------------------
Init ==
  /\ SyncInit
  /\ lock = Nothing
  /\ job = [p \in Procs |-> "idle"]
  /\ todo = [p \in Procs |-> <<>>]
  /\ left = world.jobs
  /\ results = None /\ errors = {} /\ stored = {}
  /\ blob = Status(Nothing, "none", {})
  /\ view = Status(Nothing, "none", {})
  /\ lost = {}

Next ==
  \/ StartSync \/ StartRaises \/ Skip \/ StartRefresh \/ StartBoot
  \/ StageEnds \/ StageWithout \/ Breaks \/ Completes \/ Fails
  \/ RefreshEnds \/ BootEnds
  \/ Expires \/ Judge \/ WriteBack \/ CleanUp \/ Accepts \/ Resets
  \/ \E p \in Procs :
       Part(p) \/ PartEnds(p) \/ Crash(p) \/ (Step(p) /\ UNCHANGED pvars)

Spec == Init /\ [][Next]_vars

-----------------------------------------------------------------------------
(* Properties. *)

\* The sessions have their types; what a session changes, and what its lookup
\* finds, are rows it can see or is about to insert.
SessionsTyped ==
  /\ \A x \in DOMAIN rows : IsRow(rows[x])
  /\ \A p \in Procs :
       /\ outcome[p] \in {"none", "running", "ok", "error", "raised"}
       /\ (plan[p] # <<>>) = (outcome[p] = "running")
       /\ tx[p].new \subseteq DOMAIN tx[p].seen
       /\ \A x \in DOMAIN tx[p].seen : IsRow(tx[p].seen[x])
       /\ DOMAIN tx[p].pend \subseteq DOMAIN Visible(p) \cup tx[p].new
       /\ \A x \in DOMAIN tx[p].alias : tx[p].alias[x] \in DOMAIN Visible(p) \cup tx[p].new
       /\ tx[p].keys \cap tx[p].held = {}

Causes == {"expiry", "stall", "accept", "reset"}

\* What runs the sessions has its types.
TypeOK ==
  /\ lock \in {Nothing, SyncJob, Refresh}
  /\ job \in [Procs -> {"idle", "running", "failing"}]
  /\ DOMAIN results \cup stored \subseteq Stages
  /\ errors \subseteq Stages \cup {"pipeline"}
  /\ lost \subseteq Causes

Commits(p, kinds) ==
  tx[p].kind \in kinds /\ plan[p] = <<"commit">> /\ outcome'[p] = "ok"

\* A synchronisation that nobody disturbs fills gaps: a code, a normalised
\* name or a country that a row has stays as it is (merge_..._from_openflights
\* and the "if not" of _link, _backfill and sync_airlines_to_metadata).
GapsOnly ==
  [][\A p \in Procs :
       Commits(p, {"master", "sync", "stage"}) /\ tx[p].calm =>
         \A x \in DOMAIN rows : \A f \in {"code", "norm", "country"} :
           rows[x][f] # Nothing => rows'[x][f] = rows[x][f]]_vars

\* Once a synchronisation has been committed, another one of the same feed
\* resolves every airline of it to a row that is there: it creates none,
\* whatever crawls, enrichments and stale synchronisations came in between.
SecondSyncKnowsTheFeed ==
  \A p \in Procs : At(p, "flushAirlines") /\ tx[p].second => tx[p].new = {}

\* After a synchronisation that nobody disturbs, every active core airline has
\* its metadata, unless the row it resolves to belongs to another airline.
CoreIsCovered ==
  [][\A p \in Procs :
       Commits(p, {"master"}) /\ tx[p].calm =>
         \A i \in DOMAIN world.cores :
           LET c == world.cores[i]
               alias == tx[p].alias
           IN c.active =>
                \/ \E x \in DOMAIN rows' : rows'[x].core = c.id
                \/ /\ c.slug \in DOMAIN alias /\ alias[c.slug] \in DOMAIN rows'
                   /\ rows'[alias[c.slug]].core # Nothing]_vars

\* The airlines a synchronisation says it has created or backfilled are those
\* it inserts, also when it starts over because somebody has taken a slug (and
\* the rows and sessions keep their types).
CountsReconcile ==
  /\ []SessionsTyped
  /\ [][\A p \in Procs :
          Commits(p, {"master"}) => tx[p].created = Cardinality(tx[p].inserted)]_vars

\* The two pipelines run at the same time only after one of them has lost its
\* lock while it ran, to its expiry, a stall cleanup, an accepted operation or
\* a reset: starting, skipping, failing, ending and dying, the pipelines never
\* give away each other's lock (and the variables keep their types).
OverlapNeedsRemoval ==
  /\ TypeOK
  /\ job[SyncJob] # "idle" /\ job[Refresh] # "idle" => lost # {}

\* What "completed" says of the aviation pipeline: each of the stages that
\* write airlines has committed in this run, or is listed as failed, or was
\* taken back by the reconciliation.
CompletedIsTold ==
  blob.op = SyncJob /\ blob.status = "completed" =>
    \A s \in {"master", "metadata"} :
      s \in stored \cup blob.failed \/ results[s] = "reconciled"

=============================================================================
