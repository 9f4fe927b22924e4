# SkyTrax Analytics: models and proofs

TLA+ models of the operational core of SkyTrax Analytics (`src/`), the TLC runs that check them on
small instances, and theorems about them that TLAPS checks for every instance. Paths below are
relative to the repository; `refresh_pipeline.py`, `pipeline_watchdog.py` and
`operation_lifecycle.py` are in `worker/orchestration/`.

## 1. The system

SkyTrax Analytics crawls airline reviews (Scrapy), stores them in Postgres, enriches them (NLP,
analytics, an aviation master-data layer) and serves the result (FastAPI, React). Work runs in RQ
jobs on Redis queues; an APScheduler process enqueues the periodic ones, and an operator starts a
full refresh with `POST /operations/refresh`.

| Component | State it keeps | Operations | What makes it correct |
|---|---|---|---|
| Refresh orchestration (`api/operations_dispatch.py`, `pipeline_watchdog.py`, `operation_lifecycle.py`, `refresh_pipeline.py`) | five Redis keys: refresh lock, watchdog lock, lifecycle record, dispatch lock, status blob; the RQ queue | accept, enqueue, heartbeat, finish, reconcile, release, reset | one refresh at a time; a duplicate is refused; an abandoned one is reported and the next can be accepted; a live one is left alone |
| Scheduled job lock (`worker/job_lock.py`, `_with_lock` in `worker/jobs.py`) | a `scheduled_jobs` row per job name | acquire, release | no two executions of a job overlap; a dead holder does not block the job for ever; the row tells whether the job is running |
| Crawl governor (`worker/subprocess_governor.py`, `scraper/extensions/telemetry.py`) | a child process, the crawl part of the status blob | launch, poll, terminate, kill; spider events | a crawl that hangs ends; the final counts are the spider's |
| Review persistence (`scraper/pipelines/scrapy_pipeline.py`) | an SQLAlchemy session, the batch counter, the `reviews` table | process item, flush, commit, rollback, close | a fingerprint is stored once; a duplicate costs nothing but itself; the counters are the rows |
| Stage runner and reconciliation (`refresh_pipeline.py`, `operational_reconciliation.py`) | stages, errors, KPIs, terminal status | run stage, retry, degrade, reconcile, persist | the terminal status agrees with the errors that are left |
| Review enrichment (`analytics/metadata_extractor.py`, `_enrich_pending` in `worker/jobs.py`, `nlp/topics.py`) | `review_intelligence`, `nlp_results`, `topic_snapshots` | extract a batch, enrich a batch, rebuild the snapshots | a review has one derived row; what a pass reports is what it wrote; snapshots show the results |
| Forecasting isolation (`worker/forecasting_isolation.py`, `analytics/forecasting/service.py`) | crash window, cooldown, safe mode, `forecast_snapshots` | spawn, time out, fall back, commit | repeated native crashes stop the spawning; a forecast that is reported is stored |
| Runtime state (`app/runtime_state.py`) | one JSON document in Redis, a list of degraded events, a copy in each process | merge, record, remove, reset | what one writer puts in is not lost to another; the copies agree |
| Schema governance (`database/*_schema.py`, `alembic_version_repair.py`, `app/startup_governance.py`, `database/migrations/`) | tables, columns and the Alembic version; the verdict in the runtime document | preflight, audit, repair, upgrade, publish | start-up refuses a schema the code cannot use; a stage is skipped only for a table that is missing |
| Aviation master data (`aviation/master_data/`, `scripts/bootstrap_aviation.py`, `scraper/pipelines/aviation_pipeline.py`, `AviationSyncPipeline`) | airline, airport, alliance and hub rows | synchronise, enrich, crawl, run the aviation pipeline | a second synchronisation creates nothing; sources only fill gaps; every core airline has metadata |
| Health views, statistics, HTML extraction, front end, deployment | none of their own | pure reads, arithmetic, rendering | numeric or presentational: see section 7 |

How they interact: the API and the workers never call each other. They share Redis keys without
transactions (every key is read, decided upon and written back in separate commands), the RQ
queue, and Postgres. Each API process runs a watchdog loop (`api/main.py:89`), the scheduler
enqueues another one, and even a reader of `GET /operations/status` may release a stalled
operation. The refresh pipeline starts the spider as a child process; the spider writes telemetry
into the status blob, the governor polls that blob to decide whether to kill it, and writes its
own heartbeats into the same blob. The refresh's stages are also jobs of their own (metadata
backfill, NLP enrichment, aviation synchronisation), under other locks or none, so two of them may
be in the same table. Every container runs the start-up governance before it serves, and the
refresh pipeline reads the verdict it left.

What is hard to test here: two accepts at once, an accept against a watchdog, a watchdog writing
back a blob the worker has replaced, the refresh lock deleted under the pipeline that holds it,
workers killed at any point and retried, jobs waiting longer than a threshold, a duplicate key in
the middle of an uncommitted batch, a check-then-act lock on a database row, a child that hangs
while its supervisor overwrites the evidence, a document that several processes load, change and
save, two containers that migrate one database, two passes that fill one table, counts taken at
different moments and subtracted from each other. `PROJECT.json` lists them one by one under
`hazards`.

## 2. Plan and state of the work

The order is by what a failure would cost an operator, and each component is modelled so that it
can be proved about: parameters are CONSTANTS with named assumptions, one action stands for one
handler step, invariants are conjunctions of named parts, and no module declares a RECURSIVE
operator.

| | Module | Composed from / implements | State |
|---|---|---|---|
| 1 | `RefreshOrchestration` | extended by `RefreshEnvironments` and `CalmRefresh`, the environments it runs in | modelled, checked, safety proved |
| 2 | `JobLock` | | modelled, checked, safety proved |
| 3 | `OperationLifecycle` | implements `LifecycleRegister` | modelled, checked, refinement proved |
| 4 | `ReviewPersistence` | | modelled, checked, safety proved |
| 5 | `CrawlGovernor` | | modelled, checked, safety proved |
| 6 | `PipelineRun` | stage runner, dependency contracts, reconciliation, persistence of the run | modelled, checked, safety proved |
| 7 | `ForecastIsolation` | extends `RuntimeState`, the document it keeps its memory in | modelled, checked, safety proved |
| 8 | `SchemaGovernance` | extends `Migrations`, the chain of revisions as data | modelled, checked, safety proved |
| 9 | `AviationPipeline` | extends `AviationSync`, the transactions its stages run | modelled, checked, safety proved but for one property |
| 10 | `ReviewEnrichment` | | modelled, checked, safety proved |

Every invariant of a passing run is a theorem, and every action property but one: what remains is
`SecondSyncKnowsTheFeed` of the Aviation run (section 5 says why it is harder than the others),
and liveness.

An abstract specification is worth stating where callers rely on one: the lifecycle manager
(`LifecycleRegister`, done) and the stage runner (a run that is a sequence of verdicts with one
terminal status, planned, to be implemented by `PipelineRun`).

## 3. Modules and code

**RefreshOrchestration** is the operational core: every process that touches the five Redis keys
of a refresh.

| State | Code |
|---|---|
| `lock`, `wdLock` | `skytrax:ops:refresh:lock` (an operation id) and the watchdog's reconcile lock |
| `record` | the lifecycle record of `OperationLifecycleManager` |
| `status` | the blob `_set_status` writes: the operation, its stage, the age of `updated_at` |
| `queued`, `delayed`, `retries` | the RQ queue, the ScheduledJobRegistry, RQ's retry counter |
| `pc`, `view` | where a request or a watchdog pass is, and the blob it decided on |
| `wpc`, `job` | where a worker is in `execute`, and for which operation |
| `deprived` | history: operations whose lock was removed by somebody else |

A request runs `Submit` (or `SubmitForced`), a reconcile pass (`ReconcileSkipped` |
`ReconcileNothing` | `ReconcileRead`, `ReconcilePersist`, `ReconcileCleanup`), then `ReadLive`,
`ReleaseStalledState`, `Accept` | `Reject`, `SetInitialStatus` | `SetInitialStatusFails` (Redis
fails, the exception is swallowed), `Enqueue` | `EnqueueFails`. A watchdog only runs passes. A
worker runs `Dequeue`, `AcquireLock` | `SkipLocked`, `Beat`, `Finish`, `Unlock`, and may `Crash`
anywhere, with a retry that `PromoteRetry` brings back if an RQ scheduler exists. `Reset` is the
operator's. Time is the age of the blob's last write in the classes the code compares it with:
`HEARTBEAT_TIMEOUT_S`, the stall thresholds of the stages (`StageStalls`, 90 to 420 s in the code;
each look at the blob finds one of them, as the stage is not kept) and `QUEUED_GRACE_S`; it
saturates at the last one, which no comparison exceeds. A worker that beats without progress
counts as one that does not beat. The two calls taken as one step, `accept_refresh` and
`transition`, are opened up in OperationLifecycle. `RefreshEnvironments` defines the environments:
*calm* (requests one at a time, none forced, live operations beat and progress in time, Redis
takes every status write, retries never promoted), *racing* (calm, requests interleave), *watched*
(everything but promoted retries). `CalmRefresh` puts the free and the calm one into one
specification: its variable `calm` chooses between them in the initial state. The MC modules only
give the constants their values.

**OperationLifecycle / LifecycleRegister**: the lifecycle manager one Redis command at a time
(`TryLock`, `Check`, `Create`, `Release`; `TransitionRead`/`TransitionWrite`;
`ClearRead`/`ClearDelete`; each may fail, a request may `Die`, keys may expire), and the register
its callers rely on: an accept happens at once and only when nothing is active, a transition at
once and only for the operation that holds the record. `intact` turns FALSE at the first
*disturbance*, the situations in which the commands are no longer an atomic call: a Redis command
of `accept_refresh` failing (the code goes on as if nothing were active), the 8-second dispatch
lock outlived, an active record expiring, two writers in the middle of calls for one operation, or
a call for an operation that is not the active one meeting another call.

**PipelineRun** is what RefreshOrchestration takes as one job, from the inside:
`OperationalRefreshPipeline.execute`, its stages, and the reader that interprets its blob.

| State | Code |
|---|---|
| `pc`, `next`, `attempt` | where `execute` is, the current stage, which execution of the job by RQ |
| `results`, `errors`, `kpis` | `self.results`, `self.errors`, `self._kpis` |
| `db` | the tables that have rows |
| `blob`, `row` | the status blob as `_set_status` writes it; the `operational_refresh_runs` row |
| `worked`, `evidence` | history: stages whose work succeeded; stages whose data were there at reconciliation |

A stage is skipped (`SkipBlocked` by the schema, `SkipContract` by its upstream data) or begun
(`BeginStage`), ends (`Succeed`, `SoftFail`, `Raise`), and its end is reported (`Report`, or
`Handle` in the except clause). Then `Reconcile`, `Conclude` | `Fail`, `Unlock`, `Persist`,
`Return`. Each status write has a variant that raises, after which it may have been applied or
not; the work-horse may `Crash` at any point and RQ may `Retry`. `Refuted` is
`reconcile_pipeline_events`, and `Reading` is `reconcile_live_status_payload`, which applies it
again to what the blob says. `PropagationMissing` is what happens in a checkout without
`aviation/operational_propagation.py`, `Reconcile` what happens where the module is deployed. What
a stage computes is a choice; a table is abstracted to whether it has rows, an error text to
whether it matches the pattern by which its stage's failure is refuted. The lock, other operations
and the watchdogs are RefreshOrchestration's.

**JobLock**: the `scheduled_jobs` row of one job name (`row`), what each execution's session has
loaded (`loaded`), and `_with_lock` around the job (`point`). `Read` and `TakeLock` | `CreateRow`
| `MeetsLock` are `acquire_job_lock`; `ReleaseRead` and `ReleaseCommit` are `release_job_lock`,
whose commit writes only the attributes that differ from what it loaded. A job runs again at once
when it fails (`Retry`), may lose its work-horse (`Crash`) or its database (`ReleaseFails`), and a
lock passes from future to past (`Expire`).

**ReviewPersistence**: `PostgresPersistencePipeline` of several concurrent crawls of one airline.
`txn[s]` is what a session's open transaction holds exclusively (reviews, the airline's slug, the
row lock of its `UPDATE`), `table` what is committed. `ProcessReview` looks the fingerprint up,
`FlushAirline`, `FlushTouch` and `FlushReview` are the statements the session emits, `Commit`
happens every `BatchSize` writes, `AbortVictim` is Postgres breaking a deadlock, `Close` the end
of the spider, `Kill` the governor's or the platform's.

**CrawlGovernor**: the crawler (`Crawl`, `Publish`, `Hang`, `SpiderClosed`, `Exit`) and its
supervisor (`Poll`, `Beat`, `Sleep`, `WaitReturns`, `Kill`, `GiveUp`, `PollExited`, `Collect`)
around the one Redis value both write. `Watched` is `_update_state`'s tracking, `Alarms` the eight
triggers, `FirstAlarm` the order they are tried in.

**ReviewEnrichment**: passes over the two tables that are derived from the reviews. A stage of the
refresh and an RQ job run the same code; the refresh takes none of the job locks, so any two
passes may be at the same rows.

| State | Code |
|---|---|
| `stored`, `author` | committed reviews, numbered by `created_at`; the derived rows and who wrote them |
| `held` | reviews whose derived row a pass has inserted and not committed |
| `pc`, `loc` | where a pass is in its loop, and its local variables: the batch, the counts taken so far |
| `result` | what it has returned |
| `topics`, `locked` | the generations of `topic_snapshots`, and those a refresh of them has deleted and not committed |

An extraction runs `Open` and `CountTables` (a count of the derived rows that fails ends it, a
failed count of the reviews reads as 0), then per batch `Load`, `CountReviews`, `CountBefore`, one
`Insert` per row (it waits for another transaction's row of the same review, and meets `Conflict`
when that was committed), `Commit` and `Recount`, which stops, gives up or goes on; `After` are
the counts of the stage. An enrichment has one batch, then `StartRefresh`, `Delete`, `Airlines`,
`Label` once per airline and polarity (`Subject` says which a review is of) and `Publish` rebuild
the snapshots. A pass may fail in a query or die anywhere. The tables never meet, so the initial
state chooses which one a behaviour is about.

**RuntimeState / ForecastIsolation**: the runtime document as a register of which every process
also has a copy (`mem`), and the forecasting stage that keeps its memory in it. A call is a chain
of Redis accesses (`RecordCrash` or `RecordDegraded`, `ReadHistory`, `MergeLoad`, `Save`,
`ReadList`, `ReplaceList`); any access may fail and then the process uses its copy. `Start` looks
at the cooldown and `Decide` at the safe mode; the child commits, posts its result, dies or hangs;
the parent joins it, gives it up at its timeout and falls back, in safe mode or in the stage's own
process. `Batch` is `generate_and_persist` over the outcomes of the airlines, one of which may
roll back what the others added.

**Migrations / SchemaGovernance**: a database is the set of its tables and of the columns somebody
audits, its Alembic stamp and the width of the column that holds it; `Chain` is the thirteen
revisions as data, and `Upgraded`, `Downgraded`, `ReachesHead` are computed from it. A service
runs `Start`, `Preflight`, `Validate`, `UpgradeBegin`, `UpgradeEnd`, `Revalidate`, `SaveVerdict`,
`CloseStart`, once in its entrypoint and once in its own process; the refresh publishes the same
verdict and then reads it stage by stage (`Refused`). Operators upgrade, downgrade, run the repair
script or create the tables no revision creates.

**AviationSync / AviationPipeline**: every transaction that writes aviation rows, as a plan of
steps that are reads or writes of the database.

| State | Code |
|---|---|
| `rows`, `others` | `airline_metadata` by slug; the unique keys of the other aviation tables |
| `plan`, `tx`, `outcome` | the steps left of each process's transaction, its session, how the last one ended |
| `seen`, `alias`, `linked`, `next` | of a session: its objects, `slug_lookup`, `linked_ids`, the loop's entry at hand |
| `pend`, `new`, `keys` | what the next flush writes; the slugs and keys it inserts |
| `wrote`, `inserted`, `held` | the same, flushed and not committed |
| `lock`, `blob`, `todo`, `results`, `errors` | the Redis lock and status of the two pipelines; the parts, results and errors of a job |

The master synchronisation is `Load`, `Resolve` (one turn per airline of the feed), `Link`, and
`Load`, `Backfill` (one turn per core airline); the enrichment is `Sync` and `Pairs`, the crawl
one `Item` per page. Sessions do not autoflush: a query sees what is committed and flushed, an
assignment changes an object, and only `Flush` brings the one to the other. It waits for the
session that has written one of its keys, and clashes with one that was committed meanwhile;
`Recover` is the one attempt the synchronisation makes again, from its savepoint.
`AviationPipeline` runs these transactions as the parts of three jobs (the aviation pipeline, the
refresh's stages, the bootstrap) with the lock, the results and errors, the terminal status and
the reconciliation. Everybody else who deletes the lock is there too: its expiry (`Expires`), a
watchdog or a reader that finds the status stalled and writes it back (`Judge`, `WriteBack`,
`CleanUp`, with what it has read in `view`), an operation that is accepted (`Accepts`) and the
operator's reset (`Resets`). Stages of the aviation pipeline write no heartbeats, so no clock is
kept here: a running status may be found stalled or alive whenever it is looked at. `lost` is the
history of what took the lock from a pipeline that ran. RefreshOrchestration has the same actors
with clocks, records and requests, and one pipeline of the two.

`PROJECT.json` maps each definition to its lines.

## 4. What is checked

Every run is exhaustive on its instance. `CHECK_DEADLOCK FALSE` stands where requests, jobs and
crawls are finitely many in an instance, so that the system may stop once they have ended; the
start-up run checks deadlock, as refreshes come again and again.

| Run | Instance | What it shows |
|---|---|---|
| RefreshLocks | 3 operations (2 in the free environment), 2 workers, 1 watchdog, 1 retry, retries promoted | free: the lock and the record keep their discipline, two pipelines overlap only if one was deprived of its lock, the record of an active operation is never handed over, a completed record is reopened by a retried job only. Calm: one operation at a time and duplicates refused, in spite of crashes, failed enqueues and stale watchdog writes (767,042 states) |
| RefreshWatched | 2 operations, 1 worker, 1 watchdog, no RQ scheduler (as `runner.py` starts the worker) | an abandoned run does not stay on display as running (194,378 states) |
| RefreshRacing | the calm environment with interleaved requests, 2 operations | *violation*: both are accepted |
| PipelineRun | knowledge_graph, aviation_master, fusion; 2 attempts; any tables to begin with | stages run over existing data; completion is earned; row, blob and reader agree as far as the code makes them (1,520,768 states) |
| OperationLifecycle | 3 operations, 2 writers | the commands implement the atomic register up to the first disturbance (46,421 states) |
| JobLock | 2 executions, 1 retry | overlap needs a race of two acquisitions; a set lock has somebody who will reset it or a casualty; the lock of a run without casualties is reset (19,104 states) |
| Reviews | 2 crawls, 3 fingerprints of which 1 refused by its column, batches of 2, 3 items each | no more than a batch is lost at once; `inserted` = stored + open + lost; every crawl ends (64,256 states) |
| CrawlGovernor | 2 airlines, 2 pages; thresholds 1, 1, 2, 3, 3, 5 | alarms are true of the crawl as published; a success is over; the stage ends (1,149,818 states) |
| Enrichment | 2 extractions over 3 reviews, or 3 enrichments over 2; batches of 2, 2 batches | what a pass reports is what it wrote; an extraction that stops has covered what was there; passes that wait for each other end; snapshots heal (503,611 states) |
| Forecast | 2 processes, 1 operation, 2 stages, window 2, cooldown 3, time 3; five budgets of forecasts, calls and faults | a cooldown needs three crashes in a window; the third crash stops the spawning; a report that claims more than is stored lists an error; the two copies of the history agree unless calls overlapped (4,049,364 states) |
| Startup | 2 containers, the refresh, an operator; 12 pairs of a deployment and a database; 1 fault, 1 change | the stamp is true; nothing makes the chain unrunnable; what is up in production is usable, in development migrated; refused stages are those with something missing (891,812 states) |
| Aviation | aviation pipeline, refresh, bootstrap; six worlds | the pipelines exclude each other until something else takes the lock of a live one; a completed run hides no failed stage; synchronisations fill gaps, know the feed again the second time, cover the core airlines and count what they insert (1,539,483 states) |

**Bounds.** Two operations are what every pairwise race needs; the third of the calm environment
lets one operation finish, another be stale in a watchdog's view and a third be accepted. Two
workers are what an overlap needs. One watchdog suffices: a pass is serialised by `wdLock` while
it lasts, requests run passes too, and `WatchdogLockExpires` lets them interleave. One retry lets
an attempt be killed, repeated and killed again. The age classes keep the order of the code's
thresholds, with two stall thresholds of stages between the heartbeat timeout and the grace of a
queued job. PipelineRun has three of the four stages whose failure can be refuted, one of each
form (by KPI, by schema, by generated signals), two of them gated and one feeding the other;
metadata in front adds a stage whose failure is refuted as knowledge_graph's is, and the proofs
hold for any list. Two attempts let a killed run leave a blob or a row behind. In Reviews a batch
of 2 with 3 items gives a full batch plus an open one, and two crawls with three keys give every
deadlock of two sessions. In CrawlGovernor thresholds are scaled to poll ticks keeping their order
(zero throughput, page and hash stalls share one; no-insert and static-airline are longer; the
hard timeout is the longest), and two pages on two airlines make each trigger reachable.
`MaxPages` and `MaxItems` bound what a crawl yields; ages saturate one above the largest
threshold.

In Enrichment three reviews and batches of two give a full batch, a partial one and an empty one,
and two batches let an extraction run out of them; the third enrichment sees what two overlapping
ones leave. In Forecast four forecasts are three crashes and one that must not spawn, a window
shorter than the time lets a crash leave it, and two calls on the degraded history are an overlap;
the budgets (`Budgets`) keep apart what does not interact: a budget with forecasts alone, with a
fault, with airlines, with calls alone, with one of each. In Startup the databases are the ones
the migrations leave at interesting revisions (none, 2 with reviews 0003 cannot delete, 5, 5 with
its bare number for a revision, 9 with the legacy aviation table, 10 with its bare number, head,
head with the tables no revision creates), and the deployments are production, the development
compose file, development with repairs, staging. In Aviation each world (`SmallWorlds`) is one
difficulty: two feed entries with one code, a page that disagrees with the feed, two pipelines
inserting one airline after an accepted operation took the lock from one of them, the shared lock
without any such loss, one pipeline that everybody watches and takes the lock from, a crawl
between two refreshes; `losses` says who may take the lock and which processes may die in it. An
overlap needs both pipelines and one cause, which the third world has; what the other causes do to
a lock, alone and after each other, the fifth has, and the theorem has all of it at once.

The symmetry sets permute operations, workers, writers, containers or processes in safety runs
only: all of them are interchangeable model values and no definition names one.

**Fairness.** RefreshWatched: clocks run; a TTL ends; each watchdog loop looks again and again
(`api/main.py:89`, an interval of seconds) and its pass is not killed every time (strong fairness,
as `wdLock` may be taken by others in between); a request that has begun a pass finishes it.
Workers and operators owe nothing. JobLock: an execution that is not dead takes its next step, RQ
starts what is queued. Reviews: a session's statement returns once its locks are free, Postgres
breaks deadlocks (`deadlock_timeout`), a pipeline goes on to its next item or closes.
CrawlGovernor: only the governor's own loop is fair; the crawler may hang at any point, that is
what the stage must survive. Enrichment: a worker that runs a pass keeps running it; nobody need
start one, and it may die. There is no deadlock detection among these assumptions: that two passes
over overlapping batches never wait in a circle is what `PassesSettle` checks.

## 5. What is proved

All theorems hold for every value of the constants that meets the named assumptions: operation ids
do not contain the empty id nor name a watchdog (`OpsAssumption`, `NoOpAssumption`), retries are
natural numbers, thresholds are ordered as in the code (`AgeAssumption`), batches are positive,
`created_at` is a number, airlines and the steps of a forecast are counted (`ForecastAssumption`),
and the databases one starts with were left by the chain of revisions and may hold more tables
than it creates (`HistoryAssumption`, which TLC evaluates on every database of the Startup run).
Of the aviation feeds, core airlines, pages and tables the theorems assume their types and that no
two core airlines have one slug, which the table's unique index sees to (`WorldsAssumption`); that
NULL is no text (`NothingIsNoText`) and the three jobs are three (`ThreeJobs`). Type correctness
is a theorem of each of these modules (and a conjunct of a checked invariant in the others).

*RefreshOrchestrationProofs.* `LockDisciplineHolds` is the inductive invariant, `TypeOK` with
`OneJobPerOperation`, `RecordNamed` and `WorkingHoldsLock`. `WorkingHoldsLock` (a worker inside
its stages whose operation was not deprived has its id in the lock) is not inductive alone: a
retry passes its own lock, so one must also know that no second job of the same operation exists,
neither queued, delayed nor on another worker, which is `OneJobPerOperation`. Overlap without
deprivation is then a contradiction between two ids in one key (`OverlapNeedsDeprivationHolds`),
and `RecordNotStolenHolds` is an action property from the same invariant, as is
`CompletedIsFinalHolds`: a completed record has no job left but a delayed retry (`CompletedRests`,
`DelayedWasRetried`). `CalmIsExclusive` is about both environments of `CalmRefresh` at once, whose
steps are steps of the specification, so that all of the above holds there too. What calmness adds
is `CalmInv`: at most one operation is in flight, a live one owns the record (`LiveIsRecorded`)
and is the one on display or about to be (`LiveIsShown`); the blob of a live operation, in Redis
(`BlobsAreFresh`) or in the hands of a watchdog or request that has read it (`ViewsAreSound`), is
as young as it was when written, because clocks rest while something is live. Hence a pass that
decides to persist or to release has decided about an operation that is no longer live, and
neither the record nor the lock of a live one is taken away. The model takes the lifecycle calls
as atomic; the next theorem says when they are.

*LockProofs*, the lifecycle manager and the job lock. `ImplementsRegister` is `Spec =>
CallsAreAtomic`, the refinement. Its invariant (`Undisturbed`) says, while `intact`: at most one
request is inside the dispatch lock's section and the lock is set for it; a request about to
create has seen nothing active and nothing has become active since; a writer between its read and
its write still finds the record it read. For JobLock, `LockAccountedHolds` (a set lock has an
execution that will reset it, or one died or failed without), `OverlapNeedsRaceHolds` and
`RowShowsRunHolds` rest on `RaceInv`: until two acquisitions interleave, at most one execution is
past the lock and the row carries its mark.

*PipelineRunProofs*, for any list of distinct stages and any number of attempts. `GatesSound`
rests on `GateInv`: the gate believes the run's own counts, so every positive KPI, and the count
of every stage but fusion, must be that of a table with rows (`KpisStored`, `CountsStored`).
`CompletionEarned` rests on `EarnInv`, which follows the record of a stage through the run: before
its turn it has no error (`Clean`); after it, no error means it worked (`WorkNoted`); after
reconciliation, no error means it worked or its data exist (`ReconciledEarned`); generated signals
never count for a fusion stage that failed (`FusionClean`), hence `_blocking_errors`' exemption
for fusion never applies; and only the terminal write of this attempt says completed
(`NotYetCompleted`). `RowIsTheBlob` rests on `RowInv`: past the terminal write the blob and the
errors agree on whether anything blocks (`EndTold`; a failure of the pipeline itself always does),
and a row of this attempt is written only after it. `ReadersAreTold` rests on `ShownInv`: every
error left something in its stage's result (`ErrorsTold`) and the blob's KPIs and counts are those
of tables with rows (`BlobStored`), so a degraded blob accounts for each stage and what a reader
takes back has its data.

*CrawlProofs*, the crawl from both sides. `BoundedLoss` (an abort costs at most a batch) and
`CountsAreReconciled` (the counter is what is stored, open and lost) rest on one invariant over
every session: the writes it counts since its last commit are the reviews of its open transaction,
those are in no other session's and not in the table, and what it has ever counted is partitioned
into stored, open and lost. For the governor, `SuccessIsGone` follows the pair of the child's
state and the governor's point through every step. `AlarmsTellTheTruth` is an action property: the
governor's snapshot is of the crawl as it was published (telemetry is never ahead of the crawler),
so each trigger's comparison bounds the time since the crawler's own last change.

*ReviewEnrichmentProofs* has four arguments over one type invariant with what a pass's locals mean
at each point (`Local`). *Apart*: no two passes hold one review, and a held review has no
committed row, so a row has one author. *Tally*: at each point of its loop a pass's `analysed`,
with the batch at hand, is the number of rows it has committed; that its rows are counted after
the commit gives `ReportsAreTrue`. *Cover*: while reviews arrive in order, what an extraction has
seen is closed downwards, the batch is the oldest pending part of it (`PendingWhenOpen` finds the
oldest by well-foundedness) and `remaining = 0` means there are at least as many rows as seen
reviews; that they are the same ones is a counting lemma on down-closed sets (`EnoughIsCovered`),
hence `StopsWhenCovered`. *Snapshots*: `SoloRefreshIsWhole` compares the generations a refresh saw
with those it leaves if none ran beside it, and `SnapshotsCatchUp` follows the generations of
ended passes until one that includes every derived row exists.

*ForecastIsolationProofs*, for any number of processes, calls and faults.
`CooldownNeedsThreeCrashes`: every copy of the document, those of calls under way included, holds
only recorded crashes and, if any, a cooldown that closes a loop of three (`SoundInv`); what was
earned stays earned as the log grows, so races, stale copies and outages may lose a cooldown but
not make one up. `BothHistoriesAreOne` and `CrashLoopsAreHalted` hold until calls overlap or Redis
fails and rest on `Orderly`: at most one call is under way, and at each of its points one knows
what the document and the list will be when it ends (`StandsIn`); a document at rest knows every
crash in the window and the term of every loop (`CurrentIn`), because a loop that ends with the
new crash has its other two crashes still in the window (`ThreeAreALoop`). `OverclaimsAreListed`
rests on `ClaimsInv`: a batch that lists no error has stored what it counted, a child that may
still post its answer is waited for, and what it has committed are the stage's rows. Its types
(`HistoriesTyped`) need that `Without`, a recursive function, returns a list; that the function
exists is shown by taking a least length without one.

*SchemaGovernanceProofs*, for any services, operators and changes. The chain of revisions is data,
so which revision brings a table or column (`Born`, `BornGroup`) and that it asks for nothing that
is not born before (`ChainOrderly`, `ReferencesOrdered`) are statements about thirteen constants.
`SchemaInv` says of every database that occurs that it is `Consistent`: what is born up to the
stamp is there, what a later revision insists on creating is not. Every upgrade, downgrade, repair
and creation keeps it, hence `StampIsTrue` and `ChainNeverStuck`. `UpIsUsable` rests on `Usable`:
in production a start migrates and repairs nothing, so what a service has validated can only have
its version column widened. `MigratedBeforeUp` rests on `Migrated`: an upgrade under way will end
at head or somebody else has been there first, one that is behind a service has left the schema at
head. `SkipsExplained` rests on `Explained`: undisturbed, the refresh has published what it would
still find.

*AviationPipelineProofs*, for any feed, site, tables and faults. `PipelinesExclude`: until
somebody other than the two pipelines has taken it from one that runs, the lock is held by the
pipeline that runs (`LockKept`); so an overlap has one of the four causes, and starting, skipping,
failing, ending or dying is none. `CompletedTells` follows the
run through its parts: a stage that is over has committed, or is an error, or its result says so
(`RunAccounted`), and the transaction at hand belongs to the stage at hand (`UnderWay`).

What a transaction does to the airlines is three theorems from one invariant, `SyncInv`. It needs
one, because nothing in a single step tells a session's lookup from the table: the rows it sees,
the objects it changes and what the next flush writes are three functions that drift apart between
flushes, and others commit meanwhile. `Work` says of each session that is under way: whatever
others do, its aliases, objects and pending changes are of rows it can see or inserts, a row it
inserts is complete, and keys it wants are not those it has (`Sound`); while nobody else commits,
its objects are what the table will be after the next flush (`Agrees`) and differ from what is
committed only where that has a gap (`Kept`). A flush, which drops the objects, keeps `Kept` only
because of `Agrees`, and an assignment keeps `Agrees` because objects and pending changes get the
same columns. So a commit fills gaps only: `GapsStayFilled`. For the master synchronisation,
`Phase` says what holds before each of its fourteen steps. `created` is the number of rows
inserted, flushed or not, and nothing is pending at the commit (`Tally`), also after `Recover`,
which must reset the count with the rows: `CountsAreTrue`, in which others may commit at any time.
The lookup of a calm session knows every row, so a slug it misses is free; the core airlines
before the one at hand are covered (`Covered`), and the links read before the loop hold while
columns are only filled (`LinksHold`): `CoresAreCovered`.

Only model-checked: liveness (`AbandonedIsReported`, `LockFreed`, `EveryCrawlCloses`, `StageEnds`,
`PassesSettle`), which is out of this prover's reach, and `SecondSyncKnowsTheFeed`. That one
compares a synchronisation with what an earlier one left: each entry of the feed must still find a
row by slug, code or name after other sessions, some of which read the table before the first one
committed, have written over names, codes and links. It needs an invariant about the writes every
open session still has to make against a table that has moved on; the one at hand (`Agrees`,
`Kept`) is about sessions that nobody has disturbed, and no inductive one has been found.

## 6. Findings

The violation listed in `PROJECT.json`:

1. **Two refreshes accepted** (RefreshRacing). `release_stalled_state` without an id releases
   whatever is active; a request whose record exists but whose blob is not yet written looks
   stale.

Met while modelling, consistent with the models above, no run of their own.

*Orchestration and jobs*

- The repository has neither `aviation/operational_propagation.py` nor `aviation/hub_enrichment`:
  every full refresh and every aviation synchronisation ends as failed after its stages have run
  (`PropagationMissing`), and `POST /aviation/propagate` (`README.md:181`) always fails.
- `release_stalled_state` (`pipeline_watchdog.py:378`) clears the record of the operation the blob
  names, which need not be the active one: that one answers 409 until its TTL of four hours.
- `prepare_accept_path` (`pipeline_watchdog.py:446`) releases a queued operation after 60 s
  although `QUEUED_GRACE_S` is 1800 s (`tests/test_pipeline_watchdog.py:138`), and deletes the
  lock of a stage that is alive but sends no heartbeats, as an isolated forecast of up to 600 s
  does.
- With an RQ scheduler, a worker that dies after its terminal write would be retried and reopen a
  completed record; this deployment starts none (`runner.py:36`).
- A skipped job returns normally (`refresh_pipeline.py:541`): its record stays `running` while the
  blob belongs to the holder of the lock.
- The row of an operation is that of the first attempt that recorded one (`operation_id` is unique
  and the failure is logged); the pipeline's own failure is recorded as `partial`; the first
  status write of `execute` is outside its `try`, so if it raises the lock stays for its four
  hours.
- `generate_and_persist` (`analytics/fusion_intelligence.py`) rolls a failed commit back and still
  reports signals as committed, so a run that stored none is completed; `CompletedIsEarned` takes
  the stage at its word.
- A reader shows a degraded run as completed when its failed stages were only skipped by contract:
  their results carry a reason but no `error`, and `reconcile_live_status_payload` rebuilds the
  errors from that key. `ReadingExplained` states what remains true.
- A failed job may leave no alert: a naive timestamp is compared with an aware one whenever the
  job lock is set, outside `_with_lock`'s `try` (`docs/ARCHITECTURE.md:147`). After a crash that
  leaves the lock set the same comparison blocks the job for ever, although `.env.example:41`
  gives the lock 120 minutes.
- Two `acquire_job_lock` calls that interleave both succeed (`job_lock.py:13` promises overlap
  protection); the history variable `raced` of JobLock marks exactly this.

*Crawls and reviews*

- The rollback for one duplicate discards all uncommitted reviews of its batch, which stay counted
  as inserted (`docs/etl_flow.md:7`).
- A hang goes unnoticed while the heartbeat erases the telemetry the triggers judge
  (`subprocess_governor.py:12`); a crawl's last telemetry may be erased too, and the stage then
  reports no reviews added.
- `duplicate_streak` (`subprocess_governor.py:243`) cannot fire after the first insert, because
  the page number it subtracts has been updated a few lines before; `static_airline` ends a crawl
  that progresses inside one airline after 300 s although the spider allows 10 minutes for it.
- `remaining` of an extraction can be 0 with a stored review pending, when reviews are committed
  out of the order of `created_at` and another pass overlaps; the loser of a conflict reports an
  error although the work was done by the winner; a count that fails after the extraction reads 0
  and is reported as `metadata_persistence_empty` (`refresh_pipeline.py:1295`).
- Two topic refreshes that overlap leave every snapshot twice, until one runs alone.

*Forecasting and the runtime document*

- An isolated forecast sends no heartbeats for up to 600 s while the hard stall is 180 s; `POST
  /forecasting/refresh` runs unisolated inside the API; a child killed at its timeout may have
  committed, and the fallback stores the same forecasts again.
- A rollback for one airline drops the rows of the earlier ones, and `created` keeps them; an
  error is listed.

*Schema*

- 0003 deletes reviews that `nlp_results` refers to, which aborts the upgrade; `alembic downgrade
  base` fails after 0011, whose downgrade leaves its tables.
- The development auto-migration refuses an empty database. `validate_schema` audits the semantics
  before the aviation repair it makes, and the repair adds neither `callsign` nor `region`. An
  exception in phase 1 leaves an empty report, which blocks nothing.
- At head `healthy` stays false until tables exist that no migration creates, so production with
  `SCHEMA_BLOCK_ON_DRIFT` never starts on a migrated database; `ALEMBIC_BLOCK_ON_TRUNCATION_RISK`
  does not stop the service.
- `docs/database.md:32` ("Migrations never abort when PostGIS is missing") is contradicted by
  `postgis_support.py:31`.

*Aviation*

- `AviationSyncPipeline._persist_run` (`refresh_pipeline.py:2091`) calls `self._blocking_errors`,
  which that class does not have: its runs are never persisted. A stage that returns an error is
  not in `self.errors`, so the run may be `completed` with failed stages listed.
- The lock of the aviation pipeline lives an hour, its airport spider has no timeout
  (`refresh_pipeline.py:1994`), and either pipeline deletes the lock without looking whose it is.
- The stages of the aviation pipeline send no heartbeats (`refresh_pipeline.py:1914-1945`), so
  long before the hour is over a live run looks stalled: the next operation that is accepted
  deletes its lock once the status is 60 s old (`pipeline_watchdog.py:446`, 370), the watchdog and
  readers of the status delete it after the hard stall (402), and a full refresh then runs beside
  it without any expiry. `OverlapNeedsRemoval` is what remains true: nothing the two pipelines do
  themselves has that effect.
- A second master synchronisation of the same feed may still insert an airline, though none of the
  feed (`SecondSyncKnowsTheFeed`): `_backfill_from_core` skips a core airline that is linked
  already (`sync.py:404`) before it sets its aliases (`sync.py:423-425`), so another core airline
  that the first synchronisation found by such an alias is not found by the second. With the core
  airlines `azul-air`, named Azul, and `azul`, named otherwise, an empty feed and a row `ad` that
  normalises to `azul`, the first synchronisation inserts nothing and the second a row `azul`.
- Feed entries that share an IATA code under different slugs make two rows; a duplicate airport
  code rolls the synchronisation back. The crawl's `_upsert_airline` overwrites with NULL what a
  page does not have; one `IntegrityError` rolls the whole crawl back while `upserted` goes on
  counting; after a failed flush in `_resolve_alliance` the session is broken and scrapy still
  exits 0.
- Two core airlines that normalise to one slug leave one without metadata. `/bootstrap/run`
  checks, then acts; two first runs at once clash on the slug of an alliance. An enrichment out of
  time reports the part it has done.

## 7. Not modelled

- Of a run: what its stages compute, the heartbeats inside a stage, the event list, lineage. The
  semantic, anomaly, hub and friction analytics are arithmetic over committed rows without control
  state.
- Scheduler and runner start-up: registration of fixed jobs. That the worker runs without RQ's
  scheduler is the constant `RetriesPromoted`.
- Health views and the read-only parts of the aviation views: reads of state others own. Spiders:
  HTML extraction. Front end and deployment: presentation and wiring.
- Of the runtime document: blocks that only pages read. Of the schema: columns and indexes nobody
  audits. Of the aviation rows: scores, timestamps, metrics, airports without a code, and the
  normalisation of names beyond what resolves an identity.
- Within modelled components: log lines, HTTP payloads, the five-second answer timeout of `POST
  /operations/refresh` (the thread goes on, whoever waits for it), `run_count` and the other
  timestamps of a job's row, and the event lists of the telemetry.
