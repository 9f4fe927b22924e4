----------------------------- MODULE PipelineRun -----------------------------
(***************************************************************************)
(* One refresh operation from the inside.  OperationalRefreshPipeline      *)
(* .execute (worker/orchestration/refresh_pipeline.py) runs its stages,    *)
(* skips the ones whose schema or upstream data is missing, goes on after  *)
(* a failed one, reconciles failures the data contradicts, reports the end *)
(* in the Redis status blob and records it in operational_refresh_runs.    *)
(* A reader of GET /operations/status reconciles the blob once more.       *)
(*                                                                         *)
(* The refresh lock, other operations and the watchdogs, which write the   *)
(* same blob, are the subject of RefreshOrchestration.                     *)
(*                                                                         *)
(* A table is abstracted to whether it has rows (no stage empties one), a  *)
(* KPI or a total to whether it is positive, and an error text to whether  *)
(* it matches the pattern by which its stage's failure can be refuted.     *)
(* Any read of a table may fail, and then counts as no rows.  A status     *)
(* write that raises may have been applied or not.                         *)
(***************************************************************************)
EXTENDS Naturals, Sequences

CONSTANTS
  Stages,      \* the stages a run executes, in order
  MaxAttempts  \* bound: executions of the operation's job by RQ

VARIABLES
  pc,        \* control point of execute
  attempt,   \* which execution of the job this is
  next,      \* index of the current stage
  results,   \* self.results
  errors,    \* self.errors: class of the first error of every reporter
  kpis,      \* self._kpis: the tables whose KPI is positive
  db,        \* tables with rows
  blob,      \* the status blob
  row,       \* the operation's row in operational_refresh_runs
  worked,    \* history: stages whose work succeeded in this attempt
  evidence   \* history: stages whose data were there at reconciliation

memory == <<next, results, errors, kpis>>
history == <<worked, evidence>>
vars == <<pc, attempt, memory, db, blob, row, history>>

-----------------------------------------------------------------------------
(* The stages and their data. *)

\* STAGE_LINEAGE: the table of a stage that contracts and reconciliation read.
Output ==
  [discovery |-> {}, crawl |-> {"reviews"}, metadata |-> {"metadata"},
   semantic |-> {}, knowledge_graph |-> {"graph_nodes"},
   forecasting |-> {"forecasts"}, anomalies |-> {}, insights |-> {},
   aviation_master |-> {}, fusion |-> {"signals"}, snapshots |-> {}]

\* required_upstream of the stages in _DEPENDENCY_SKIP_STAGES; fusion's own
\* validation wants metadata besides.
Upstream ==
  [knowledge_graph |-> {"metadata"}, anomalies |-> {"reviews", "forecasts"},
   insights |-> {"reviews"}, snapshots |-> {"reviews"},
   fusion |-> {"reviews", "metadata", "graph_nodes"}]

\* Stages a missing table or a drifted column may hold back.
Blockable ==
  {"metadata", "knowledge_graph", "forecasting", "anomalies", "semantic",
   "aviation_master", "fusion"}

\* Stages whose failure reconcile_pipeline_events may refute.
Refutable == {"metadata", "knowledge_graph", "aviation_master", "fusion"}

StageSet == {Stages[i] : i \in DOMAIN Stages}
Reporters == StageSet \cup {"pipeline"}

ASSUME StagesAssumption ==
  /\ Stages \in Seq(DOMAIN Output)
  /\ Stages # <<>>
  /\ \A i, j \in DOMAIN Stages : Stages[i] = Stages[j] => i = j
ASSUME AttemptsAssumption == MaxAttempts \in Nat \ {0}

Gated == StageSet \cap DOMAIN Upstream
Tables == UNION {Output[s] : s \in StageSet} \cup UNION {Upstream[s] : s \in Gated}

Classes == {"none", "refutable", "other"}
Texts(s) == IF s \in Refutable THEN {"refutable", "other"} ELSE {"other"}

\* err: the "error" key, "none" when absent; contract:
\* dependency_contract_failed; total: the stage's own count is positive.
Results ==
  [err : Classes, contract : BOOLEAN, total : BOOLEAN, reconciled : BOOLEAN]

Blank == [err |-> "none", contract |-> FALSE, total |-> FALSE, reconciled |-> FALSE]
Failure(text) == [Blank EXCEPT !.err = text]

NoResults == [s \in StageSet |-> Blank]
NoErrors == [s \in Reporters |-> "none"]

\* errors.append: readers look at a stage's first error only.
Noted(errs, s, text) ==
  IF errs[s] = "none" THEN [errs EXCEPT ![s] = text] ELSE errs

-----------------------------------------------------------------------------
(* Reconciliation, in the worker and in every reader. *)

\* _metric, _fusion_signal_count: the KPI or the stage's own count.
Positive(s, res, known) == res[s].total \/ Output[s] \subseteq known

Erring(s, res, errs) == IF errs[s] # "none" THEN errs[s] ELSE res[s].err

\* Stages whose failure reconcile_pipeline_events takes back.  healthy: the
\* aviation schema is what the code expects at this moment.
Refuted(res, errs, known, healthy) ==
  {s \in Refutable \cap StageSet :
     \/ /\ s = "aviation_master"
        /\ healthy
        /\ "refutable" \in {errs[s], res[s].err}
     \/ /\ s = "fusion"
        /\ Positive(s, res, known)
        /\ Erring(s, res, errs) = "refutable" \/ res[s].contract
     \/ /\ s \in {"knowledge_graph", "metadata"}
        /\ Positive(s, res, known)
        /\ errs[s] = "refutable"}

\* _mark_reconciled_stage, _drop_stage_failures.
Marked(res, refuted) ==
  [s \in StageSet |->
     IF s \in refuted THEN [res[s] EXCEPT !.err = "none", !.reconciled = TRUE]
     ELSE res[s]]
Dropped(errs, refuted) ==
  [s \in Reporters |-> IF s \in refuted THEN "none" ELSE errs[s]]

\* derive_failed_stages.
FailedStages(res, errs) ==
  {s \in Reporters : errs[s] # "none"}
    \cup {s \in StageSet : res[s].err # "none" /\ ~res[s].reconciled}

\* _blocking_errors: fusion's error does not count once signals were generated.
Blocking(res, errs) ==
  {s \in Reporters :
     /\ errs[s] # "none"
     /\ ~ (s = "fusion" /\ res[s].err = "none" /\ res[s].total)}

\* Mutation: the reader checks a failure against tables the blob says nothing of.
ReadingHasty(b, healthy) ==
  LET errs == [s \in Reporters |->
                 IF s \in b.failed \cap StageSet THEN b.results[s].err ELSE "none"]
      refuted == Refuted(b.results, errs, Tables, healthy)
      failed == FailedStages(Marked(b.results, refuted), Dropped(errs, refuted))
  IN [stage |-> IF b.stage = "completed_degraded" /\ failed = {}
                THEN "completed" ELSE b.stage,
      failed |-> failed]

\* reconcile_live_status_payload: what a reader makes of a blob.  Only failed
\* stages whose result has an error are errors to it.
Reading(b, healthy) ==
  LET errs == [s \in Reporters |->
                 IF s \in b.failed \cap StageSet THEN b.results[s].err ELSE "none"]
      refuted == Refuted(b.results, errs, b.kpis, healthy)
      failed == FailedStages(Marked(b.results, refuted), Dropped(errs, refuted))
  IN [stage |-> IF b.stage = "completed_degraded" /\ failed = {}
                THEN "completed" ELSE b.stage,
      failed |-> failed]

\* The data whose presence refutes the failure of a stage.
Evidence(healthy) ==
  {s \in Refutable \cap StageSet :
     IF s = "aviation_master" THEN healthy ELSE Output[s] \subseteq db}

-----------------------------------------------------------------------------
(* The status blob. *)

BlobStages == {"queued", "working", "completed", "completed_degraded", "failed"}

\* by, a history field, is the attempt that wrote it.
BlobType ==
  [stage : BlobStages, by : 0 .. MaxAttempts, results : [StageSet -> Results],
   failed : SUBSET Reporters, kpis : SUBSET Tables]

QueuedBlob ==
  [stage |-> "queued", by |-> 0, results |-> NoResults, failed |-> {}, kpis |-> {}]

NoRow == [status |-> "none", by |-> 0]
RowType == [status : {"none", "completed", "partial"}, by : 0 .. MaxAttempts]

\* _set_status: positive KPIs of the blob survive, unless reading it fails.
Payloads(stage, res, failed, known) ==
  {[stage |-> stage, by |-> attempt, results |-> res, failed |-> failed,
    kpis |-> merged] : merged \in {known, known \cup blob.kpis}}

Progress(res, errs) == Payloads("working", res, FailedStages(res, errs), kpis')

Write(payloads) == blob' \in payloads
WriteRaises(payloads) == blob' \in {blob} \cup payloads

-----------------------------------------------------------------------------
(* execute: start. *)

Points ==
  {"start", "gate", "run", "report", "except", "finalize", "terminal",
   "fail", "unlock", "persist", "return", "ended", "escaped", "dead"}

\* set_initial_status has run; earlier operations may have filled any table.
Init ==
  /\ pc = "start"
  /\ attempt = 1
  /\ next = 1
  /\ results = NoResults
  /\ errors = NoErrors
  /\ kpis = {}
  /\ db \in SUBSET Tables
  /\ blob = QueuedBlob
  /\ row = NoRow
  /\ worked = {}
  /\ evidence = {}

Begun ==
  /\ next' = 1
  /\ results' = NoResults
  /\ errors' = NoErrors
  /\ kpis' = {}
  /\ worked' = {}
  /\ evidence' = {}
  /\ UNCHANGED <<attempt, db, row>>

\* The first status has neither results nor KPIs, not even the blob's.
FirstStatus ==
  {[stage |-> "working", by |-> attempt, results |-> NoResults,
    failed |-> {}, kpis |-> {}]}

\* A new pipeline object, and its first status.
Start == pc = "start" /\ Begun /\ Write(FirstStatus) /\ pc' = "gate"

\* The first status write comes before the try: nobody handles its failure.
StartRaises == pc = "start" /\ Begun /\ WriteRaises(FirstStatus) /\ pc' = "escaped"

-----------------------------------------------------------------------------
(* _run_stage. *)

Current == Stages[next]

Advance ==
  IF next = Len(Stages) THEN pc' = "finalize" /\ UNCHANGED next
  ELSE pc' = "gate" /\ next' = next + 1

\* Mutation: an unsatisfied contract is not an error.
VerdictLenient(s, result, text) ==
  /\ results' = [results EXCEPT ![s] = result]
  /\ errors' = IF text = "none" \/ result.contract THEN errors
               ELSE Noted(errors, s, text)

\* self.results[stage] = ..., self.errors.append(...)
Verdict(s, result, text) ==
  /\ results' = [results EXCEPT ![s] = result]
  /\ errors' = IF text = "none" THEN errors ELSE Noted(errors, s, text)

SkipBlocked ==
  /\ pc = "gate"
  /\ Current \in Blockable
  /\ Verdict(Current, Failure("other"), "other")
  /\ Advance
  /\ UNCHANGED <<attempt, kpis, db, blob, row, history>>

\* Mutation: a stage that ended without an error has filled its table.
KnownByVerdict ==
  kpis \cup UNION {Output[Stages[i]] : i \in {j \in 1 .. next - 1 :
                                      results[Stages[j]].err = "none"}}

\* merge_upstream_counts: besides the tables, the counts of this run.
Known ==
  (kpis \ {"forecasts"})
    \cup UNION {Output[s] : s \in {t \in StageSet \cap {"crawl", "metadata",
                                 "knowledge_graph"} : results[t].total}}

\* An unsatisfied contract, or a table that could not be read.  The result
\* has a reason but no "error"; knowledge_graph's reason says "empty".
SkipContract ==
  /\ pc = "gate"
  /\ Current \in Gated
  /\ ~ (Upstream[Current] \subseteq Known)
  /\ Verdict(Current, [Blank EXCEPT !.contract = TRUE],
             IF Current = "knowledge_graph" THEN "refutable" ELSE "other")
  /\ Advance
  /\ UNCHANGED <<attempt, kpis, db, blob, row, history>>

Passes(s) == s \in Gated => Upstream[s] \subseteq Known \cup db

BeginStage ==
  /\ pc = "gate"
  /\ Passes(Current)
  /\ UNCHANGED <<attempt, memory, db, row, history>>
  /\ Write(Progress(results, errors))
  /\ pc' = "run"

\* Nothing in _run_stage handles an error before the stage's own try.
BeginRaises ==
  /\ pc = "gate"
  /\ UNCHANGED <<attempt, memory, db, row, history>>
  /\ WriteRaises(Progress(results, errors))
  /\ pc' = "fail"

\* A stage may have committed its rows whatever becomes of it.
Commits(s) == db' \in {db, db \cup Output[s]}

\* The count a stage returns, at most what its table holds; fusion counts the
\* signals it generated, which generate_and_persist may have failed to store.
Counts(s, total) ==
  IF s = "fusion" THEN total
  ELSE total => Output[s] # {} /\ Output[s] \subseteq db'

\* _accumulate_kpis: totals, and for fusion the signals in the table.
Accumulated(s, total) ==
  kpis \cup IF total /\ Output[s] \subseteq db' THEN Output[s] ELSE {}

Succeed ==
  /\ pc = "run"
  /\ Commits(Current)
  /\ \E total \in BOOLEAN :
       /\ Counts(Current, total)
       /\ Verdict(Current, [Blank EXCEPT !.total = total], "none")
       /\ kpis' = Accumulated(Current, total)
  /\ worked' = worked \cup {Current}
  /\ pc' = "report"
  /\ UNCHANGED <<attempt, next, blob, row, evidence>>

\* The stage returns an error.  _stage_metadata does so too when there are
\* reviews and still no metadata; _stage_fusion validates its upstream again.
SoftFail ==
  /\ pc = "run"
  /\ Commits(Current)
  /\ \E text \in Texts(Current), total, contract \in BOOLEAN :
       /\ total => Current = "metadata" /\ Counts(Current, TRUE)
       /\ contract => Current = "fusion" /\ text = "other"
       /\ Verdict(Current, [Failure(text) EXCEPT !.total = total,
                                                !.contract = contract], text)
  /\ pc' = "report"
  /\ UNCHANGED <<attempt, next, kpis, blob, row, history>>

Raise ==
  /\ pc = "run"
  /\ Commits(Current)
  /\ \E text \in Texts(Current) : Verdict(Current, Failure(text), text)
  /\ pc' = "except"
  /\ UNCHANGED <<attempt, next, kpis, blob, row, history>>

Report ==
  /\ pc = "report"
  /\ Advance
  /\ UNCHANGED <<attempt, results, errors, kpis, db, row, history>>
  /\ Write(Progress(results, errors))

\* The write is inside the stage's try: its failure becomes the stage's.
ReportRaises ==
  /\ pc = "report"
  /\ UNCHANGED <<attempt, next, kpis, db, row, evidence>>
  /\ WriteRaises(Progress(results, errors))
  /\ Verdict(Current, Failure("other"), "other")
  /\ worked' = worked \ {Current}
  /\ pc' = "except"

\* The status write of the except clause.
Handle ==
  /\ pc = "except"
  /\ Advance
  /\ UNCHANGED <<attempt, results, errors, kpis, db, row, history>>
  /\ Write(Progress(results, errors))

HandleRaises ==
  /\ pc = "except"
  /\ UNCHANGED <<attempt, memory, db, row, history>>
  /\ WriteRaises(Progress(results, errors))
  /\ pc' = "fail"

-----------------------------------------------------------------------------
(* execute: the end. *)

\* The finalization heartbeat before reconciliation raises.
FinalizeRaises ==
  /\ pc = "finalize"
  /\ UNCHANGED <<attempt, memory, db, row, history>>
  /\ WriteRaises(Progress(results, errors))
  /\ pc' = "fail"

\* After _refresh_kpis_from_db, _propagate_aviation_domains imports a module
\* the repository does not have before its try begins.
PropagationMissing ==
  /\ pc = "finalize"
  /\ \E read \in SUBSET db : kpis' \in {kpis, read}
  /\ UNCHANGED <<attempt, next, results, errors, db, row, history>>
  /\ Write(Progress(results, errors))
  /\ pc' = "fail"

\* _refresh_kpis_from_db, which takes -1 for a table it cannot read and keeps
\* the old value after other failures, the propagation of a deployment that
\* has the module, and _reconcile_operational_state.
Reconciled ==
  /\ pc = "finalize"
  /\ \E read \in SUBSET db : kpis' \in {kpis, read}
  /\ \E healthy \in BOOLEAN :
       LET refuted == Refuted(results, errors, kpis', healthy) IN
       /\ results' = Marked(results, refuted)
       /\ errors' = Dropped(errors, refuted)
       /\ evidence' = Evidence(healthy)
  /\ UNCHANGED <<attempt, next, db, row, worked>>

Reconcile ==
  Reconciled /\ Write(Progress(results', errors')) /\ pc' = "terminal"

ReconcileRaises ==
  Reconciled /\ WriteRaises(Progress(results', errors')) /\ pc' = "fail"

Terminal ==
  Payloads(IF Blocking(results, errors) = {} THEN "completed" ELSE "completed_degraded",
           results, FailedStages(results, errors), kpis)

\* The lineage and persisting heartbeats, then the terminal status.
Conclude ==
  /\ pc = "terminal"
  /\ UNCHANGED <<attempt, memory, db, row, history>>
  /\ Write(Terminal)
  /\ pc' = "unlock"

ConcludeRaises ==
  /\ pc = "terminal"
  /\ UNCHANGED <<attempt, memory, db, row, history>>
  /\ WriteRaises(Progress(results, errors) \cup Terminal)
  /\ pc' = "fail"

\* Mutation: the failure is reported and not remembered.
NotedFailureLost == errors

NotedFailure == Noted(errors, "pipeline", "other")

\* The except clause of execute; its status names no failed stages.
Fail ==
  /\ pc = "fail"
  /\ errors' = NotedFailure
  /\ UNCHANGED <<attempt, next, results, kpis, db, row, history>>
  /\ Write(Payloads("failed", results, {}, kpis))
  /\ pc' = "unlock"

\* finally still deletes the lock; the exception leaves execute.
FailRaises ==
  /\ pc = "fail"
  /\ errors' = NotedFailure
  /\ UNCHANGED <<attempt, next, results, kpis, db, row, history>>
  /\ WriteRaises(Payloads("failed", results, {}, kpis))
  /\ pc' = "escaped"

\* r.delete of the lock, which may raise.
Unlock ==
  /\ pc = "unlock"
  /\ pc' \in {"persist", "escaped"}
  /\ UNCHANGED <<attempt, memory, db, blob, row, history>>

\* _persist_run: operation_id is unique, so an earlier attempt's row stays;
\* that and every other failure is logged.
Persist ==
  /\ pc = "persist"
  /\ \/ row = NoRow /\ row' = [status |-> IF Blocking(results, errors) = {}
                                        THEN "completed" ELSE "partial",
                             by |-> attempt]
     \/ UNCHANGED row
  /\ pc' = "return"
  /\ UNCHANGED <<attempt, memory, db, blob, history>>

Return ==
  /\ pc = "return"
  /\ pc' = "ended"
  /\ UNCHANGED <<attempt, memory, db, blob, row, history>>

-----------------------------------------------------------------------------
(* RQ. *)

\* The work-horse is killed; a stage's open transaction may have committed.
Crash ==
  /\ pc \notin {"ended", "escaped", "dead"}
  /\ IF pc = "run" THEN Commits(Current) ELSE UNCHANGED db
  /\ pc' = "dead"
  /\ UNCHANGED <<attempt, memory, blob, row, history>>

\* The job is executed again under the same operation id.
Retry ==
  /\ pc \in {"escaped", "dead"}
  /\ attempt < MaxAttempts
  /\ attempt' = attempt + 1
  /\ pc' = "start"
  /\ UNCHANGED <<memory, db, blob, row, history>>

Next ==
  \/ Start \/ StartRaises
  \/ SkipBlocked \/ SkipContract
  \/ BeginStage \/ BeginRaises
  \/ Succeed \/ SoftFail \/ Raise
  \/ Report \/ ReportRaises \/ Handle \/ HandleRaises
  \/ FinalizeRaises \/ PropagationMissing \/ Reconcile \/ ReconcileRaises
  \/ Conclude \/ ConcludeRaises \/ Fail \/ FailRaises
  \/ Unlock \/ Persist \/ Return
  \/ Crash \/ Retry

Spec == Init /\ [][Next]_vars

-----------------------------------------------------------------------------
(* Properties. *)

\* Types of execute's state, the status blob and the recorded run.
TypeOK ==
  /\ pc \in Points
  /\ attempt \in 1 .. MaxAttempts
  /\ next \in DOMAIN Stages
  /\ results \in [StageSet -> Results]
  /\ errors \in [Reporters -> Classes]
  /\ kpis \subseteq Tables
  /\ db \subseteq Tables
  /\ blob \in BlobType
  /\ row \in RowType
  /\ worked \subseteq StageSet
  /\ evidence \subseteq Refutable \cap StageSet

\* A stage with a dependency contract executes only when its upstream tables
\* have rows, although the gate trusts counts of this run over the tables.
GatesAreSound ==
  pc = "run" /\ Current \in Gated => Upstream[Current] \subseteq db

\* A run is reported as completed only if each of its stages worked, or had
\* its failure taken back while the data it is there to produce existed.
CompletedIsEarned ==
  blob.stage = "completed" /\ blob.by = attempt =>
    \A s \in StageSet :
      s \in worked \/ (blob.results[s].reconciled /\ s \in evidence)

\* The row an attempt that ended has recorded says what its blob says.
RowMatchesBlob ==
  pc = "ended" /\ row.by = attempt =>
    /\ blob.by = attempt
    /\ blob.stage \in {"completed", "completed_degraded", "failed"}
    /\ row.status = "completed" <=> blob.stage = "completed"

\* When a reader shows a degraded run as completed, each of its stages worked,
\* was skipped by its dependency contract, or has its data: nothing that really
\* failed is lost between the worker's errors, the blob and the reader.
ReadingExplained ==
  blob.stage = "completed_degraded" /\ blob.by = attempt =>
    \A healthy \in BOOLEAN :
      Reading(blob, healthy).stage = "completed" =>
        \A s \in StageSet :
          \/ s \in worked
          \/ blob.results[s].contract \/ blob.results[s].reconciled
          \/ s \in Evidence(healthy)

=============================================================================
