-------------------------- MODULE SchemaGovernance --------------------------
(***************************************************************************)
(* Services that start over a database whose schema may be old, partial or *)
(* wrongly stamped: app/startup_governance.py, database/schema_health.py,  *)
(* alembic_version_repair.py, schema_semantic.py, aviation_schema.py, the  *)
(* verdict they publish in app/runtime_state.py, and the refresh pipeline  *)
(* that reads it.  The chain of revisions is Migrations.                   *)
(*                                                                         *)
(* Every service is a container: the entrypoint runs the governance once,  *)
(* the service runs it again, and a container that exits is restarted.     *)
(* The runtime document is one JSON value in Redis; each of its writers    *)
(* loads it, changes its own fields and saves the whole of it.             *)
(***************************************************************************)
EXTENDS Migrations

CONSTANTS
  Services,      \* the containers that run the governance
  Refresh,       \* the refresh pipeline, which re-validates at its start
  Scenarios,     \* the settings of a deployment and the database it finds
  NoReport,      \* report.schema = {}: validation never finished
  NoDoc,         \* the document is not loaded
  MaxFaults,     \* bound on crashes and failed validations
  MaxChanges     \* bound on what operators do to the schema

Environments == {"development", "staging", "production"}

Settings == [env : Environments, migrate : BOOLEAN, block : BOOLEAN, aviationBlock : BOOLEAN,
             aviationRepair : BOOLEAN, versionRepair : BOOLEAN, postgis : PostgisModes]

ASSUME ScenariosAssumption == Scenarios \subseteq Settings \X Db
ASSUME ServicesAssumption == Refresh \notin Services
ASSUME BoundsAssumption == MaxFaults \in Nat /\ MaxChanges \in Nat

\* The databases a deployment finds have been built by runs of the chain, up
\* to wherever they got, and may have tables and columns besides.
ASSUME HistoryAssumption == \A sc \in Scenarios : Consistent(sc[2])

VARIABLES
  cfg, db,
  doc,       \* skytrax:runtime:state: what it says of the schema and of the last start
  pc, round, \* where a service is in run_startup_governance, and in which of its runs
  report,    \* the report a process acts on
  copy,      \* the document a process has loaded and not saved yet
  seen,      \* the revision a service's upgrade started from
  faults, changes,
  disturbed  \* history: somebody else wrote the document, or the schema changed,
             \* or validation failed, since the refresh began

vars == <<cfg, db, doc, pc, round, report, copy, seen, faults, changes, disturbed>>

-----------------------------------------------------------------------------
(* What the checks say of a database.                                      *)

SchemaGroups == [metadata |-> {"review_intelligence"},
                 knowledge_graph |-> {"graph_nodes", "graph_edges", "fusion_signals"},
                 forecasting |-> {"forecast_snapshots"},
                 anomalies |-> {"anomaly_events"},
                 semantic |-> {"semantic_clusters", "executive_insights"}]

RequiredTables ==
  {"airlines", "reviews", "nlp_results", "operational_refresh_runs", "airline_metadata",
   "airport_metadata", "alliances"} \cup UNION {SchemaGroups[g] : g \in DOMAIN SchemaGroups}

AviationStages ==
  {"aviation_master", "knowledge_graph", "fusion", "aviation_metadata", "hub_intelligence"}
Stages == DOMAIN SchemaGroups \cup AviationStages

Missing(d) == RequiredTables \ d.tables

AtHead(d) == d.stamp = Head /\ ~d.short

\* A legacy alias stands in for the codes; nothing stands in for the rest.
CodesResolve(d) == {"codes", "legacy_codes"} \cap d.cols # {}

SemanticallySound(d) ==
  /\ {"airline_metadata", "airport_metadata", "review_intelligence"} \subseteq d.tables
  /\ CodesResolve(d) /\ {"profile", "extras"} \subseteq d.cols

\* A missing table counts as drift and names no column, so it blocks nothing.
SemanticBlocks(d) ==
  IF "airline_metadata" \in d.tables /\ ~CodesResolve(d) THEN AviationStages ELSE {}

AviationValid(d) == "airline_metadata" \in d.tables /\ {"codes", "profile"} \subseteq d.cols

VersionSafe(d) == d.width >= TargetWidth

ChainValid(d) == ~d.short /\ d.width >= Chain[Head].length

TableBlocks(missing) == {g \in DOMAIN SchemaGroups : SchemaGroups[g] \cap missing # {}}

\* validate_schema: d as it was read, repaired as the aviation audit left it.
Validation(d, repaired) ==
  [missing |-> Missing(d), drift |-> ~AtHead(d), semantic |-> SemanticBlocks(d),
   aviation |-> ~AviationValid(repaired),
   healthy |-> /\ Missing(d) = {} /\ AtHead(d) /\ SemanticallySound(d)
               /\ AviationValid(repaired) /\ VersionSafe(d) /\ ChainValid(d)]

RepairAviation(d) ==
  IF /\ cfg.aviationRepair /\ cfg.env = "development"
     /\ ~AviationValid(d) /\ "airline_metadata" \in d.tables
  THEN [d EXCEPT !.cols = @ \cup {"codes", "profile"}]
  ELSE d

\* REVISION_ALIASES: the bare numbers that the repair can read as revisions.
Aliased == {9, 10}

Orphaned(d) == d.short /\ d.stamp \notin Aliased

\* Mutation: the preflight leaves the orphan revision in place.
RepairVersionWidth(d) ==
  [d EXCEPT !.width = IF cfg.versionRepair /\ @ > 0 THEN TargetWidth ELSE @]

\* ensure_alembic_version_capacity: the column widened, the alias replaced.
RepairVersion(d) ==
  [d EXCEPT !.width = IF cfg.versionRepair /\ @ > 0 THEN TargetWidth ELSE @,
            !.short = Orphaned(d)]

\* alembic_safe, and whether the preflight has an action to show.
PreflightSafe(d) == VersionSafe(d)
PreflightActs(d) ==
  \/ d.short /\ ~Orphaned(d)
  \/ ~cfg.versionRepair /\ ~VersionSafe(d)
  \/ cfg.versionRepair /\ d.width = DefaultWidth

AutoMigrate == cfg.env \in {"development", "staging"} /\ cfg.migrate

Healthy(d) == Validation(d, d).healthy

-----------------------------------------------------------------------------
Processes == Services \cup {Refresh}
Writing == {"publish", "close"}

EmptyDoc == [blocked |-> {}, semantic |-> {}]

Init ==
  /\ \E sc \in Scenarios : cfg = sc[1] /\ db = sc[2]
  /\ doc = EmptyDoc
  /\ pc = [p \in Processes |-> "off"]
  /\ round = [s \in Services |-> "entrypoint"]
  /\ report = [p \in Processes |-> NoReport]
  /\ copy = [p \in Processes |-> NoDoc]
  /\ seen = [s \in Services |-> 0]
  /\ faults = 0 /\ changes = 0
  /\ disturbed = FALSE

Step(p, from, to) == pc[p] = from /\ pc' = [pc EXCEPT ![p] = to]

\* The history variable speaks of the refresh that is going on.
Disturb(happens) == disturbed' = (disturbed \/ (happens /\ pc[Refresh] # "off"))

\* A container starts: the entrypoint has waited for PostgreSQL and Redis.
Start(s) ==
  /\ Step(s, "off", "preflight")
  /\ UNCHANGED <<cfg, db, doc, round, report, copy, seen, faults, changes, disturbed>>

\* Phase 0.
Preflight(s) ==
  /\ Step(s, "preflight", "validate")
  /\ db' = IF cfg.versionRepair THEN RepairVersion(db) ELSE db
  /\ Disturb(db' # db)
  /\ UNCHANGED <<cfg, doc, round, report, copy, seen, faults, changes>>

\* Phase 1: validate, and upgrade where the environment migrates by itself.
Validate(s) ==
  /\ pc[s] = "validate"
  /\ report' = [report EXCEPT ![s] = Validation(db, RepairAviation(db))]
  /\ db' = RepairAviation(db)
  /\ IF AutoMigrate /\ (report'[s].missing # {} \/ report'[s].drift)
     THEN Step(s, "validate", "upgrade")
     ELSE Step(s, "validate", "publish")
  /\ Disturb(db' # db)
  /\ UNCHANGED <<cfg, doc, round, copy, seen, faults, changes>>

\* The database is not answering: phase 1 ends with no report.
ValidateFails(s) ==
  /\ faults < MaxFaults
  /\ pc[s] \in {"validate", "revalidate"}
  /\ pc' = [pc EXCEPT ![s] = "close"]
  /\ report' = [report EXCEPT ![s] = NoReport]
  /\ faults' = faults + 1
  /\ UNCHANGED <<cfg, db, doc, round, copy, seen, changes, disturbed>>

\* run_migrations_upgrade: its own preflight, and alembic reads the revision.
\* An unsafe column with nothing done about it refuses the upgrade.
UpgradeBegin(s) ==
  /\ pc[s] = "upgrade"
  /\ db' = RepairVersion(db)
  /\ IF PreflightSafe(db') \/ PreflightActs(db)
     THEN Step(s, "upgrade", "upgrading")
     ELSE Step(s, "upgrade", "publish")
  /\ seen' = [seen EXCEPT ![s] = db'.stamp]
  /\ Disturb(db' # db)
  /\ UNCHANGED <<cfg, doc, round, report, copy, faults, changes>>

\* The upgrade's transaction: it commits whole, or fails because a revision
\* does or because somebody else moved the revision since it began.
UpgradeEnd(s) ==
  /\ pc[s] = "upgrading"
  /\ IF db.stamp = seen[s] /\ ReachesHead(db, cfg.postgis)
     THEN db' = AtLast(db) /\ Step(s, "upgrading", "revalidate")
     ELSE db' = db /\ Step(s, "upgrading", "publish")
  /\ seen' = [seen EXCEPT ![s] = 0]
  /\ Disturb(db' # db)
  /\ UNCHANGED <<cfg, doc, round, report, copy, faults, changes>>

Revalidate(s) ==
  /\ Step(s, "revalidate", "publish")
  /\ report' = [report EXCEPT ![s] = Validation(db, RepairAviation(db))]
  /\ db' = RepairAviation(db)
  /\ Disturb(db' # db)
  /\ UNCHANGED <<cfg, doc, round, copy, seen, faults, changes>>

-----------------------------------------------------------------------------
(* The document: merge_state loads it, then saves it with new fields.      *)

\* Mutation: the blocks of the last report are kept besides those of this one.
WithVerdictAdded(d, r) ==
  [d EXCEPT !.semantic = @ \cup r.semantic,
            !.blocked = @ \cup TableBlocks(r.missing) \cup r.semantic]

\* set_schema_drift: the stages this report blocks.
WithVerdict(d, r) ==
  [d EXCEPT !.semantic = IF r.healthy THEN {} ELSE r.semantic,
            !.blocked = IF r.healthy THEN {} ELSE TableBlocks(r.missing) \cup r.semantic]

\* Phase 3: block_on_failure is explicit in the entrypoint, else production's.
ShouldBlock(s) ==
  \/ cfg.block /\ (round[s] = "entrypoint" \/ cfg.env = "production")
  \/ cfg.aviationBlock /\ cfg.env = "production" /\ report[s] # NoReport /\ report[s].aviation

\* Mutation: only the revision is looked at.
BlocksOnDrift(s) == ShouldBlock(s) /\ report[s] # NoReport /\ report[s].drift

Blocks(s) == ShouldBlock(s) /\ report[s] # NoReport /\ ~report[s].healthy

LoadDoc(p) ==
  /\ pc[p] \in Writing /\ copy[p] = NoDoc
  /\ copy' = [copy EXCEPT ![p] = doc]
  /\ UNCHANGED <<cfg, db, doc, pc, round, report, seen, faults, changes, disturbed>>

Save(p, new) ==
  /\ copy[p] # NoDoc
  /\ doc' = new
  /\ copy' = [copy EXCEPT ![p] = NoDoc]
  /\ UNCHANGED <<cfg, db, seen, faults, changes>>

SaveVerdict(s) ==
  /\ Step(s, "publish", "close")
  /\ Save(s, WithVerdict(copy[s], report[s]))
  /\ Disturb(TRUE)
  /\ UNCHANGED <<round, report>>

\* Phases 2 and 3: activate_forecast_safe_mode and set_startup_report save
\* the document with fields of their own (the safe mode is in
\* ForecastIsolation, the start-up report is only displayed), so what it says
\* of the schema is what they loaded.  Then the process exits, or the
\* entrypoint execs the service, or the service runs.
CloseStart(s) ==
  /\ pc[s] = "close"
  /\ Save(s, copy[s])
  /\ CASE Blocks(s) ->
            /\ Step(s, "close", "off")
            /\ report' = [report EXCEPT ![s] = NoReport]
            /\ round' = [round EXCEPT ![s] = "entrypoint"]
       [] ~Blocks(s) /\ round[s] = "entrypoint" ->
            /\ Step(s, "close", "preflight")
            /\ report' = [report EXCEPT ![s] = NoReport]
            /\ round' = [round EXCEPT ![s] = "service"]
       [] OTHER -> Step(s, "close", "up") /\ UNCHANGED <<round, report>>
  /\ Disturb(TRUE)

Crash(s) ==
  /\ faults < MaxFaults
  /\ pc[s] # "off"
  /\ pc' = [pc EXCEPT ![s] = "off"]
  /\ copy' = [copy EXCEPT ![s] = NoDoc]
  /\ report' = [report EXCEPT ![s] = NoReport]
  /\ round' = [round EXCEPT ![s] = "entrypoint"]
  /\ seen' = [seen EXCEPT ![s] = 0]
  /\ faults' = faults + 1
  /\ UNCHANGED <<cfg, db, doc, changes, disturbed>>

-----------------------------------------------------------------------------
(* The refresh pipeline: reconcile_schema_blocks at its start, then the    *)
(* stages; each is passed over if the document blocks it at that moment.   *)

Refused == doc.blocked \cup doc.semantic

RefreshBegin ==
  /\ Step(Refresh, "off", "publish")
  /\ report' = [report EXCEPT ![Refresh] = Validation(db, RepairAviation(db))]
  /\ db' = RepairAviation(db)
  /\ disturbed' = (db' # db)
  /\ UNCHANGED <<cfg, doc, round, copy, seen, faults, changes>>

\* The reconcile raised: the run goes on with the document as it is.
RefreshUnreconciled ==
  /\ faults < MaxFaults
  /\ Step(Refresh, "off", "stages")
  /\ disturbed' = TRUE
  /\ faults' = faults + 1
  /\ UNCHANGED <<cfg, db, doc, round, report, copy, seen, changes>>

RefreshVerdict ==
  /\ Step(Refresh, "publish", "stages")
  /\ Save(Refresh, WithVerdict(copy[Refresh], report[Refresh]))
  /\ report' = [report EXCEPT ![Refresh] = NoReport]
  /\ UNCHANGED <<round, disturbed>>

RefreshEnd ==
  /\ Step(Refresh, "stages", "off")
  /\ disturbed' = FALSE
  /\ UNCHANGED <<cfg, db, doc, round, report, copy, seen, faults, changes>>

-----------------------------------------------------------------------------
(* Operators: alembic upgrade head by hand or scripts/repair_alembic_      *)
(* aviation.py (which repairs the version first), one downgrade, and a     *)
(* DBA who creates the tables no revision creates.                         *)

Operate(new) ==
  /\ changes < MaxChanges
  /\ db' = new /\ new # db
  /\ changes' = changes + 1
  /\ Disturb(TRUE)
  /\ UNCHANGED <<cfg, doc, pc, round, report, copy, seen, faults>>

UpgradeByHand ==
  /\ changes < MaxChanges /\ ~AtHead(db) /\ ReachesHead(db, cfg.postgis)
  /\ Operate(AtLast(db))

RepairScript ==
  LET repaired == RepairVersion(db)
  IN /\ changes < MaxChanges /\ PreflightSafe(repaired)
     /\ Operate(IF ReachesHead(repaired, cfg.postgis) THEN AtLast(repaired) ELSE repaired)

DowngradeByHand == changes < MaxChanges /\ Downgradable(db) /\ Operate(Downgraded(db))

CompleteSchema == AtHead(db) /\ Operate([db EXCEPT !.tables = @ \cup OrmTables])

StartUp(s) ==
  \/ Start(s) \/ Preflight(s) \/ Validate(s) \/ UpgradeBegin(s) \/ UpgradeEnd(s) \/ Revalidate(s)
  \/ LoadDoc(s) \/ SaveVerdict(s) \/ CloseStart(s)

Refreshing ==
  RefreshBegin \/ RefreshUnreconciled \/ LoadDoc(Refresh) \/ RefreshVerdict \/ RefreshEnd

Operating == UpgradeByHand \/ RepairScript \/ DowngradeByHand \/ CompleteSchema

Next ==
  \/ \E s \in Services : StartUp(s) \/ ValidateFails(s) \/ Crash(s)
  \/ Refreshing
  \/ Operating

Spec == Init /\ [][Next]_vars

-----------------------------------------------------------------------------
TypeOK ==
  /\ cfg \in Settings
  /\ db \in Db
  /\ pc \in [Processes -> {"off", "preflight", "validate", "upgrade", "upgrading", "revalidate",
                           "stages", "up"} \cup Writing]
  /\ round \in [Services -> {"entrypoint", "service"}]
  /\ seen \in [Services -> 0..Head]
  /\ doc.blocked \subseteq Stages
  /\ faults \in 0..MaxFaults /\ changes \in 0..MaxChanges

\* The stamp tells the truth: whatever was upgraded, downgraded, repaired or
\* raced for, a database stamped k has what the revisions up to k provide (and
\* the variables keep their types).
StampTellsTruth == TypeOK /\ TellsTruth(db)

\* No way of upgrading, downgrading and repairing leads to a database the
\* chain cannot bring to head, if nothing but the chain stands in the way.
UpgradeNeverStuck ==
  ~db.short /\ ~db.dirty /\ cfg.postgis # "missing" => ReachesHead(db, cfg.postgis)

\* A production service that runs with blocking on, and whose validation
\* finished, runs on a usable schema, unless an operator changed it: no
\* other container's start can take away what this one has validated.
UpMeansUsable ==
  \A s \in Services :
    /\ cfg.env = "production" /\ cfg.block
    /\ pc[s] = "up" /\ report[s] # NoReport /\ changes = 0
    => Healthy(db)

\* The refresh pipeline refuses the stages whose tables or columns are
\* missing and no other, unless the document or the schema was changed under its feet (by
\* the repair inside its own validation too, which comes after the audit).
SkipsAreExplained ==
  pc[Refresh] = "stages" /\ ~disturbed
    => Refused = IF Healthy(db) THEN {} ELSE TableBlocks(Missing(db)) \cup SemanticBlocks(db)

\* A development or staging service that is up runs over a database at head,
\* unless its validation failed, an operator interfered, or the chain cannot
\* be run: no alembic_version to prepare, a bare number in it that no alias
\* explains, reviews 0003 cannot delete.  The loser of a race between two
\* upgrades is covered by the winner's.
MigratedWhenUp ==
  \A s \in Services :
    /\ AutoMigrate /\ cfg.postgis # "missing"
    /\ pc[s] = "up" /\ report[s] # NoReport /\ changes = 0
    /\ db.width > 0 /\ ~db.dirty /\ ~Orphaned(db)
    => AtHead(db)

=============================================================================
