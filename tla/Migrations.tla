----------------------------- MODULE Migrations -----------------------------
(***************************************************************************)
(* The Alembic chain (database/migrations/versions), the tables the ORM    *)
(* models declare (database/models), and what an upgrade or a downgrade    *)
(* does to a database.  A database is a record                             *)
(*                                                                         *)
(*   tables   the tables that exist                                        *)
(*   cols     the groups of columns that exist besides those a table is    *)
(*            created with (a group is added and dropped as one)           *)
(*   stamp    the number of the revision in alembic_version, 0 for none    *)
(*   short    whether the revision is written as its bare number           *)
(*   width    the length of version_num, 0 if alembic_version is missing   *)
(*   dirty    whether a review 0003 deletes has an nlp_results row         *)
(*                                                                         *)
(* Indexes, defaults and column types are left out.                        *)
(***************************************************************************)
EXTENDS Naturals, FiniteSets

\* The database server and ENABLE_POSTGIS: "off" (not requested),
\* "available" (requested and installed), "missing" (requested only).
PostgisModes == {"off", "available", "missing"}

DefaultWidth == 32      \* alembic's own VARCHAR(32)
TargetWidth == 128

-----------------------------------------------------------------------------
(* The revisions.  A field a revision does not name is empty:              *)
(*   creates, ensures   tables created, or created where absent            *)
(*   alters             tables it alters and fails without                 *)
(*   adds, guarded      column groups added, or added where absent         *)
(*   optional           column groups added where their table exists       *)
(*   drops, clears      tables its downgrade drops, or drops if present    *)
(*   sheds, trims       column groups it drops, or drops if present        *)

Plain == [length |-> 30, creates |-> {}, ensures |-> {}, alters |-> {}, adds |-> {},
          guarded |-> {}, optional |-> {}, drops |-> {}, clears |-> {}, sheds |-> {},
          trims |-> {}, widens |-> FALSE, geo |-> FALSE, cleans |-> FALSE]

InitialTables == {"airlines", "reviews", "nlp_results", "topic_snapshots", "spider_runs"}
InitialSchema == [Plain EXCEPT !.creates = InitialTables, !.drops = InitialTables]

HardeningSchema == [Plain EXCEPT !.alters = InitialTables]

\* The reviews are deleted without their nlp_results, which refer to them.
ReviewQualityCleanup == [Plain EXCEPT !.alters = {"reviews"}, !.cleans = TRUE]

AiSearchIndexes == [Plain EXCEPT !.alters = {"reviews", "nlp_results"}]

InsightTables == {"metric_snapshots", "executive_insights", "reputation_score_history",
                  "scheduled_jobs", "data_quality_reports", "semantic_clusters"}
OperationalIntelligence == [Plain EXCEPT !.creates = InsightTables, !.drops = InsightTables]

GeoTables == {"regions", "airports", "routes", "anomaly_events", "data_lineage"}
StrategicIntelligence ==
  [Plain EXCEPT !.creates = GeoTables, !.drops = GeoTables, !.geo = TRUE,
                !.adds = {"insight_support", "cluster_scores"},
                !.sheds = {"insight_support", "cluster_scores"}]

\* Mutation: 0007 relying on 0006 having been skipped.
ForecastingAnomalyUnguarded ==
  [Plain EXCEPT !.creates = {"anomaly_events", "forecast_snapshots"},
                !.drops = {"forecast_snapshots"}]

ForecastingAnomaly ==
  [Plain EXCEPT !.ensures = {"anomaly_events", "forecast_snapshots"},
                !.drops = {"forecast_snapshots"}]

QualityGroups == {"forecast_quality", "anomaly_scores", "crawl_quality"}
EnterpriseIntelligence == [Plain EXCEPT !.guarded = QualityGroups, !.sheds = QualityGroups]

GraphTables == {"graph_nodes", "graph_edges", "fusion_signals", "review_intelligence"}
KnowledgeGraph == [Plain EXCEPT !.ensures = GraphTables, !.clears = GraphTables]

\* airline_metadata: its codes (iata_code, icao_code), what the aviation
\* audit also asks for, and what only the ORM asks for (callsign, region).
CanonicalGroups == {"codes", "profile", "extras"}
AviationCanonicalFields == [Plain EXCEPT !.optional = CanonicalGroups, !.trims = CanonicalGroups]

AirlineMetadataRepair ==
  [Plain EXCEPT !.length = 35, !.widens = TRUE, !.optional = CanonicalGroups,
                !.ensures = {"alliances", "airline_metadata"}]

VersionExpand == [Plain EXCEPT !.widens = TRUE]

GeospatialLayers ==
  [Plain EXCEPT !.length = 33, !.geo = TRUE, !.guarded = {"airport_layers", "route_layers"},
                !.creates = {"geo_events"}, !.drops = {"geo_events"}]

Chain == << InitialSchema, HardeningSchema, ReviewQualityCleanup, AiSearchIndexes,
            OperationalIntelligence, StrategicIntelligence, ForecastingAnomaly,
            EnterpriseIntelligence, KnowledgeGraph, AviationCanonicalFields,
            AirlineMetadataRepair, VersionExpand, GeospatialLayers >>

Head == 13

Owner == [g \in {"insight_support", "cluster_scores", "forecast_quality", "anomaly_scores",
                 "crawl_quality", "codes", "profile", "extras", "legacy_codes",
                 "airport_layers", "route_layers"} |->
  CASE g = "insight_support" -> "executive_insights"
    [] g = "cluster_scores" -> "semantic_clusters"
    [] g = "forecast_quality" -> "forecast_snapshots"
    [] g = "anomaly_scores" -> "anomaly_events"
    [] g = "crawl_quality" -> "spider_runs"
    [] g = "airport_layers" -> "airports"
    [] g = "route_layers" -> "routes"
    [] OTHER -> "airline_metadata"]

-----------------------------------------------------------------------------
(* The ORM: the tables of each file of database/models, the foreign keys   *)
(* between tables, and the column groups its classes map.                  *)

CoreModels ==
  [tables |-> {"airlines", "reviews", "nlp_results", "spider_runs"},
   refs |-> {<<"reviews", "airlines">>, <<"nlp_results", "reviews">>},
   groups |-> {"crawl_quality"}]

AnalyticsModels ==
  LET own == {"topic_snapshots", "metric_snapshots", "reputation_score_history",
              "forecast_snapshots", "anomaly_events"}
  IN [tables |-> own, refs |-> own \X {"airlines"},
      groups |-> {"forecast_quality", "anomaly_scores"}]

IntelligenceModels ==
  [tables |-> {"executive_insights", "semantic_clusters", "data_quality_reports",
               "data_lineage", "scheduled_jobs"},
   refs |-> {"executive_insights", "semantic_clusters"} \X {"airlines"},
   groups |-> {"insight_support", "cluster_scores"}]

GeoModels ==
  [tables |-> {"regions", "airports", "routes"},
   refs |-> {<<"airports", "regions">>, <<"routes", "airlines">>, <<"routes", "airports">>},
   groups |-> {}]

GraphModels == [tables |-> GraphTables, refs |-> {}, groups |-> {}]

AviationModels ==
  [tables |-> {"alliances", "airline_metadata", "airport_metadata", "airline_airports",
               "aviation_taxonomy", "aviation_coverage_reports"},
   refs |-> {<<"airline_metadata", "airlines">>, <<"airline_metadata", "alliances">>,
             <<"airport_metadata", "airports">>, <<"airline_airports", "airline_metadata">>,
             <<"airline_airports", "airport_metadata">>},
   groups |-> CanonicalGroups]

OperationsModels == [tables |-> {"operational_refresh_runs"}, refs |-> {}, groups |-> {}]

Models == {CoreModels, AnalyticsModels, IntelligenceModels, GeoModels, GraphModels,
           AviationModels, OperationsModels}

OrmTables == UNION {m.tables : m \in Models}
References == UNION {m.refs : m \in Models}

AllTables == OrmTables \cup {"geo_events"}

-----------------------------------------------------------------------------
Db == [tables : SUBSET AllTables, cols : SUBSET DOMAIN Owner, stamp : 0..Head,
       short : BOOLEAN, width : {0, DefaultWidth, TargetWidth}, dirty : BOOLEAN]

EmptyDb == [tables |-> {}, cols |-> {}, stamp |-> 0, short |-> FALSE, width |-> 0, dirty |-> FALSE]

\* Dropping these tables is refused: another table refers to one of them.
Referenced(d, gone) ==
  \E r \in References : r[2] \in gone /\ r[1] \in d.tables \ gone

\* PostgreSQL accepts every statement of revision k and the new version row.
\* (CREATE EXTENSION fails inside the migration's transaction: the exception
\* is caught, the transaction stays aborted.)
Upgradable(k, d, postgis) ==
  LET m == Chain[k]
      tables == d.tables \cup m.creates \cup m.ensures
  IN /\ m.creates \cap d.tables = {}
     /\ m.alters \subseteq tables
     /\ \A g \in m.adds : g \notin d.cols /\ Owner[g] \in tables
     /\ \A g \in m.guarded : Owner[g] \in tables
     /\ \A r \in References : r[1] \in tables \ d.tables => r[2] \in tables
     /\ ~(m.cleans /\ d.dirty)
     /\ ~(m.geo /\ postgis = "missing")
     /\ m.length <= DefaultWidth \/ m.widens \/ d.width = TargetWidth

\* The database after the revisions that follow its stamp, up to revision k.
TablesAfter(d, k) ==
  d.tables \cup UNION {Chain[j].creates \cup Chain[j].ensures : j \in (d.stamp + 1)..k}

ColsAfter(d, k) ==
  d.cols \cup UNION {Chain[j].adds \cup Chain[j].guarded
                        \cup {g \in Chain[j].optional : Owner[g] \in TablesAfter(d, j)}
                      : j \in (d.stamp + 1)..k}

Upgraded(d, k) ==
  IF k = d.stamp THEN d
  ELSE [d EXCEPT !.tables = TablesAfter(d, k), !.cols = ColsAfter(d, k), !.stamp = k,
                 !.width = IF @ = TargetWidth \/ \E j \in (d.stamp + 1)..k : Chain[j].widens
                           THEN TargetWidth ELSE DefaultWidth]

\* alembic upgrade head runs them all in one transaction; it knows the stamp
\* only if it is one of the chain's.
ReachesHead(d, postgis) ==
  ~d.short /\ \A k \in (d.stamp + 1)..Head : Upgradable(k, Upgraded(d, k - 1), postgis)

AtLast(d) == Upgraded(d, Head)

\* alembic downgrade -1.  A table takes its column groups with it.
Downgradable(d) ==
  LET m == Chain[d.stamp]
  IN /\ d.stamp > 0 /\ ~d.short
     /\ m.drops \subseteq d.tables
     /\ m.sheds \subseteq d.cols
     /\ ~Referenced(d, m.drops \cup m.clears)

\* Mutation: a downgrade that forgets to move the stamp.
DowngradedUnstamped(d) ==
  LET m == Chain[d.stamp]
      tables == d.tables \ (m.drops \cup m.clears)
  IN [d EXCEPT !.tables = tables, !.cols = {g \in @ \ (m.sheds \cup m.trims) : Owner[g] \in tables}]

Downgraded(d) ==
  LET m == Chain[d.stamp]
      tables == d.tables \ (m.drops \cup m.clears)
  IN [d EXCEPT !.tables = tables,
               !.cols = {g \in @ \ (m.sheds \cup m.trims) : Owner[g] \in tables},
               !.stamp = @ - 1]

-----------------------------------------------------------------------------
(* What the chain makes of a database, and what it expects to find.        *)

\* A database stamped k has what the revisions up to k provide.
TellsTruth(d) ==
  /\ \A k \in 1..d.stamp :
       /\ Chain[k].creates \cup Chain[k].ensures \subseteq d.tables
       /\ Chain[k].adds \cup Chain[k].guarded \subseteq d.cols
  /\ d.stamp >= 11 => CanonicalGroups \subseteq d.cols

\* It has nothing a later revision insists on creating, and the version
\* column is as wide as the revisions that widen it leave it.
Consistent(d) ==
  /\ TellsTruth(d)
  /\ \A k \in (d.stamp + 1)..Head :
       Chain[k].creates \cap d.tables = {} /\ Chain[k].adds \cap d.cols = {}
  /\ d.stamp >= 11 => d.width = TargetWidth

=============================================================================
