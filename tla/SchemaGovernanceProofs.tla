------------------------ MODULE SchemaGovernanceProofs ------------------------
(***************************************************************************)
(* Proofs about SchemaGovernance, for any services, any deployments built  *)
(* by the chain of revisions, and any number of faults and of changes by   *)
(* operators.                                                              *)
(***************************************************************************)
EXTENDS SchemaGovernance, TLAPS

-----------------------------------------------------------------------------
(* The chain.  Every table and every column group belongs to the revision  *)
(* that first provides it; the facts the proofs need of the thirteen       *)
(* revisions compare these numbers.                                        *)

\* The revision that first provides a table; Head + 1 if only the ORM does.
Born(t) ==
  CASE t \in InitialTables -> 1
    [] t \in InsightTables -> 5
    [] t \in GeoTables -> 6
    [] t = "forecast_snapshots" -> 7
    [] t \in GraphTables -> 9
    [] t \in {"alliances", "airline_metadata"} -> 11
    [] t = "geo_events" -> 13
    [] OTHER -> 14

\* The revision that first adds a column group; 0 for one that none adds.
BornGroup(g) ==
  CASE g \in {"insight_support", "cluster_scores"} -> 6
    [] g \in QualityGroups -> 8
    [] g \in CanonicalGroups -> 10
    [] g \in {"airport_layers", "route_layers"} -> 13
    [] OTHER -> 0

Provides(k) == Chain[k].creates \cup Chain[k].ensures
Adds(k) == Chain[k].adds \cup Chain[k].guarded

\* What revision m provides, asks for and takes away, if it is the k-th.
Orderly(m, k) ==
  /\ \A t \in m.creates : Born(t) = k
  /\ \A t \in m.creates \cup m.ensures : Born(t) \in 1 .. k /\ t \in AllTables
  /\ \A t \in m.alters : Born(t) \in 1 .. (k - 1)
  /\ \A t \in m.drops \cup m.clears : Born(t) = k
  /\ m.creates \subseteq m.drops
  /\ m.adds \subseteq m.sheds
  /\ \A g \in m.adds : BornGroup(g) = k /\ g \notin CanonicalGroups
  /\ \A g \in m.adds \cup m.guarded : g \in DOMAIN Owner /\ Born(Owner[g]) \in 1 .. k
  /\ \A g \in m.adds \cup m.guarded \cup m.optional : g \in DOMAIN Owner /\ BornGroup(g) \in 1 .. k
  /\ \A g \in m.sheds \cup m.trims : BornGroup(g) = k
  /\ m.length <= DefaultWidth \/ m.widens \/ k = 13
  /\ m.cleans \in BOOLEAN /\ m.geo \in BOOLEAN /\ m.widens \in BOOLEAN

LEMMA ChainAt ==
  /\ Chain[1] = InitialSchema /\ Chain[2] = HardeningSchema
  /\ Chain[3] = ReviewQualityCleanup /\ Chain[4] = AiSearchIndexes
  /\ Chain[5] = OperationalIntelligence /\ Chain[6] = StrategicIntelligence
  /\ Chain[7] = ForecastingAnomaly /\ Chain[8] = EnterpriseIntelligence
  /\ Chain[9] = KnowledgeGraph /\ Chain[10] = AviationCanonicalFields
  /\ Chain[11] = AirlineMetadataRepair /\ Chain[12] = VersionExpand
  /\ Chain[13] = GeospatialLayers
  BY DEF Chain

LEMMA TablesKnown ==
  /\ InitialTables \cup InsightTables \cup GeoTables \cup GraphTables \subseteq AllTables
  /\ {"forecast_snapshots", "alliances", "airline_metadata", "geo_events"} \subseteq AllTables
<1>1. \A m \in Models : m.tables \subseteq AllTables
  BY DEF AllTables, OrmTables
<1>2. /\ CoreModels \in Models /\ AnalyticsModels \in Models /\ IntelligenceModels \in Models
      /\ GeoModels \in Models /\ GraphModels \in Models /\ AviationModels \in Models
  BY DEF Models
<1>3. /\ CoreModels.tables \subseteq AllTables /\ AnalyticsModels.tables \subseteq AllTables
      /\ IntelligenceModels.tables \subseteq AllTables /\ GeoModels.tables \subseteq AllTables
      /\ GraphModels.tables \subseteq AllTables /\ AviationModels.tables \subseteq AllTables
  BY <1>1, <1>2
<1>4. {"airlines", "reviews", "nlp_results", "spider_runs"} \subseteq AllTables
  BY <1>3 DEF CoreModels
<1>5. {"topic_snapshots", "metric_snapshots", "reputation_score_history",
       "forecast_snapshots", "anomaly_events"} \subseteq AllTables
  BY <1>3 DEF AnalyticsModels
<1>6. {"executive_insights", "semantic_clusters", "data_quality_reports",
       "data_lineage", "scheduled_jobs"} \subseteq AllTables
  BY <1>3 DEF IntelligenceModels
<1>7. {"regions", "airports", "routes"} \subseteq AllTables
  BY <1>3 DEF GeoModels
<1>8. GraphTables \subseteq AllTables
  BY <1>3 DEF GraphModels
<1>9. {"alliances", "airline_metadata"} \subseteq AllTables
  BY <1>3 DEF AviationModels
<1>10. "geo_events" \in AllTables
  BY DEF AllTables
<1>11. InitialTables \subseteq AllTables
  BY <1>4, <1>5 DEF InitialTables
<1>12. InsightTables \subseteq AllTables
  BY <1>5, <1>6 DEF InsightTables
<1>13. GeoTables \subseteq AllTables
  BY <1>5, <1>6, <1>7 DEF GeoTables
<1> QED BY <1>5, <1>8, <1>9, <1>10, <1>11, <1>12, <1>13

\* Every table has one number, whichever of the sets it is found in.
LEMMA BornValues ==
  /\ \A t \in InitialTables : Born(t) = 1
  /\ \A t \in InsightTables : Born(t) = 5
  /\ \A t \in GeoTables : Born(t) = 6
  /\ Born("forecast_snapshots") = 7
  /\ \A t \in GraphTables : Born(t) = 9
  /\ \A t \in {"alliances", "airline_metadata"} : Born(t) = 11
  /\ Born("geo_events") = 13
  /\ Born("airport_metadata") = 14 /\ Born("airline_airports") = 14
  BY DEF Born, InitialTables, InsightTables, GeoTables, GraphTables

LEMMA BornGroupValues ==
  /\ \A g \in {"insight_support", "cluster_scores"} : BornGroup(g) = 6
  /\ \A g \in QualityGroups : BornGroup(g) = 8
  /\ \A g \in CanonicalGroups : BornGroup(g) = 10
  /\ \A g \in {"airport_layers", "route_layers"} : BornGroup(g) = 13
  BY DEF BornGroup, QualityGroups, CanonicalGroups

LEMMA OwnerValues ==
  /\ DOMAIN Owner = {"insight_support", "cluster_scores", "forecast_quality", "anomaly_scores",
                     "crawl_quality", "codes", "profile", "extras", "legacy_codes",
                     "airport_layers", "route_layers"}
  /\ Owner["insight_support"] = "executive_insights"
  /\ Owner["cluster_scores"] = "semantic_clusters"
  /\ Owner["forecast_quality"] = "forecast_snapshots"
  /\ Owner["anomaly_scores"] = "anomaly_events"
  /\ Owner["crawl_quality"] = "spider_runs"
  /\ Owner["airport_layers"] = "airports"
  /\ Owner["route_layers"] = "routes"
  /\ \A g \in {"codes", "profile", "extras", "legacy_codes"} : Owner[g] = "airline_metadata"
  BY DEF Owner

LEMMA Orderly1 == Orderly(InitialSchema, 1)
  BY TablesKnown, BornValues DEF Orderly, InitialSchema, Plain, DefaultWidth
LEMMA Orderly2 == Orderly(HardeningSchema, 2)
  BY BornValues DEF Orderly, HardeningSchema, Plain, DefaultWidth
LEMMA Orderly3 == Orderly(ReviewQualityCleanup, 3)
<1>1. "reviews" \in InitialTables
  BY DEF InitialTables
<1> QED BY <1>1, BornValues DEF Orderly, ReviewQualityCleanup, Plain, DefaultWidth
LEMMA Orderly4 == Orderly(AiSearchIndexes, 4)
<1>1. {"reviews", "nlp_results"} \subseteq InitialTables
  BY DEF InitialTables
<1> QED BY <1>1, BornValues DEF Orderly, AiSearchIndexes, Plain, DefaultWidth
LEMMA Orderly5 == Orderly(OperationalIntelligence, 5)
  BY TablesKnown, BornValues DEF Orderly, OperationalIntelligence, Plain, DefaultWidth
LEMMA Orderly6 == Orderly(StrategicIntelligence, 6)
<1>1. {"executive_insights", "semantic_clusters"} \subseteq InsightTables
  BY DEF InsightTables
<1>2. \A g \in {"insight_support", "cluster_scores"} : g \notin CanonicalGroups
  BY DEF CanonicalGroups
<1> QED BY <1>1, <1>2, TablesKnown, BornValues, BornGroupValues, OwnerValues
        DEF Orderly, StrategicIntelligence, Plain, DefaultWidth
LEMMA Orderly7 == Orderly(ForecastingAnomaly, 7)
<1>1. "anomaly_events" \in GeoTables
  BY DEF GeoTables
<1> QED BY <1>1, TablesKnown, BornValues DEF Orderly, ForecastingAnomaly, Plain, DefaultWidth
LEMMA Orderly8 == Orderly(EnterpriseIntelligence, 8)
<1>1. "anomaly_events" \in GeoTables /\ "spider_runs" \in InitialTables
  BY DEF GeoTables, InitialTables
<1>2. \A g \in QualityGroups : g \in DOMAIN Owner /\ Born(Owner[g]) \in 1 .. 8
  BY <1>1, BornValues, OwnerValues DEF QualityGroups
<1> QED BY <1>2, BornGroupValues DEF Orderly, EnterpriseIntelligence, Plain, DefaultWidth
LEMMA Orderly9 == Orderly(KnowledgeGraph, 9)
  BY TablesKnown, BornValues DEF Orderly, KnowledgeGraph, Plain, DefaultWidth
LEMMA Orderly10 == Orderly(AviationCanonicalFields, 10)
<1>1. CanonicalGroups \subseteq DOMAIN Owner
  BY OwnerValues DEF CanonicalGroups
<1> QED BY <1>1, BornGroupValues DEF Orderly, AviationCanonicalFields, Plain, DefaultWidth
LEMMA Orderly11 == Orderly(AirlineMetadataRepair, 11)
<1>1. CanonicalGroups \subseteq DOMAIN Owner
  BY OwnerValues DEF CanonicalGroups
<1> QED BY <1>1, TablesKnown, BornValues, BornGroupValues
        DEF Orderly, AirlineMetadataRepair, Plain, DefaultWidth
LEMMA Orderly12 == Orderly(VersionExpand, 12)
  BY DEF Orderly, VersionExpand, Plain, DefaultWidth
LEMMA Orderly13 == Orderly(GeospatialLayers, 13)
<1>1. {"airports", "routes"} \subseteq GeoTables
  BY DEF GeoTables
<1>2. \A g \in {"airport_layers", "route_layers"} : g \in DOMAIN Owner /\ Born(Owner[g]) \in 1 .. 13
  BY <1>1, BornValues, OwnerValues
<1> QED BY <1>2, TablesKnown, BornValues, BornGroupValues
        DEF Orderly, GeospatialLayers, Plain, DefaultWidth

\* The thirteen revisions are in an order in which they can run and be undone.
LEMMA ChainOrderly == \A k \in 1 .. Head : Orderly(Chain[k], k)
<1> SUFFICES ASSUME NEW k \in 1 .. 13 PROVE Orderly(Chain[k], k)
  BY DEF Head
<1>1. \/ k = 1 \/ k = 2 \/ k = 3 \/ k = 4 \/ k = 5 \/ k = 6 \/ k = 7 \/ k = 8 \/ k = 9
      \/ k = 10 \/ k = 11 \/ k = 12 \/ k = 13
  OBVIOUS
<1> QED BY <1>1, ChainAt, Orderly1, Orderly2, Orderly3, Orderly4, Orderly5, Orderly6, Orderly7,
           Orderly8, Orderly9, Orderly10, Orderly11, Orderly12, Orderly13

\* A table born in the chain is provided by the revision of that number.
LEMMA BornProvides ==
  ASSUME NEW t, Born(t) \in 1 .. Head PROVE t \in Provides(Born(t))
<1>1. \/ t \in InitialTables \/ t \in InsightTables \/ t \in GeoTables
      \/ t = "forecast_snapshots" \/ t \in GraphTables
      \/ t \in {"alliances", "airline_metadata"} \/ t = "geo_events"
  BY DEF Born, Head
<1>2. CASE t \in InitialTables
  BY <1>2, BornValues, ChainAt DEF Provides, InitialSchema, Plain
<1>3. CASE t \in InsightTables
  BY <1>3, BornValues, ChainAt DEF Provides, OperationalIntelligence, Plain
<1>4. CASE t \in GeoTables
  BY <1>4, BornValues, ChainAt DEF Provides, StrategicIntelligence, Plain
<1>5. CASE t = "forecast_snapshots"
  BY <1>5, BornValues, ChainAt DEF Provides, ForecastingAnomaly, Plain
<1>6. CASE t \in GraphTables
  BY <1>6, BornValues, ChainAt DEF Provides, KnowledgeGraph, Plain
<1>7. CASE t \in {"alliances", "airline_metadata"}
  <2>1. AirlineMetadataRepair.ensures = {"alliances", "airline_metadata"}
    BY DEF AirlineMetadataRepair, Plain
  <2> QED BY <1>7, <2>1, BornValues, ChainAt DEF Provides
<1>8. CASE t = "geo_events"
  <2>1. GeospatialLayers.creates = {"geo_events"}
    BY DEF GeospatialLayers, Plain
  <2> QED BY <1>8, <2>1, BornValues, ChainAt DEF Provides
<1> QED BY <1>1, <1>2, <1>3, <1>4, <1>5, <1>6, <1>7, <1>8

\* A table of the chain refers only to tables that are there when it comes.
LEMMA ReferencesOrdered ==
  \A r \in References : Born(r[1]) \in 1 .. Head => Born(r[2]) \in 1 .. Born(r[1])
<1> SUFFICES ASSUME NEW r \in References, Born(r[1]) \in 1 .. Head
             PROVE  Born(r[2]) \in 1 .. Born(r[1])
  OBVIOUS
<1>1. PICK m \in Models : r \in m.refs
  BY DEF References
<1>2. /\ Born("airlines") = 1 /\ Born("reviews") = 1
      /\ Born("nlp_results") = 1 /\ Born("topic_snapshots") = 1
  BY BornValues DEF InitialTables
<1>3. Born("airports") = 6 /\ Born("regions") = 6 /\ Born("routes") = 6 /\ Born("anomaly_events") = 6
  BY BornValues DEF GeoTables
<1>4. /\ Born("metric_snapshots") = 5 /\ Born("reputation_score_history") = 5
      /\ Born("executive_insights") = 5 /\ Born("semantic_clusters") = 5
  BY BornValues DEF InsightTables
<1>5. CASE m = CoreModels
  BY <1>1, <1>2, <1>5 DEF CoreModels
<1>6. CASE m = AnalyticsModels
  <2>1. r[2] = "airlines"
    BY <1>1, <1>6 DEF AnalyticsModels
  <2> QED BY <1>2, <2>1 DEF Head
<1>7. CASE m = IntelligenceModels
  <2>1. r[2] = "airlines"
    BY <1>1, <1>7 DEF IntelligenceModels
  <2> QED BY <1>2, <2>1 DEF Head
<1>8. CASE m = GeoModels
  BY <1>1, <1>2, <1>3, <1>8 DEF GeoModels
<1>9. CASE m = AviationModels
  <2>1. r \in {<<"airline_metadata", "airlines">>, <<"airline_metadata", "alliances">>,
               <<"airport_metadata", "airports">>, <<"airline_airports", "airline_metadata">>,
               <<"airline_airports", "airport_metadata">>}
    BY <1>1, <1>9 DEF AviationModels
  <2>2. r[1] # "airport_metadata" /\ r[1] # "airline_airports"
    BY BornValues DEF Head
  <2>3. r[1] = "airline_metadata" /\ r[2] \in {"airlines", "alliances"}
    BY <2>1, <2>2
  <2> QED BY <1>2, <2>3, BornValues
<1>10. CASE m = GraphModels \/ m = OperationsModels
  BY <1>1, <1>10 DEF GraphModels, OperationsModels
<1> QED BY <1>5, <1>6, <1>7, <1>8, <1>9, <1>10 DEF Models

-----------------------------------------------------------------------------
(* What the operations on databases keep.                                  *)

LEMMA DbFields ==
  ASSUME NEW d \in Db
  PROVE  /\ d.tables \subseteq AllTables /\ d.cols \subseteq DOMAIN Owner
         /\ d.stamp \in 0 .. 13 /\ d.short \in BOOLEAN /\ d.dirty \in BOOLEAN
         /\ d.width \in {0, 32, 128}
         /\ DOMAIN d = {"tables", "cols", "stamp", "short", "width", "dirty"}
  BY DEF Db, Head, DefaultWidth, TargetWidth

LEMMA OrderlyAt ==
  ASSUME NEW k \in 1 .. Head
  PROVE  Orderly(Chain[k], k)
  BY ChainOrderly

LEMMA TablesAfterMembers ==
  ASSUME NEW d \in Db, NEW k \in d.stamp .. Head
  PROVE  \A t : t \in TablesAfter(d, k)
                  <=> t \in d.tables \/ \E j \in (d.stamp + 1) .. k : t \in Provides(j)
  BY DEF TablesAfter, Provides

LEMMA ColsAfterMembers ==
  ASSUME NEW d \in Db, NEW k \in d.stamp .. Head
  PROVE  \A g : g \in ColsAfter(d, k)
                  <=> \/ g \in d.cols
                      \/ \E j \in (d.stamp + 1) .. k :
                           \/ g \in Adds(j)
                           \/ g \in Chain[j].optional /\ Owner[g] \in TablesAfter(d, j)
  BY DEF ColsAfter, Adds

\* An upgrade changes tables, columns, stamp and width, and nothing else.
LEMMA UpgradedFields ==
  ASSUME NEW d \in Db, NEW k \in d.stamp .. Head
  PROVE  LET u == Upgraded(d, k)
         IN  /\ u \in Db
             /\ u.tables = TablesAfter(d, k) /\ u.cols = ColsAfter(d, k)
             /\ u.stamp = k /\ u.short = d.short /\ u.dirty = d.dirty
             /\ d.width = TargetWidth => u.width = TargetWidth
             /\ (\E j \in (d.stamp + 1) .. k : Chain[j].widens) => u.width = TargetWidth
<1> DEFINE u == Upgraded(d, k)
<1>0. d.stamp \in 0 .. 13 /\ k \in 0 .. 13 /\ Head = 13
  BY DbFields DEF Head
<1>1. CASE k = d.stamp
  <2>1. u = d
    BY <1>1 DEF Upgraded
  <2>2. ~ \E j \in (d.stamp + 1) .. k : TRUE
    BY <1>0, <1>1
  <2>3. TablesAfter(d, k) = d.tables
    BY <2>2, TablesAfterMembers
  <2>4. ColsAfter(d, k) = d.cols
    BY <2>2, ColsAfterMembers
  <2> QED BY <1>1, <2>1, <2>2, <2>3, <2>4
<1>2. CASE k # d.stamp
  <2> DEFINE width == IF d.width = TargetWidth \/ \E j \in (d.stamp + 1) .. k : Chain[j].widens
                      THEN TargetWidth ELSE DefaultWidth
  <2>1. u = [d EXCEPT !.tables = TablesAfter(d, k), !.cols = ColsAfter(d, k), !.stamp = k,
                      !.width = width]
    BY <1>2 DEF Upgraded
  <2> HIDE DEF u
  <2>2. /\ u.tables = TablesAfter(d, k) /\ u.cols = ColsAfter(d, k)
        /\ u.stamp = k /\ u.short = d.short /\ u.dirty = d.dirty /\ u.width = width
        /\ u = [tables |-> u.tables, cols |-> u.cols, stamp |-> u.stamp, short |-> u.short,
                width |-> u.width, dirty |-> u.dirty]
    BY <2>1 DEF Db
  <2>3. width \in {0, DefaultWidth, TargetWidth}
    OBVIOUS
  <2>4. \A j \in (d.stamp + 1) .. k : j \in 1 .. Head
    BY <1>0
  <2>5. TablesAfter(d, k) \subseteq AllTables
    <3>1. \A j \in 1 .. Head : Provides(j) \subseteq AllTables
      BY ChainOrderly DEF Orderly, Provides
    <3> QED BY <2>4, <3>1, TablesAfterMembers, DbFields
  <2>6. ColsAfter(d, k) \subseteq DOMAIN Owner
    <3>1. \A j \in 1 .. Head : Adds(j) \cup Chain[j].optional \subseteq DOMAIN Owner
      BY ChainOrderly DEF Orderly, Adds
    <3> QED BY <2>4, <3>1, ColsAfterMembers, DbFields
  <2>7. u \in Db
    <3>1. u.short \in BOOLEAN /\ u.dirty \in BOOLEAN
      BY <2>2, DbFields
    <3> HIDE DEF width
    <3> QED BY <1>0, <2>2, <2>3, <2>5, <2>6, <3>1 DEF Db
  <2> QED BY <2>2, <2>7 DEF u
<1> QED BY <1>1, <1>2

\* Running the chain, to whatever revision, keeps a database consistent.
LEMMA UpgradedConsistent ==
  ASSUME NEW d \in Db, Consistent(d), NEW k \in d.stamp .. Head
  PROVE  Consistent(Upgraded(d, k))
<1> DEFINE u == Upgraded(d, k)
<1>0. d.stamp \in 0 .. 13 /\ k \in 0 .. 13 /\ d.stamp <= k /\ Head = 13
  BY DbFields DEF Head
<1>1. /\ u.tables = TablesAfter(d, k) /\ u.cols = ColsAfter(d, k) /\ u.stamp = k
      /\ d.width = TargetWidth => u.width = TargetWidth
      /\ (\E j \in (d.stamp + 1) .. k : Chain[j].widens) => u.width = TargetWidth
  BY UpgradedFields
<1> HIDE DEF u
<1>2. ASSUME NEW j \in 1 .. k PROVE Provides(j) \subseteq u.tables /\ Adds(j) \subseteq u.cols
  <2>1. CASE j <= d.stamp
    BY <1>0, <1>1, <2>1, TablesAfterMembers, ColsAfterMembers
    DEF Consistent, TellsTruth, Provides, Adds
  <2>2. CASE j > d.stamp
    BY <1>0, <1>1, <2>2, TablesAfterMembers, ColsAfterMembers
  <2> QED BY <1>0, <2>1, <2>2
<1>3. ASSUME k >= 11 PROVE CanonicalGroups \subseteq u.cols /\ u.width = TargetWidth
  <2>1. CASE d.stamp >= 11
    BY <1>1, <2>1, ColsAfterMembers DEF Consistent, TellsTruth
  <2>2. CASE d.stamp < 11
    <3>1. 11 \in (d.stamp + 1) .. k /\ 11 \in d.stamp .. Head
      BY <1>0, <1>3, <2>2
    <3>2. /\ Chain[11].optional = CanonicalGroups /\ Chain[11].widens
          /\ "airline_metadata" \in Provides(11)
      BY ChainAt DEF AirlineMetadataRepair, Plain, Provides
    <3>3. "airline_metadata" \in TablesAfter(d, 11)
      BY <1>0, <2>2, <3>1, <3>2, TablesAfterMembers
    <3>4. \A g \in CanonicalGroups : Owner[g] = "airline_metadata"
      BY OwnerValues DEF CanonicalGroups
    <3> QED BY <1>1, <3>1, <3>2, <3>3, <3>4, ColsAfterMembers
  <2> QED BY <1>0, <2>1, <2>2
<1>4. ASSUME NEW j \in (k + 1) .. Head
      PROVE  Chain[j].creates \cap u.tables = {} /\ Chain[j].adds \cap u.cols = {}
  <2>1. j \in 1 .. Head /\ j \in (d.stamp + 1) .. Head
    BY <1>0
  <2>2. Chain[j].creates \cap d.tables = {} /\ Chain[j].adds \cap d.cols = {}
    BY <2>1 DEF Consistent
  <2>3. /\ \A t \in Chain[j].creates : Born(t) = j
        /\ \A g \in Chain[j].adds : BornGroup(g) = j
    BY <2>1, OrderlyAt DEF Orderly
  <2>4. ASSUME NEW i \in (d.stamp + 1) .. k
        PROVE  /\ \A t \in Provides(i) : Born(t) # j
               /\ \A g \in Adds(i) \cup Chain[i].optional : BornGroup(g) # j
    <3>1. i \in 1 .. Head /\ i < j
      BY <1>0
    <3> QED BY <1>0, <3>1, OrderlyAt DEF Orderly, Provides, Adds
  <2> QED BY <1>1, <2>2, <2>3, <2>4, TablesAfterMembers, ColsAfterMembers
<1>5. u.stamp = k
  BY <1>1
<1> QED BY <1>2, <1>3, <1>4, <1>5 DEF Consistent, TellsTruth, Provides, Adds, u

\* The databases runs of the chain over an empty one leave, which is where
\* every deployment has come from, are consistent.
LEMMA FreshConsistent ==
  ASSUME NEW k \in 0 .. Head
  PROVE  Upgraded(EmptyDb, k) \in Db /\ Consistent(Upgraded(EmptyDb, k))
<1>1. EmptyDb \in Db
  BY DEF EmptyDb, Db, Head
<1>2. Consistent(EmptyDb)
  BY DEF EmptyDb, Consistent, TellsTruth
<1>3. k \in EmptyDb.stamp .. Head
  BY DEF EmptyDb
<1> QED BY <1>1, <1>2, <1>3, UpgradedFields, UpgradedConsistent

\* The revision that follows the stamp of a consistent database can be run.
LEMMA NextUpgradable ==
  ASSUME NEW u \in Db, Consistent(u), ~u.dirty, NEW k \in 1 .. Head, u.stamp = k - 1,
         NEW postgis, postgis # "missing"
  PROVE  Upgradable(k, u, postgis)
<1> DEFINE m == Chain[k]
           tables == u.tables \cup m.creates \cup m.ensures
<1>0. k \in 1 .. 13 /\ Head = 13
  BY DEF Head
<1>1. Orderly(m, k)
  BY OrderlyAt
<1>2. ASSUME NEW t, Born(t) \in 1 .. k PROVE t \in tables /\ (Born(t) # k => t \in u.tables)
  <2>1. t \in Provides(Born(t))
    BY <1>0, <1>2, BornProvides
  <2>2. CASE Born(t) = k
    BY <2>1, <2>2 DEF Provides
  <2>3. CASE Born(t) # k
    <3>1. Born(t) \in 1 .. u.stamp
      BY <1>0, <1>2, <2>3
    <3> QED BY <2>1, <2>3, <3>1 DEF Consistent, TellsTruth, Provides
  <2> QED BY <2>2, <2>3
<1>3. m.creates \cap u.tables = {} /\ m.adds \cap u.cols = {}
  BY <1>0 DEF Consistent
<1> HIDE DEF m, tables
<1>4. m.alters \subseteq tables
  BY <1>0, <1>1, <1>2 DEF Orderly
<1>5. \A g \in m.adds \cup m.guarded : Owner[g] \in tables
  BY <1>1, <1>2 DEF Orderly
<1>6. \A r \in References : r[1] \in tables \ u.tables => r[2] \in tables
  <2> SUFFICES ASSUME NEW r \in References, r[1] \in tables \ u.tables PROVE r[2] \in tables
    OBVIOUS
  <2>1. Born(r[1]) \in 1 .. k
    BY <1>1 DEF Orderly, tables
  <2>2. Born(r[2]) \in 1 .. k
    BY <1>0, <2>1, ReferencesOrdered
  <2> QED BY <1>2, <2>2
<1>7. m.length <= DefaultWidth \/ m.widens \/ u.width = TargetWidth
  BY <1>0, <1>1 DEF Orderly, Consistent
<1> QED BY <1>3, <1>4, <1>5, <1>6, <1>7 DEF Upgradable, m, tables

\* Nothing but an unknown stamp, the reviews 0003 cannot delete or a missing
\* PostGIS keeps the chain from running to its head.
LEMMA ConsistentReachesHead ==
  ASSUME NEW d \in Db, Consistent(d), ~d.short, ~d.dirty, NEW postgis, postgis # "missing"
  PROVE  ReachesHead(d, postgis)
<1> SUFFICES ASSUME NEW k \in (d.stamp + 1) .. Head
             PROVE  Upgradable(k, Upgraded(d, k - 1), postgis)
  BY DEF ReachesHead
<1>1. k \in 1 .. Head /\ k - 1 \in d.stamp .. Head
  BY DbFields DEF Head
<1>2. /\ Upgraded(d, k - 1) \in Db /\ Upgraded(d, k - 1).stamp = k - 1
      /\ ~Upgraded(d, k - 1).dirty
  BY <1>1, UpgradedFields
<1>3. Consistent(Upgraded(d, k - 1))
  BY <1>1, UpgradedConsistent
<1> QED BY <1>1, <1>2, <1>3, NextUpgradable

LEMMA AtLastIsHead ==
  ASSUME NEW d \in Db, Consistent(d)
  PROVE  /\ AtLast(d) \in Db /\ Consistent(AtLast(d)) /\ AtLast(d).dirty = d.dirty
         /\ ~d.short => AtHead(AtLast(d))
<1>1. Head \in d.stamp .. Head
  BY DbFields DEF Head
<1> QED BY <1>1, UpgradedFields, UpgradedConsistent DEF AtLast, AtHead

\* One downgrade takes away what its revision had brought and no more.
LEMMA DowngradedConsistent ==
  ASSUME NEW d \in Db, Consistent(d), Downgradable(d)
  PROVE  Downgraded(d) \in Db /\ Consistent(Downgraded(d))
<1> DEFINE s == d.stamp
           m == Chain[s]
           e == Downgraded(d)
           tables == d.tables \ (m.drops \cup m.clears)
           cols == {g \in d.cols \ (m.sheds \cup m.trims) : Owner[g] \in tables}
<1>0. s \in 1 .. 13 /\ Head = 13
  BY DbFields DEF Downgradable, Head
<1>1. Orderly(m, s)
  BY <1>0, OrderlyAt
<1>2. e = [d EXCEPT !.tables = tables, !.cols = cols, !.stamp = s - 1]
  BY DEF Downgraded
<1> HIDE DEF e
<1>3. /\ e.tables = tables /\ e.cols = cols /\ e.stamp = s - 1 /\ e.short = d.short
      /\ e.width = d.width /\ e.dirty = d.dirty
      /\ e = [tables |-> e.tables, cols |-> e.cols, stamp |-> e.stamp, short |-> e.short,
              width |-> e.width, dirty |-> e.dirty]
  BY <1>2 DEF Db
<1>4. e \in Db
  <2>1. tables \subseteq AllTables /\ cols \subseteq DOMAIN Owner
    BY DbFields
  <2>2. s - 1 \in 0 .. Head
    BY <1>0
  <2>3. e.short \in BOOLEAN /\ e.dirty \in BOOLEAN /\ e.width \in {0, DefaultWidth, TargetWidth}
    BY <1>3, DbFields DEF DefaultWidth, TargetWidth
  <2> QED BY <1>3, <2>1, <2>2, <2>3 DEF Db
<1>5. ASSUME NEW t, Born(t) \in 1 .. (s - 1) PROVE t \in tables
  <2>1. t \in Provides(Born(t))
    BY <1>0, <1>5, BornProvides
  <2>2. t \in d.tables
    BY <1>0, <1>5, <2>1 DEF Consistent, TellsTruth, Provides
  <2>3. Born(t) # s
    BY <1>0, <1>5
  <2> QED BY <1>1, <2>2, <2>3 DEF Orderly
<1>6. ASSUME NEW k \in 1 .. (s - 1) PROVE Provides(k) \subseteq tables /\ Adds(k) \subseteq cols
  <2>1. k \in 1 .. Head /\ k \in 1 .. d.stamp /\ k # s /\ k \in Nat
    BY <1>0
  <2>2. Orderly(Chain[k], k)
    BY <2>1, OrderlyAt
  <2>3. Provides(k) \subseteq tables
    BY <1>0, <1>5, <2>2 DEF Orderly, Provides
  <2>4. Adds(k) \subseteq d.cols
    BY <2>1 DEF Consistent, TellsTruth, Adds
  <2>5. \A g \in Adds(k) : Born(Owner[g]) \in 1 .. (s - 1) /\ BornGroup(g) # s
    BY <1>0, <2>1, <2>2 DEF Orderly, Adds
  <2>6. \A g \in Adds(k) : g \notin m.sheds \cup m.trims
    BY <1>1, <2>5 DEF Orderly
  <2> QED BY <1>5, <2>3, <2>4, <2>5, <2>6
<1>7. ASSUME s - 1 >= 11 PROVE CanonicalGroups \subseteq cols /\ d.width = TargetWidth
  <2>1. s >= 11
    BY <1>0, <1>7
  <2>2. CanonicalGroups \subseteq d.cols /\ d.width = TargetWidth
    BY <2>1 DEF Consistent, TellsTruth
  <2>3. \A g \in CanonicalGroups : g \notin m.sheds \cup m.trims
    BY <1>0, <1>1, <1>7, BornGroupValues DEF Orderly
  <2>4. Born("airline_metadata") = 11
    BY BornValues
  <2>5. "airline_metadata" \in tables
    BY <1>0, <1>5, <1>7, <2>4
  <2>6. \A g \in CanonicalGroups : Owner[g] = "airline_metadata"
    BY OwnerValues DEF CanonicalGroups
  <2> QED BY <2>2, <2>3, <2>5, <2>6
<1>8. ASSUME NEW k \in s .. Head
      PROVE  Chain[k].creates \cap tables = {} /\ Chain[k].adds \cap cols = {}
  <2>1. CASE k = s
    BY <1>1, <2>1 DEF Orderly
  <2>2. CASE k # s
    <3>1. k \in (d.stamp + 1) .. Head
      BY <1>0, <2>2
    <3> QED BY <3>1 DEF Consistent
  <2> QED BY <2>1, <2>2
<1>9. (s - 1) + 1 = s
  BY <1>0
<1> HIDE DEF tables, cols, m
<1> QED BY <1>3, <1>4, <1>6, <1>7, <1>8, <1>9 DEF Consistent, TellsTruth, Provides, Adds, e

-----------------------------------------------------------------------------
(* The repairs, and what a step does to the database.                      *)

LEMMA RepairVersionKeeps ==
  ASSUME cfg \in Settings, NEW d \in Db, Consistent(d)
  PROVE  LET e == RepairVersion(d)
         IN  /\ e \in Db /\ Consistent(e)
             /\ e.tables = d.tables /\ e.cols = d.cols /\ e.stamp = d.stamp
             /\ e.dirty = d.dirty /\ e.short = Orphaned(d)
             /\ e.width = IF cfg.versionRepair /\ d.width > 0 THEN TargetWidth ELSE d.width
<1> DEFINE width == IF cfg.versionRepair /\ d.width > 0 THEN TargetWidth ELSE d.width
           e == RepairVersion(d)
<1>1. e = [d EXCEPT !.width = width, !.short = Orphaned(d)]
  BY DEF RepairVersion
<1>2. width \in {0, DefaultWidth, TargetWidth} /\ (d.width = TargetWidth => width = TargetWidth)
  BY DbFields DEF DefaultWidth, TargetWidth
<1> HIDE DEF e, width
<1>3. /\ e.tables = d.tables /\ e.cols = d.cols /\ e.stamp = d.stamp /\ e.dirty = d.dirty
      /\ e.short = Orphaned(d) /\ e.width = width
      /\ e = [tables |-> e.tables, cols |-> e.cols, stamp |-> e.stamp, short |-> e.short,
              width |-> e.width, dirty |-> e.dirty]
  BY <1>1 DEF Db
<1>4. e \in Db
  <2>1. Orphaned(d) \in BOOLEAN
    BY DEF Orphaned, Db
  <2> QED BY <2>1, <1>2, <1>3 DEF Db
<1>5. Consistent(e)
  BY <1>2, <1>3 DEF Consistent, TellsTruth
<1> QED BY <1>3, <1>4, <1>5 DEF e, width

LEMMA RepairAviationKeeps ==
  ASSUME NEW d \in Db, Consistent(d)
  PROVE  LET e == RepairAviation(d)
         IN  /\ e \in Db /\ Consistent(e)
             /\ e.tables = d.tables /\ d.cols \subseteq e.cols /\ e.stamp = d.stamp
             /\ e.dirty = d.dirty /\ e.short = d.short /\ e.width = d.width
<1> DEFINE e == RepairAviation(d)
           cols == d.cols \cup {"codes", "profile"}
<1>1. CASE e = d
  BY <1>1
<1>2. CASE e = [d EXCEPT !.cols = cols]
  <2> HIDE DEF e, cols
  <2>1. /\ e.tables = d.tables /\ e.cols = cols /\ e.stamp = d.stamp /\ e.dirty = d.dirty
        /\ e.short = d.short /\ e.width = d.width
        /\ e = [tables |-> e.tables, cols |-> e.cols, stamp |-> e.stamp, short |-> e.short,
                width |-> e.width, dirty |-> e.dirty]
    BY <1>2 DEF Db
  <2>2. cols \subseteq DOMAIN Owner /\ d.cols \subseteq cols
    BY DbFields, OwnerValues DEF cols
  <2>3. e \in Db
    BY <2>1, <2>2 DEF Db
  <2>4. TellsTruth(e)
    BY <2>1, <2>2 DEF Consistent, TellsTruth
  <2>5. ASSUME NEW k \in (d.stamp + 1) .. Head PROVE Chain[k].adds \cap cols = {}
    <3>1. k \in 1 .. Head
      BY DbFields DEF Head
    <3>2. Chain[k].adds \cap d.cols = {} /\ Chain[k].adds \cap CanonicalGroups = {}
      BY <3>1, OrderlyAt DEF Consistent, Orderly
    <3> QED BY <3>2 DEF cols, CanonicalGroups
  <2>6. Consistent(e)
    BY <2>1, <2>4, <2>5 DEF Consistent
  <2> QED BY <2>1, <2>2, <2>3, <2>6 DEF e
<1> QED BY <1>1, <1>2 DEF RepairAviation

\* What a step of a service or of the refresh does to the database.
DbMoves ==
  \/ db' = db
  \/ db' = RepairVersion(db)
  \/ db' = RepairAviation(db)
  \/ ReachesHead(db, cfg.postgis) /\ db' = AtLast(db)

LEMMA ServiceMoves ==
  ASSUME NEW s \in Services, StartUp(s) \/ ValidateFails(s) \/ Crash(s)
  PROVE  DbMoves /\ UNCHANGED <<cfg, changes>>
<1>1. CASE Start(s) \/ ValidateFails(s) \/ Crash(s) \/ LoadDoc(s) \/ SaveVerdict(s) \/ CloseStart(s)
  BY <1>1 DEF Start, ValidateFails, Crash, LoadDoc, SaveVerdict, CloseStart, Save, DbMoves
<1>2. CASE Preflight(s)
  BY <1>2 DEF Preflight, DbMoves
<1>3. CASE Validate(s)
  BY <1>3 DEF Validate, DbMoves
<1>4. CASE UpgradeBegin(s)
  BY <1>4 DEF UpgradeBegin, DbMoves
<1>5. CASE UpgradeEnd(s)
  BY <1>5 DEF UpgradeEnd, DbMoves
<1>6. CASE Revalidate(s)
  BY <1>6 DEF Revalidate, DbMoves
<1> QED BY <1>1, <1>2, <1>3, <1>4, <1>5, <1>6 DEF StartUp

LEMMA RefreshMoves ==
  ASSUME Refreshing
  PROVE  DbMoves /\ UNCHANGED <<cfg, changes>>
<1>1. CASE RefreshBegin
  BY <1>1 DEF RefreshBegin, DbMoves
<1>2. CASE RefreshUnreconciled \/ LoadDoc(Refresh) \/ RefreshVerdict \/ RefreshEnd
  BY <1>2 DEF RefreshUnreconciled, LoadDoc, RefreshVerdict, RefreshEnd, Save, DbMoves
<1> QED BY <1>1, <1>2 DEF Refreshing

LEMMA MovesKeep ==
  ASSUME cfg \in Settings, db \in Db, Consistent(db), DbMoves
  PROVE  /\ db' \in Db /\ Consistent(db') /\ db'.dirty = db.dirty
         /\ AtHead(db) => AtHead(db')
         /\ ~db.short => ~db'.short
         /\ Orphaned(db) => Orphaned(db')
         /\ db'.width > 0 => db.width > 0 \/ AtHead(db')
         /\ db'.stamp = db.stamp \/ AtHead(db')
<1>1. CASE db' = db
  BY <1>1
<1>2. CASE db' = RepairVersion(db)
  <2>1. db.width \in {0, 32, 128}
    BY DbFields
  <2> QED BY <1>2, <2>1, RepairVersionKeeps DEF AtHead, Orphaned
<1>3. CASE db' = RepairAviation(db)
  BY <1>3, RepairAviationKeeps DEF AtHead, Orphaned
<1>4. CASE ReachesHead(db, cfg.postgis) /\ db' = AtLast(db)
  <2>1. ~db.short
    BY <1>4 DEF ReachesHead
  <2> QED BY <1>4, <2>1, AtLastIsHead DEF AtHead, Orphaned
<1> QED BY <1>1, <1>2, <1>3, <1>4 DEF DbMoves

LEMMA CompletedKeeps ==
  ASSUME NEW d \in Db, Consistent(d), d.stamp = Head
  PROVE  LET e == [d EXCEPT !.tables = @ \cup OrmTables] IN e \in Db /\ Consistent(e)
<1> DEFINE tables == d.tables \cup OrmTables
           e == [d EXCEPT !.tables = tables]
<1> HIDE DEF tables
<1>1. /\ e.tables = tables /\ e.cols = d.cols /\ e.stamp = d.stamp /\ e.width = d.width
      /\ e.short = d.short /\ e.dirty = d.dirty
      /\ e = [tables |-> e.tables, cols |-> e.cols, stamp |-> e.stamp, short |-> e.short,
              width |-> e.width, dirty |-> e.dirty]
  BY DEF Db
<1> HIDE DEF e
<1>2. tables \subseteq AllTables /\ d.tables \subseteq tables
  BY DbFields DEF AllTables, tables
<1>3. e \in Db
  BY <1>1, <1>2 DEF Db
<1>4. Consistent(e)
  BY <1>1, <1>2 DEF Consistent, TellsTruth, Head
<1> QED BY <1>3, <1>4 DEF e, tables

LEMMA OperatingKeeps ==
  ASSUME TypeOK, Consistent(db), Operating
  PROVE  /\ db' \in Db /\ Consistent(db')
         /\ changes' \in 1 .. MaxChanges
         /\ UNCHANGED <<cfg, doc, pc, round, report, copy, seen, faults>>
         /\ Disturb(TRUE)
<1> USE DEF TypeOK
<1>1. /\ changes < MaxChanges /\ changes' = changes + 1 /\ Disturb(TRUE)
      /\ UNCHANGED <<cfg, doc, pc, round, report, copy, seen, faults>>
  <2>1. CASE UpgradeByHand \/ DowngradeByHand \/ CompleteSchema
    BY <2>1 DEF UpgradeByHand, DowngradeByHand, CompleteSchema, Operate
  <2>2. CASE RepairScript
    BY <2>2 DEF RepairScript, Operate
  <2> QED BY <2>1, <2>2 DEF Operating
<1>6. changes' \in 1 .. MaxChanges
  BY <1>1, BoundsAssumption
<1>2. ASSUME UpgradeByHand PROVE db' \in Db /\ Consistent(db')
  BY <1>1, <1>2, AtLastIsHead DEF UpgradeByHand, Operate
<1>3. ASSUME RepairScript PROVE db' \in Db /\ Consistent(db')
  <2> DEFINE repaired == RepairVersion(db)
  <2>1. repaired \in Db /\ Consistent(repaired)
    BY RepairVersionKeeps
  <2> HIDE DEF repaired
  <2>2. db' = AtLast(repaired) \/ db' = repaired
    BY <1>3 DEF RepairScript, Operate, repaired
  <2> QED BY <1>1, <2>1, <2>2, AtLastIsHead
<1>4. ASSUME DowngradeByHand PROVE db' \in Db /\ Consistent(db')
  BY <1>1, <1>4, DowngradedConsistent DEF DowngradeByHand, Operate
<1>5. ASSUME CompleteSchema PROVE db' \in Db /\ Consistent(db')
  BY <1>5, CompletedKeeps DEF CompleteSchema, AtHead, Operate
<1> QED BY <1>1, <1>2, <1>3, <1>4, <1>5, <1>6 DEF Operating

-----------------------------------------------------------------------------
(* Types: the document and the reports besides TypeOK.                     *)

Docs == [blocked : SUBSET Stages, semantic : SUBSET Stages]
Reports == [missing : SUBSET RequiredTables, drift : BOOLEAN, semantic : SUBSET Stages,
            aviation : BOOLEAN, healthy : BOOLEAN]

\* A service upgrades, and a process publishes, on a report it has made.
Reported ==
  /\ doc \in Docs
  /\ copy \in [Processes -> Docs \cup {NoDoc}]
  /\ report \in [Processes -> Reports \cup {NoReport}]
  /\ \A p \in Processes :
       pc[p] \in {"upgrade", "upgrading", "revalidate", "publish"} => report[p] \in Reports

\* The inductive invariant of types and databases.
SchemaInv == TypeOK /\ Reported /\ Consistent(db)

LEMMA ReportType ==
  ASSUME NEW d, NEW e
  PROVE  Validation(d, e) \in Reports
<1>1. SemanticBlocks(d) \subseteq Stages
  BY DEF SemanticBlocks, Stages
<1>2. Missing(d) \subseteq RequiredTables
  BY DEF Missing
<1> QED BY <1>1, <1>2 DEF Validation, Reports

LEMMA VerdictType ==
  ASSUME NEW d \in Docs, NEW r \in Reports
  PROVE  LET v == WithVerdict(d, r)
         IN  /\ v \in Docs
             /\ v.semantic = (IF r.healthy THEN {} ELSE r.semantic)
             /\ v.blocked = (IF r.healthy THEN {} ELSE TableBlocks(r.missing) \cup r.semantic)
<1>1. TableBlocks(r.missing) \subseteq Stages
  BY DEF TableBlocks, Stages
<1>2. r.semantic \subseteq Stages
  BY DEF Reports
<1> HIDE DEF TableBlocks
<1> QED BY <1>1, <1>2 DEF WithVerdict, Docs

LEMMA SchemaInit == Init => SchemaInv
<1> SUFFICES ASSUME Init PROVE SchemaInv
  OBVIOUS
<1>1. PICK sc \in Scenarios : cfg = sc[1] /\ db = sc[2]
  BY DEF Init
<1>2. cfg \in Settings /\ db \in Db
  BY <1>1, ScenariosAssumption
<1>3. Consistent(db)
  BY <1>1, HistoryAssumption
<1>4. EmptyDoc \in Docs /\ EmptyDoc.blocked \subseteq Stages
  BY DEF EmptyDoc, Docs
<1>5. faults \in 0 .. MaxFaults /\ changes \in 0 .. MaxChanges
  BY BoundsAssumption DEF Init
<1>6. TypeOK
  BY <1>2, <1>4, <1>5 DEF Init, TypeOK, Head, Writing
<1>7. Reported
  BY <1>4 DEF Init, Reported
<1> QED BY <1>3, <1>6, <1>7 DEF SchemaInv

LEMMA SchemaStep == SchemaInv /\ [Next]_vars => SchemaInv'
<1> SUFFICES ASSUME SchemaInv, [Next]_vars PROVE SchemaInv'
  OBVIOUS
<1> DEFINE Points == {"off", "preflight", "validate", "upgrade", "upgrading", "revalidate",
                      "stages", "up"} \cup Writing
           Kept == /\ pc' \in [Processes -> Points]
                   /\ round' \in [Services -> {"entrypoint", "service"}]
                   /\ seen' \in [Services -> 0 .. Head]
                   /\ faults' \in 0 .. MaxFaults
                   /\ Reported'
<1>0. /\ cfg \in Settings /\ db \in Db /\ Consistent(db) /\ Reported
      /\ pc \in [Processes -> Points]
      /\ round \in [Services -> {"entrypoint", "service"}]
      /\ seen \in [Services -> 0 .. Head]
      /\ faults \in 0 .. MaxFaults /\ changes \in 0 .. MaxChanges
      /\ Services \subseteq Processes /\ Refresh \in Processes
  BY DEF SchemaInv, TypeOK, Processes
<1> USE DEF Writing
<1>1. CASE UNCHANGED vars
  BY <1>1 DEF vars, SchemaInv, TypeOK, Reported
<1>2. ASSUME DbMoves, UNCHANGED <<cfg, changes>>, Kept PROVE SchemaInv'
  <2>1. db' \in Db /\ Consistent(db')
    BY <1>0, <1>2, MovesKeep
  <2>2. doc'.blocked \subseteq Stages
    BY <1>2 DEF Reported, Docs
  <2>3. Consistent(db)'
    BY <2>1
  <2> QED BY <1>0, <1>2, <2>1, <2>2, <2>3 DEF SchemaInv, TypeOK
<1>3. ASSUME NEW s \in Services, StartUp(s) \/ ValidateFails(s) \/ Crash(s) PROVE Kept
  <2> USE <1>0
  <2>1. CASE Start(s)
    BY <2>1 DEF Start, Step, Reported
  <2>2. CASE Preflight(s)
    BY <2>2 DEF Preflight, Step, Reported
  <2>3. CASE Validate(s)
    <3>1. \E to \in {"upgrade", "publish"} : pc' = [pc EXCEPT ![s] = to]
      BY <2>3 DEF Validate, Step
    <3>2. \E r \in Reports : report' = [report EXCEPT ![s] = r]
      BY <2>3, ReportType DEF Validate
    <3> QED BY <2>3, <3>1, <3>2 DEF Validate, Reported
  <2>4. CASE UpgradeBegin(s)
    <3>1. pc[s] = "upgrade" /\ \E to \in {"upgrading", "publish"} : pc' = [pc EXCEPT ![s] = to]
      BY <2>4 DEF UpgradeBegin, Step
    <3>2. db'.stamp \in 0 .. Head
      BY <2>4, RepairVersionKeeps, DbFields DEF UpgradeBegin, Head
    <3>3. seen' \in [Services -> 0 .. Head]
      BY <2>4, <3>2 DEF UpgradeBegin
    <3> QED BY <2>4, <3>1, <3>3 DEF UpgradeBegin, Reported
  <2>5. CASE UpgradeEnd(s)
    <3>1. pc[s] = "upgrading" /\ \E to \in {"revalidate", "publish"} : pc' = [pc EXCEPT ![s] = to]
      BY <2>5 DEF UpgradeEnd, Step
    <3>2. seen' \in [Services -> 0 .. Head]
      BY <2>5 DEF UpgradeEnd, Head
    <3> QED BY <2>5, <3>1, <3>2 DEF UpgradeEnd, Reported
  <2>6. CASE Revalidate(s)
    <3>1. \E r \in Reports : report' = [report EXCEPT ![s] = r]
      BY <2>6, ReportType DEF Revalidate
    <3> QED BY <2>6, <3>1 DEF Revalidate, Step, Reported
  <2>7. CASE LoadDoc(s)
    BY <2>7 DEF LoadDoc, Reported
  <2>8. CASE SaveVerdict(s)
    <3>1. copy[s] \in Docs /\ report[s] \in Reports
      BY <2>8 DEF SaveVerdict, Save, Step, Reported
    <3>2. doc' \in Docs
      BY <2>8, <3>1, VerdictType DEF SaveVerdict, Save
    <3> QED BY <2>8, <3>2 DEF SaveVerdict, Save, Step, Reported
  <2>9. CASE CloseStart(s)
    <3>1. copy[s] \in Docs /\ doc' = copy[s] /\ copy' = [copy EXCEPT ![s] = NoDoc]
      BY <2>9 DEF CloseStart, Save, Reported
    <3>2. \E to \in {"off", "preflight", "up"} : pc' = [pc EXCEPT ![s] = to]
      BY <2>9 DEF CloseStart, Step
    <3>3. report' = report \/ report' = [report EXCEPT ![s] = NoReport]
      BY <2>9 DEF CloseStart
    <3>4. round' \in [Services -> {"entrypoint", "service"}]
      BY <2>9 DEF CloseStart
    <3>5. UNCHANGED <<seen, faults>>
      BY <2>9 DEF CloseStart, Save
    <3> QED BY <3>1, <3>2, <3>3, <3>4, <3>5 DEF Reported
  <2>10. CASE ValidateFails(s)
    BY <2>10, BoundsAssumption DEF ValidateFails, Reported
  <2>11. CASE Crash(s)
    BY <2>11, BoundsAssumption DEF Crash, Reported, Head
  <2> QED BY <1>3, <2>1, <2>2, <2>3, <2>4, <2>5, <2>6, <2>7, <2>8, <2>9, <2>10, <2>11
          DEF StartUp
<1>4. ASSUME Refreshing PROVE Kept
  <2> USE <1>0
  <2>1. CASE RefreshBegin
    <3>1. \E r \in Reports : report' = [report EXCEPT ![Refresh] = r]
      BY <2>1, ReportType DEF RefreshBegin
    <3> QED BY <2>1, <3>1 DEF RefreshBegin, Step, Reported
  <2>2. CASE RefreshUnreconciled
    BY <2>2, BoundsAssumption DEF RefreshUnreconciled, Step, Reported
  <2>3. CASE LoadDoc(Refresh)
    BY <2>3 DEF LoadDoc, Reported
  <2>4. CASE RefreshVerdict
    <3>1. copy[Refresh] \in Docs /\ report[Refresh] \in Reports
      BY <2>4 DEF RefreshVerdict, Save, Step, Reported
    <3>2. doc' \in Docs
      BY <2>4, <3>1, VerdictType DEF RefreshVerdict, Save
    <3> QED BY <2>4, <3>2 DEF RefreshVerdict, Save, Step, Reported
  <2>5. CASE RefreshEnd
    BY <2>5 DEF RefreshEnd, Step, Reported
  <2> QED BY <1>4, <2>1, <2>2, <2>3, <2>4, <2>5 DEF Refreshing
<1>5. ASSUME Operating PROVE SchemaInv'
  <2>1. /\ db' \in Db /\ Consistent(db') /\ changes' \in 1 .. MaxChanges
        /\ UNCHANGED <<cfg, doc, pc, round, report, copy, seen, faults>>
    BY <1>5, OperatingKeeps DEF SchemaInv
  <2>2. changes' \in 0 .. MaxChanges /\ Consistent(db)'
    BY <2>1
  <2> QED BY <2>1, <2>2 DEF SchemaInv, TypeOK, Reported
<1> HIDE DEF Kept
<1> QED BY <1>1, <1>2, <1>3, <1>4, <1>5, ServiceMoves, RefreshMoves DEF Next

\* Whatever is upgraded, downgraded, repaired or raced for, a database whose
\* stamp told the truth keeps telling it, and every variable keeps its type.
THEOREM StampIsTrue == Spec => []StampTellsTruth
<1>1. SchemaInv => StampTellsTruth
  BY DEF SchemaInv, StampTellsTruth, Consistent
<1> QED BY <1>1, SchemaInit, SchemaStep, PTL DEF Spec

\* However a consistent database has been upgraded, downgraded and repaired,
\* alembic can bring it to head unless its stamp, its reviews or PostGIS
\* stand in the way.
THEOREM ChainNeverStuck == Spec => []UpgradeNeverStuck
<1>1. SchemaInv => UpgradeNeverStuck
  <2> SUFFICES ASSUME SchemaInv, ~db.short, ~db.dirty, cfg.postgis # "missing"
               PROVE  ReachesHead(db, cfg.postgis)
    BY DEF UpgradeNeverStuck
  <2> QED BY ConsistentReachesHead DEF SchemaInv, TypeOK
<1> QED BY <1>1, SchemaInit, SchemaStep, PTL DEF Spec

-----------------------------------------------------------------------------
(* A production service that is up.                                        *)

\* In production nothing is migrated or repaired by a start: what a service
\* has validated can only have its version column widened.
Usable ==
  cfg.env = "production" /\ changes = 0 =>
    \A s \in Services :
      /\ pc[s] \notin {"upgrade", "upgrading", "revalidate"}
      /\ pc[s] \in {"publish", "close", "up"} /\ report[s] # NoReport /\ report[s].healthy
           => Healthy(db)
      /\ pc[s] = "up" /\ report[s] # NoReport /\ cfg.block => report[s].healthy

\* The preflight's repair takes nothing away from a healthy database.
LEMMA RepairKeepsHealth ==
  ASSUME cfg \in Settings, NEW d \in Db, Consistent(d), Healthy(d)
  PROVE  Healthy(RepairVersion(d))
<1> DEFINE e == RepairVersion(d)
<1>1. /\ e.tables = d.tables /\ e.cols = d.cols /\ e.stamp = d.stamp
      /\ ~d.short => ~e.short
      /\ e.width = d.width \/ e.width = TargetWidth
  BY RepairVersionKeeps DEF Orphaned
<1> HIDE DEF e
<1>2. Chain[Head].length = 33
  BY ChainAt DEF Head, GeospatialLayers, Plain
<1>3. Missing(e) = Missing(d) /\ (AtHead(d) => AtHead(e))
  BY <1>1 DEF Missing, AtHead
<1>4. /\ SemanticallySound(d) => SemanticallySound(e)
      /\ AviationValid(d) => AviationValid(e)
  BY <1>1 DEF SemanticallySound, CodesResolve, AviationValid
<1>5. VersionSafe(d) => VersionSafe(e)
  BY <1>1 DEF VersionSafe, TargetWidth
<1>6. ChainValid(d) => ChainValid(e)
  BY <1>1, <1>2 DEF ChainValid, TargetWidth
<1>7. /\ Missing(d) = {} /\ AtHead(d) /\ SemanticallySound(d)
      /\ AviationValid(d) /\ VersionSafe(d) /\ ChainValid(d)
  BY DEF Healthy, Validation
<1>8. Healthy(e)
  BY <1>3, <1>4, <1>5, <1>6, <1>7 DEF Healthy, Validation
<1> QED BY <1>8 DEF e

\* A production database changes by that repair only.
LEMMA ProductionMoves ==
  ASSUME SchemaInv, Usable, cfg.env = "production", changes = 0, [Next]_vars, changes' = 0
  PROVE  /\ cfg' = cfg
         /\ db' = db \/ db' = RepairVersion(db)
         /\ RepairAviation(db) = db
<1>1. RepairAviation(db) = db
  BY DEF RepairAviation
<1>2. ~Operating
  BY OperatingKeeps DEF SchemaInv
<1>3. CASE UNCHANGED vars
  BY <1>1, <1>3 DEF vars
<1>4. ASSUME NEW s \in Services, StartUp(s) \/ ValidateFails(s) \/ Crash(s)
      PROVE  cfg' = cfg /\ (db' = db \/ db' = RepairVersion(db))
  <2>1. ~UpgradeEnd(s)
    BY DEF Usable, UpgradeEnd
  <2>2. cfg' = cfg
    BY <1>4, ServiceMoves
  <2>3. CASE Start(s) \/ LoadDoc(s) \/ SaveVerdict(s) \/ CloseStart(s) \/ ValidateFails(s)
             \/ Crash(s)
    BY <2>2, <2>3 DEF Start, LoadDoc, SaveVerdict, CloseStart, Save, ValidateFails, Crash
  <2>4. CASE Preflight(s)
    BY <2>2, <2>4 DEF Preflight
  <2>5. CASE UpgradeBegin(s)
    BY <2>2, <2>5 DEF UpgradeBegin
  <2>6. CASE Validate(s)
    BY <1>1, <2>2, <2>6 DEF Validate
  <2>7. CASE Revalidate(s)
    BY <1>1, <2>2, <2>7 DEF Revalidate
  <2> QED BY <1>4, <2>1, <2>3, <2>4, <2>5, <2>6, <2>7 DEF StartUp
<1>5. ASSUME Refreshing PROVE cfg' = cfg /\ db' = db
  <2>1. CASE RefreshBegin
    BY <1>1, <2>1 DEF RefreshBegin
  <2>2. CASE RefreshUnreconciled \/ LoadDoc(Refresh) \/ RefreshVerdict \/ RefreshEnd
    BY <2>2 DEF RefreshUnreconciled, LoadDoc, RefreshVerdict, RefreshEnd, Save
  <2> QED BY <1>5, <2>1, <2>2 DEF Refreshing
<1> QED BY <1>1, <1>2, <1>3, <1>4, <1>5 DEF Next

\* Every step keeps the clauses of Usable, of one service s at a time.
LEMMA UsableStep == SchemaInv /\ Usable /\ [Next]_vars => Usable'
<1> SUFFICES ASSUME SchemaInv, Usable, [Next]_vars,
                    cfg'.env = "production", changes' = 0,
                    NEW s \in Services
             PROVE  /\ pc'[s] \notin {"upgrade", "upgrading", "revalidate"}
                    /\ /\ pc'[s] \in {"publish", "close", "up"}
                       /\ report'[s] # NoReport /\ report'[s].healthy
                       => Healthy(db')
                    /\ pc'[s] = "up" /\ report'[s] # NoReport /\ cfg'.block
                       => report'[s].healthy
  BY DEF Usable, Healthy, Validation
<1>1. cfg' = cfg /\ changes = 0
  <2>1. CASE Operating
    <3>1. changes' # 0
      BY <2>1, OperatingKeeps DEF SchemaInv
    <3> QED BY <3>1
  <2>2. CASE UNCHANGED vars
    BY <2>2 DEF vars
  <2>3. CASE ~Operating /\ ~UNCHANGED vars
    BY <2>3, ServiceMoves, RefreshMoves DEF Next
  <2> QED BY <2>1, <2>2, <2>3
<1>2. cfg.env = "production"
  BY <1>1
<1>3. (db' = db \/ db' = RepairVersion(db)) /\ RepairAviation(db) = db
  BY <1>1, <1>2, ProductionMoves
<1>4. Healthy(db) => Healthy(db')
  BY <1>3, RepairKeepsHealth DEF SchemaInv, TypeOK
<1>5. /\ pc[s] \notin {"upgrade", "upgrading", "revalidate"}
      /\ pc[s] \in {"publish", "close", "up"} /\ report[s] # NoReport /\ report[s].healthy
           => Healthy(db)
      /\ pc[s] = "up" /\ report[s] # NoReport /\ cfg.block => report[s].healthy
  BY <1>1, <1>2 DEF Usable
<1>6. /\ pc \in [Processes -> {"off", "preflight", "validate", "upgrade", "upgrading",
                               "revalidate", "stages", "up"} \cup Writing]
      /\ report \in [Processes -> Reports \cup {NoReport}]
      /\ Services \subseteq Processes /\ s \in Processes /\ s # Refresh
  BY ServicesAssumption DEF SchemaInv, TypeOK, Reported, Processes
<1>7. CASE pc'[s] = pc[s] /\ report'[s] = report[s]
  BY <1>1, <1>4, <1>5, <1>7
<1>8. ASSUME NEW t \in Services, t # s, StartUp(t) \/ ValidateFails(t) \/ Crash(t)
      PROVE  pc'[s] = pc[s] /\ report'[s] = report[s]
  BY <1>6, <1>8
  DEF StartUp, Start, Preflight, Validate, UpgradeBegin, UpgradeEnd, Revalidate, LoadDoc,
      SaveVerdict, CloseStart, Save, Step, ValidateFails, Crash
<1>9. ASSUME Refreshing PROVE pc'[s] = pc[s] /\ report'[s] = report[s]
  BY <1>6, <1>9
  DEF Refreshing, RefreshBegin, RefreshUnreconciled, LoadDoc, RefreshVerdict, RefreshEnd,
      Save, Step
<1>10. CASE Operating
  BY <1>7, <1>10, OperatingKeeps DEF SchemaInv
<1>11. CASE UNCHANGED vars
  BY <1>7, <1>11 DEF vars
<1>12. CASE Start(s) \/ Preflight(s) \/ ValidateFails(s) \/ Crash(s)
  BY <1>6, <1>12 DEF Start, Preflight, ValidateFails, Crash, Step
<1>13. CASE Validate(s)
  <2>1. ~AutoMigrate
    BY <1>2 DEF AutoMigrate
  <2>2. pc'[s] = "publish" /\ db' = db
    BY <1>3, <1>6, <1>13, <2>1 DEF Validate, Step
  <2>3. report'[s] = Validation(db, db)
    BY <1>3, <1>6, <1>13 DEF Validate
  <2> QED BY <2>2, <2>3 DEF Healthy
<1>14. CASE LoadDoc(s)
  BY <1>7, <1>14 DEF LoadDoc
<1>15. CASE SaveVerdict(s)
  <2>1. pc[s] = "publish" /\ pc'[s] = "close" /\ report' = report
    BY <1>6, <1>15 DEF SaveVerdict, Step
  <2> QED BY <1>4, <1>5, <2>1
<1>16. CASE CloseStart(s)
  <2>1. pc[s] = "close" /\ pc'[s] \in {"off", "preflight", "up"}
    BY <1>6, <1>16 DEF CloseStart, Step
  <2>2. ASSUME pc'[s] = "up" PROVE ~Blocks(s) /\ report' = report
    <3>1. \/ Blocks(s) /\ Step(s, "close", "off")
          \/ ~Blocks(s) /\ round[s] = "entrypoint" /\ Step(s, "close", "preflight")
          \/ ~Blocks(s) /\ report' = report
      BY <1>16 DEF CloseStart
    <3> QED BY <1>6, <2>2, <3>1 DEF Step
  <2>3. ~Blocks(s) /\ report[s] # NoReport /\ cfg.block => report[s].healthy
    BY <1>2 DEF Blocks, ShouldBlock
  <2> QED BY <1>1, <1>4, <1>5, <2>1, <2>2, <2>3
<1>17. CASE UpgradeBegin(s) \/ UpgradeEnd(s) \/ Revalidate(s)
  BY <1>5, <1>17 DEF UpgradeBegin, UpgradeEnd, Revalidate, Step
<1> QED BY <1>7, <1>8, <1>9, <1>10, <1>11, <1>12, <1>13, <1>14, <1>15, <1>16, <1>17
        DEF Next, StartUp

\* A production service that runs with blocking on, and whose validation
\* finished, runs on a usable schema, however many containers start, crash
\* and publish beside it, unless an operator changed the schema.
THEOREM UpIsUsable == Spec => []UpMeansUsable
<1>1. Init => Usable
  BY DEF Init, Usable, Processes
<1>2. Usable => UpMeansUsable
  BY DEF Usable, UpMeansUsable
<1> QED BY <1>1, <1>2, UsableStep, SchemaInit, SchemaStep, PTL DEF Spec

-----------------------------------------------------------------------------
(* The verdict of the refresh.                                             *)

WhatItRefuses(d) == IF Healthy(d) THEN {} ELSE TableBlocks(Missing(d)) \cup SemanticBlocks(d)

\* Undisturbed, the refresh publishes what it would find now, and has
\* published what it would still find.
Explained ==
  ~disturbed => /\ pc[Refresh] = "publish" => report[Refresh] = Validation(db, db)
                /\ pc[Refresh] = "stages" => Refused = WhatItRefuses(db)

\* A step of anybody else leaves the refresh where it was with the report it
\* has made, and disturbs it if it changes the schema or the document.
LEMMA OthersDisturb ==
  ASSUME SchemaInv, NEW s \in Services, StartUp(s) \/ ValidateFails(s) \/ Crash(s)
  PROVE  /\ pc'[Refresh] = pc[Refresh] /\ report'[Refresh] = report[Refresh]
         /\ pc[Refresh] # "off" /\ ~disturbed' => ~disturbed /\ db' = db /\ doc' = doc
<1>1. /\ s # Refresh /\ Refresh \in Processes
      /\ DOMAIN pc = Processes /\ DOMAIN report = Processes
  BY ServicesAssumption DEF SchemaInv, TypeOK, Reported, Processes
<1>2. CASE Start(s) \/ LoadDoc(s) \/ ValidateFails(s) \/ Crash(s)
  BY <1>1, <1>2 DEF Start, Step, LoadDoc, ValidateFails, Crash
<1>3. CASE Preflight(s) \/ Revalidate(s)
  BY <1>1, <1>3 DEF Preflight, Revalidate, Step, Disturb
<1>4. CASE Validate(s)
  BY <1>1, <1>4 DEF Validate, Step, Disturb
<1>5. CASE UpgradeBegin(s)
  BY <1>1, <1>5 DEF UpgradeBegin, Step, Disturb
<1>6. CASE UpgradeEnd(s)
  BY <1>1, <1>6 DEF UpgradeEnd, Step, Disturb
<1>7. CASE SaveVerdict(s)
  BY <1>1, <1>7 DEF SaveVerdict, Save, Step, Disturb
<1>8. CASE CloseStart(s)
  <2>1. \E to \in {"off", "preflight", "up"} : pc' = [pc EXCEPT ![s] = to]
    BY <1>8 DEF CloseStart, Step
  <2>2. report' = report \/ report' = [report EXCEPT ![s] = NoReport]
    BY <1>8 DEF CloseStart
  <2>3. Disturb(TRUE)
    BY <1>8 DEF CloseStart
  <2> QED BY <1>1, <2>1, <2>2, <2>3 DEF Disturb
<1> QED BY <1>2, <1>3, <1>4, <1>5, <1>6, <1>7, <1>8 DEF StartUp

LEMMA ExplainedStep == SchemaInv /\ Explained /\ [Next]_vars => Explained'
<1> SUFFICES ASSUME SchemaInv, Explained, [Next]_vars, ~disturbed'
             PROVE  /\ pc'[Refresh] = "publish" => report'[Refresh] = Validation(db', db')
                    /\ pc'[Refresh] = "stages" => Refused' = WhatItRefuses(db')
  BY DEF Explained, Validation, WhatItRefuses, Healthy
<1> DEFINE Quiet == /\ pc'[Refresh] = pc[Refresh] /\ report'[Refresh] = report[Refresh]
                    /\ pc[Refresh] # "off" => ~disturbed /\ db' = db /\ doc' = doc
<1>1. /\ Refresh \in Processes
      /\ DOMAIN pc = Processes /\ DOMAIN report = Processes /\ DOMAIN copy = Processes
  BY DEF SchemaInv, TypeOK, Reported, Processes
<1>2. CASE UNCHANGED vars
  BY <1>2 DEF vars, Explained, Refused
<1>3. CASE Quiet
  BY <1>3 DEF Explained, Refused
<1>4. ASSUME NEW s \in Services, StartUp(s) \/ ValidateFails(s) \/ Crash(s) PROVE Quiet
  BY <1>4, OthersDisturb
<1>5. CASE Operating
  <2>1. UNCHANGED <<doc, pc, report>> /\ Disturb(TRUE)
    BY <1>5, OperatingKeeps DEF SchemaInv
  <2> QED BY <1>3, <2>1 DEF Disturb
<1>6. CASE RefreshBegin
  <2>1. db' = db /\ RepairAviation(db) = db
    BY <1>6 DEF RefreshBegin
  <2>2. report'[Refresh] = Validation(db, db) /\ pc'[Refresh] = "publish"
    BY <1>1, <1>6, <2>1 DEF RefreshBegin, Step
  <2> QED BY <2>1, <2>2
<1>7. CASE RefreshUnreconciled
  BY <1>7 DEF RefreshUnreconciled
<1>8. CASE LoadDoc(Refresh)
  BY <1>3, <1>8 DEF LoadDoc
<1>9. CASE RefreshVerdict
  <2>1. ~disturbed /\ pc[Refresh] = "publish" /\ pc'[Refresh] = "stages" /\ db' = db
    BY <1>1, <1>9 DEF RefreshVerdict, Save, Step
  <2>2. report[Refresh] = Validation(db, db)
    BY <2>1 DEF Explained
  <2>3. copy[Refresh] \in Docs /\ report[Refresh] \in Reports
    BY <1>1, <1>9, <2>1 DEF RefreshVerdict, Save, SchemaInv, Reported
  <2>4. doc' = WithVerdict(copy[Refresh], report[Refresh])
    BY <1>9 DEF RefreshVerdict, Save
  <2> DEFINE r == report[Refresh]
  <2>5. /\ doc'.semantic = (IF r.healthy THEN {} ELSE r.semantic)
        /\ doc'.blocked = (IF r.healthy THEN {} ELSE TableBlocks(r.missing) \cup r.semantic)
    BY <2>3, <2>4, VerdictType
  <2>6. /\ r.healthy = Healthy(db) /\ r.missing = Missing(db)
        /\ r.semantic = SemanticBlocks(db)
    BY <2>2 DEF Validation, Healthy
  <2> HIDE DEF r
  <2>7. Refused' = WhatItRefuses(db)
    BY <2>5, <2>6 DEF Refused, WhatItRefuses
  <2> QED BY <2>1, <2>7
<1>10. CASE RefreshEnd
  BY <1>1, <1>10 DEF RefreshEnd, Step
<1> QED BY <1>2, <1>3, <1>4, <1>5, <1>6, <1>7, <1>8, <1>9, <1>10 DEF Next, Refreshing

\* The refresh refuses the stages whose tables or columns are missing and no
\* other, whatever verdicts the services publish, unless the document or the
\* schema changes under its feet.
THEOREM SkipsExplained == Spec => []SkipsAreExplained
<1>1. Init => Explained
  BY DEF Init, Explained, Processes
<1>2. Explained => SkipsAreExplained
  BY DEF Explained, SkipsAreExplained, WhatItRefuses
<1> QED BY <1>1, <1>2, ExplainedStep, SchemaInit, SchemaStep, PTL DEF Spec

-----------------------------------------------------------------------------
(* A service that migrates by itself.                                      *)

\* An upgrade that is going on will end at head, or somebody else has been
\* there first; one that is behind a service has left the schema at head.
Migrated ==
  AutoMigrate /\ cfg.postgis # "missing" /\ changes = 0 /\ ~db.dirty /\ ~Orphaned(db) =>
    \A s \in Services :
      /\ pc[s] = "upgrading" => AtHead(db) \/ (db.stamp = seen[s] /\ ~db.short)
      /\ pc[s] = "revalidate" => AtHead(db)
      /\ pc[s] \in {"publish", "close", "up"} /\ report[s] # NoReport /\ db.width > 0
           => AtHead(db)

\* A start refuses to upgrade only where there is no alembic_version to prepare.
LEMMA OnlyNoColumnRefuses ==
  ASSUME cfg \in Settings, NEW d \in Db, Consistent(d),
         ~PreflightSafe(RepairVersion(d)), ~PreflightActs(d)
  PROVE  RepairVersion(d).width = 0
<1>1. d.width \in {0, DefaultWidth, TargetWidth}
  BY DbFields DEF DefaultWidth, TargetWidth
<1>2. RepairVersion(d).width = IF cfg.versionRepair /\ d.width > 0 THEN TargetWidth ELSE d.width
  BY RepairVersionKeeps
<1>3. cfg.versionRepair \in BOOLEAN
  BY DEF Settings
<1> QED BY <1>1, <1>2, <1>3
        DEF PreflightSafe, PreflightActs, VersionSafe, DefaultWidth, TargetWidth

LEMMA MigratedStep == SchemaInv /\ Migrated /\ [Next]_vars => Migrated'
<1> SUFFICES ASSUME SchemaInv, Migrated, [Next]_vars,
                    AutoMigrate', cfg'.postgis # "missing", changes' = 0, ~db'.dirty,
                    ~Orphaned(db'), NEW s \in Services
             PROVE  /\ pc'[s] = "upgrading" => AtHead(db') \/ (db'.stamp = seen'[s] /\ ~db'.short)
                    /\ pc'[s] = "revalidate" => AtHead(db')
                    /\ pc'[s] \in {"publish", "close", "up"} /\ report'[s] # NoReport
                       /\ db'.width > 0 => AtHead(db')
  BY DEF Migrated, AtHead, Orphaned
<1>1. CASE UNCHANGED vars
  <2>1. AutoMigrate /\ cfg.postgis # "missing" /\ changes = 0 /\ ~db.dirty /\ ~Orphaned(db)
    BY <1>1 DEF vars, AutoMigrate
  <2> QED BY <1>1, <2>1 DEF Migrated, vars, AtHead
<1>2. CASE Operating
  BY <1>2, OperatingKeeps DEF SchemaInv
<1>3. CASE DbMoves /\ UNCHANGED <<cfg, changes>>
  <2>1. /\ cfg \in Settings /\ db \in Db /\ Consistent(db)
        /\ s \in Processes /\ s # Refresh
        /\ DOMAIN pc = Processes /\ DOMAIN report = Processes
        /\ DOMAIN seen = Services
    BY ServicesAssumption DEF SchemaInv, TypeOK, Reported, Processes
  <2>2. /\ db' \in Db /\ Consistent(db') /\ db'.dirty = db.dirty
        /\ AtHead(db) => AtHead(db')
        /\ ~db.short => ~db'.short
        /\ Orphaned(db) => Orphaned(db')
        /\ db'.width > 0 => db.width > 0 \/ AtHead(db')
        /\ db'.stamp = db.stamp \/ AtHead(db')
    BY <1>3, <2>1, MovesKeep
  <2>3. AutoMigrate /\ cfg.postgis # "missing" /\ changes = 0 /\ ~db.dirty /\ ~Orphaned(db)
    BY <1>3, <2>2 DEF AutoMigrate
  <2>4. /\ pc[s] = "upgrading" => AtHead(db) \/ (db.stamp = seen[s] /\ ~db.short)
        /\ pc[s] = "revalidate" => AtHead(db)
        /\ pc[s] \in {"publish", "close", "up"} /\ report[s] # NoReport /\ db.width > 0
             => AtHead(db)
    BY <2>3 DEF Migrated
  <2>5. CASE pc'[s] = pc[s] /\ report'[s] = report[s] /\ seen'[s] = seen[s]
    BY <2>2, <2>4, <2>5
  <2>6. ASSUME NEW t \in Services, t # s, StartUp(t) \/ ValidateFails(t) \/ Crash(t)
        PROVE  pc'[s] = pc[s] /\ report'[s] = report[s] /\ seen'[s] = seen[s]
    BY <2>1, <2>6
    DEF StartUp, Start, Preflight, Validate, UpgradeBegin, UpgradeEnd, Revalidate, LoadDoc,
        SaveVerdict, CloseStart, Save, Step, ValidateFails, Crash
  <2>7. ASSUME Refreshing
        PROVE  pc'[s] = pc[s] /\ report'[s] = report[s] /\ seen'[s] = seen[s]
    BY <2>1, <2>7
    DEF Refreshing, RefreshBegin, RefreshUnreconciled, LoadDoc, RefreshVerdict, RefreshEnd,
        Save, Step
  <2>8. CASE Start(s) \/ Preflight(s) \/ ValidateFails(s) \/ Crash(s)
    BY <2>1, <2>8 DEF Start, Preflight, ValidateFails, Crash, Step
  <2>9. CASE Validate(s)
    <3>1. pc'[s] \in {"upgrade", "publish"}
      BY <2>1, <2>9 DEF Validate, Step
    <3>2. ASSUME pc'[s] = "publish" PROVE AtHead(db)
      <4>1. ~report'[s].drift
        BY <2>1, <2>3, <2>9, <3>2 DEF Validate, Step
      <4>2. report'[s] = Validation(db, RepairAviation(db))
        BY <2>1, <2>9 DEF Validate
      <4>3. Validation(db, RepairAviation(db)).drift = ~AtHead(db)
        BY DEF Validation
      <4>4. AtHead(db) \in BOOLEAN
        BY DEF AtHead
      <4> QED BY <4>1, <4>2, <4>3, <4>4
    <3> QED BY <2>2, <3>1, <3>2
  <2>10. CASE UpgradeBegin(s)
    <3>1. db' = RepairVersion(db) /\ seen'[s] = db'.stamp /\ ~db'.short
      BY <2>1, <2>3, <2>10, RepairVersionKeeps DEF UpgradeBegin
    <3>2. CASE PreflightSafe(db') \/ PreflightActs(db)
      <4>1. pc'[s] = "upgrading"
        BY <2>1, <2>10, <3>2 DEF UpgradeBegin, Step
      <4> QED BY <3>1, <4>1
    <3>3. CASE ~(PreflightSafe(db') \/ PreflightActs(db))
      <4>1. pc'[s] = "publish"
        BY <2>1, <2>10, <3>3 DEF UpgradeBegin, Step
      <4>2. db'.width = 0
        BY <2>1, <3>1, <3>3, OnlyNoColumnRefuses
      <4> QED BY <4>1, <4>2
    <3> QED BY <3>2, <3>3
  <2>11. CASE UpgradeEnd(s)
    <3>1. pc[s] = "upgrading"
      BY <2>11 DEF UpgradeEnd
    <3>2. AtHead(db')
      <4>1. CASE AtHead(db)
        BY <2>2, <4>1
      <4>2. CASE db.stamp = seen[s] /\ ~db.short
        <5>1. ReachesHead(db, cfg.postgis)
          BY <2>1, <2>3, <4>2, ConsistentReachesHead
        <5>2. db' = AtLast(db)
          BY <2>11, <4>2, <5>1 DEF UpgradeEnd
        <5> QED BY <2>1, <4>2, <5>2, AtLastIsHead DEF AtHead
      <4> QED BY <2>4, <3>1, <4>1, <4>2
    <3>3. pc'[s] \in {"revalidate", "publish"}
      BY <2>1, <2>11 DEF UpgradeEnd, Step
    <3> QED BY <3>2, <3>3
  <2>12. CASE Revalidate(s)
    BY <2>1, <2>2, <2>4, <2>12 DEF Revalidate, Step
  <2>13. CASE LoadDoc(s)
    BY <2>5, <2>13 DEF LoadDoc
  <2>14. CASE SaveVerdict(s)
    <3>1. pc[s] = "publish" /\ pc'[s] = "close" /\ report' = report
      BY <2>1, <2>14 DEF SaveVerdict, Step
    <3> QED BY <2>2, <2>4, <3>1
  <2>15. CASE CloseStart(s)
    <3>1. pc[s] = "close" /\ pc'[s] \in {"off", "preflight", "up"}
      BY <2>1, <2>15 DEF CloseStart, Step
    <3>2. report'[s] = report[s] \/ report'[s] = NoReport
      BY <2>1, <2>15 DEF CloseStart
    <3> QED BY <2>2, <2>4, <3>1, <3>2
  <2>16. CASE \E t \in Services : StartUp(t) \/ ValidateFails(t) \/ Crash(t)
    BY <2>5, <2>6, <2>8, <2>9, <2>10, <2>11, <2>12, <2>13, <2>14, <2>15, <2>16 DEF StartUp
  <2> QED BY <1>1, <1>2, <2>5, <2>7, <2>16 DEF Next
<1> QED BY <1>1, <1>2, <1>3, ServiceMoves, RefreshMoves DEF Next

\* A development or staging service that is up, and whose validation
\* finished, is up over a database at head, however many of them have raced
\* to upgrade it, unless an operator interfered or the chain cannot be run.
THEOREM MigratedBeforeUp == Spec => []MigratedWhenUp
<1>1. Init => Migrated
  BY DEF Init, Migrated, Processes
<1>2. Migrated => MigratedWhenUp
  BY DEF Migrated, MigratedWhenUp
<1> QED BY <1>1, <1>2, MigratedStep, SchemaInit, SchemaStep, PTL DEF Spec

=============================================================================
