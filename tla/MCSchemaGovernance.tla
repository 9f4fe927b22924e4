------------------------ MODULE MCSchemaGovernance ------------------------
(***************************************************************************)
(* Instances of SchemaGovernance for TLC: the deployments and the          *)
(* databases of the runs.                                                  *)
(***************************************************************************)
EXTENDS SchemaGovernance, TLC

Symmetry == Permutations(Services)

Production == [env |-> "production", migrate |-> FALSE, block |-> TRUE, aviationBlock |-> TRUE,
               aviationRepair |-> FALSE, versionRepair |-> TRUE, 
               postgis |-> "available"]
Compose == [Production EXCEPT !.env = "development", !.migrate = TRUE, !.block = FALSE,
                              !.postgis = "off"]
Repairing == [Compose EXCEPT !.aviationRepair = TRUE, !.versionRepair = FALSE]
Staging == [Compose EXCEPT !.env = "staging", !.block = TRUE]

\* What a run of the chain leaves at revision k.
Stamped(k) == Upgraded(EmptyDb, k)

\* airline_metadata from before 0011, with the codes under their old names.
Legacy ==
  LET d == Stamped(9)
  IN [d EXCEPT !.tables = @ \cup {"airline_metadata", "alliances"}, !.cols = @ \cup {"legacy_codes"},
               !.short = TRUE]

Complete == [Stamped(Head) EXCEPT !.tables = @ \cup OrmTables]

Deployments ==
  {<<Production, d>> : d \in {Stamped(5), Legacy, Stamped(Head), Complete}}
  \cup {<<Compose, d>> : d \in {EmptyDb, Stamped(5), [Stamped(2) EXCEPT !.dirty = TRUE],
                                [Stamped(5) EXCEPT !.short = TRUE]}}
  \cup {<<Repairing, d>> : d \in {[Stamped(10) EXCEPT !.short = TRUE],
                                  [Legacy EXCEPT !.cols = @ \ {"legacy_codes"}]}}
  \cup {<<Staging, d>> : d \in {Legacy, Complete}}

=============================================================================
