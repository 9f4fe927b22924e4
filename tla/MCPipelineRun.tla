---------------------------- MODULE MCPipelineRun ----------------------------
(***************************************************************************)
(* An instance of PipelineRun for TLC: one stage of each kind whose failure*)
(* reconciliation can take back, by a KPI, by the schema and by signals.   *)
(***************************************************************************)
EXTENDS PipelineRun

CoreStages == <<"knowledge_graph", "aviation_master", "fusion">>

=============================================================================
