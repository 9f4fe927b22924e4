-------------------------- MODULE MCReviewEnrichment --------------------------
(***************************************************************************)
(* Two extractions (the refresh stage and the job) over three reviews, or  *)
(* three enrichments (the third sees what two overlapping ones have left)  *)
(* over two.                                                               *)
(***************************************************************************)
EXTENDS ReviewEnrichment

CONSTANTS stage, job, retry

MCReviews == 1..3
MCTasks == {stage, job, retry}
MCStages == {stage}
MCSubject == [r \in MCReviews |-> r % 2]

MCPasses == [metadata |-> {stage, job}, nlp |-> MCTasks]

MCNext == Next /\ (kind = "nlp" => 3 \notin stored')

MCSpec == Init /\ [][MCNext]_vars /\ \A t \in MCTasks : WF_vars(Step(t))
=============================================================================
