CONSTANTS
  Reviews <- MCReviews
  Tasks <- MCTasks
  Stages <- MCStages
  Passes <- MCPasses
  Subject <- MCSubject
  stage = stage
  job = job
  retry = retry
  Batch = 2
  MaxBatches = 2
SPECIFICATION MCSpec
INVARIANTS ReportedIsWritten CoveredMeansCovered TopicsCatchUp
PROPERTIES
  PassesSettle
  SoloRefreshHeals
CHECK_DEADLOCK FALSE
