SPECIFICATION Spec
CONSTANTS
  Stages <- CoreStages
  MaxAttempts = 2
INVARIANTS GatesAreSound CompletedIsEarned RowMatchesBlob ReadingExplained
CHECK_DEADLOCK FALSE
