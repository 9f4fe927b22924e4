SPECIFICATION Spec
CONSTANTS
  Procs = {sync, refresh, boot}
  SyncJob = sync
  Refresh = refresh
  Boot = boot
  Worlds <- SmallWorlds
  Nothing = Nothing
INVARIANTS OverlapNeedsRemoval CompletedIsTold SecondSyncKnowsTheFeed
PROPERTIES GapsOnly CoreIsCovered CountsReconcile
CHECK_DEADLOCK FALSE
