SPECIFICATION LocksSpec
CONSTANTS
  Ops = {o1, o2, o3}
  Workers = {w1, w2}
  Watchdogs = {d1}
  NoOp = NoOp
  MaxRetries = 1
  RetriesPromoted = TRUE
  HeartbeatTimeout = 1
  StageStalls = {2, 3}
  QueuedGrace = 3
SYMMETRY FullSymmetry
INVARIANTS LockDiscipline OverlapNeedsDeprivation ExclusiveWhenCalm
PROPERTIES RecordNotStolen CompletedIsFinal
CHECK_DEADLOCK FALSE
