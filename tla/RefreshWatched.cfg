SPECIFICATION FairSpec
CONSTANTS
  Ops = {o1, o2}
  Workers = {w1}
  Watchdogs = {d1}
  NoOp = NoOp
  MaxRetries = 1
  RetriesPromoted = FALSE
  HeartbeatTimeout = 1
  StageStalls = {2, 3}
  QueuedGrace = 3

PROPERTIES AbandonedIsReported
CHECK_DEADLOCK FALSE
