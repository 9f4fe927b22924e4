SPECIFICATION FairJobSpec
CONSTANTS
  Execs = {e1, e2}
  MaxRetries = 1

INVARIANTS OverlapNeedsRace LockAccounted
PROPERTIES LockFreed
CHECK_DEADLOCK FALSE
