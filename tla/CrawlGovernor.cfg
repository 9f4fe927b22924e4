SPECIFICATION FairGovernorSpec
CONSTANTS
  Airlines = {a1, a2}
  NoAirline = NoAirline
  MaxPages = 2
  FewPages = 1
  Warmup = 1
  HardTimeout = 5
  MaxDuplicateStreak = 1
  MaxNoInsert = 3
  MaxStatic = 2
  MaxStaticAirline = 3
INVARIANTS SuccessMeansGone
PROPERTIES AlarmsAreTrue StageEnds
CHECK_DEADLOCK FALSE
