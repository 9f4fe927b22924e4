SPECIFICATION Spec
CONSTANTS
  Procs = {w1, w2}
  Ops = {o1}
  Stages = {"aviation_master", "forecasting"}
  HistoryCap = 2
  Window = 2
  Cooldown = 3
  MaxTime = 3
  Budgets <- SmallBudgets
  MaxDepth = 1
SYMMETRY Symmetry
INVARIANTS CooldownIsEarned HistoriesAgree OverclaimIsListed
PROPERTIES CrashLoopIsHalted
CHECK_DEADLOCK FALSE
