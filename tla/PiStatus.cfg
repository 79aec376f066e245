SPECIFICATION PiSpec
CONSTANTS
  BlockingWindow = 1
  StaleWindow = 1
  Throttle = 1
  Grace = 2
  IdleTimeout = 3
  Modes <- ModeSet
  PiBudgets <- BudgetSet
INVARIANTS StatusIsWhatPiDoes BadgeAgrees
CHECK_DEADLOCK FALSE
