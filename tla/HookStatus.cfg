SPECIFICATION FairSpec
CONSTANTS
  HookDelay = 1
  BlockingWindow = 2
  StaleWindow = 3
  Throttle = 3
  Grace = 4
  IdleTimeout = 5
  Budgets <- BudgetSet
INVARIANTS CompletionSticks BlockedIsShown
PROPERTY WorkingEnds
CHECK_DEADLOCK FALSE
