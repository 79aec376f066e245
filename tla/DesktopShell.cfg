SPECIFICATION ShellFairSpec
CONSTANTS
  MaxBackends = 4
  MaxAttempt = 5
  ShellBudgets <- BudgetSet
INVARIANTS NoStrayBackend OfferIsAccepted
PROPERTY ServesOrEnds
CHECK_DEADLOCK FALSE
