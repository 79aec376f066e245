SPECIFICATION FairSpec
CONSTANTS
  None = None
  NoKey = NoKey
  MaxQueued = 4
  Attempts = 2
  CompactAt = 2
  MaxRetries = 1
  Retain = 2
  HeldAt <- NothingHeld
  Budgets <- BudgetSet
INVARIANTS ShownOnceInOrder SubscriptionFollows
PROPERTY ShownCatchesUp
CHECK_DEADLOCK FALSE
