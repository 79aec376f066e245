SPECIFICATION FairSpec
CONSTANTS
  t1 = t1
  t2 = t2
  Elsewhere = elsewhere
  Project = project
  None = None
  NoKey = NoKey
  Threads <- ThreadSet
  OldThreads <- Old
  Routes <- Views
  Pasts <- PastSet
  Budgets <- BudgetSet
  MaxQueued = 2
INVARIANTS PendingIsCarriedHere EventsAccountedFor
PROPERTY ShownCatchesUp
CHECK_DEADLOCK FALSE
