SPECIFICATION FairSpec
CONSTANTS
  c1 = c1
  MaxStarts = 2
  Calls <- CallSet
  Budgets <- BudgetSet
INVARIANTS NoStrayProcess PromptGoesFirst StatusIsTrue
PROPERTY RequestsEnd
CHECK_DEADLOCK FALSE
