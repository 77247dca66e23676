SPECIFICATION FairSpec
CONSTANTS
  c1 = c1
  c2 = c2
  Child <- Children
  Planned <- Planners
  MaxRuns <- OneRelaunched
  MaxChildren = 1
  MaxInvocations = 2
  MaxParentRuns = 2
  MaxCrashes = 1
INVARIANTS TypeOK ConcurrencyCap BudgetPays Watched
PROPERTIES ChildrenFollow SlotsReturn
CHECK_DEADLOCK FALSE
