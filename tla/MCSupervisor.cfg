\* Both platforms; the count of restarts goes past the limit of one of the two
\* configs.  A service that has exited stops.
CONSTANTS
  unbounded = unbounded
  limited = limited
  Version <- MCVersion
  MaxRestarts <- MCMaxRestarts
  None = None
  Torn = Torn
  Backoffs = 1
  MaxCount = 3
  MaxWrites = 2
SPECIFICATION FairSpec
INVARIANTS Supervised CleanStop StatusNamesChild BudgetKept
PROPERTIES IdlePicksUp StopEnds
CHECK_DEADLOCK FALSE
