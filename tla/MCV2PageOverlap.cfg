CONSTANTS
  Searches <- MCSearches
  Connectors <- MCConnectors
  Plans <- MCPlans
  Unlogged = {0, 1, 4}
SPECIFICATION PageSpec
INVARIANT
  DoneSearchShowsEveryResult
CHECK_DEADLOCK FALSE
