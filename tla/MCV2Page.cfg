CONSTANTS
  Searches <- MCSearches
  Connectors <- MCConnectors
  Plans <- MCPlans
  Unlogged = {0, 4}
SPECIFICATION PageSpec
INVARIANTS
  PageFitsTogether
  ControlsComeBack
PROPERTIES
  NothingMovesBack
  SearchesEndWithTheirLogs
CHECK_DEADLOCK FALSE
