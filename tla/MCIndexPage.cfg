CONSTANTS
  Searches <- MCSearches
  Chunks = 3
  ApiPage = 2
  HistoryCap = 1
  MaxLoads = 2
  Toggled = {1}
  Results <- MCResults
  Files = {file1, file2}
  VictimPages = 3
  MaxAsked = 2
  MaxManifests = 1
  Opened = {2}
SPECIFICATION IndexSpec
INVARIANTS
  PageIsOfOneSearch
  ButtonsComeBack
  VictimsAreShown
PROPERTIES
  DoneSearchIsDrawn
CHECK_DEADLOCK FALSE
