CONSTANTS
  Tabs = {tab1, tab2}
  CaseCap = 2
  MaxResults = 1
  MaxSaves = 2
  MaxPending = 1
  Connectors = {con1, con2}
  Reports <- MCReports
  MaxListings = 3
  Browsers = {b1, b2}
  OneBrowser = b1
  ClockTime = 3
  Others = {"ana"}
  MaxUsers = 2
  TokenLife = 1
  PurgeGrace = 1
  MaxTokens = 2
  MaxTime = 6
  MaxChecks = 2
  MaxFaults = 1
  LogsLimit = 2
  ChartLimit = 5
  ChartDays = 2
  Searchers = {"u1", "u2"}
  OldLogs <- MCOldLogs
  Today = 2
  MaxLogs = 5
  MaxAsks = 5
  MaxCalls = 4
  Accounts = {"ana", "bob"}
  MaxAccounts = 2
  CATEGORIES <- MCCategories
  FirstCat = "leaks"
  DefaultMods = {"breach", "stealer"}
  Steps = {"email", "breaches", "profiles"}
  MaxScans = 2
  RailSize = 1
  CasesKept = 2
  MaxChanges = 4
  Requests = {1, 2, 3}
  Sources = {con1}
  Targets <- MCTargets
  MinInterval = 2
  Timeout = 1
  CacheTTL = 2
  MaxClock = 4
  Checks = {c1, c2, c3}
  DailyBudget = 3
  MaxBytes = 2
  MaxDay = 2
SYMMETRY TabSymmetry
SPECIFICATION ConsoleSpec
INVARIANTS
  SessionsLastUntilEnded
  UsersAreKept
  AdminMissesNothing
  FormFollowsTheSearch
  ConcurrentCallsAreSound
  BudgetIsTheDays
PROPERTIES
  CasesAreSafe
  ListsFollowTheBook
  DrawerReturns
CHECK_DEADLOCK FALSE
