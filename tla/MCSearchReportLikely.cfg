\* A search whose validated platform list has a likely profile: the page shows no
\* card for it.
SPECIFICATION Spec
CONSTANTS
  Connectors = {"c1", "c2", "c3"}
  Statuses = {"pending", "running", "found", "likely", "not_found", "uncertain", "blocked", "error"}
  BatchScores = {40, 100}
  MaxResults = 3
  QueryTypes = {"email", "username", "phone", "discord_id", "domain", "ip"}
  ManualMods <- MCManualMods
  RecordCounts = {0, 2, 51}
  MaxLookups = 1
  PlatformLists <- MCPlatformLists
  PdfNoteAt = 50
  StealerRows = 50
INVARIANTS
  LikelyProfilesAreListed
CHECK_DEADLOCK FALSE
