\* Batches of up to three results of three connectors, every check, and searches
\* of five types; the lengths lie below and above the limit of 50 rows.
SPECIFICATION Spec
CONSTANTS
  Connectors = {"c1", "c2", "c3"}
  Statuses = {"pending", "running", "found", "likely", "not_found", "uncertain", "blocked", "error"}
  BatchScores = {40, 100}
  MaxResults = 3
  QueryTypes = {"email", "username", "phone", "discord_id", "domain", "ip"}
  ManualMods <- MCManualMods
  RecordCounts = {0, 2, 51}
  MaxLookups = 1
  PlatformLists <- MCPlatformLists
  PdfNoteAt = 50
  StealerRows = 50
INVARIANTS
  ReadersAgree
  DoubtIsNeverConfirmed
  SavedCaseIsHonest
  SearchIsReported
  QuorumIsSound
\* A batch is full, a report is drawn.
CHECK_DEADLOCK FALSE
