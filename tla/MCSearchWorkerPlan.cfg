\* One job with two connectors that may agree, disagree or be blocked, under
\* fairness.
SPECIFICATION FairSpec
CONSTANTS
  j1 = j1
  j2 = j2
  c1 = c1
  c2 = c2
  None = None
  Jobs = {j1}
  Connectors = {c1, c2}
  Plan <- TwoPlan
  Answers = {"found", "not_found", "blocked"}
  MaxFaults = 2
  MaxStops = 1
INVARIANTS
  SummaryMatchesLog
PROPERTIES
  QueuedJobSettles
\* Nobody has to post another search.
CHECK_DEADLOCK FALSE
