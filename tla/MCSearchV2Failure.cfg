\* One job and its page, one connector, under fairness: what the page learns of a failed job.
SPECIFICATION FairSystemSpec
CONSTANTS
  j1 = j1
  c1 = c1
  c2 = c2
  None = None
  Jobs = {j1}
  Connectors = {c1, c2}
  Plan <- OnePlan
  Answers = {"found"}
  MaxFaults = 1
  MaxStops = 0
PROPERTIES
  FailureReachesClient
\* Nobody has to post another search.
CHECK_DEADLOCK FALSE
