\* One job and its page, two faults and a stop, under fairness.
SPECIFICATION FairSystemSpec
CONSTANTS
  j1 = j1
  c1 = c1
  c2 = c2
  None = None
  Jobs = {j1}
  Connectors = {c1, c2}
  Plan <- OnePlan
  Answers = {"found"}
  MaxFaults = 2
  MaxStops = 1
INVARIANTS
  PageIsInStep
PROPERTIES
  HandledInOrder
  JobDoneReachesClient
\* Nobody has to post another search.
CHECK_DEADLOCK FALSE
