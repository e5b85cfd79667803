\* Two jobs with one connector each: what they share is the purge, the process
\* and the fault budget.
SPECIFICATION Spec
CONSTANTS
  j1 = j1
  j2 = j2
  c1 = c1
  c2 = c2
  None = None
  Jobs = {j1, j2}
  Connectors = {c1, c2}
  Plan <- OnePlan
  Answers = {"found"}
  MaxFaults = 1
  MaxStops = 1
SYMMETRY JobSymmetry
INVARIANTS
  TypeOK
  GapFreeLog
  JobDoneIsTrue
  NoOrphanEvent
PROPERTIES
  TerminalIsFinal
  ImplementsLifecycle
\* Nobody has to post another search.
CHECK_DEADLOCK FALSE
