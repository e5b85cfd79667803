\* Two OathNet modules on one OathNet slot and two others share two global
\* slots, under fairness; cancel_all may be called once.
SPECIFICATION FairSpec
CONSTANTS
  o1 = o1
  o2 = o2
  m1 = m1
  m2 = m2
  Modules = {o1, o2, m1, m2}
  OathnetModules = {o1, o2}
  MaxConcurrent = 2
  MaxOathnet = 1
  Foreign = {}
INVARIANTS
  OathnetLeavesRoom
  SlotsBelongToTheLiving
  NeverWaitsInVain
PROPERTIES
  CancelAllLeavesNoTask
  EverybodyIsServed
\* Nobody has to submit, read or cancel.
CHECK_DEADLOCK FALSE
