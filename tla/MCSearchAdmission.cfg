\* Three searches, the purge task, three slots of which two in REDUCED mode,
\* under fairness.
SPECIFICATION AdmissionFairSpec
CONSTANTS
  s1 = s1
  s2 = s2
  s3 = s3
  purge = purge
  Modules = {s1, s2, s3}
  OathnetModules = {}
  Foreign = {purge}
  MaxConcurrent = 3
  MaxOathnet = 1
  CeilingReduced = 2
  MemorySamples = {74, 75, 80, 85}
PROPERTIES
  DegradedRegistryStaysBelowCeiling
  AdmissionRecovers
\* The process may stop.
CHECK_DEADLOCK FALSE
