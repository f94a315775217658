SPECIFICATION FairSpec
CONSTANTS
  j1 = j1
  j2 = j2
  j3 = j3
  p1 = p1
  p2 = p2
  Jobs = {j1, j2}
  Providers = {p1, p2}
  MaxRunning = 1
  MaxJobs = 1
  MaxProcs = 6
  MaxKills = 1
PROPERTIES
  JobsSettle
CHECK_DEADLOCK FALSE
