SPECIFICATION Spec
CONSTANTS
  j1 = j1
  j2 = j2
  j3 = j3
  p1 = p1
  p2 = p2
  Jobs = {j1, j2}
  Providers = {p1, p2}
  MaxRunning = 2
  MaxJobs = 2
  MaxProcs = 10
  MaxKills = 0
CONSTRAINT Smooth
SYMMETRY Renaming
INVARIANTS
  FailsClosed
CHECK_DEADLOCK FALSE
