SPECIFICATION LiveSpec
CONSTANTS
  Accounts = {"a1"}
  Configs = {"c1", "c2"}
  WatchLimit = 1
  QueueCap = 2
  MaxGen = 2
  MaxSeq = 2
  MaxMail = 1
  MaxRev = 2
  MaxFrames = 3
  MaxNotices = 1
  FrameQueue = 1
  ResponseQueue = 1
  MaxInFlight = 2
  PeerMayGo = TRUE
  JobIds = {"i", "j"}
  MaxActive = 1
  MaxKept = 2
  Upgrades = TRUE
  GmailReaders = {}
  MaxSessions = 1
  MaxGrants = 2
  MaxTickets = 2
  MaxPending = 1
  MaxWaits = 1
  MaxRevoked = 1
  Jobs = {"j1"}
  Providers = {"p1", "p2"}
  MaxRunning = 1
  MaxJobs = 2
  MaxProcs = 5
  MaxKills = 1
  Sends = {"s1", "s2"}
  Bodies = {"b1"}
  Delays = {TRUE}
  MaxRecoverable = 2
  MaxCalls = 3
  MaxRestarts = 0
  StorageFaults = FALSE
PROPERTIES
  OutboxDrains
  CallsReturn
  EveryJobSettles
  TicketsSettle
CHECK_DEADLOCK FALSE
