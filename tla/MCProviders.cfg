SPECIFICATION ProvidersSpec
CONSTANTS
  GmailReaders = {"r1"}
  MaxSessions = 1
  MaxGrants = 3
  MaxTickets = 2
  MaxPending = 1
  MaxWaits = 1
  MaxRevoked = 1
  Rate = 2
  Burst = 3
  Costs = {1, 3, 5}
  MaxWait = 1
  MaxClock = 4
  MaxCalls = 4
  Deadline = 8
  Retries = 3
  Cursors = {"p", "q"}
  DraftIds = {"d"}
  MaxPages = 4
  ActRows <- ActionRows
  ActChunk = 2
  MaxTargets = 3
  MaxActs = 1
  Procs = {"ui", "cli"}
  SendIds = {"s"}
  MaxStamp = 3
  MaxEditsOf = 1
  MaxTries = 1
  JmapIds = {"m1", "m2"}
  JmapThread <- OneThread
  SetChunk = 1
  MaxLists = 2
  MaxChanges = 1
  MaxForeign = 1
  MaxComposes = 3
  PageSize = 2
  Arrivals = 2
  Removals = 2
  ChannelCap = 2
  MaxStates = 4
  MaxLosses = 2
  JmapCalls = {"c1", "c2"}
  CallLimit = 2
  MaxPasswords = 2
  MaxJmapSessions = 2
  MaxContexts = 2
  Origins = {"o1", "o2"}
  JdSecrets = {"s1", "s2"}
  JdRequests = {"q1", "q2"}
  MaxDocuments = 2
  SiCalls = {"c1", "c2"}
  Resources = {"mail"}
  MaxSigns = 2
  MaxTurns = 1
  Flows = {1, 2, 3}
  FlowPorts = {"p"}
  FlowLimit = 2
  Mailboxes = {"a", "b"}
  HeyCalls = {"c1", "c2"}
  HeyNames = {"u", "v"}
  HeyFlags = {"--html", "--allow-partial"}
  HeyRows <- HeyBox
  ToolPage = 2
  UnseenCap = 4
  HeySizes = {1, 2, 3}
  MaxReplaced = 1
  Programs <- SmallPrograms
  PipeCap = 1
  Inputs = {0, 2, 3}
  OutLimit = 3
  ErrLimit = 2
INVARIANTS
  GmailOrdered
  MailReported
  SendOnce
  JmapTrue
PROPERTIES
  SessionsOver
CHECK_DEADLOCK FALSE
