SPECIFICATION ServicesSpec
CONSTANTS
  Accounts = {"x"}
  Configs = {"c", "d"}
  WatchLimit = 1
  QueueCap = 2
  MaxGen = 2
  MaxSeq = 2
  MaxMail = 2
  MaxRev = 2
  QAccounts = {"a", "b"}
  Windows = {"w", "v"}
  Keys = {"k", "l"}
  Owners = {"a"}
  MaxAccounts = 1
  MaxPages = 1
  MaxChanges = 2
  FAccounts = {"a", "b"}
  CacheIds = {"i", "j"}
  Sizes = {1, 2, 3}
  DiskLimit = 4
  DiskEntries = 2
  MaxBody = 2
  DirEntries = 1
  RenderLimit = 4
  RenderPerAccount = 1
  RenderEntries = 2
  MaxClock = 3
  MaxFrames = 3
  MaxNotices = 1
  FrameQueue = 1
  ResponseQueue = 1
  MaxInFlight = 2
  PeerMayGo = TRUE
  UploadIds = {1, 2, 3}
  MaxUpload = 2
  UploadSlots = 2
  Permits = 1
  Consumers = {1, 2}
  JobIds = {"i", "j", "k"}
  MaxActive = 1
  MaxKept = 2
  Upgrades = FALSE
  Reads = {"r", "s", "t"}
  ReadKeys = {"x", "y"}
  MaxReads = 2
  MaxTombs = 1
  StreamHistory = 1
  MaxEntries = 4
  MaxAnswer = 2
  MaxTools = 2
  Sessions = {"s", "t"}
  MaxRows = 3
  ViewMessages = {"m", "n"}
  ViewAccounts = {"a"}
  Conversation = "a"
  OtherMembers = {"m"}
  SingleRows = {"b"}
  MailboxKey = "inbox"
  IntentActions = {"markRead", "markUnread", "archive"}
  MaxEdits = 2
  MaxIntents = 2
  Opens = {"o1", "o2"}
  ReaderMails <- SmallMails
  StoreCap = 2
  StoreShare = 1
  StoreBytes = 3
  JobCap = 2
  TombCap = 1
  MaxRenders = 1
  RegWriters = {"p", "q"}
  RegIds = {"a", "b"}
  MaxSaves = 2
  UnifiedMail <- ThreeAccounts
  MailTime <- ThreeTimes
  ThreadIds = {"m1", "m2", "m3"}
  Remembered = 2
  MaxMerges = 2
  ImapRequests = {1, 2, 3}
  MaxWires = 2
  PoolCap = 2
  CacheCap = 1
  ServerGarbles = FALSE
  CancelReads = {"r1", "r2", "r3"}
  CancelCap = 4
  ReadDeadline = 2
  KeepFor = 6
  QueuedFor = 1
  MaxNow = 8
  Window = 2
  PageLimit = 3
  BatchSize = 2
  FirstUids = {1, 2, 3, 4, 5}
  Matching = {1, 2, 3, 5, 6}
  MaxUid = 6
  MaxExpunged = 1
  ChMail = {"m", "n"}
  ChBoxes = {"INBOX", "Archive"}
  MaxImapChanges = 2
  MaxUidNext = 7
  MaxUpRuns = 2
  MaxUpKills = 1
  MaxLeaves = 3
  MaxTroubles = 2
  MaxInstalls = 2
  MaxInstallKills = 1
  MaxInstallTroubles = 1
  MaxSignals = 2
INVARIANTS
  LoopsOwned
  NoLostChange
  StoresBounded
  RequestsWhole
  AssistantKept
  HelpersHold
  InstallHolds
  RowsAreTrue
  ImapConnected
  ImapTrue
PROPERTIES
  NothingLate
  StoresKeep
  AgentHistory
  RowsForward
CHECK_DEADLOCK FALSE
