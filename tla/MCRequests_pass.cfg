SPECIFICATION Spec
CONSTANTS
  Public = "public"
  NoticeKeys <- MCNoticeKeys
  Procs = {"p", "q"}
  NoticeScenes <- MCScenes
  ExpireAfter = 1
  Repeats = {0, 1}
  MaxNotices = 1
  MaxClock = 3
  None = "none"
  Names = {"bob", "user-1", "user-2"}
  RootUids = {"u0"}
  Certs = {"c1", "c2"}
  SelfSigned = {"c1", "c2"}
  Clients = {"c", "d"}
  RequestInputs <- MCRequestInputs
  Payloads <- MCPayloads
  Timeouts = {1}
  MaxNow = 2
  MaxSuffix = 1
  UserName <- MCUserNames
  SortedNames <- MCSortedNames
  Candidates <- MCCandidates
  Iterations <- MCIterations
  ServiceRequests <- MCServiceRequests
  Situations <- MCSituations
CHECK_DEADLOCK FALSE
INVARIANTS
  NoticesSound
  NobodyOversleeps
  PairingSound
  OrdersRight
  
