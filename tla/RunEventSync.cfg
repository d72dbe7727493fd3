CONSTANTS
  Runs = {r1}
  MaxSeq = 4
  LiveCap = 1
  NetCap = 2
  PendingCap = 1
  MaxHeads = 1
  MaxBreaks = 1
  MaxClientRestarts = 1
  MaxManagerRestarts = 1
  MaxFaults = 1
  Tables <- MCTables
  CallClients = {"", "omp", "codex", "vim"}
  CallAgents = {"", "fast", "deep"}
  CallEfforts = {"", "off", "odd"}
  CallTimeouts = {0, 1}
  MaxReloads = 1
  ChannelCap = 2
  BufferMax = 5
  TailMax = 4
  MaxWrites = 4
  Helpers = FALSE
  RingCap = 2
  MaxLines = 4
  MaxServed = 2
  Requests = {"r1"}
  MaxMCPInflight = 2
  Bearer <- MCBearer
  JWK <- MCJWK
  Issuer = "public"
  Audience = "public"
  AllowedSubjects = {}
  Scope = "read"
  AccountMap <- MCAccountMap
  DefaultAccount = "default"
  Fleet <- MCFleet
  Policies <- MCPolicies
  Builtin = {"read", "patch"}
  piCoreTools = {"read"}
  Targets = {"d1"}
  Tools = {"read"}
  CacheTTL = 2
  Quiet = 1
  FetchTimeout = 1
  MaxFetchFails = 1
  MaxRegistrations = 1
  MaxRotations = 2
  Parts = {"sync", "subagent", "progress", "keys"}
SPECIFICATION MCFairSpec
CHECK_DEADLOCK FALSE
INVARIANTS NothingForgotten EventsComplete LastLineShown
PROPERTIES SyncConverges 
