SPECIFICATION MCSpec
CONSTANTS
  Callers = {p1, p2}
  Deciders = {d1}
  Commands <- MCCommands
  Clients <- MCClients
  FileRules <- MCFileRules
  EnvRules <- MCEnvRules
  Overlap = FALSE
  MaxDecisions = 2
  MaxEvents = 3
  Workers = {w1, w2}
  Files = {"a", "b"}
  Contents = {1, 2, 3}
  Patches <- MCPatches
  Kept = 2
  Start <- MCStart
  MaxCalls = 4
  MaxFaults = 1
  AuthHandlers = {a1, a2}
  Users = {"alice"}
  CimdClients = {"https:codex"}
  AuthRequests <- MCAuthRequests
  LiveDocs <- MCLiveDocs
  RegisteredURIs <- MCRegisteredURIs
  ClientIDs <- MCClientIDs
  Resource = "public"
  MaxCodes = 1
  MaxTokens = 3
  MaxClients = 1
  MaxLogins = 1
  MaxAuthFaults = 1
  Requests = {r1, r2}
  MaxMCPInflight = 2
  Bearer <- MCBearer
  JWK <- MCJWK
  Issuer = "public"
  Audience = "public"
  AllowedSubjects = {}
  Scope = "read"
  AccountMap <- MCAccountMap
  DefaultAccount = "default"
  Fleet <- MCFleet
  Policies <- MCPolicies
  Builtin = {"read", "patch"}
  piCoreTools = {"read"}
  Targets = {"d1"}
  Tools = {"patch", "wrap"}
  CacheTTL = 2
  Quiet = 1
  FetchTimeout = 1
  MaxFetchFails = 1
  MaxRegistrations = 2
  MaxRotations = 2
  ToolCalls = {c1, c2}
  Recorded <- MCRecorded
  Errs <- MCErrs
  Filters <- MCFilters
  callsLimit = 2
  DefaultLimit = 1
  MaxLimit = 2
  Retain = 3
  MaxClock = 5
  MaxAsks = 2
  MaxApplies = 1
  MaxStarts = 1
  MaxHistoryFaults = 1
  Parts = {"patch"}
INVARIANT AllOrNothing
SYMMETRY MCSymmetry
CHECK_DEADLOCK FALSE
