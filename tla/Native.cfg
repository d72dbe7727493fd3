SPECIFICATION MCFairSpec
CONSTANTS
  Parts = {"ipc", "daemon", "store", "computer"}
  Conns = {c1}
  Callers = {1, 2}
  MaxSeq = 3
  MaxPeer = 2
  Registered = {"host.health", "runtime.events"}
  MaxGens = 2
  MaxRestarts = 2
  BackoffMax = 2
  MaxExits = 2
  RunIDs = {r1, r2}
  ProviderSessions = {p1, "none"}
  SchemaVersion = 1
  DefaultPage = 1
  MaxPage = 2
  MaxEvents = 3
  MaxOps = 2
  MaxFailures = 1
  Reasons = {"sleep", "emergencyStop"}
  HumanReasons = {"emergencyStop"}
  maxFrameAge = 0
  MaxFrames = 4
  MaxQueue = 1
  MaxStops = 1
  MaxControls = 2
  MaxTime = 1
INVARIANTS  ShutdownLeavesNothing  ReaderMissesNothing NoReplay
PROPERTIES CallsReturn ChildDies MigrationKeepsOld
CHECK_DEADLOCK FALSE
