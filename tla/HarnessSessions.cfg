SPECIFICATION MCSpec
CONSTANTS
  Harnesses = {"codex", "omp"}
  PageLimit = 2
  MaxRecords = 3
  MaxLogFaults = 1
  Window = 1
  ListLimit = 2
  None = None
  MaxSteps = 3
  Conns = 1
  Tasks = {""}
  PartLimit = 2
  MaxParts = 4
  Lookups = {"l1", "l2"}
  MaxNotes = 1
INVARIANTS IndexExact SameConversation
PROPERTIES Followed PartsFollowed LookupEnds
CHECK_DEADLOCK FALSE
