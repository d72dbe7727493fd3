CONSTANTS
  d1 = d1
  None = None
  Devices = {d1}
  DeviceOf <- OneDevice
  Conns = {k1, k2}
  Calls = {c1}
  MaxInflight = 1
  SendCap = 1
  WireCap = 1
  MaxDisconnects = 0
  Parts = {"registry", "identity"}
  Boxes = {"b1", "b2"}
  Codes = {"c1", "c2"}
  Handlers = {g1, g2}
  MaxCreds = 2
  MaxAdmin = 3
  MaxBreaks = 1
  Names = {"a"}
  Hosts = {"h1"}
  MaxSaves = 1
  MaxEnds = 2
SPECIFICATION MCSpec
CHECK_DEADLOCK FALSE
SYMMETRY Symmetry
INVARIANTS RegistryServesLive OneEnrolmentPerCode
