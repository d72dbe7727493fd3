CONSTANTS
  d1 = d1
  None = None
  Devices = {d1}
  DeviceOf <- OneDevice
  Conns = {k1}
  Calls = {c1, c2}
  MaxInflight = 1
  SendCap = 2
  WireCap = 1
  MaxDisconnects = 1
  Parts = {"loop"}
  Boxes = {"b1"}
  Codes = {"c1", "c2"}
  Handlers = {"g1", "g2"}
  MaxCreds = 2
  MaxAdmin = 2
  MaxBreaks = 1
  Names = {"a", "b"}
  Hosts = {"h1"}
  MaxSaves = 2
  MaxEnds = 1
SPECIFICATION MCFairSpec
CHECK_DEADLOCK FALSE

PROPERTY EditsApply
