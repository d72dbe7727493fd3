SPECIFICATION OpenCodeSpec
CONSTANTS
  Conns = 1
  Tasks = {"task"}
  PartLimit = 2
  MaxParts = 1
  Window = 1
  ListLimit = 2
PROPERTIES DiscoverReturns
CHECK_DEADLOCK FALSE
