CONSTANTS
  Runs = {r1}
  NoRun = NoRun
  MaxConcurrent = 1
  Timed = {}
  MaxLines = 0
  MaxCrashes = 1
  MaxFaults = 0
SPECIFICATION Spec
INVARIANTS OneTerminalEvent
