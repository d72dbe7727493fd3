CONSTANTS
  Runs = {r1, r2}
  NoRun = NoRun
  MaxConcurrent = 1
  Timed = {r1, r2}
  MaxLines = 0
  MaxCrashes = 1
  MaxFaults = 0
SPECIFICATION FairSpec
PROPERTIES RefinesLifecycle CancelLands CloseReturns EveryRunSettles
