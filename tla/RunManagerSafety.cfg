CONSTANTS
  Runs = {r1, r2}
  NoRun = NoRun
  MaxConcurrent = 1
  Timed = {r1}
  MaxLines = 1
  MaxCrashes = 2
  MaxFaults = 1
SPECIFICATION Spec
INVARIANTS PermitsAccounted DurableBeforeVisible JournalTellsStatus CleanClose
