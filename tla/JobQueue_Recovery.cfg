CONSTANTS
  a = a
  b = b
  v = v
  w = w
  Threads = {a, b}
  Home <- InOneProcess
  Processes = {w}
  Properties = {p}
  NoProperty = none
  Origins = {"webhook", "edit", "manual", "scripted"}
  ApiProcesses = 1
  MaxJobs = 2
  MaxAttempts = 2
  MaxFaults = 1
CHECK_DEADLOCK FALSE
SPECIFICATION RestartingSpec
INVARIANTS HandledInTurn SupersededByNewer
PROPERTIES RecoveredJobsSettle ManualNeverStacks
