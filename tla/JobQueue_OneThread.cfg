CONSTANTS
  a = a
  b = b
  v = v
  w = w
  Threads = {a}
  Home <- InOneProcess
  Processes = {w}
  Properties = {p}
  NoProperty = none
  Origins = {"webhook", "approve"}
  ApiProcesses = 2
  MaxJobs = 3
  MaxAttempts = 2
  MaxFaults = 1
CHECK_DEADLOCK FALSE
SPECIFICATION Spec
INVARIANTS PropertySerialized EventClosesWithJob ApproveNeverStacks SupersedeKeepsOne
PROPERTY ImplementsPropertyQueue
