CONSTANTS
  a = a
  b = b
  v = v
  w = w
  Threads = {a, b}
  Home <- InTwoProcesses
  Processes = {v, w}
  Properties = {p}
  NoProperty = none
  Origins = {"webhook", "email"}
  ApiProcesses = 2
  MaxJobs = 2
  MaxAttempts = 2
  MaxFaults = 2
CHECK_DEADLOCK FALSE
SPECIFICATION Spec
INVARIANT TicketsIdentifyHolders
