CONSTANTS
  Properties = {q}
  Recipients = {r1}
  Processes = {v, w}
  MaxEvents = 2
  MaxJobs = 2
  MaxFaults = 2
CHECK_DEADLOCK FALSE
SPECIFICATION FairSpec
INVARIANTS DispatchedOnce SentMeansMailed CompletedIsRecorded RepeatedOnlyByRecovery
PROPERTY RequestsAreTaken
