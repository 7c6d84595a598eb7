CONSTANTS
  MaxJobs = 3
  MaxRuns = 3
  MaxEdits = 2
  Editable = {"photos", "subtitles"}
  Requests = {"webhook", "approve", "reject", "manual"}
  Gating = {TRUE}
  ReviewWorkflow = FALSE
CHECK_DEADLOCK FALSE
SPECIFICATION Spec
INVARIANTS PublishedWasPosted RestIsFinal RenderedIsCurrent
