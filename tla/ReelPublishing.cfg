CONSTANTS
  Names <- MCNames
  Platforms <- MCPlatforms
  Canonical <- MCCanonical
  Configured <- MCConfigured
  OnPoster = {"google"}
  Verified = {"youtube"}
  Requests <- MCRequests
  RetryAttempts = 2
  PollAttempts = 2
  MaxAttempts = 2
  MaxCrashes = 1
CHECK_DEADLOCK FALSE
SPECIFICATION Spec
INVARIANTS RecordsAreTrue RepeatsHaveACause
PROPERTIES JobSettles
