CONSTANTS
  VideoForms <- MCVideoForms
  MusicForms <- MCMusicForms
  Cleaned <- MCCleaned
  Tracks = {"t1", "t2"}
  Seeded <- MCSeeded
  SeedSong <- Seed
  None = None
  MaxRequests = 3
  MaxJobs = 1
CHECK_DEADLOCK FALSE
SPECIFICATION Spec
INVARIANTS RowsAndFilesAgree TrackPlaysItsUpload
PROPERTY FailureHasACause
