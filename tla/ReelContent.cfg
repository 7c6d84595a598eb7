CONSTANTS
  None = None
  MaxCueText = 3
  MaxSlideText = 3
  ReelTotal = 7
  Listings <- MCListings
  Agencies <- MCAgencies
  CueInputs <- MCCueInputs
  PhotosInputs <- MCPhotosInputs
  SlideInputs <- MCSlideInputs
  CaptionInputs <- MCCaptionInputs
  MusicInputs <- MCMusicInputs
  DefaultMusic = "rule"
  Others <- MCOthers
  DefaultPageSize = 2
  MaxPageSize = 3
  MaxInspected = 1
  MaxSlides = 3
  MaxJobs = 3
  MaxRequests = 2
  MaxChanges = 1
  MaxTries = 2
CHECK_DEADLOCK FALSE
SPECIFICATION Spec
INVARIANTS ListingCaughtUp VideoShowsTheRow CaptionsAgree PostedOnRecord EditorFindsAndPlays
