CONSTANTS
  Photos = {"p1", "p2", "p3"}
  Basename <- MCBasename
  Listings <- MCListings
  Answers <- MCAnswers
  Nothing = Nothing
  PhotosToSelect = 3
  MaxSlides = 3
  MaxBegun = 2
  MaxEdits = 1
  MaxManifest = 1
CHECK_DEADLOCK FALSE
SPECIFICATION PhotosSpec
INVARIANTS CatalogPathsHold ShowsItsListing 
