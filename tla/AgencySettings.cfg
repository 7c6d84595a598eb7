SPECIFICATION Spec
CONSTANTS
  DayLength = 3
  Platforms <- MCPlatforms
  AllPlatforms <- MCAllPlatforms
  Catalog <- MCCatalog
  LogoForms <- MCLogoForms
  Tracks = {song}
  BrandBodies <- MCBrandBodies
  DefaultsBodies <- MCDefaultsBodies
  AutomationBodies <- MCAutomationBodies
  TemplateBodies <- MCTemplateBodies
  ProfileBodies <- MCProfileBodies
  Starts <- MCStarts
  Delays = {1, 3}
  MaxSaves = 2
  Horizon = 6
INVARIANTS LooksAsShown PostsWhenAllowed
PROPERTY SavesChangeWhatTheyName
CHECK_DEADLOCK FALSE
