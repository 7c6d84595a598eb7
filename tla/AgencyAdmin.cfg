CONSTANTS
  AgencyIds = {"a1", "a2", "a3"}
  Founders <- MCFounders
  Names = {"Acme", "Bond"}
  Slugs = {"acme", "bond", "other"}
  SlugOf <- MCSlugOf
  SourceIds = {i1, i2}
  Sites = {"site"}
  Keys = {"k1", "k2"}
  EnvKey <- MCEnvKey
  Locations = {"l"}
  Processes = {"p1", "p2"}
  None = None
  Omitted = Omitted
  MaxRequests = 3
  MaxDeliveries = 1
SYMMETRY MCSymmetry
CHECK_DEADLOCK FALSE
SPECIFICATION AdminSpec
INVARIANTS JobsBelongToTheirSite AcceptedWasSigned
PROPERTIES TenantIsolation
