\* Liveness, so no symmetry.
CONSTANTS
  desktop = desktop
  cloud = cloud
  None = None
  Items = {a, b}
  Backends = {desktop, cloud}
  Versioned = {desktop, cloud}
  Offset <- MCOffset
  PageSize = 1
  VersionsPageSize = 1
  MaxItems = 2
  RemovesDuringJobs = FALSE
  PausesDuringJobs = FALSE
  ResumesElsewhere = FALSE
  MaxClock = 4
  MaxFaults = 1
SPECIFICATION FairSpec
PROPERTY CatchesUp
CHECK_DEADLOCK FALSE
