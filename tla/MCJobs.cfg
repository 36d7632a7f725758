\* Builds and updates of a library of three items through stops, failures, crashes; the
\* passages of two items through two jobs.
CONSTANTS
  desktop = desktop
  cloud = cloud
  None = None
  Items = {a, b, c}
  Backends = {cloud}
  Versioned = {cloud}
  Offset <- MCOffset
  PageSize = 2
  VersionsPageSize = 2
  MaxItems = 3
  RemovesDuringJobs = FALSE
  PausesDuringJobs = FALSE
  ResumesElsewhere = TRUE
  MaxClock = 4
  MaxFaults = 2
  Entries = {i1, i2}
  BatchSize = 2
  Wordless = {i2}
  Bodiless = {i1}
  Salvaged = {i2}
  Relisted = {i2}
  MaxText = 2
  MaxJobs = 2
SYMMETRY Symmetry
SPECIFICATION JobsSpec
INVARIANTS TypeOK StampHonest CheckpointHonest BuildCovers StampsOnlyEmbedded RowsHonest
PROPERTIES StampMovesLast MissesOnlyRecounted
CHECK_DEADLOCK FALSE
