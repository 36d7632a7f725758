\* Times to live of 2, 1 to 2 and 4 steps; the second failure gives up.  Writes, syncs,
\* baselines and reads in every order, one write at a time.
CONSTANTS
  Clients = {c1, c2, c3}
  Ceilings = {1, 2}
  FulltextConcurrency = 2
  SaturatedConcurrency = 1
  Groups = {g}
  PositiveTtl = 2
  NegativeFloor = 1
  NegativeCeiling = 2
  TimeoutTtl = 3
  FailuresBeforeDown = 2
  None = None
  Absent = Absent
  Unknown = Unknown
  Keys = {k1, k2}
  Readers = {r1, r2}
  MaxWrites = 2
  MaxEdits = 1
  EditsUnsynced = FALSE
  SyncOverlaps = FALSE
  ReportsOverlap = FALSE
  RemovesUnsynced = FALSE
  AppStops = TRUE
  ProbesFail = TRUE
SPECIFICATION DesktopFairSpec
INVARIANTS CrawlSound ReadYourWrites
PROPERTIES ImplementsPermits QuietWhileDown TwoStrikes AppNoticed ReadsGoOn
CHECK_DEADLOCK FALSE
