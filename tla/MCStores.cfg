\* Three libraries with room for one; two processes and two jobs; two
\* libraries and two models over one path; two processes on a JSON file; two on a
\* usage log that keeps the events of a day.
CONSTANTS
  None = None
  NoOne = NoOne
  MaxFaults = 1
  Libraries = {"user", "g1", "g2"}
  Primary = "user"
  Callers = {c1, c2}
  MaxOpen = 1
  MaxHandles = 3
  RepairsOverlap = FALSE
  Procs = {p1, p2}
  Items = {i1}
  MaxVersion = 2
  MaxJobs = 2
  Embedders = {e1, e2}
  Keys = {k1}
  Texts = {t1, t2}
  Interrupted = FALSE
  MaxDbs = 3
  MaxOpens = 2
  MaxMishaps = 2
  Writers = {h1, h2}
  MaxContent = 2
  MaxQueue = 2
  MaxFiles = 4
  MaxFailures = 1
  DayLength = 2
  RetentionDays = 1
  MaxRows = 2
  FlushEvery = 2
  MaxNow = 3
  MaxEvents = 3
SPECIFICATION StoresSpec
CHECK_DEADLOCK FALSE
INVARIANTS InUseKept JobAlone PathsSafe LastAskedIsWritten
PROPERTY StampKept
