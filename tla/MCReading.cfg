\* Two processes over two row ids and vectors of two widths; four passages of two items
\* in two libraries; the indexes of two libraries under two calls at once
\* and another start, and under three calls in turn and two starts.
CONSTANTS
  None = None
  Procs = {p1, p2}
  Texts = {1, 2}
  MaxPid = 2
  Widths = {1, 2}
  MinCandidates = 1
  SearchesElsewhere = FALSE
  MaxSteps = 4
  MaxFaults = 1
  Libraries = {"user", "group"}
  Limits = {1, 2}
  PoolPerHit = 1
  MaxSearches = 1
  MaxChanges = 1
  Libs = {u, g}
  Default = u
  Callers = {a, b}
  MaxCalls = 3
  MaxStarts = 2
SPECIFICATION Spec
CHECK_DEADLOCK FALSE
INVARIANTS SearchesHonest CommandsHonest
PROPERTY SearchesItsOwn
