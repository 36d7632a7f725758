\* One process, days of two ticks, of which the events of two days are kept; never more
\* rows than the table may hold, so that only age prunes.
CONSTANTS
  Procs = {p1}
  DayLength = 2
  RetentionDays = 2
  MaxRows = 3
  FlushEvery = 2
  MaxNow = 6
  MaxEvents = 3
  MaxMishaps = 0
SPECIFICATION UsageSpec
CHECK_DEADLOCK FALSE
INVARIANT RollupsKept
