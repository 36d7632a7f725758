SPECIFICATION Spec
CONSTANTS
  Libraries = {"user"}
  Primary = "user"
  Callers = {c1, c2}
  MaxOpen = 1
  MaxHandles = 3
  MaxFaults = 1
  RepairsOverlap = TRUE
  None = None
CHECK_DEADLOCK FALSE
INVARIANT
  BuildKeepsItsFile
