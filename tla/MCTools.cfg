\* A document of three pages of which a call may OCR two, beside one other call; pages
\* drawn through a pool of two canvases; one command, over two libraries.
CONSTANTS
  None = None
  Reader = r
  Others = {o}
  Lengths = {3}
  Cap = 2
  Enabled = TRUE
  MaxPages = 2
  ImageLimits = {1, 3}
  Masks = 2
  PageSizes = {1, 2}
  PoolPixels = 3
  PoolCount = 2
  Canvases = {1, 2, 3, 4}
  Budget = 3
  MaxDrawings = 2
  Libs = {u, g}
  Default = u
  Callers = {a}
  MaxCalls = 1
  MaxStarts = 0
SPECIFICATION Spec
INVARIANT AnswersHonest
PROPERTY CallsEnd
CHECK_DEADLOCK FALSE
