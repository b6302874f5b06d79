SPECIFICATION Spec
CONSTANTS
  r1 = r1
  r2 = r2
  c = c
  Runs <- MCRuns
  Cols <- MCCols
  Specs <- MCSpecs
  FirstSpec = "day"
  DropRemoved = TRUE
  MaxRows = 1
  MaxEvents = 2
PROPERTY WipeStartsFresh
CHECK_DEADLOCK FALSE
