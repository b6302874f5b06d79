SPECIFICATION FairSpec
CONSTANTS
  r1 = r1
  r2 = r2
  c = c
  Runs <- MCRuns
  Cols <- MCCols
  Specs <- MCSpecs
  FirstSpec = "day"
  DropRemoved = TRUE
  MaxRows = 1
  MaxEvents = 2
INVARIANT LifecycleInv
INVARIANT NeverSkipped
INVARIANT QuietlyCovered
PROPERTY EventuallyEvolved
CHECK_DEADLOCK FALSE
