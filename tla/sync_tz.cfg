SPECIFICATION Spec
CONSTANTS
  r1 = r1
  r2 = r2
  r3 = r3
  Runs <- TwoRuns
  Keys = {1, 2}
  Overlap = 1
  SafetyGap = 1
  TimeBounded = TRUE
  BatchRows = 1
  MaxRetries = 0
  MaxCommitDelay = 1
  MaxClock = 5
SYMMETRY RunSymmetry
INVARIANT TypeOK
INVARIANT NoRowLeftBehind
INVARIANT WatermarkTrailsClock
 
 
