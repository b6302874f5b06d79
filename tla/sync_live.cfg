SPECIFICATION FairSpec
CONSTANTS
  r1 = r1
  r2 = r2
  r3 = r3
  Runs <- TwoRuns
  Keys = {1}
  Overlap = 1
  SafetyGap = 1
  TimeBounded = TRUE
  BatchRows = 1
  MaxRetries = 1
  MaxCommitDelay = 1
  MaxClock = 4
PROPERTY EventuallyReplicated
