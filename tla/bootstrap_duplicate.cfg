SPECIFICATION Spec
CONSTANTS
  b1 = b1
  b2 = b2
  Runs <- TwoRuns
  Keys = {1, 2}
  ChunkIds = {0, 1}
  ChunkSteps = {1}
  MaxRetries = 0
  MaxAttempts = 2
  Overlap = 1
  OneAtATime = TRUE
  RefusesListed = FALSE
  MaxTxn = 1
PROPERTY RerunSkipsDone
CHECK_DEADLOCK FALSE
