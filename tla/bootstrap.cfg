SPECIFICATION FairSpec
CONSTANTS
  b1 = b1
  b2 = b2
  Runs <- OneRun
  Keys = {1, 2}
  ChunkIds = {0, 1}
  ChunkSteps = {1, 2}
  MaxRetries = 1
  MaxAttempts = 2
  Overlap = 1
  OneAtATime = FALSE
  RefusesListed = FALSE
  MaxTxn = 3
INVARIANT TypeOK
INVARIANT DoneMeansCommitted
INVARIANT ListedOncePerTry
INVARIANT FinishedIsComplete
PROPERTY DoneIsFinal
PROPERTY LoadsChunks
PROPERTY RunsEnd
CHECK_DEADLOCK FALSE
