SPECIFICATION FairSpec
CONSTANTS
  Ids <- SparseIds
  NoIds = {noid}
  Times <- TwoDays
  DayHours = 2
  Zone = 1
  NullDay = nullday
  AnyDay = anyday
  Target = 2
  MaxTuples = 8
INVARIANT TypeOK
INVARIANT ExactlyOneChunk
INVARIANT DistinctIds
INVARIANT OneDayPerChunk
INVARIANT ChunksBounded
PROPERTY PlannerReturns
CHECK_DEADLOCK FALSE
