SPECIFICATION FairSpec
CONSTANTS
  p1 = p1
  s1 = s1
  k1 = k1
  k2 = k2
  Keys <- TwoKeys
  Passes <- OnePass
  Syncs <- OneSync
  DeleteBatch = 1
  InsertBatch = 1
  MaxVersion = 2
INVARIANT QuietPassAgrees
INVARIANT ReconcileInv
PROPERTY DeletesOnlyGone
PROPERTY EventuallyAgrees
