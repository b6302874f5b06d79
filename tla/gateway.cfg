SPECIFICATION FairSpec
CONSTANTS
  j1 = j1
  j2 = j2
  q1 = q1
  q2 = q2
  t1 = t1
  Refresher = refresher
  Wiper = wiper
  Size = 2
  Jobs <- OneJob
  Requests <- OneRequest
  Admins <- OneRequest
  Tables <- OneTable
  Workers = 1
  MaxVersion = 2
INVARIANT TypeOK
INVARIANT PoolConserved
INVARIANT NoLostWakeup
PROPERTY QuietSweepReachesAll
PROPERTY QuerySeesOneState
PROPERTY KeepsViewPool
PROPERTY JobsEnd
