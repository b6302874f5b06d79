----------------------- MODULE IncrementalSyncProofs -----------------------
(***************************************************************************)
(* Theorems about IncrementalSync for every number of runs, every set of   *)
(* keys and every value of the settings that ConstantsAssumption and       *)
(* SlackAssumption allow.                                                  *)
(***************************************************************************)
EXTENDS IncrementalSync, TLAPS

-----------------------------------------------------------------------------
(* Type correctness.                                                       *)

\* An op that raises keeps its retry count and local state in their types,
\* and leaves the run about to reload or over (orchestration/incremental_job.py:
\* RetryPolicy).
LEMMA RaiseType ==
  ASSUME TypeOK, NEW r \in Runs, Raise(r)
  PROVE  /\ pc' \in [Runs -> Steps] /\ tries' \in [Runs -> 0..MaxRetries]
         /\ fresh' \in [Runs -> BOOLEAN] /\ now' \in [Runs -> Nat]
         /\ wmRead' \in [Runs -> Watermark] /\ newWm' \in [Runs -> Watermark]
         /\ rows' \in [Runs -> [Keys -> Nat]]
<1>1. Epoch \in Watermark /\ NoRows \in [Keys -> Nat]
  BY DEF Epoch, Watermark, NoRows
<1>2. fresh' \in [Runs -> BOOLEAN] /\ now' \in [Runs -> Nat]
      /\ wmRead' \in [Runs -> Watermark] /\ newWm' \in [Runs -> Watermark]
      /\ rows' \in [Runs -> [Keys -> Nat]]
  BY <1>1 DEF Raise, Forget, TypeOK
<1>3. pc' \in [Runs -> Steps]
  BY DEF Raise, GoTo, TypeOK, Steps
<1>4. tries' \in [Runs -> 0..MaxRetries]
  <2>1. tries \in [Runs -> 0..MaxRetries] /\ MaxRetries \in Nat
    BY ConstantsAssumption DEF TypeOK, ConstantsAssumption
  <2>2. tries[r] \in 0..MaxRetries /\ 0 \in 0..MaxRetries
    BY <2>1
  <2>3. CASE tries[r] < MaxRetries
    <3>1. tries[r] + 1 \in 0..MaxRetries
      BY <2>1, <2>2, <2>3
    <3> QED BY <2>1, <2>3, <3>1 DEF Raise
  <2>4. CASE ~(tries[r] < MaxRetries)
    BY <2>1, <2>2, <2>4 DEF Raise
  <2> QED BY <2>3, <2>4
<1> QED BY <1>2, <1>3, <1>4

\* The new watermark of a window is one: its running maximum starts from a
\* watermark and moves to rows, and an empty window's is its upper bound
\* (extract/incremental.py: the end of run_incremental).
LEMMA CopyWindowType ==
  ASSUME TypeOK, NEW r \in Runs, CopyWindow(r)
  PROVE  /\ pc' \in [Runs -> Steps] /\ newWm' \in [Runs -> Watermark]
         /\ rows' \in [Runs -> [Keys -> Nat]]
<1>1. rows' \in [Runs -> [Keys -> Nat]]
  BY DEF CopyWindow, TypeOK
<1>2. pc' \in [Runs -> Steps]
  BY DEF CopyWindow, GoTo, TypeOK, Steps
<1>3. newWm' \in [Runs -> Watermark]
  <2>1. [val |-> Hi(r), id |-> wmRead[r].id] \in Watermark
    BY ConstantsAssumption DEF ConstantsAssumption, TypeOK, Watermark, Hi
  <2>2. Candidates(r) \subseteq Watermark
    BY ConstantsAssumption
       DEF ConstantsAssumption, TypeOK, Watermark, Candidates, Window, Present
  <2> QED BY <2>1, <2>2 DEF CopyWindow, TypeOK
<1> QED BY <1>1, <1>2, <1>3

\* Every step of Next keeps the types.
LEMMA TypeStep == TypeOK /\ [Next]_vars => TypeOK'
<1> SUFFICES ASSUME TypeOK, [Next]_vars PROVE TypeOK'
  OBVIOUS
<1> USE ConstantsAssumption DEF ConstantsAssumption
<1>1. CASE Tick
  BY <1>1 DEF Tick, TypeOK, runVars
<1>2. ASSUME NEW k \in Keys, SourceWrite(k) \/ SourceCommit(k) \/ SourceAbort(k)
      PROVE  TypeOK'
  BY <1>2 DEF SourceWrite, SourceCommit, SourceAbort, TypeOK, runVars
<1>3. ASSUME NEW r \in Runs, StartRun(r) \/ LoadTable(r) \/ StampNow(r) \/ OpenStaged(r)
      PROVE  TypeOK'
  <2>1. CASE StartRun(r)
    BY <2>1 DEF StartRun, GoTo, Steps, TypeOK, sourceVars
  <2>2. CASE LoadTable(r)
    BY <2>2 DEF LoadTable, GoTo, Steps, TypeOK, sourceVars
  <2>3. CASE StampNow(r)
    BY <2>3 DEF StampNow, GoTo, Steps, TypeOK, sourceVars
  <2>4. CASE OpenStaged(r)
    BY <2>4 DEF OpenStaged, GoTo, Steps, TypeOK, sourceVars
  <2> QED BY <1>3, <2>1, <2>2, <2>3, <2>4
<1>4. ASSUME NEW r \in Runs, GetWatermark(r) PROVE TypeOK'
  BY <1>4 DEF GetWatermark, GoTo, Steps, TypeOK, sourceVars
<1>5. ASSUME NEW r \in Runs, CopyWindow(r) PROVE TypeOK'
  BY <1>5, CopyWindowType DEF CopyWindow, TypeOK, sourceVars
<1>6. ASSUME NEW r \in Runs, Upload(r) PROVE TypeOK'
  <2>1. Epoch \in Watermark
    BY DEF Epoch, Watermark
  <2> QED BY <1>6, <2>1 DEF Upload, GoTo, Steps, TypeOK, sourceVars
<1>7. ASSUME NEW r \in Runs, MergeBatch(r) PROVE TypeOK'
  <2>1. lake' \in [Keys -> Nat] /\ rows' \in [Runs -> [Keys -> Nat]]
    BY <1>7 DEF MergeBatch, TypeOK
  <2>2. pc' \in [Runs -> Steps] /\ fresh' \in [Runs -> BOOLEAN]
    BY <1>7 DEF MergeBatch, GoTo, Steps, TypeOK
  <2> QED BY <1>7, <2>1, <2>2 DEF MergeBatch, TypeOK, sourceVars
<1>8. ASSUME NEW r \in Runs, AdvanceWatermark(r) PROVE TypeOK'
  <2>1. Epoch \in Watermark /\ NoRows \in [Keys -> Nat]
    BY DEF Epoch, Watermark, NoRows
  <2> QED BY <1>8, <2>1 DEF AdvanceWatermark, Forget, GoTo, Steps, TypeOK, sourceVars
<1>9. ASSUME NEW r \in Runs, RecordSync(r) PROVE TypeOK'
  BY <1>9 DEF RecordSync, GoTo, Steps, TypeOK, sourceVars
<1>10. ASSUME NEW r \in Runs, CommitConflict(r) PROVE TypeOK'
  BY <1>10, RaiseType DEF CommitConflict, TypeOK, sourceVars
<1>11. ASSUME NEW r \in Runs, Fail(r) PROVE TypeOK'
  BY <1>11, RaiseType DEF Fail, TypeOK, sourceVars
<1>12. CASE UNCHANGED vars
  BY <1>12 DEF vars, TypeOK
<1> QED
  BY <1>1, <1>2, <1>3, <1>4, <1>5, <1>6, <1>7, <1>8, <1>9, <1>10, <1>11, <1>12
     DEF Next, RunStep

LEMMA TypeInit == Init => TypeOK
BY ConstantsAssumption
   DEF ConstantsAssumption, Init, TypeOK, Steps, Watermark, Epoch, NoRows

\* Every variable keeps its type in every behaviour, whatever the runs, the
\* source and the failures do.
THEOREM TypeCorrect == Spec => []TypeOK
BY TypeInit, TypeStep, PTL DEF Spec

-----------------------------------------------------------------------------
(* The order of watermarks.                                                *)

\* What is in reach of a watermark is in reach of every earlier one
\* (state/watermarks.py: the watermark only moves forward).
LEMMA ReachIsMonotonic ==
  ASSUME NEW w \in Watermark, NEW x \in Watermark, ~Earlier(x, w),
         NEW v \in Nat, NEW k \in Nat, InReach(v, k, x)
  PROVE  InReach(v, k, w)
BY ConstantsAssumption
   DEF ConstantsAssumption, Earlier, After, InReach, Watermark

\* A row stamped within MaxCommitDelay of the clock is in reach of every
\* watermark that trails it: the slack of SlackAssumption is what makes a
\* transaction that commits after the window was read reappear in the next.
LEMMA LateCommitIsInReach ==
  ASSUME TypeOK, NEW w \in Watermark, Trails(w), NEW k \in Keys,
         clock <= open[k] + MaxCommitDelay
  PROVE  InReach(open[k], k, w)
BY ConstantsAssumption, SlackAssumption
   DEF ConstantsAssumption, SlackAssumption, TypeOK, Trails, InReach, After,
       Watermark, EffectiveGap

-----------------------------------------------------------------------------
(* Time, for every setting of the constants.                               *)

\* A window ends with the watermark it started from, with its upper bound, or
\* with one of its rows (extract/incremental.py: the end of run_incremental).
LEMMA WindowEnds ==
  ASSUME TypeOK, NEW r \in Runs, CopyWindow(r)
  PROVE  \/ newWm'[r] = wmRead[r]
         \/ TimeBounded /\ newWm'[r].val = Hi(r)
         \/ \E j \in Window(r) : newWm'[r].val = source[j]
<1>1. CASE Window(r) = {}
  BY <1>1 DEF CopyWindow, TypeOK
<1>2. CASE Window(r) # {}
  <2>1. PICK m \in Candidates(r) : newWm' = [newWm EXCEPT ![r] = m]
    BY <1>2 DEF CopyWindow
  <2> QED BY <2>1 DEF TypeOK, Candidates
<1> QED BY <1>1, <1>2

LEMMA TimeInit == Init => TimeInv
<1> SUFFICES ASSUME Init PROVE TimeInv
  OBVIOUS
<1>1. TypeOK
  BY TypeInit
<1>2. InTime
  BY ConstantsAssumption DEF ConstantsAssumption, Init, InTime, NoRows
<1>3. WatermarkTrailsClock
  BY ConstantsAssumption
     DEF ConstantsAssumption, Init, WatermarkTrailsClock, Trails, Epoch, EffectiveGap
<1> QED BY <1>1, <1>2, <1>3 DEF TimeInv

\* Versions, `now`s and watermarks stay behind the clock, each by its gap.
LEMMA TimeStep == TimeInv /\ [Next]_vars => TimeInv'
<1> SUFFICES ASSUME TimeInv, [Next]_vars PROVE TimeInv'
  OBVIOUS
<1> USE ConstantsAssumption DEF ConstantsAssumption
<1>1. TypeOK /\ TypeOK'
  BY TypeStep DEF TimeInv
<1>2. InTime /\ WatermarkTrailsClock /\ 0 <= clock - EffectiveGap
  BY <1>1 DEF TimeInv, InTime, EffectiveGap, TypeOK
<1>3. CASE Tick
  <2>1. InTime'
    BY <1>1, <1>2, <1>3 DEF InTime, Tick, TypeOK, runVars
  <2>2. WatermarkTrailsClock'
    BY <1>1, <1>2, <1>3 DEF WatermarkTrailsClock, Trails, EffectiveGap, Tick, TypeOK,
       runVars, Watermark
  <2> QED BY <1>1, <2>1, <2>2 DEF TimeInv
<1>4. ASSUME NEW k \in Keys, SourceWrite(k) \/ SourceCommit(k) \/ SourceAbort(k)
      PROVE  TimeInv'
  <2>1. UNCHANGED <<clock, wm, runVars>>
    BY <1>4 DEF SourceWrite, SourceCommit, SourceAbort
  <2>2. InTime'
    BY <1>1, <1>2, <1>4, <2>1
       DEF InTime, SourceWrite, SourceCommit, SourceAbort, TypeOK, runVars
  <2>3. WatermarkTrailsClock'
    BY <1>2, <2>1 DEF WatermarkTrailsClock, Trails, runVars
  <2> QED BY <1>1, <2>2, <2>3 DEF TimeInv
<1>5. ASSUME NEW r \in Runs, UNCHANGED sourceVars, now' = [now EXCEPT ![r] = now'[r]],
             now'[r] \in {0, clock, now[r]}
      PROVE  InTime'
  BY <1>1, <1>2, <1>5 DEF InTime, TypeOK, sourceVars
<1>6. ASSUME NEW r \in Runs, UNCHANGED clock,
             wm' = wm \/ wm' = newWm[r],
             wmRead' = [wmRead EXCEPT ![r] = wmRead'[r]],
             wmRead'[r] \in {wmRead[r], wm, Epoch},
             newWm' = [newWm EXCEPT ![r] = newWm'[r]],
             \/ newWm'[r] \in {newWm[r], wm, wmRead[r], Epoch}
             \/ newWm'[r].val <= clock - EffectiveGap
      PROVE  WatermarkTrailsClock'
  BY <1>1, <1>2, <1>6 DEF WatermarkTrailsClock, Trails, TypeOK, Epoch
<1>7. ASSUME NEW r \in Runs, StartRun(r) \/ LoadTable(r) \/ StampNow(r)
             \/ OpenStaged(r) \/ MergeBatch(r) \/ RecordSync(r)
      PROVE  TimeInv'
  <2>1. UNCHANGED <<sourceVars, wm, wmRead, newWm>>
        /\ (now' = now \/ now' = [now EXCEPT ![r] = clock])
    BY <1>7 DEF StartRun, LoadTable, StampNow, OpenStaged, MergeBatch, RecordSync
  <2> QED BY <1>1, <1>5, <1>6, <2>1 DEF TimeInv, TypeOK, sourceVars
<1>8. ASSUME NEW r \in Runs, GetWatermark(r) PROVE TimeInv'
  BY <1>1, <1>5, <1>6, <1>8 DEF TimeInv, GetWatermark, TypeOK, sourceVars
<1>9. ASSUME NEW r \in Runs, CopyWindow(r) PROVE TimeInv'
  <2>1. \A j \in Window(r) : source[j] <= clock - EffectiveGap
    BY <1>1, <1>2 DEF InTime, Window, Present, Hi, EffectiveGap, TypeOK
  <2>2. newWm'[r].val <= clock - EffectiveGap
    <3>1. wmRead[r].val <= clock - EffectiveGap /\ now[r] <= clock
      BY <1>2 DEF InTime, WatermarkTrailsClock, Trails
    <3>2. TimeBounded => Hi(r) <= clock - EffectiveGap
      BY <1>1, <3>1 DEF Hi, EffectiveGap, TypeOK
    <3>3. \/ newWm'[r] = wmRead[r]
          \/ TimeBounded /\ newWm'[r].val = Hi(r)
          \/ \E j \in Window(r) : newWm'[r].val = source[j]
      BY <1>1, <1>9, WindowEnds
    <3> QED BY <2>1, <3>1, <3>2, <3>3
  <2>3. UNCHANGED <<sourceVars, wm, now, wmRead>>
        /\ newWm' = [newWm EXCEPT ![r] = newWm'[r]]
    BY <1>1, <1>9 DEF CopyWindow, TypeOK
  <2> QED BY <1>1, <1>5, <1>6, <2>2, <2>3 DEF TimeInv, TypeOK, sourceVars
<1>10. ASSUME NEW r \in Runs, Upload(r) PROVE TimeInv'
  BY <1>1, <1>5, <1>6, <1>10 DEF TimeInv, Upload, TypeOK, sourceVars
<1>11. ASSUME NEW r \in Runs, AdvanceWatermark(r) PROVE TimeInv'
  BY <1>1, <1>5, <1>6, <1>11 DEF TimeInv, AdvanceWatermark, Forget, TypeOK, sourceVars
<1>12. ASSUME NEW r \in Runs, CommitConflict(r) \/ Fail(r) PROVE TimeInv'
  BY <1>1, <1>5, <1>6, <1>12
     DEF TimeInv, CommitConflict, Fail, Raise, Forget, TypeOK, sourceVars
<1>13. CASE UNCHANGED vars
  <2>1. UNCHANGED <<clock, source, open, wm, now, wmRead, newWm>>
    BY <1>13 DEF vars
  <2> QED BY <1>1, <1>2, <2>1 DEF TimeInv, InTime, WatermarkTrailsClock, Trails
<1> QED
  BY <1>3, <1>4, <1>7, <1>8, <1>9, <1>10, <1>11, <1>12, <1>13 DEF Next, RunStep

\* Every watermark, read, held or written, trails the clock by the safety gap
\* (extract/incremental.py: hi = now - safety_gap), whatever the runs do.
THEOREM WatermarksTrail == Spec => []WatermarkTrailsClock
<1>1. TimeInv => WatermarkTrailsClock
  BY DEF TimeInv
<1> QED BY <1>1, TimeInit, TimeStep, PTL DEF Spec

\* What a transaction in flight will commit is at or after the end of every
\* window, if the safety gap covers the slowest one.
LEMMA InFlightIsLater ==
  ASSUME TimeInv, WindowsSettle, NEW k \in Keys, open[k] # 0, NEW r \in Runs
  PROVE  open[k] >= Hi(r)
BY ConstantsAssumption
   DEF ConstantsAssumption, TimeInv, InTime, TypeOK, WindowsSettle, Hi

-----------------------------------------------------------------------------
(* SyncInv is inductive.                                                   *)

LEMMA SyncInit == Init => SyncInv
<1> SUFFICES ASSUME Init PROVE SyncInv
  OBVIOUS
<1>1. TimeInv
  BY TimeInit
<1>2. OnlyCommitted /\ RunLocals
  BY DEF Init, OnlyCommitted, RunLocals, NoRows, Epoch, Earlier, After
<1>3. FreshIsNewer /\ Accounted /\ NoRowLeftBehind
  BY DEF Init, FreshIsNewer, Accounted, NoRowLeftBehind, NoRows, Present
<1>4. SettledWindows
  BY ConstantsAssumption
     DEF ConstantsAssumption, Init, SettledWindows, SettledFor, NoRows, Present
<1> QED BY <1>1, <1>2, <1>3, <1>4 DEF SyncInv

\* Time passing, writes and aborts change no committed row.
LEMMA SourceStep ==
  ASSUME SyncInv, Tick \/ \E k \in Keys : SourceWrite(k) \/ SourceAbort(k)
  PROVE  SyncInv'
<1>1. TimeInv' /\ TypeOK /\ TypeOK'
  BY TimeStep DEF SyncInv, Next, TimeInv
<1>2. clock' >= clock /\ UNCHANGED <<source, lake, wm, runVars>>
  BY <1>1 DEF Tick, SourceWrite, SourceAbort, TypeOK, runVars
<1>3. (OnlyCommitted /\ RunLocals /\ FreshIsNewer /\ Accounted /\ NoRowLeftBehind)'
  BY <1>2 DEF SyncInv, OnlyCommitted, RunLocals, FreshIsNewer, Accounted,
     NoRowLeftBehind, runVars, Present
<1>4. SettledWindows => SettledWindows'
  BY <1>1, <1>2, ConstantsAssumption
     DEF ConstantsAssumption, SettledWindows, SettledFor, Window, Present, Hi, runVars,
         TypeOK
<1> QED BY <1>1, <1>3, <1>4 DEF SyncInv

\* A commit may make a row newer than anything a run holds; such a row is in
\* reach of every watermark, and past the end of every settled window.
LEMMA CommitStep ==
  ASSUME SyncInv, NEW k \in Keys, SourceCommit(k)
  PROVE  SyncInv'
<1>1. TimeInv' /\ TimeInv /\ TypeOK /\ TypeOK'
  BY TimeStep DEF SyncInv, Next, TimeInv
<1>2. UNCHANGED <<clock, lake, wm, runVars>> /\ source'[k] = open[k] /\ open[k] # 0
      /\ \A j \in Keys : j # k => source'[j] = source[j]
  BY <1>1 DEF SourceCommit, TypeOK
<1>3. source[k] < open[k] /\ clock <= open[k] + MaxCommitDelay
  BY <1>1, <1>2 DEF TimeInv, InTime
<1>4. OnlyCommitted'
  BY <1>1, <1>2, <1>3 DEF SyncInv, OnlyCommitted, TypeOK, runVars
<1>5. (RunLocals /\ FreshIsNewer)'
  BY <1>2 DEF SyncInv, RunLocals, FreshIsNewer, runVars
<1>6. InReach(open[k], k, wm) /\ \A r \in Runs : InReach(open[k], k, newWm[r])
  BY <1>1, <1>3, LateCommitIsInReach DEF TimeInv, WatermarkTrailsClock, TypeOK
<1>7. Accounted'
  BY <1>1, <1>2, <1>6 DEF SyncInv, Accounted, Present, runVars
<1>8. NoRowLeftBehind'
  BY <1>1, <1>2, <1>6 DEF SyncInv, NoRowLeftBehind, Present
<1>9. ASSUME WindowsSettle, SettledWindows PROVE SettledWindows'
  <2>1. \A r \in Runs : Hi(r)' = Hi(r) /\ source'[k] >= Hi(r)
    BY <1>1, <1>2, <1>9, InFlightIsLater DEF Hi, runVars
  <2>2. \A r \in Runs : SettledFor(r, source)'
    BY <1>2, <1>9, <2>1 DEF SettledWindows, SettledFor, Present, runVars
  <2>3. ASSUME NEW r \in Runs, NEW j \in Window(r)' PROVE j \in Window(r) /\ j # k
    <3>1. /\ j \in Keys /\ source'[j] # 0 /\ InReach(source'[j], j, wmRead[r])
          /\ source'[j] < Hi(r)
      BY <1>2, <1>9, <2>1 DEF Window, Present, InReach, After, WindowsSettle, runVars
    <3>2. Hi(r) \in Int /\ source'[k] \in Int
      BY <1>1, ConstantsAssumption DEF ConstantsAssumption, Hi, TypeOK
    <3>3. j # k
      BY <2>1, <3>1, <3>2
    <3> QED BY <1>2, <3>1, <3>3 DEF Window, Present
  <2>4. \A r \in Runs :
          pc'[r] = "upload" => \A j \in Window(r)' : rows'[r][j] = source'[j]
    BY <1>2, <1>9, <2>3 DEF SettledWindows, Window, Present, runVars
  <2> QED BY <1>2, <1>9, <2>1, <2>2, <2>4
          DEF SettledWindows, SettledFor, Present, runVars
<1> QED BY <1>1, <1>4, <1>5, <1>7, <1>8, <1>9 DEF SyncInv

\* The steps around the extraction and the merge.  The handle is loaded before
\* the second of `now`, so what the table holds by then is in no later window.
LEMMA QuietStep ==
  ASSUME SyncInv, NEW r \in Runs,
         StartRun(r) \/ LoadTable(r) \/ StampNow(r) \/ OpenStaged(r) \/ RecordSync(r)
  PROVE  SyncInv'
<1>1. TimeInv' /\ TimeInv /\ TypeOK /\ TypeOK'
  BY TimeStep DEF SyncInv, Next, RunStep, TimeInv
<1>2. UNCHANGED <<sourceVars, lake, wm, wmRead, rows, newWm>>
  BY DEF StartRun, LoadTable, StampNow, OpenStaged, RecordSync
<1>3. (OnlyCommitted /\ NoRowLeftBehind)'
  BY <1>2 DEF SyncInv, OnlyCommitted, NoRowLeftBehind, Present, sourceVars
<1>4. /\ \A q \in Runs \ {r} : pc'[q] = pc[q] /\ now'[q] = now[q] /\ fresh'[q] = fresh[q]
      /\ \/ /\ pc[r] \in {"idle", "load", "record"} /\ pc'[r] \in {"load", "stamp", "idle"}
            /\ now'[r] = now[r]
         \/ /\ pc[r] = "stamp" /\ pc'[r] = "watermark"
            /\ now'[r] = clock /\ clock # 0 /\ fresh'[r] = fresh[r]
         \/ /\ pc[r] = "open" /\ pc'[r] = "merge"
            /\ now'[r] = now[r] /\ fresh'[r] = fresh[r]
  BY <1>1, ConstantsAssumption
     DEF ConstantsAssumption, StartRun, LoadTable, StampNow, OpenStaged, RecordSync,
         GoTo, TypeOK, TimeInv, InTime
<1>5. RunLocals'
  BY <1>1, <1>2, <1>4 DEF SyncInv, RunLocals, sourceVars, Earlier, After
<1>6. pc[r] # "open" => rows[r] = NoRows /\ (pc[r] = "stamp" \/ now[r] = 0)
  BY <1>4 DEF SyncInv, RunLocals
<1>7. FreshIsNewer'
  BY <1>1, <1>2, <1>4, <1>6 DEF SyncInv, FreshIsNewer, NoRows, TypeOK
<1>8. Accounted'
  BY <1>1, <1>2, <1>4 DEF SyncInv, Accounted, Present, sourceVars
<1>9. ASSUME SettledWindows PROVE SettledWindows'
  <2>1. \A q \in Runs : rows'[q] = rows[q] /\ (Present(rows[q]) # {} => now'[q] = now[q])
    BY <1>2, <1>4, <1>6 DEF Present, NoRows
  <2>2. \A q \in Runs : Present(rows[q]) # {} => Hi(q)' = Hi(q)
    BY <2>1 DEF Hi
  <2>3. \A q \in Runs : /\ \A k \in Present(rows'[q]) : rows'[q][k] < Hi(q)'
                        /\ SettledFor(q, source)' /\ SettledFor(q, lake)'
                        /\ \A x \in Runs : SettledFor(q, rows[x])'
    BY <1>2, <1>9, <2>1, <2>2 DEF SettledWindows, SettledFor, sourceVars
  <2>4. \A q \in Runs : fresh'[q] /\ now'[q] # 0 => \A k \in Keys : lake'[k] < Hi(q)'
    BY <1>1, <1>2, <1>4, <1>6, <1>9 DEF SettledWindows, Hi
  <2>5. \A q \in Runs :
          pc'[q] = "upload" => \A k \in Window(q)' : rows'[q][k] = source'[k]
    <3>1. ASSUME NEW q \in Runs, pc'[q] = "upload" PROVE q # r /\ Window(q)' = Window(q)
      BY <1>2, <1>4, <3>1 DEF Window, Present, InReach, After, Hi, sourceVars
    <3> QED BY <1>2, <1>4, <1>9, <3>1 DEF SettledWindows, sourceVars
  <2> QED BY <1>2, <1>9, <2>3, <2>4, <2>5 DEF SettledWindows, sourceVars
<1> QED BY <1>1, <1>3, <1>5, <1>7, <1>8, <1>9 DEF SyncInv

\* The watermark is read, and a window that is not open yet ends the run.
LEMMA GetWatermarkStep ==
  ASSUME SyncInv, NEW r \in Runs, GetWatermark(r)
  PROVE  SyncInv'
<1>1. TimeInv' /\ TypeOK /\ TypeOK'
  BY TimeStep DEF SyncInv, Next, RunStep, TimeInv
<1>2. UNCHANGED <<sourceVars, lake, wm, fresh, now, rows>>
  BY DEF GetWatermark
<1>3. (OnlyCommitted /\ FreshIsNewer /\ NoRowLeftBehind)'
  BY <1>2 DEF SyncInv, OnlyCommitted, FreshIsNewer, NoRowLeftBehind, Present, sourceVars
<1>4. ~Earlier(wm, wm)
  BY <1>1 DEF TypeOK, Watermark, Earlier, After
<1>5. RunLocals'
  BY <1>1, <1>2, <1>4 DEF SyncInv, RunLocals, TypeOK, sourceVars, GoTo,
     GetWatermark, Earlier, After
<1>6. Accounted'
  BY <1>1, <1>2 DEF SyncInv, Accounted, NoRowLeftBehind, TypeOK, Present,
     sourceVars, GoTo, GetWatermark
<1>7. ASSUME SettledWindows PROVE SettledWindows'
  <2>1. \A q \in Runs : pc'[q] = "upload" => pc[q] = "upload" /\ wmRead'[q] = wmRead[q]
    BY <1>1 DEF GetWatermark, GoTo, TypeOK
  <2>2. \A q \in Runs :
          pc'[q] = "upload" => \A k \in Window(q)' : rows'[q][k] = source'[k]
    BY <1>2, <1>7, <2>1
       DEF SettledWindows, Window, Present, InReach, After, Hi, sourceVars
  <2> QED BY <1>2, <1>7, <2>2
          DEF SettledWindows, SettledFor, Present, Hi, sourceVars
<1> QED BY <1>1, <1>3, <1>5, <1>6, <1>7 DEF SyncInv

\* The extraction: every row that is not in the window is in the lake already,
\* or in reach of the watermark the run will write.
LEMMA CopyWindowStep ==
  ASSUME SyncInv, NEW r \in Runs, CopyWindow(r)
  PROVE  SyncInv'
<1> USE ConstantsAssumption DEF ConstantsAssumption
<1>1. TimeInv' /\ TypeOK /\ TypeOK'
  BY TimeStep DEF SyncInv, Next, RunStep, TimeInv
<1>2. UNCHANGED <<sourceVars, lake, wm, fresh, now, wmRead>>
  BY DEF CopyWindow
<1>3. NoRowLeftBehind'
  BY <1>2 DEF SyncInv, NoRowLeftBehind, Present, sourceVars
<1>4. \A k \in Keys : rows'[r][k] = IF k \in Window(r) THEN source[k] ELSE 0
  BY <1>1 DEF CopyWindow, TypeOK
<1>5. \A q \in Runs \ {r} : rows'[q] = rows[q] /\ newWm'[q] = newWm[q] /\ pc'[q] = pc[q]
  BY <1>1 DEF CopyWindow, TypeOK, GoTo
<1>6. \A k \in Keys :
        /\ lake[k] <= source[k] /\ source[k] \in Nat /\ lake[k] \in Nat
        /\ source'[k] = source[k] /\ lake'[k] = lake[k]
        /\ \A q \in Runs : rows[q][k] <= source[k] /\ rows[q][k] \in Nat
  BY <1>1, <1>2 DEF SyncInv, OnlyCommitted, TypeOK, sourceVars
<1>7. \A k \in Keys : rows'[r][k] = source[k] \/ rows'[r][k] = 0
  BY <1>4
<1>8. OnlyCommitted' /\ FreshIsNewer'
  <2>1. \A q \in Runs, k \in Keys : rows'[q][k] <= source'[k]
    BY <1>5, <1>6, <1>7
  <2>2. FreshIsNewer'
    BY <1>2, <1>5, <1>6, <1>7 DEF SyncInv, FreshIsNewer
  <2> QED BY <1>6, <2>1, <2>2 DEF OnlyCommitted
<1>9. RunLocals'
  <2>1. pc[r] = "copy" /\ pc' = [pc EXCEPT ![r] = pc'[r]]
        /\ pc'[r] \in {"advance", "upload"}
    BY <1>1 DEF CopyWindow, GoTo, TypeOK
  <2>2. pc'[r] = "advance" => rows'[r] = NoRows
    BY <1>1, <1>4 DEF CopyWindow, GoTo, TypeOK, NoRows
  <2> QED BY <1>1, <1>2, <1>5, <2>1, <2>2
          DEF SyncInv, RunLocals, TypeOK, sourceVars, Earlier, After
<1>10. ASSUME NEW k \in Present(source), k \notin Window(r), lake[k] # source[k]
       PROVE  InReach(source[k], k, newWm'[r])
  <2>1. InReach(source[k], k, wmRead[r])
    BY <1>1, <1>10, ReachIsMonotonic
       DEF SyncInv, NoRowLeftBehind, RunLocals, TypeOK, Present
  <2>2. CASE newWm'[r] = wmRead[r]
    BY <2>1, <2>2
  <2>3. CASE newWm'[r] # wmRead[r]
    <3>1. \A j \in Window(r) : TimeBounded => source[j] < Hi(r)
      BY DEF Window
    <3>2. TimeBounded => source[k] >= Hi(r)
      BY <1>1, <1>10, <2>1 DEF Window, TypeOK, Present, Hi
    <3>3. CASE TimeBounded
      <4>1. newWm'[r].val <= Hi(r) /\ newWm'[r].val \in Int
        <5>1. newWm'[r].val = Hi(r) \/ \E j \in Window(r) : newWm'[r].val = source[j]
          BY <1>1, <2>3, WindowEnds
        <5>2. Hi(r) \in Int /\ newWm'[r].val \in Int
          BY <1>1 DEF TypeOK, Watermark, Hi
        <5> QED BY <3>1, <3>3, <5>1, <5>2
      <4> QED BY <1>1, <3>2, <3>3, <4>1, SlackAssumption
              DEF InReach, After, SlackAssumption, TypeOK, Present, Hi
    <3>4. CASE ~TimeBounded
      BY <1>10, <2>1, <3>4 DEF Window
    <3> QED BY <3>3, <3>4
  <2> QED BY <2>2, <2>3
<1>11. Accounted'
  BY <1>1, <1>2, <1>4, <1>5, <1>10 DEF SyncInv, Accounted, Present, sourceVars, TypeOK
<1>12. ASSUME WindowsSettle, SettledWindows PROVE SettledWindows'
  <2>1. \A q \in Runs : Hi(q)' = Hi(q) /\ Hi(q) \in Int /\ Window(q)' = Window(q)
    BY <1>1, <1>2 DEF Hi, Window, Present, InReach, After, TypeOK, sourceVars
  <2>2. \A k \in Window(r) : source[k] < Hi(r)
    BY <1>12 DEF Window, WindowsSettle
  <2>3. \A k \in Keys, q \in Runs \ {r} :
          rows[q][k] # 0 => /\ rows[q][k] < Hi(q)
                            /\ source[k] <= rows[q][k] \/ source[k] >= Hi(q)
                            /\ lake[k] <= rows[q][k] \/ lake[k] >= Hi(q)
                            /\ \A x \in Runs :
                                 rows[x][k] <= rows[q][k] \/ rows[x][k] >= Hi(q)
    BY <1>12 DEF SettledWindows, SettledFor, Present
  <2>4. \A k \in Keys : rows'[r][k] # 0 =>
          /\ rows'[r][k] < Hi(r) /\ rows'[r][k] = source[k]
          /\ \A x \in Runs : rows'[x][k] <= rows'[r][k]
    BY <1>4, <1>5, <1>6, <2>2
  <2>5. ASSUME NEW q \in Runs, NEW k \in Keys, rows'[q][k] # 0
        PROVE  /\ rows'[q][k] < Hi(q)
               /\ source[k] <= rows'[q][k] \/ source[k] >= Hi(q)
               /\ lake[k] <= rows'[q][k] \/ lake[k] >= Hi(q)
               /\ \A x \in Runs : rows'[x][k] <= rows'[q][k] \/ rows'[x][k] >= Hi(q)
    <3>1. CASE q = r
      BY <1>6, <2>4, <2>5, <3>1
    <3>2. CASE q # r
      <4>1. rows'[q] = rows[q]
        BY <1>5, <3>2
      <4> QED BY <1>5, <1>6, <1>7, <2>3, <2>5, <3>2, <4>1
    <3> QED BY <3>1, <3>2
  <2>6. \A q \in Runs : /\ \A k \in Present(rows'[q]) : rows'[q][k] < Hi(q)'
                        /\ SettledFor(q, source)' /\ SettledFor(q, lake)'
                        /\ \A x \in Runs : SettledFor(q, rows[x])'
    BY <1>6, <2>1, <2>5 DEF SettledFor, Present
  <2>7. ASSUME NEW q \in Runs, pc'[q] = "upload", NEW k \in Window(q)'
        PROVE  rows'[q][k] = source'[k]
    <3>1. k \in Window(q) /\ k \in Keys /\ source'[k] = source[k]
      BY <1>2, <2>1, <2>7 DEF Window, Present, sourceVars
    <3>2. CASE q = r
      BY <1>4, <3>1, <3>2
    <3>3. CASE q # r
      BY <1>5, <1>12, <2>7, <3>1, <3>3 DEF SettledWindows
    <3> QED BY <3>2, <3>3
  <2> QED BY <1>2, <1>12, <2>1, <2>6, <2>7 DEF SettledWindows, sourceVars
<1> QED BY <1>1, <1>3, <1>8, <1>9, <1>11, <1>12 DEF SyncInv

\* The upload.  A run of the same second that has yet to read its object gets
\* the rows of this one: what it had to replicate before its window's end is
\* among them, or in the lake already, and nothing in the lake is newer.
LEMMA UploadStep ==
  ASSUME SyncInv, WindowsSettle \/ DistinctSeconds, NEW r \in Runs, Upload(r)
  PROVE  SyncInv'
<1>1. TimeInv' /\ TypeOK /\ TypeOK'
  BY TimeStep DEF SyncInv, Next, RunStep, TimeInv
<1>2. UNCHANGED <<sourceVars, lake, wm, fresh, now, newWm>> /\ pc[r] = "upload"
      /\ \A q \in Runs : pc'[q] = IF q = r THEN "open" ELSE pc[q]
  BY <1>1 DEF Upload, GoTo, TypeOK
<1>3. \A q \in Runs : wmRead'[q] = IF q = r THEN Epoch ELSE wmRead[q]
  BY <1>1 DEF Upload, TypeOK
<1>4. \A q \in Runs : \/ rows'[q] = rows[q]
                      \/ /\ rows'[q] = rows[r] /\ pc[q] = "open" /\ now[q] = now[r]
                         /\ ~DistinctSeconds
  <2>1. now[r] # 0
    BY <1>2 DEF SyncInv, RunLocals
  <2> QED BY <1>1, <1>2, <2>1 DEF Upload, TypeOK, DistinctSeconds
<1>5. NoRowLeftBehind' /\ OnlyCommitted'
  BY <1>2, <1>4 DEF SyncInv, NoRowLeftBehind, OnlyCommitted, Present, sourceVars
<1>6. RunLocals'
  <2>1. ~Earlier(wm, Epoch) /\ wm' = wm /\ now' = now
    BY <1>2 DEF SyncInv, RunLocals
  <2>2. \A q \in Runs : ~Earlier(wm', wmRead'[q])
    BY <1>3, <2>1 DEF SyncInv, RunLocals
  <2>3. \A q \in Runs : pc'[q] \notin {"upload", "open", "merge"} => rows'[q] = NoRows
    BY <1>2, <1>4 DEF SyncInv, RunLocals
  <2> QED BY <1>2, <2>1, <2>2, <2>3 DEF SyncInv, RunLocals
<1>7. ASSUME NEW q \in Runs, NEW k \in Keys, rows'[q] # rows[q]
      PROVE  /\ SettledWindows /\ rows'[q] = rows[r] /\ pc[q] = "open"
             /\ Hi(q) = Hi(r) /\ Hi(r) \in Int /\ now[q] # 0
             /\ source[k] \in Nat /\ lake[k] \in Nat /\ rows[r][k] \in Nat
             /\ rows[q][k] \in Nat
  <2>1. rows'[q] = rows[r] /\ pc[q] = "open" /\ now[q] = now[r] /\ ~DistinctSeconds
    BY <1>4, <1>7
  <2>2. SettledWindows
    BY <2>1 DEF SyncInv
  <2>3. now[q] # 0
    BY <2>1 DEF SyncInv, RunLocals
  <2>4. Hi(q) = Hi(r) /\ Hi(r) \in Int
    BY <1>1, <2>1, ConstantsAssumption DEF ConstantsAssumption, Hi, TypeOK
  <2> QED BY <1>1, <2>1, <2>2, <2>3, <2>4 DEF TypeOK
<1>8. FreshIsNewer'
  <2>1. SUFFICES ASSUME NEW q \in Runs, NEW k \in Keys, fresh[q], rows'[q][k] # 0
                 PROVE  lake[k] <= rows'[q][k]
    BY <1>2 DEF FreshIsNewer
  <2>2. CASE rows'[q] = rows[q]
    BY <2>1, <2>2 DEF SyncInv, FreshIsNewer
  <2>3. CASE rows'[q] # rows[q]
    <3>1. lake[k] < Hi(r)
      BY <1>7, <2>1, <2>3 DEF SettledWindows
    <3>2. lake[k] <= rows[r][k] \/ lake[k] >= Hi(r)
      BY <1>7, <2>1, <2>3 DEF SettledWindows, SettledFor, Present
    <3> QED BY <1>7, <2>3, <3>1, <3>2
  <2> QED BY <2>2, <2>3
<1>9. Accounted'
  <2>1. SUFFICES ASSUME NEW q \in Runs, NEW k \in Present(source),
                        pc'[q] \in {"upload", "open", "merge", "advance"}
                 PROVE  \/ lake[k] = source[k] \/ rows'[q][k] = source[k]
                        \/ InReach(source[k], k, newWm[q])
    BY <1>2 DEF Accounted, Present, sourceVars
  <2>2. \/ lake[k] = source[k] \/ rows[q][k] = source[k]
        \/ InReach(source[k], k, newWm[q])
    BY <1>2, <2>1 DEF SyncInv, Accounted
  <2>3. CASE rows'[q] = rows[q]
    BY <2>2, <2>3
  <2>4. CASE rows'[q] # rows[q] /\ rows[q][k] = source[k] /\ lake[k] # source[k]
    <3>1. k \in Keys /\ source[k] # 0
      BY DEF Present
    <3>2. source[k] < Hi(r)
      BY <1>7, <2>4, <3>1 DEF SettledWindows, Present
    <3>3. InReach(source[k], k, wmRead[r])
      <4>1. wm \in Watermark /\ wmRead[r] \in Watermark /\ ~Earlier(wm, wmRead[r])
            /\ source[k] \in Nat /\ k \in Nat
        BY <1>1, <3>1, ConstantsAssumption
           DEF ConstantsAssumption, TypeOK, SyncInv, RunLocals
      <4>2. InReach(source[k], k, wm)
        BY <2>4 DEF SyncInv, NoRowLeftBehind
      <4> QED BY <4>1, <4>2, ReachIsMonotonic
    <3>4. k \in Window(r)
      BY <3>2, <3>3 DEF Window
    <3> QED BY <1>2, <1>7, <2>4, <3>1, <3>4 DEF SettledWindows
  <2> QED BY <2>2, <2>3, <2>4
<1>10. ASSUME SettledWindows PROVE SettledWindows'
  <2>1. \A q \in Runs : Hi(q)' = Hi(q)
    BY <1>2 DEF Hi
\* Whatever rows a run holds now were those of a run with its window's end.
  <2>2. \A q \in Runs : \E x \in Runs : rows'[q] = rows[x] /\ Hi(q) = Hi(x)
    BY <1>4 DEF Hi
  <2>3. ASSUME NEW q \in Runs
        PROVE  /\ \A k \in Present(rows'[q]) : rows'[q][k] < Hi(q)'
               /\ SettledFor(q, source)' /\ SettledFor(q, lake)'
               /\ \A y \in Runs : SettledFor(q, rows[y])'
    <3>1. PICK x \in Runs : rows'[q] = rows[x] /\ Hi(q) = Hi(x)
      BY <2>2
    <3> QED BY <1>2, <1>10, <2>1, <2>2, <3>1
            DEF SettledWindows, SettledFor, sourceVars
  <2>4. ASSUME NEW q \in Runs, pc'[q] = "upload", NEW k \in Window(q)'
        PROVE  rows'[q][k] = source'[k]
    <3>1. pc[q] = "upload" /\ rows'[q] = rows[q] /\ wmRead'[q] = wmRead[q]
      BY <1>2, <1>3, <1>4, <2>4
    <3>2. k \in Window(q)
      BY <1>2, <2>1, <3>1, <2>4 DEF Window, Present, InReach, After, sourceVars
    <3> QED BY <1>2, <1>10, <3>1, <3>2 DEF SettledWindows, sourceVars
  <2> QED BY <1>2, <1>10, <2>1, <2>3, <2>4 DEF SettledWindows, sourceVars
<1> QED BY <1>1, <1>5, <1>6, <1>8, <1>9, <1>10 DEF SyncInv

\* A batch moves rows of the lake forward, to versions that are committed, and
\* makes every other run's handle stale.
LEMMA MergeBatchStep ==
  ASSUME SyncInv, NEW r \in Runs, MergeBatch(r)
  PROVE  SyncInv' /\ \A k \in Keys : lake[k] <= lake'[k]
<1>1. TimeInv' /\ TimeInv /\ TypeOK /\ TypeOK'
  BY TimeStep DEF SyncInv, Next, RunStep, TimeInv
<1>2. UNCHANGED <<sourceVars, wm, now, wmRead, newWm>> /\ fresh[r]
      /\ pc[r] = "merge" /\ fresh' = [q \in Runs |-> q = r]
  BY DEF MergeBatch
<1>3. PICK B \in SUBSET Keys :
        /\ IsNextBatch(B, rows[r])
        /\ lake' = [k \in Keys |-> IF k \in B THEN rows[r][k] ELSE lake[k]]
        /\ rows' = [rows EXCEPT ![r] = [k \in Keys |-> IF k \in B THEN 0 ELSE rows[r][k]]]
        /\ GoTo(r, IF B = Present(rows[r]) THEN "advance" ELSE "merge")
  BY DEF MergeBatch
<1>4. \A k \in B : rows[r][k] # 0 /\ lake[k] <= rows[r][k] /\ rows[r][k] <= source[k]
  BY <1>1, <1>2, <1>3 DEF IsNextBatch, Present, SyncInv, FreshIsNewer, OnlyCommitted
<1>5. \A k \in Keys :
        /\ rows'[r][k] = IF k \in B THEN 0 ELSE rows[r][k]
        /\ lake'[k] = IF k \in B THEN rows[r][k] ELSE lake[k]
  BY <1>1, <1>3 DEF TypeOK
<1>6. \A q \in Runs \ {r} : rows'[q] = rows[q] /\ pc'[q] = pc[q] /\ ~fresh'[q]
  BY <1>1, <1>2, <1>3 DEF TypeOK, GoTo
<1>7. \A k \in Keys :
        /\ source[k] \in Nat /\ lake[k] \in Nat
        /\ \A q \in Runs : rows[q][k] \in Nat
  BY <1>1 DEF TypeOK
<1>8. \A k \in Keys :
        /\ lake[k] <= lake'[k] /\ lake'[k] <= source[k]
        /\ lake[k] = source[k] => lake'[k] = source[k]
  BY <1>4, <1>5, <1>7 DEF SyncInv, OnlyCommitted
<1>9. OnlyCommitted'
  BY <1>2, <1>5, <1>6, <1>7, <1>8 DEF SyncInv, OnlyCommitted, sourceVars
<1>10. FreshIsNewer'
  BY <1>2, <1>5, <1>6 DEF SyncInv, FreshIsNewer
<1>11. pc'[r] = "merge" \/ (pc'[r] = "advance" /\ B = Present(rows[r]))
  <2>1. pc' = [pc EXCEPT ![r] = IF B = Present(rows[r]) THEN "advance" ELSE "merge"]
    BY <1>3 DEF GoTo
  <2> QED BY <1>1, <2>1 DEF TypeOK
<1>12. RunLocals'
  <2>1. B = Present(rows[r]) => rows'[r] = NoRows
    BY <1>1, <1>3 DEF Present, NoRows, TypeOK
  <2>2. \A q \in Runs :
          wm' = wm /\ wmRead'[q] = wmRead[q] /\ now'[q] = now[q] /\ clock' = clock
    BY <1>2 DEF sourceVars
  <2> QED BY <1>2, <1>6, <1>11, <2>1, <2>2 DEF SyncInv, RunLocals, Earlier, After
<1>13. Accounted'
  <2>1. SUFFICES ASSUME NEW q \in Runs, NEW k \in Keys, source[k] # 0,
                        pc'[q] \in {"upload", "open", "merge", "advance"}
                 PROVE  \/ lake'[k] = source[k] \/ rows'[q][k] = source[k]
                        \/ InReach(source[k], k, newWm[q])
    BY <1>2 DEF Accounted, Present, sourceVars
  <2>2. pc[q] \in {"upload", "open", "merge", "advance"}
    BY <1>2, <1>6, <2>1
  <2>3. lake[k] = source[k] \/ rows[q][k] = source[k] \/ InReach(source[k], k, newWm[q])
    BY <2>1, <2>2 DEF SyncInv, Accounted, Present
  <2> QED BY <1>5, <1>6, <1>8, <2>3
<1>14. NoRowLeftBehind'
  <2>1. source' = source /\ wm' = wm
    BY <1>2 DEF sourceVars
  <2> QED BY <1>8, <2>1 DEF SyncInv, NoRowLeftBehind, Present
<1>15. ASSUME SettledWindows PROVE SettledWindows'
  <2>1. \A q \in Runs : Hi(q)' = Hi(q) /\ Hi(q) \in Int /\ Hi(q) <= clock - SafetyGap
    BY <1>1, <1>2, ConstantsAssumption
       DEF ConstantsAssumption, Hi, TypeOK, TimeInv, InTime
\* Every row held, now or before, was in its window and no other has to change.
  <2>2. \A q \in Runs, k \in Keys : rows'[q][k] = rows[q][k] \/ rows'[q][k] = 0
    BY <1>5, <1>6
  <2>3. ASSUME NEW q \in Runs, NEW k \in Keys, rows[q][k] # 0
        PROVE  /\ rows[q][k] < Hi(q)
               /\ source[k] <= rows[q][k] \/ source[k] >= Hi(q)
               /\ lake[k] <= rows[q][k] \/ lake[k] >= Hi(q)
               /\ \A x \in Runs : rows[x][k] <= rows[q][k] \/ rows[x][k] >= Hi(q)
    BY <1>15, <2>3 DEF SettledWindows, SettledFor, Present
  <2>4. \A k \in Keys : lake'[k] = lake[k] \/ (lake'[k] = rows[r][k] /\ rows[r][k] # 0)
    BY <1>4, <1>5
  <2>5. ASSUME NEW q \in Runs, NEW k \in Keys, rows'[q][k] # 0
        PROVE  /\ rows'[q][k] < Hi(q)
               /\ source[k] <= rows'[q][k] \/ source[k] >= Hi(q)
               /\ lake'[k] <= rows'[q][k] \/ lake'[k] >= Hi(q)
               /\ \A x \in Runs : rows'[x][k] <= rows'[q][k] \/ rows'[x][k] >= Hi(q)
    <3>1. rows'[q][k] = rows[q][k] /\ rows[q][k] # 0
      BY <2>2, <2>5
    <3>2. lake'[k] <= rows[q][k] \/ lake'[k] >= Hi(q)
      BY <2>3, <2>4, <3>1
    <3>3. \A x \in Runs : rows'[x][k] <= rows[q][k] \/ rows'[x][k] >= Hi(q)
      BY <1>7, <2>2, <2>3, <3>1
    <3> QED BY <2>3, <3>1, <3>2, <3>3
  <2>6. \A q \in Runs : /\ \A k \in Present(rows'[q]) : rows'[q][k] < Hi(q)'
                        /\ SettledFor(q, source)' /\ SettledFor(q, lake)'
                        /\ \A x \in Runs : SettledFor(q, rows[x])'
    BY <1>2, <2>1, <2>5 DEF SettledFor, Present, sourceVars
  <2>7. \A k \in Keys : lake'[k] < clock - SafetyGap
    <3>1. SafetyGap \in Nat /\ clock \in Nat
      BY <1>1, ConstantsAssumption DEF ConstantsAssumption, TypeOK
    <3>2. \A k \in Keys : lake[k] < clock - SafetyGap
      BY <1>15 DEF SettledWindows
    <3> QED BY <1>7, <2>1, <2>3, <2>4, <3>1, <3>2
  <2>8. \A q \in Runs : fresh'[q] /\ now'[q] # 0 => \A k \in Keys : lake'[k] < Hi(q)'
    <3>1. \A k \in Keys : now[r] # 0 => lake[k] < Hi(r)
      BY <1>2, <1>15 DEF SettledWindows
    <3> QED BY <1>2, <1>6, <2>1, <2>3, <2>4, <3>1
  <2>9. ASSUME NEW q \in Runs, pc'[q] = "upload", NEW k \in Window(q)'
        PROVE  rows'[q][k] = source'[k]
    <3>1. q # r
      BY <1>11, <2>9
    <3>2. k \in Window(q) /\ pc[q] = "upload" /\ rows'[q] = rows[q]
      BY <1>2, <1>6, <2>1, <2>9, <3>1 DEF Window, Present, InReach, After, sourceVars
    <3> QED BY <1>2, <1>15, <3>2 DEF SettledWindows, sourceVars
  <2> QED BY <1>2, <2>6, <2>7, <2>8, <2>9 DEF SettledWindows, sourceVars
<1> QED BY <1>1, <1>8, <1>9, <1>10, <1>12, <1>13, <1>14, <1>15 DEF SyncInv

\* A run that has forgotten its local state holds nothing.
LEMMA Forgotten ==
  ASSUME SyncInv, TimeInv', NEW r \in Runs, UNCHANGED <<sourceVars, lake>>, Forget(r),
         wm' \in Watermark, ~Earlier(wm', wm), NoRowLeftBehind',
         \A q \in Runs \ {r} : pc'[q] = pc[q],
         pc'[r] \in {"idle", "load", "record"}
  PROVE  SyncInv'
<1>1. TypeOK /\ TypeOK'
  BY DEF SyncInv, TimeInv
<1>2. /\ now'[r] = 0 /\ rows'[r] = NoRows
      /\ wmRead'[r] = Epoch /\ newWm'[r] = Epoch /\ ~fresh'[r]
  BY <1>1 DEF Forget, TypeOK
<1>3. \A q \in Runs \ {r} :
        /\ now'[q] = now[q] /\ rows'[q] = rows[q]
        /\ wmRead'[q] = wmRead[q] /\ newWm'[q] = newWm[q] /\ fresh'[q] = fresh[q]
  BY <1>1 DEF Forget, TypeOK
<1>4. \A k \in Keys : NoRows[k] = 0 /\ source[k] \in Nat
  BY <1>1 DEF NoRows, TypeOK
<1>5. OnlyCommitted' /\ FreshIsNewer'
  BY <1>2, <1>3, <1>4 DEF SyncInv, OnlyCommitted, FreshIsNewer, sourceVars
<1>6. Accounted'
  BY <1>2, <1>3 DEF SyncInv, Accounted, Present, sourceVars
<1>7. RunLocals'
  <2>1. \A w \in Watermark : ~Earlier(wm, w) => ~Earlier(wm', w)
    BY <1>1 DEF TypeOK, Watermark, Earlier, After
  <2>2. Epoch \in Watermark
    BY DEF Epoch, Watermark
  <2>3. ~Earlier(wm', Epoch) /\ \A q \in Runs : ~Earlier(wm', wmRead'[q])
    BY <1>1, <1>2, <1>3, <2>1, <2>2 DEF SyncInv, RunLocals, TypeOK
  <2> QED BY <1>2, <1>3, <2>3 DEF SyncInv, RunLocals
<1>8. ASSUME SettledWindows PROVE SettledWindows'
  <2>1. Present(rows'[r]) = {} /\ \A q \in Runs \ {r} : Hi(q)' = Hi(q)
    BY <1>2, <1>3 DEF Present, NoRows, Hi
  <2>2. ASSUME NEW q \in Runs
        PROVE  /\ \A k \in Present(rows'[q]) : rows'[q][k] < Hi(q)'
               /\ SettledFor(q, source)' /\ SettledFor(q, lake)'
               /\ \A x \in Runs : SettledFor(q, rows[x])'
    <3>1. CASE q = r
      BY <2>1, <3>1 DEF SettledFor
    <3>2. CASE q # r
      <4>1. \A k \in Present(rows[q]) : 0 <= rows[q][k]
        BY <1>1 DEF TypeOK, Present
      <4>2. \A x \in Runs : SettledFor(q, rows[x])'
        BY <1>2, <1>3, <1>8, <2>1, <3>2, <4>1
           DEF SettledWindows, SettledFor, Present, NoRows
      <4> QED BY <1>3, <1>8, <2>1, <3>2, <4>2
              DEF SettledWindows, SettledFor, sourceVars
    <3> QED BY <3>1, <3>2
  <2>3. ASSUME NEW q \in Runs, pc'[q] = "upload", NEW k \in Window(q)'
        PROVE  rows'[q][k] = source'[k]
    <3>1. q # r
      BY <2>3
    <3>2. k \in Window(q) /\ pc[q] = "upload" /\ rows'[q] = rows[q]
      BY <1>3, <2>1, <2>3, <3>1 DEF Window, Present, InReach, After, sourceVars
    <3> QED BY <1>8, <3>2 DEF SettledWindows, sourceVars
  <2> QED BY <1>2, <1>3, <1>8, <2>1, <2>2, <2>3 DEF SettledWindows, sourceVars
<1> QED BY <1>5, <1>6, <1>7, <1>8 DEF SyncInv

\* The watermark moves forward only, and only past rows accounted for.
LEMMA AdvanceWatermarkStep ==
  ASSUME SyncInv, NEW r \in Runs, AdvanceWatermark(r)
  PROVE  SyncInv'
<1>1. TimeInv' /\ TypeOK /\ TypeOK'
  BY TimeStep DEF SyncInv, Next, RunStep, TimeInv
<1>2. UNCHANGED <<sourceVars, lake>> /\ Forget(r)
      /\ pc[r] = "advance" /\ pc' = [pc EXCEPT ![r] = "record"]
      /\ (wm' = wm \/ (wm' = newWm[r] /\ Earlier(wm, newWm[r])))
  BY DEF AdvanceWatermark, GoTo
<1>3. ~Earlier(wm', wm)
  BY <1>1, <1>2 DEF TypeOK, Watermark, Earlier, After
<1>4. NoRowLeftBehind'
  <2>1. \A k \in Present(source) : lake[k] # source[k] => InReach(source[k], k, newWm[r])
    BY <1>2 DEF SyncInv, Accounted, RunLocals, NoRows, Present
  <2> QED BY <1>2, <2>1 DEF SyncInv, NoRowLeftBehind, Present, sourceVars
<1> QED BY <1>1, <1>2, <1>3, <1>4, Forgotten DEF TypeOK

\* The op raises: only its local state is lost.
LEMMA RaiseStep ==
  ASSUME SyncInv, NEW r \in Runs, CommitConflict(r) \/ Fail(r)
  PROVE  SyncInv'
<1>1. TimeInv' /\ TypeOK /\ TypeOK'
  BY TimeStep DEF SyncInv, Next, RunStep, TimeInv
<1>2. UNCHANGED <<sourceVars, lake, wm>> /\ Forget(r)
      /\ pc' = [pc EXCEPT ![r] = pc'[r]] /\ pc'[r] \in {"idle", "load"}
  BY <1>1 DEF CommitConflict, Fail, Raise, GoTo, TypeOK
<1>3. ~Earlier(wm', wm)
  BY <1>1, <1>2 DEF TypeOK, Watermark, Earlier, After
<1>4. NoRowLeftBehind'
  BY <1>2 DEF SyncInv, NoRowLeftBehind, Present, sourceVars
<1> QED BY <1>1, <1>2, <1>3, <1>4, Forgotten DEF TypeOK

\* SyncInv is inductive if windows settle, or while no two live runs of the
\* table stamp the same second.
LEMMA SyncStep ==
  ASSUME SyncInv, [Next]_vars, WindowsSettle \/ DistinctSeconds
  PROVE  SyncInv'
<1>1. CASE Tick \/ \E k \in Keys : SourceWrite(k) \/ SourceAbort(k)
  BY <1>1, SourceStep
<1>2. ASSUME NEW k \in Keys, SourceCommit(k) PROVE SyncInv'
  BY <1>2, CommitStep
<1>3. ASSUME NEW r \in Runs, StartRun(r) \/ LoadTable(r) \/ StampNow(r)
             \/ OpenStaged(r) \/ RecordSync(r)
      PROVE  SyncInv'
  BY <1>3, QuietStep
<1>4. ASSUME NEW r \in Runs, GetWatermark(r) PROVE SyncInv'
  BY <1>4, GetWatermarkStep
<1>5. ASSUME NEW r \in Runs, CopyWindow(r) PROVE SyncInv'
  BY <1>5, CopyWindowStep
<1>6. ASSUME NEW r \in Runs, Upload(r) PROVE SyncInv'
  BY <1>6, UploadStep
<1>7. ASSUME NEW r \in Runs, MergeBatch(r) PROVE SyncInv'
  BY <1>7, MergeBatchStep
<1>8. ASSUME NEW r \in Runs, AdvanceWatermark(r) PROVE SyncInv'
  BY <1>8, AdvanceWatermarkStep
<1>9. ASSUME NEW r \in Runs, CommitConflict(r) \/ Fail(r) PROVE SyncInv'
  BY <1>9, RaiseStep
<1>10. CASE UNCHANGED vars
  <2>1. UNCHANGED <<clock, source, open, lake, wm, pc, tries, fresh, now, wmRead,
                    rows, newWm>>
    BY <1>10 DEF vars
  <2>2. TimeInv'
    BY TimeStep DEF SyncInv
  <2>3. (OnlyCommitted /\ RunLocals /\ FreshIsNewer /\ Accounted /\ NoRowLeftBehind)'
    BY <2>1 DEF SyncInv, OnlyCommitted, RunLocals, FreshIsNewer, Accounted,
       NoRowLeftBehind, Present
  <2>4. SettledWindows => SettledWindows'
    BY <2>1 DEF SettledWindows, SettledFor, Window, InReach, After, Present, Hi
  <2> QED BY <2>2, <2>3, <2>4 DEF SyncInv
<1> QED
  BY <1>1, <1>2, <1>3, <1>4, <1>5, <1>6, <1>7, <1>8, <1>9, <1>10 DEF Next, RunStep

\* The inductive invariant holds in every behaviour of a table with a timestamptz
\* watermark whose safety gap covers the slowest transaction.
THEOREM SyncInvariant ==
  ASSUME WindowsSettle
  PROVE  Spec => []SyncInv
BY SyncInit, SyncStep, PTL DEF Spec

\* No row is ever left behind the watermark: what is not yet replicated is in
\* reach of the next window, for every number of concurrent runs, of the same
\* second or not, every order of their steps and every failure
\* (extract/incremental.py, load/merge.py).
THEOREM RowsAreNotLeftBehind ==
  ASSUME WindowsSettle
  PROVE  Spec => []NoRowLeftBehind
<1>1. SyncInv => NoRowLeftBehind
  BY DEF SyncInv
<1> QED BY <1>1, SyncInvariant, PTL

\* A step other than a merge leaves the lake alone, and a merge only moves it
\* forward.
LEMMA LakeStep ==
  ASSUME SyncInv, [Next]_vars
  PROVE  lake' = lake \/ ((\A k \in Keys : lake[k] <= lake'[k])
                          /\ UNCHANGED source /\ \E r \in Runs : MergeBatch(r))
<1>1. ASSUME NEW r \in Runs, MergeBatch(r)
      PROVE  (\A k \in Keys : lake[k] <= lake'[k]) /\ UNCHANGED source
  BY <1>1, MergeBatchStep DEF MergeBatch, sourceVars
<1>2. CASE \E r \in Runs : MergeBatch(r)
  BY <1>1, <1>2
<1>3. CASE ~ \E r \in Runs : MergeBatch(r)
  BY <1>3 DEF Next, RunStep, Tick, SourceWrite, SourceCommit, SourceAbort, StartRun,
     LoadTable, StampNow, GetWatermark, CopyWindow, Upload, OpenStaged,
     AdvanceWatermark, RecordSync, CommitConflict, Fail, vars
<1> QED BY <1>2, <1>3

LEMMA LakeStepForward ==
  SyncInv /\ [Next]_vars => [\A k \in Keys : lake[k] <= lake'[k]]_vars
<1> SUFFICES ASSUME SyncInv, [Next]_vars, NEW k \in Keys
             PROVE  lake[k] <= lake'[k]
  OBVIOUS
<1>1. lake[k] \in Nat
  BY DEF SyncInv, TimeInv, TypeOK
<1> QED BY <1>1, LakeStep

\* An overwrite never replaces a row of the lake by an older version
\* (load/merge.py: "prefer the new row when updated_at is newer"): the table
\* handle is loaded before the window is fixed and read, and a staged object
\* shared with a run of the same second holds the same versions.
THEOREM LakeMovesForward ==
  ASSUME WindowsSettle
  PROVE  Spec => LakeNeverRegresses
BY LakeStepForward, SyncInvariant, PTL DEF Spec, LakeNeverRegresses

\* A naive or integer watermark, or transactions slower than the safety gap:
\* both promises hold as long as no two live runs of the table stamp the same
\* second, the slack of the overlap alone covering the slow transactions.
THEOREM OneRunPerSecond ==
  Spec /\ []DistinctSeconds => []NoRowLeftBehind /\ LakeNeverRegresses
<1>1. SyncInv => NoRowLeftBehind
  BY DEF SyncInv
<1>2. SyncInv /\ [Next]_vars /\ DistinctSeconds => SyncInv'
  BY SyncStep
<1> QED BY <1>1, <1>2, SyncInit, LakeStepForward, PTL DEF Spec, LakeNeverRegresses

-----------------------------------------------------------------------------
(* Refinement of the abstract replica.                                     *)

LEMMA ReplicaInit == Init => Replica!Init
BY DEF Init, Replica!Init, NoRows

\* Every step of the pipeline is a commit at the source, a catching up of the
\* lake, or no step of the replica at all.
LEMMA ReplicaStep ==
  ASSUME SyncInv, SyncInv', [Next]_vars
  PROVE  [Replica!Next]_<<source, lake>>
<1>1. TypeOK /\ TypeOK'
  BY DEF SyncInv, TimeInv
<1>2. ASSUME NEW k \in Keys, SourceCommit(k) PROVE Replica!Commit(k)
  <2>1. source[k] < open[k] /\ open[k] \in Nat /\ source[k] \in Nat
    BY <1>1, <1>2 DEF SyncInv, TimeInv, InTime, SourceCommit, TypeOK
  <2>2. source'[k] = open[k] /\ source' = [source EXCEPT ![k] = open[k]]
        /\ UNCHANGED lake
    BY <1>1, <1>2 DEF SourceCommit, TypeOK
  <2> QED BY <2>1, <2>2 DEF Replica!Commit
<1>3. ASSUME NEW r \in Runs, MergeBatch(r) PROVE Replica!CatchUp
  <2>1. \A k \in Keys : lake[k] <= lake'[k]
    BY <1>3, MergeBatchStep
  <2>2. UNCHANGED source
    BY <1>3 DEF MergeBatch, sourceVars
  <2>3. \A k \in Keys : lake'[k] <= source'[k]
    BY DEF SyncInv, OnlyCommitted
  <2> QED BY <1>1, <2>1, <2>2, <2>3 DEF Replica!CatchUp, TypeOK
<1>4. CASE (\E k \in Keys : SourceCommit(k)) \/ (\E r \in Runs : MergeBatch(r))
  BY <1>2, <1>3, <1>4 DEF Replica!Next
<1>5. CASE ~ ((\E k \in Keys : SourceCommit(k)) \/ (\E r \in Runs : MergeBatch(r)))
  BY <1>5 DEF Next, RunStep, Tick, SourceWrite, SourceAbort, StartRun, LoadTable,
     StampNow, GetWatermark, CopyWindow, Upload, OpenStaged, AdvanceWatermark,
     RecordSync, CommitConflict, Fail, vars, sourceVars
<1> QED BY <1>4, <1>5

\* With a safety gap that covers the slowest transaction the pipeline implements
\* the abstract replica: nothing it does shows the lake a version that was not
\* committed, or takes one back.
THEOREM ImplementsReplica ==
  ASSUME WindowsSettle
  PROVE  Spec => ReplicatesSource
<1>1. Init => Replica!Init
  BY ReplicaInit
<1>2. SyncInv /\ SyncInv' /\ [Next]_vars => [Replica!Next]_<<source, lake>>
  BY ReplicaStep
<1> QED BY <1>1, <1>2, SyncInvariant, PTL DEF Spec, ReplicatesSource, Replica!Spec
=============================================================================
