------------------------ MODULE TableLifecycleProofs ------------------------
(***************************************************************************)
(* Theorems about TableLifecycle for any runs, columns, partition specs,   *)
(* events and rows.                                                        *)
(***************************************************************************)
EXTENDS TableLifecycle, TLAPS

-----------------------------------------------------------------------------
(* Type correctness.                                                       *)

\* Runs that end keep the types of what they held.
LEMMA EndType ==
  ASSUME TypeOK, NEW S, End(S)
  PROVE  /\ pc' \in [Runs -> Steps]
         /\ want' \in [Runs -> Specs \cup {None}] /\ seen' \in [Runs -> SUBSET Cols]
         /\ fresh' \in [Runs -> SUBSET Parts]
         /\ lo' \in [Runs -> Nat] /\ hi' \in [Runs -> Nat]
BY DEF End, Keeping, TypeOK, Steps

\* The steps of the environment and of the wipe.
LEMMA EnvironmentType == TypeOK /\ (Environment \/ Wipe) => TypeOK'
<1> SUFFICES ASSUME TypeOK, Environment \/ Wipe PROVE TypeOK'
  OBVIOUS
<1> USE DEF TypeOK, source, config, lake, begun, window, history
<1>1. CASE Insert
  BY <1>1 DEF Insert
<1>2. CASE AlterSource
  BY <1>2 DEF AlterSource, Event
<1>3. CASE Reconfigure \/ Outage \/ Recover
  <2>1. events' \in Nat
    BY <1>3 DEF Reconfigure, Outage, Recover, Event
  <2>2. CASE Reconfigure
    BY <2>1, <2>2 DEF Reconfigure
  <2>3. CASE Outage
    BY <2>1, <2>3 DEF Outage
  <2>4. CASE Recover
    BY <2>1, <2>4 DEF Recover
  <2> QED BY <1>3, <2>2, <2>3, <2>4
<1>4. CASE DeleteFolder
  <2>1. events' \in Nat
    BY <1>4 DEF DeleteFolder, Event
  <2> QED BY <1>4, <2>1 DEF DeleteFolder, LoseFiles
<1>5. CASE WipeTables
  <2>1. /\ entry' \in {"none", "live", "orphan"} /\ tspec' \in Specs \cup {None}
        /\ cols' \subseteq Cols /\ rows' \subseteq Nat /\ dropped' \subseteq Nat
        /\ fresh' \in [Runs -> SUBSET Parts]
    BY <1>5 DEF WipeTables, Unregister
  <2>2. entry' = "none" => rows' = {}
    BY <1>5 DEF WipeTables, Unregister
  <2>3. events' \in Nat
    BY <1>5 DEF WipeTables, Event
  <2> QED BY <1>5, <2>1, <2>2, <2>3 DEF WipeTables, WipeSteps
<1>6. CASE WipeFiles
  BY <1>6 DEF WipeFiles, LoseFiles, LoseSomeRows, WipeSteps
<1>7. CASE WipeState
  BY <1>7 DEF WipeState, WipeSteps
<1>8. CASE WipeRuns
  <2> HIDE DEF TypeOK
  <2>1. PICK S : End(S)
    BY <1>8 DEF WipeRuns
  <2> QED BY <1>8, <2>1, EndType DEF WipeRuns, WipeSteps, TypeOK
<1>9. CASE WipeAborts
  BY <1>9 DEF WipeAborts, WipeSteps
<1> QED
  BY <1>1, <1>2, <1>3, <1>4, <1>5, <1>6, <1>7, <1>8, <1>9 DEF Environment, Wipe

\* The steps of a run.
LEMMA RunType ==
  ASSUME TypeOK, NEW r \in Runs, RunStep(r) \/ RunError(r)
  PROVE  TypeOK'
<1> USE DEF TypeOK, source, config, lake, begun, window, history
<1>1. CASE Start(r)
  BY <1>1 DEF Start, GoTo, Steps
<1>2. CASE Open(r)
  BY <1>2 DEF Open, GoTo, Steps
<1>3. CASE Probe(r) \/ LoseRace(r) \/ Skip(r)
  BY <1>3 DEF Probe, LoseRace, Skip, GoTo, Steps
<1>4. CASE Drop(r) \/ DropFails(r)
  <2>1. pc' \in [Runs -> Steps]
    BY <1>4 DEF Drop, DropFails, DropStep, GoTo, Steps
  <2>2. fresh' \in [Runs -> SUBSET Parts]
    BY <1>4 DEF Drop, DropFails, Unregister
  <2> QED BY <1>4, <2>1, <2>2 DEF Drop, DropFails, Unregister
<1>5. CASE Create(r)
  <2>1. pc' \in [Runs -> Steps]
    BY <1>5 DEF Create, GoTo, Steps
  <2> QED BY <1>5, <2>1 DEF Create, Register
<1>6. CASE LoadToEvolve(r) \/ LoadToUse(r)
  BY <1>6 DEF LoadToEvolve, LoadToUse, Load, GoTo, Steps
<1>7. CASE Union(r) \/ Prune(r)
  <2>1. pc' \in [Runs -> Steps]
    BY <1>7 DEF Union, Prune, GoTo, Steps
  <2>2. cols' \subseteq Cols /\ fresh' \in [Runs -> SUBSET Parts]
    BY <1>7 DEF Union, Prune, SetCols, Changed
  <2> QED BY <1>7, <2>1, <2>2 DEF Union, Prune, SetCols
<1>8. CASE Extract(r)
  BY <1>8 DEF Extract, GoTo, Steps
<1>9. CASE Merge(r)
  <2>1. pc' \in [Runs -> Steps] /\ fresh' \in [Runs -> SUBSET Parts]
    BY <1>9 DEF Merge, Changed, GoTo, Steps
  <2>2. lo[r] \in Nat /\ hi[r] \in Nat /\ rows \subseteq Nat
    OBVIOUS
  <2>3. rows' = rows \cup (lo[r] + 1 .. hi[r])
    BY <1>9 DEF Merge
  <2> HIDE DEF TypeOK
  <2>4. rows' \subseteq Nat
    <3>1. (lo[r] + 1 .. hi[r]) \subseteq Nat
      <4> SUFFICES ASSUME NEW l \in Nat, NEW h \in Nat PROVE (l + 1 .. h) \subseteq Nat
        BY <2>2
      <4> QED OBVIOUS
    <3> QED BY <2>2, <2>3, <3>1
  <2>5. entry = "live"
    BY <1>9 DEF Merge, MayChange, Loadable
  <2>6. /\ UNCHANGED <<produced, srcCols, spec, s3up, events, entry, tspec, cols, wm>>
        /\ UNCHANGED <<want, seen, lo, hi, wipe, dropped, calm>>
    BY <1>9 DEF Merge
  <2> QED BY <2>1, <2>4, <2>5, <2>6 DEF TypeOK
<1>10. CASE Advance(r) \/ Fail(r)
  <2>1. End({r}) /\ wm' \in Nat
    BY <1>10 DEF Advance, Fail
  <2> HIDE DEF TypeOK
  <2> QED BY <1>10, <2>1, EndType DEF Advance, Fail, TypeOK
<1> QED
  BY <1>1, <1>2, <1>3, <1>4, <1>5, <1>6, <1>7, <1>8, <1>9, <1>10
     DEF RunStep, RunError, Conflict

-----------------------------------------------------------------------------
(* The inductive invariant: which rows the watermark and the windows cover. *)

\* Rows 1 to k are in the lake, or were in a table that is no more.
Covered(k) == \A n \in 1 .. k : n \in rows \cup dropped
InLake(k) == \A n \in 1 .. k : n \in rows

\* The parts of LifecycleInv that speak of run r.
RunInv(r) ==
  /\ pc[r] \in {"merge", "advance"} => Covered(lo[r]) /\ (calm => InLake(lo[r]))
  /\ pc[r] = "advance" => Covered(hi[r]) /\ (calm => InLake(hi[r]))

\* And those that speak of the watermark and the wipe.
WipeInv ==
  /\ Covered(wm)
  /\ calm =>
       IF wipe \in {"files", "state"} THEN InFlight = {} ELSE InLake(wm)

LEMMA LifecycleInvParts ==
  LifecycleInv <=> TypeOK /\ WipeInv /\ (\A r \in Runs : RunInv(r))
BY DEF LifecycleInv, NeverSkipped, WindowsAdjoin, CalmWindows, WipeInv, RunInv,
       Covered, InLake

\* A run in neither of the last two steps owes nothing.
LEMMA Elsewhere ==
  ASSUME NEW r \in Runs, pc'[r] \notin {"merge", "advance"}
  PROVE  RunInv(r)'
BY DEF RunInv

\* A run keeps its parts while rows only leave the lake for dropped, and calm
\* ends when they do.
LEMMA RunKeeps ==
  ASSUME NEW r \in Runs, RunInv(r), pc'[r] = pc[r], lo'[r] = lo[r], hi'[r] = hi[r],
         rows \cup dropped \subseteq rows' \cup dropped',
         calm' => calm /\ rows \subseteq rows'
  PROVE  RunInv(r)'
BY DEF RunInv, Covered, InLake

\* So does the watermark.
LEMMA WipeKeeps ==
  ASSUME WipeInv, wm' = wm, wipe' = wipe,
         rows \cup dropped \subseteq rows' \cup dropped',
         calm' => calm /\ rows \subseteq rows',
         calm' /\ wipe \in {"files", "state"} => InFlight' \subseteq InFlight
  PROVE  WipeInv'
BY DEF WipeInv, Covered, InLake

\* The parts of a run in the steps of the environment.
LEMMA EnvironmentKeeps ==
  ASSUME TypeOK, WipeInv, \A r \in Runs : RunInv(r), Environment
  PROVE  WipeInv' /\ (\A r \in Runs : RunInv(r))'
<1>1. /\ UNCHANGED <<pc, lo, hi, wm, wipe>>
      /\ rows \cup dropped \subseteq rows' \cup dropped'
      /\ calm' => calm /\ rows \subseteq rows'
  BY DEF Environment, Insert, AlterSource, Reconfigure, Outage, Recover,
         DeleteFolder, LoseFiles, window, lake, history
<1>2. InFlight' = InFlight
  BY <1>1 DEF InFlight
<1> QED BY <1>1, <1>2, RunKeeps, WipeKeeps

\* Rows leave the lake for dropped only.
LEMMA RowsMove ==
  ASSUME Unregister \/ LoseFiles \/ LoseSomeRows
  PROVE  rows \cup dropped \subseteq rows' \cup dropped'
BY DEF Unregister, LoseFiles, LoseSomeRows

\* The steps of the wipe.
LEMMA WipeStepKeeps ==
  ASSUME TypeOK, WipeInv, \A r \in Runs : RunInv(r), Wipe
  PROVE  WipeInv' /\ (\A r \in Runs : RunInv(r))'
<1>1. CASE WipeTables
  <2>1. rows \cup dropped \subseteq rows' \cup dropped'
    BY <1>1, RowsMove DEF WipeTables, lake
  <2>2. /\ UNCHANGED <<pc, lo, hi, wm>> /\ wipe' = "files"
        /\ calm' => calm /\ InFlight = {}
    BY <1>1 DEF WipeTables, window
  <2>3. InFlight' = InFlight
    BY <2>2 DEF InFlight
  <2>4. WipeInv'
    BY <2>1, <2>2, <2>3 DEF WipeInv, Covered
  <2>5. ASSUME NEW r \in Runs PROVE RunInv(r)'
    <3>1. CASE InFlight = {}
      BY <2>2, <3>1, Elsewhere DEF InFlight
    <3>2. CASE InFlight # {}
      BY <2>1, <2>2, <3>2, RunKeeps
    <3> QED BY <3>1, <3>2
  <2> QED BY <2>4, <2>5
<1>2. CASE WipeFiles
  <2>1. rows \cup dropped \subseteq rows' \cup dropped'
    BY <1>2, RowsMove DEF WipeFiles, lake
  <2>2. UNCHANGED <<pc, lo, hi, wm, calm>> /\ wipe = "files" /\ wipe' = "state"
    BY <1>2 DEF WipeFiles, window
  <2>3. InFlight' = InFlight /\ (calm => InFlight = {})
    BY <2>2 DEF InFlight, WipeInv
  <2>4. WipeInv'
    BY <2>1, <2>2, <2>3 DEF WipeInv, Covered
  <2>5. ASSUME NEW r \in Runs PROVE RunInv(r)'
    <3>1. CASE InFlight = {}
      BY <2>2, <3>1, Elsewhere DEF InFlight
    <3>2. CASE ~calm
      BY <2>1, <2>2, <3>2, RunKeeps
    <3> QED BY <2>3, <3>1, <3>2
  <2> QED BY <2>4, <2>5
<1>3. CASE WipeState
  <2>1. wm' = 0 /\ wipe' = "runs" /\ UNCHANGED <<pc, lo, hi, rows, dropped, calm>>
    BY <1>3 DEF WipeState, window, lake, history
  <2>2. ~(\E n \in 1 .. 0 : TRUE)
    OBVIOUS
  <2> QED BY <2>1, <2>2, RunKeeps DEF WipeInv, Covered, InLake
<1>4. CASE WipeRuns
  <2>1. wipe = "runs" /\ wipe' = "idle" /\ UNCHANGED <<rows, dropped, wm, calm>>
    BY <1>4 DEF WipeRuns, lake, history
  <2>2. ASSUME NEW r \in Runs
        PROVE  \/ pc'[r] = "idle"
               \/ pc'[r] = pc[r] /\ lo'[r] = lo[r] /\ hi'[r] = hi[r]
    <3>1. PICK S \in SUBSET InFlight : End(S)
      BY <1>4 DEF WipeRuns
    <3>2. CASE r \in S
      BY <3>1, <3>2 DEF End, Keeping
    <3>3. CASE r \notin S
      BY <3>1, <3>3 DEF End, Keeping
    <3> QED BY <3>2, <3>3
  <2>3. WipeInv'
    BY <2>1 DEF WipeInv, Covered, InLake
  <2>4. ASSUME NEW r \in Runs PROVE RunInv(r)'
    BY <2>1, <2>2, Elsewhere, RunKeeps
  <2> QED BY <2>3, <2>4
<1>5. CASE WipeAborts
  <2>1. UNCHANGED <<pc, lo, hi, rows, dropped, wm>> /\ ~calm'
    BY <1>5 DEF WipeAborts, window, lake
  <2> QED BY <2>1, RunKeeps DEF WipeInv, Covered
<1> QED BY <1>1, <1>2, <1>3, <1>4, <1>5 DEF Wipe

\* A step of run s before its extraction, or its end without a watermark:
\* rows leave the lake only when calm ends.
LEMMA QuietStepKeeps ==
  ASSUME TypeOK, WipeInv, \A r \in Runs : RunInv(r), NEW s \in Runs,
         pc'[s] \notin {"merge", "advance"},
         \A r \in Runs \ {s} : pc'[r] = pc[r] /\ lo'[r] = lo[r] /\ hi'[r] = hi[r],
         wm' = wm, wipe' = wipe,
         rows \cup dropped \subseteq rows' \cup dropped',
         calm' => calm /\ rows \subseteq rows',
         calm' /\ wipe \in {"files", "state"} => pc[s] # "idle"
  PROVE  WipeInv' /\ (\A r \in Runs : RunInv(r))'
<1>1. InFlight' \subseteq InFlight \cup {s}
  BY DEF InFlight
<1>2. calm' /\ wipe \in {"files", "state"} => InFlight' \subseteq InFlight
  BY <1>1 DEF InFlight
<1>3. WipeInv'
  BY <1>2, WipeKeeps
<1>4. ASSUME NEW r \in Runs PROVE RunInv(r)'
  BY Elsewhere, RunKeeps
<1> QED BY <1>3, <1>4

\* The steps of a run.
LEMMA RunStepKeeps ==
  ASSUME TypeOK, WipeInv, \A r \in Runs : RunInv(r), NEW s \in Runs,
         RunStep(s) \/ RunError(s)
  PROVE  WipeInv' /\ (\A r \in Runs : RunInv(r))'
<1>1. CASE Start(s)
  <2>1. /\ pc'[s] = "open" /\ \A r \in Runs \ {s} : pc'[r] = pc[r]
        /\ UNCHANGED <<lo, hi, wm, wipe, rows, dropped>> /\ calm' = (calm /\ wipe = "idle")
    BY <1>1 DEF Start, GoTo, TypeOK, window, lake
  <2> QED BY <2>1, QuietStepKeeps
<1>2. CASE Open(s) \/ Probe(s) \/ LoseRace(s) \/ Skip(s) \/ DropFails(s)
           \/ LoadToEvolve(s) \/ LoadToUse(s)
  <2>1. /\ pc[s] # "idle" /\ pc'[s] \notin {"merge", "advance"}
        /\ \A r \in Runs \ {s} : pc'[r] = pc[r]
    BY <1>2 DEF Open, Probe, LoseRace, Skip, DropFails, DropStep, LoadToEvolve,
                LoadToUse, GoTo, TypeOK
  <2>2. UNCHANGED <<lo, hi, wm, wipe, rows, dropped, calm>>
    BY <1>2 DEF Open, Probe, LoseRace, Skip, DropFails, LoadToEvolve, LoadToUse,
                window, lake, history
  <2> QED BY <2>1, <2>2, QuietStepKeeps
<1>3. CASE Drop(s)
  <2>1. /\ pc[s] # "idle" /\ pc'[s] \notin {"merge", "advance"}
        /\ \A r \in Runs \ {s} : pc'[r] = pc[r]
    BY <1>3 DEF Drop, DropStep, GoTo, TypeOK
  <2>2. UNCHANGED <<lo, hi, wm, wipe>> /\ (calm' => calm /\ rows = {})
    BY <1>3 DEF Drop, window
  <2>3. rows \cup dropped \subseteq rows' \cup dropped'
    BY <1>3, RowsMove DEF Drop
  <2> QED BY <2>1, <2>2, <2>3, QuietStepKeeps
<1>4. CASE Create(s)
  <2>1. /\ pc[s] # "idle" /\ pc'[s] \notin {"merge", "advance"}
        /\ \A r \in Runs \ {s} : pc'[r] = pc[r]
    BY <1>4 DEF Create, GoTo, TypeOK
  <2>2. UNCHANGED <<lo, hi, wm, wipe, dropped, calm>> /\ rows = {}
    BY <1>4 DEF Create, Register, window, history, TypeOK
  <2> QED BY <2>1, <2>2, QuietStepKeeps
<1>5. CASE Union(s) \/ Prune(s)
  <2>1. /\ pc[s] # "idle" /\ pc'[s] \notin {"merge", "advance"}
        /\ \A r \in Runs \ {s} : pc'[r] = pc[r]
    BY <1>5 DEF Union, Prune, GoTo, TypeOK
  <2>2. UNCHANGED <<lo, hi, wm, wipe, rows, dropped, calm>>
    BY <1>5 DEF Union, Prune, SetCols, window, history
  <2> QED BY <2>1, <2>2, QuietStepKeeps
<1>6. CASE Fail(s)
  <2>1. /\ pc[s] # "idle" /\ pc'[s] = "idle"
        /\ \A r \in Runs \ {s} : pc'[r] = pc[r] /\ lo'[r] = lo[r] /\ hi'[r] = hi[r]
    BY <1>6 DEF Fail, End, Keeping
  <2>2. UNCHANGED <<wm, wipe, rows, dropped, calm>>
    BY <1>6 DEF Fail, lake, history
  <2> QED BY <2>1, <2>2, QuietStepKeeps
<1>7. CASE Extract(s)
  <2>1. /\ pc[s] = "extract"
        /\ pc'[s] = IF produced > wm THEN "merge" ELSE "advance"
        /\ lo'[s] = wm /\ (~(produced > wm) => hi'[s] = wm)
        /\ \A r \in Runs \ {s} : pc'[r] = pc[r] /\ lo'[r] = lo[r] /\ hi'[r] = hi[r]
    BY <1>7 DEF Extract, GoTo, TypeOK
  <2>2. UNCHANGED <<wm, wipe, rows, dropped, calm>>
    BY <1>7 DEF Extract, lake, history
  <2>3. s \in InFlight /\ InFlight' = InFlight
    BY <2>1 DEF InFlight
  <2>4. WipeInv'
    BY <2>2, <2>3, WipeKeeps
  <2>5. Covered(wm) /\ (calm => InLake(wm))
    BY <2>3 DEF WipeInv
  <2>6. RunInv(s)'
    BY <2>1, <2>2, <2>5 DEF RunInv, Covered, InLake
  <2>7. ASSUME NEW r \in Runs PROVE RunInv(r)'
    BY <2>1, <2>2, <2>6, RunKeeps
  <2> QED BY <2>4, <2>7
<1>8. CASE Merge(s)
  <2>1. /\ pc[s] = "merge" /\ pc'[s] = "advance"
        /\ \A r \in Runs \ {s} : pc'[r] = pc[r]
        /\ UNCHANGED <<lo, hi, wm, wipe, dropped, calm>>
        /\ rows' = rows \cup (lo[s] + 1 .. hi[s])
    BY <1>8 DEF Merge, GoTo, TypeOK, window, history
  <2>2. InFlight' = InFlight
    BY <2>1 DEF InFlight
  <2>3. WipeInv'
    BY <2>1, <2>2, WipeKeeps
  <2>4. lo[s] \in Nat /\ hi[s] \in Nat
    BY DEF TypeOK
  <2>5. \A n \in 1 .. hi[s] : n \in 1 .. lo[s] \/ n \in lo[s] + 1 .. hi[s]
    BY <2>4
  <2>6. Covered(lo[s]) /\ (calm => InLake(lo[s]))
    BY <2>1 DEF RunInv
  <2>7. RunInv(s)'
    BY <2>1, <2>5, <2>6 DEF RunInv, Covered, InLake
  <2>8. ASSUME NEW r \in Runs PROVE RunInv(r)'
    BY <2>1, <2>7, RunKeeps
  <2> QED BY <2>3, <2>8
<1>9. CASE Advance(s)
  <2>1. /\ pc[s] = "advance" /\ pc'[s] = "idle"
        /\ \A r \in Runs \ {s} : pc'[r] = pc[r] /\ lo'[r] = lo[r] /\ hi'[r] = hi[r]
    BY <1>9 DEF Advance, End, Keeping
  <2>2. wm' \in {wm, hi[s]} /\ UNCHANGED <<wipe, rows, dropped, calm>>
    BY <1>9 DEF Advance, lake, history
  <2>3. Covered(hi[s]) /\ (calm => InLake(hi[s])) /\ s \in InFlight
    BY <2>1 DEF RunInv, InFlight
  <2>4. WipeInv'
    BY <2>2, <2>3 DEF WipeInv, Covered, InLake
  <2>5. ASSUME NEW r \in Runs PROVE RunInv(r)'
    BY <2>1, <2>2, Elsewhere, RunKeeps
  <2> QED BY <2>4, <2>5
<1> QED
  BY <1>1, <1>2, <1>3, <1>4, <1>5, <1>6, <1>7, <1>8, <1>9
     DEF RunStep, RunError, Conflict

\* The invariant of every behaviour, for any number of runs and events.
THEOREM InvariantHolds == Spec => []LifecycleInv
<1>1. Init => LifecycleInv
  <2> SUFFICES ASSUME Init PROVE LifecycleInv
    OBVIOUS
  <2>1. TypeOK
    BY LifecycleAssumption DEF Init, TypeOK, Steps, WipeSteps
  <2>2. ~(\E n \in 1 .. 0 : TRUE)
    OBVIOUS
  <2> QED BY <2>1, <2>2, LifecycleInvParts DEF Init, WipeInv, RunInv, Covered, InLake
<1>2. LifecycleInv /\ [Next]_vars => LifecycleInv'
  <2> SUFFICES ASSUME LifecycleInv, [Next]_vars PROVE LifecycleInv'
    OBVIOUS
  <2>1. TypeOK /\ WipeInv /\ (\A r \in Runs : RunInv(r))
    BY LifecycleInvParts
  <2>2. TypeOK'
    <3>1. CASE UNCHANGED vars
      BY <2>1, <3>1 DEF vars, source, config, lake, begun, window, history, TypeOK
    <3> QED BY <2>1, <3>1, EnvironmentType, RunType DEF Next
  <2>3. WipeInv' /\ (\A r \in Runs : RunInv(r))'
    <3>1. CASE UNCHANGED vars
      <4>1. UNCHANGED <<pc, lo, hi, wm, wipe, rows, dropped, calm>>
        BY <3>1 DEF vars, lake, window, history
      <4>2. InFlight' = InFlight
        BY <4>1 DEF InFlight
      <4> QED BY <2>1, <4>1, <4>2, RunKeeps, WipeKeeps
    <3> QED BY <2>1, <3>1, EnvironmentKeeps, WipeStepKeeps, RunStepKeeps DEF Next
  <2> QED BY <2>2, <2>3, LifecycleInvParts, PTL
<1> QED BY <1>1, <1>2, PTL DEF Spec

\* No row at or below the watermark was never in a table (README.md:258).
THEOREM WatermarkSkipsNothing == Spec => []NeverSkipped
<1>1. LifecycleInv => NeverSkipped
  BY DEF LifecycleInv
<1> QED BY <1>1, InvariantHolds, PTL

\* While nothing was dropped and no run was beside a wipe, the rows at or below
\* the watermark are in the lake (gateway/app.py:321).
THEOREM CalmWatermarkIsCovered == Spec => []QuietlyCovered
<1>1. LifecycleInv => QuietlyCovered
  BY DEF LifecycleInv, CalmWindows, QuietlyCovered
<1> QED BY <1>1, InvariantHolds, PTL
=============================================================================
