-------------------------- MODULE ReconcileProofs --------------------------
(***************************************************************************)
(* Theorems about Reconcile for any number of concurrent passes and        *)
(* incremental runs, any keys and any batch sizes.                         *)
(***************************************************************************)
EXTENDS Reconcile, TLAPS

\* The steps a pass takes once both scans are done.
Judged == {"delete", "reload", "fetch", "load", "merge", "record"}

\* The step after a batch says what is left (load/reconcile.py:67-83).
LEMMA StepForType ==
  ASSUME NEW D, NEW M
  PROVE  /\ StepFor(D, M) \in {"delete", "fetch", "record"}
         /\ StepFor(D, M) = "delete" <=> D # {}
         /\ StepFor(D, M) = "record" <=> D = {} /\ M = {}
BY DEF StepFor

-----------------------------------------------------------------------------
(* Type correctness.                                                       *)

\* A commit keeps the types of what it writes.
LEMMA CommitType ==
  ASSUME NEW a, NEW rows \in [Keys -> Nat], Commit(a, rows), TypeOK
  PROVE  /\ lake' \in [Keys -> Nat] /\ fresh' \in [Actors -> BOOLEAN]
         /\ quiet' \in [Passes -> BOOLEAN]
<1>1. lake' \in [Keys -> Nat]
  BY DEF Commit
<1>2. fresh' \in [Actors -> BOOLEAN]
  BY DEF Commit
<1>3. \A q \in Passes : (q = a /\ quiet[q]) \in BOOLEAN
  OBVIOUS
<1>4. quiet' \in [Passes -> BOOLEAN]
  BY <1>3 DEF Commit
<1> QED BY <1>1, <1>2, <1>4

\* Every step of Next keeps the types.
LEMMA TypeStep == TypeOK /\ [Next]_vars => TypeOK'
<1> SUFFICES ASSUME TypeOK, [Next]_vars PROVE TypeOK'
  OBVIOUS
<1> USE DEF Steps
<1> NoRows \in [Keys -> Nat]
  BY DEF NoRows
<1>1. ASSUME NEW k \in Keys, Write(k) \/ Delete(k) PROVE TypeOK'
  <2>1. CASE Write(k)
    <3>1. stamp[k] + 1 \in Nat
      BY DEF TypeOK
    <3> QED BY <2>1, <3>1 DEF Write, TypeOK, keyVars
  <2>2. CASE Delete(k)
    <3>1. gone' \in [Passes -> SUBSET Keys] /\ quiet' \in [Passes -> BOOLEAN]
      BY <2>2 DEF Delete, TypeOK
    <3> QED BY <2>2, <3>1 DEF Delete, TypeOK, keyVars
  <2> QED BY <1>1, <2>1, <2>2
<1>2. ASSUME NEW s \in Syncs, SyncLoad(s) \/ SyncCopy(s) \/ SyncMerge(s) \/ SyncEnd(s)
      PROVE  TypeOK'
  <2>1. CASE SyncLoad(s)
    BY <2>1 DEF SyncLoad, GoTo, Load, Actors, TypeOK, sourceVars, keyVars, history
  <2>2. CASE SyncCopy(s)
    BY <2>2 DEF SyncCopy, GoTo, Only, Present, Actors, TypeOK, sourceVars, keyVars, history
  <2>3. CASE SyncMerge(s)
    BY <2>3 DEF SyncMerge, Overwrite, Commit, GoTo, Actors, TypeOK, sourceVars, keyVars
  <2>4. CASE SyncEnd(s)
    BY <2>4 DEF SyncEnd, GoTo, Actors, TypeOK, sourceVars, keyVars, history
  <2> QED BY <1>2, <2>1, <2>2, <2>3, <2>4
<1>3. ASSUME NEW p \in Passes, StartPass(p) \/ ScanLake(p) \/ LoadForMerge(p)
      PROVE  TypeOK'
  <2>1. CASE StartPass(p)
    BY <2>1 DEF StartPass, GoTo, Actors, TypeOK, sourceVars, keyVars, history
  <2>2. CASE ScanLake(p)
    BY <2>2 DEF ScanLake, GoTo, Load, Present, Actors, TypeOK, sourceVars
  <2>3. CASE LoadForMerge(p)
    BY <2>3 DEF LoadForMerge, GoTo, Load, Actors, TypeOK, sourceVars, keyVars, history
  <2> QED BY <1>3, <2>1, <2>2, <2>3
<1>4. ASSUME NEW p \in Passes, ScanSource(p) \/ Reload(p) PROVE TypeOK'
  <2>1. CASE ScanSource(p)
    <3>1. doomed' \in [Passes -> SUBSET Keys] /\ missing' \in [Passes -> SUBSET Keys]
      BY <2>1 DEF ScanSource, Present, TypeOK
    <3>2. pc' \in [Actors -> Steps]
      <4>1. StepFor(doomed[p] \ Present(source), Present(source) \ doomed[p]) \in Steps
        BY StepForType
      <4> QED BY <2>1, <4>1 DEF ScanSource, GoTo, TypeOK
    <3> QED BY <2>1, <3>1, <3>2 DEF ScanSource, TypeOK, sourceVars, history
  <2>2. CASE Reload(p)
    BY <2>2, StepForType
       DEF Reload, GoTo, Load, Actors, TypeOK, sourceVars, keyVars, history
  <2> QED BY <1>4, <2>1, <2>2
<1>5. ASSUME NEW p \in Passes, DeleteGhosts(p) PROVE TypeOK'
  <2>1. pc' \in [Actors -> Steps]
    BY <1>5 DEF DeleteGhosts, GoTo, TypeOK
  <2>2. doomed' \in [Passes -> SUBSET Keys]
    BY <1>5 DEF DeleteGhosts, TypeOK
  <2>3. lake' \in [Keys -> Nat] /\ fresh' \in [Actors -> BOOLEAN]
        /\ quiet' \in [Passes -> BOOLEAN]
    <3> PICK B \in SUBSET doomed[p] : IF B \cap Present(lake) = {}
                                    THEN UNCHANGED <<lake, fresh, quiet>>
                                    ELSE Commit(p, Only(lake, Keys \ B))
      BY <1>5 DEF DeleteGhosts
    <3>1. CASE B \cap Present(lake) = {}
      BY <3>1 DEF TypeOK
    <3>2. CASE B \cap Present(lake) # {}
      <4>1. Only(lake, Keys \ B) \in [Keys -> Nat]
        BY DEF Only, TypeOK
      <4>2. Commit(p, Only(lake, Keys \ B))
        BY <3>2
      <4> QED BY <4>1, <4>2, CommitType
    <3> QED BY <3>1, <3>2
  <2> QED BY <1>5, <2>1, <2>2, <2>3 DEF DeleteGhosts, TypeOK, sourceVars
<1>6. ASSUME NEW p \in Passes, FetchMissing(p) PROVE TypeOK'
  <2> PICK B \in SUBSET missing[p] :
        /\ missing' = [missing EXCEPT ![p] = @ \ B]
        /\ held' = [held EXCEPT ![p] = Only(source, B)]
        /\ GoTo(p, IF B \cap Present(source) = {}
                   THEN StepFor({}, missing[p] \ B) ELSE "load")
    BY <1>6 DEF FetchMissing
  <2>1. missing' \in [Passes -> SUBSET Keys]
    BY DEF TypeOK
  <2>2. held' \in [Actors -> [Keys -> Nat]]
    BY DEF Only, TypeOK
  <2>3. pc' \in [Actors -> Steps]
    <3>1. StepFor({}, missing[p] \ B) \in Steps
      BY StepForType
    <3> QED BY <3>1 DEF GoTo, TypeOK
  <2> QED BY <1>6, <2>1, <2>2, <2>3 DEF FetchMissing, TypeOK, sourceVars, history
<1>7. ASSUME NEW p \in Passes, MergeMissing(p) PROVE TypeOK'
  BY <1>7, StepForType
     DEF MergeMissing, Overwrite, Commit, GoTo, Actors, TypeOK, sourceVars, keyVars
<1>8. ASSUME NEW p \in Passes, Record(p) \/ CommitConflict(p) \/ Fail(p) PROVE TypeOK'
  <2>1. Forget(p) /\ UNCHANGED <<sourceVars, lake>>
    BY <1>8 DEF Record, CommitConflict, Fail, Raise
  <2>2. pc' \in [Actors -> Steps]
    BY <1>8 DEF Record, CommitConflict, Fail, Raise, GoTo, TypeOK
  <2>3. fresh' \in [Actors -> BOOLEAN] /\ held' \in [Actors -> [Keys -> Nat]]
    BY <2>1 DEF Forget, TypeOK
  <2>4. /\ doomed' \in [Passes -> SUBSET Keys] /\ missing' \in [Passes -> SUBSET Keys]
        /\ gone' \in [Passes -> SUBSET Keys] /\ quiet' \in [Passes -> BOOLEAN]
    BY <2>1 DEF Forget, TypeOK
  <2> QED BY <2>1, <2>2, <2>3, <2>4 DEF TypeOK, sourceVars
<1>9. CASE UNCHANGED vars
  BY <1>9 DEF vars, TypeOK
<1> QED
  BY <1>1, <1>2, <1>3, <1>4, <1>5, <1>6, <1>7, <1>8, <1>9 DEF Next, PassStep

\* Every variable keeps its type in every behaviour.
THEOREM TypeCorrect == Spec => []TypeOK
<1>1. Init => TypeOK
  BY DEF Init, TypeOK, Steps, NoRows
<1> QED BY <1>1, TypeStep, PTL DEF Spec

-----------------------------------------------------------------------------
(* The inductive invariant: what one pass knows of its two key sets.       *)

\* The parts of ReconcileInv that speak of pass q.
PassInv(q) ==
  /\ pc[q] \notin {"idle", "scanLake"} => Keys \ Present(source) \subseteq gone[q]
  /\ pc[q] \in Judged => doomed[q] \subseteq gone[q]
  /\ pc[q] = "delete" => doomed[q] # {}
  /\ pc[q] \in {"fetch", "load", "merge", "record"} => doomed[q] = {}
  /\ pc[q] = "record" => missing[q] = {}
  /\ pc[q] \notin {"load", "merge"} => held[q] = NoRows
  /\ missing[q] \cap Present(held[q]) = {}
  /\ quiet[q] /\ pc[q] = "scanSource" => doomed[q] = Present(lake)
  /\ quiet[q] /\ pc[q] \in Judged =>
       /\ doomed[q] = Present(lake) \ Present(source)
       /\ missing[q] \cup Present(held[q]) = Present(source) \ Present(lake)

\* The invariant the run checks is the types and these parts.
LEMMA PassInvParts ==
  /\ ReconcileInv => \A q \in Passes : PassInv(q)
  /\ TypeOK /\ (\A q \in Passes : PassInv(q)) => ReconcileInv
<1>1. Present(NoRows) = {}
  BY DEF Present, NoRows
<1>2. ASSUME \A q \in Passes : PassInv(q) PROVE QuietPassAgrees
  <2> SUFFICES ASSUME NEW q \in Passes, pc[q] = "record", quiet[q]
               PROVE  Present(lake) = Present(source)
    BY DEF QuietPassAgrees
  <2>1. doomed[q] = {} /\ missing[q] = {} /\ held[q] = NoRows
    BY <1>2 DEF PassInv
  <2>2. /\ doomed[q] = Present(lake) \ Present(source)
        /\ missing[q] \cup Present(held[q]) = Present(source) \ Present(lake)
    BY <1>2 DEF PassInv, Judged
  <2> QED BY <1>1, <2>1, <2>2
<1>3. ReconcileInv => \A q \in Passes : PassInv(q)
  BY DEF ReconcileInv, DoomedAreGone, QuietDifference, HeldInSteps, PassInv, Judged
<1>4. (\A q \in Passes : PassInv(q)) => DoomedAreGone /\ QuietDifference /\ HeldInSteps
  BY DEF DoomedAreGone, QuietDifference, HeldInSteps, PassInv, Judged
<1> QED BY <1>2, <1>3, <1>4 DEF ReconcileInv

\* What a step that is not q's leaves alone keeps the parts of q: it may add
\* to gone, and it ends q's quiet when it changes a side.
LEMMA OthersKeep ==
  ASSUME NEW q \in Passes, PassInv(q),
         pc'[q] = pc[q], doomed'[q] = doomed[q], missing'[q] = missing[q],
         held'[q] = held[q], gone[q] \subseteq gone'[q],
         Keys \ Present(source') \subseteq (Keys \ Present(source)) \cup gone'[q],
         quiet'[q] => quiet[q] /\ lake' = lake /\ source' = source
  PROVE  PassInv(q)'
BY DEF PassInv, Present

\* The writes of the source.
LEMMA SourceKeeps ==
  ASSUME TypeOK, NEW q \in Passes, PassInv(q),
         NEW k \in Keys, Write(k) \/ Delete(k)
  PROVE  PassInv(q)'
<1>1. gone[q] \subseteq gone'[q] /\ ~quiet'[q]
  BY DEF Write, Delete
<1>2. Keys \ Present(source') \subseteq (Keys \ Present(source)) \cup gone'[q]
  BY DEF Write, Delete, Present, TypeOK
<1> QED BY <1>1, <1>2, OthersKeep DEF Write, Delete, keyVars

\* A commit of another actor ends q's quiet.
LEMMA CommitEndsQuiet ==
  ASSUME NEW a, NEW q \in Passes, q # a, NEW rows, Commit(a, rows)
  PROVE  ~quiet'[q]
BY DEF Commit

\* The steps of the incremental runs.
LEMMA SyncKeeps ==
  ASSUME TypeOK, NEW q \in Passes, PassInv(q), NEW s \in Syncs,
         SyncLoad(s) \/ SyncCopy(s) \/ SyncMerge(s) \/ SyncEnd(s)
  PROVE  PassInv(q)'
<1> s # q /\ q \in Actors
  BY ReconcileAssumption DEF Actors
<1>1. pc'[q] = pc[q]
  BY DEF SyncLoad, SyncCopy, SyncMerge, SyncEnd, GoTo, TypeOK
<1>2. held'[q] = held[q]
  BY DEF SyncLoad, SyncCopy, SyncMerge, SyncEnd, TypeOK
<1>3. doomed' = doomed /\ missing' = missing /\ gone' = gone /\ source' = source
  BY DEF SyncLoad, SyncCopy, SyncMerge, SyncEnd, keyVars, history, sourceVars
<1>4. quiet'[q] => quiet[q] /\ lake' = lake
  <2>1. CASE SyncMerge(s)
    BY <2>1, CommitEndsQuiet DEF SyncMerge, Overwrite
  <2>2. CASE ~SyncMerge(s)
    BY <2>2 DEF SyncLoad, SyncCopy, SyncEnd, history
  <2> QED BY <2>1, <2>2
<1> QED BY <1>1, <1>2, <1>3, <1>4, OthersKeep

\* The steps of another pass.
LEMMA PassesKeep ==
  ASSUME TypeOK, NEW q \in Passes, PassInv(q), NEW p \in Passes, p # q,
         PassStep(p) \/ Fail(p)
  PROVE  PassInv(q)'
<1> q \in Actors
  BY DEF Actors
<1> USE DEF PassStep, TypeOK
<1>1. pc'[q] = pc[q]
  BY DEF StartPass, ScanLake, ScanSource, DeleteGhosts, Reload, FetchMissing,
         LoadForMerge, MergeMissing, Record, CommitConflict, Fail, Raise, GoTo
<1>2. held'[q] = held[q]
  BY DEF StartPass, ScanLake, ScanSource, DeleteGhosts, Reload, FetchMissing,
         LoadForMerge, MergeMissing, Record, CommitConflict, Fail, Raise, Forget
<1>3. doomed'[q] = doomed[q] /\ missing'[q] = missing[q]
  BY DEF StartPass, ScanLake, ScanSource, DeleteGhosts, Reload, FetchMissing,
         LoadForMerge, MergeMissing, Record, CommitConflict, Fail, Raise, Forget, keyVars
<1>4. gone'[q] = gone[q]
  BY DEF StartPass, ScanLake, ScanSource, DeleteGhosts, Reload, FetchMissing,
         LoadForMerge, MergeMissing, Record, CommitConflict, Fail, Raise, Forget, history
<1>5. source' = source
  BY DEF StartPass, ScanLake, ScanSource, DeleteGhosts, Reload, FetchMissing,
         LoadForMerge, MergeMissing, Record, CommitConflict, Fail, Raise, sourceVars
<1>6. quiet'[q] => quiet[q] /\ lake' = lake
  <2>1. CASE DeleteGhosts(p)
    BY <2>1, CommitEndsQuiet DEF DeleteGhosts
  <2>2. CASE MergeMissing(p)
    BY <2>2, CommitEndsQuiet DEF MergeMissing, Overwrite
  <2>3. CASE ~DeleteGhosts(p) /\ ~MergeMissing(p)
    BY <2>3 DEF StartPass, ScanLake, ScanSource, Reload, FetchMissing,
         LoadForMerge, Record, CommitConflict, Fail, Raise, Forget, history
  <2> QED BY <2>1, <2>2, <2>3
<1> QED BY <1>1, <1>2, <1>3, <1>4, <1>5, <1>6, OthersKeep

\* A pass's own steps.
LEMMA OwnStepKeeps ==
  ASSUME TypeOK, NEW p \in Passes, PassInv(p), PassStep(p) \/ Fail(p)
  PROVE  PassInv(p)'
<1> p \in Actors
  BY DEF Actors
<1>e. Present(NoRows) = {}
  BY DEF Present, NoRows
<1>1. CASE StartPass(p)
  <2>1. pc'[p] = "scanLake" /\ held'[p] = NoRows
    BY <1>1 DEF StartPass, GoTo, TypeOK, PassInv
  <2>2. Present(held[p])' = {}
    BY <1>e, <2>1 DEF Present
  <2> QED BY <2>1, <2>2 DEF PassInv, Judged
<1>2. CASE ScanLake(p)
  <2>1. pc'[p] = "scanSource" /\ held'[p] = NoRows
    BY <1>2 DEF ScanLake, GoTo, TypeOK, PassInv
  <2>2. /\ doomed'[p] = Present(lake) /\ lake' = lake /\ source' = source
        /\ gone'[p] = Keys \ Present(source)
    BY <1>2 DEF ScanLake, TypeOK, sourceVars
  <2>3. Present(held[p])' = {} /\ Present(lake)' = Present(lake)
        /\ Present(source)' = Present(source)
    BY <1>e, <2>1, <2>2 DEF Present
  <2> QED BY <2>1, <2>2, <2>3 DEF PassInv, Judged
<1>3. CASE ScanSource(p)
  <2> DEFINE D == doomed[p] \ Present(source)
             M == Present(source) \ doomed[p]
  <2>1. pc'[p] = StepFor(D, M) /\ held'[p] = NoRows
    BY <1>3 DEF ScanSource, GoTo, TypeOK, PassInv
  <2>2. doomed'[p] = D /\ missing'[p] = M
    BY <1>3 DEF ScanSource, TypeOK
  <2>3. lake' = lake /\ source' = source /\ quiet' = quiet /\ gone' = gone
    BY <1>3 DEF ScanSource, sourceVars, history
  <2>4. Present(lake') = Present(lake) /\ Present(source') = Present(source)
    BY <2>3
  <2>5. pc[p] = "scanSource" /\ Keys \ Present(source) \subseteq gone[p]
    BY <1>3 DEF PassInv, ScanSource
  <2>6. D \subseteq gone[p] /\ (quiet[p] => doomed[p] = Present(lake))
    BY <1>3, <2>5 DEF PassInv, TypeOK
  <2> HIDE DEF D, M
  <2>7. /\ pc'[p] \notin {"idle", "scanLake"} => Keys \ Present(source') \subseteq gone'[p]
        /\ pc'[p] \in Judged => doomed'[p] \subseteq gone'[p]
    BY <2>2, <2>3, <2>4, <2>5, <2>6
  <2>8. quiet[p] => /\ D = Present(lake) \ Present(source)
                    /\ M = Present(source) \ Present(lake)
    BY <2>6 DEF D, M
  <2> QED BY <1>e, <2>1, <2>2, <2>3, <2>4, <2>7, <2>8, StepForType DEF PassInv, Judged
<1>4. CASE DeleteGhosts(p)
  <2> PICK B \in SUBSET doomed[p] :
        /\ B # {} /\ doomed' = [doomed EXCEPT ![p] = @ \ B]
        /\ IF B \cap Present(lake) = {}
           THEN UNCHANGED <<lake, fresh, quiet>>
           ELSE Commit(p, Only(lake, Keys \ B))
    BY <1>4 DEF DeleteGhosts, IsBatch
  <2>1. pc[p] = "delete" /\ pc'[p] = "reload"
    BY <1>4 DEF DeleteGhosts, GoTo, TypeOK
  <2>2. /\ held' = held /\ missing' = missing /\ gone' = gone /\ source' = source
        /\ doomed'[p] = doomed[p] \ B /\ Present(source') = Present(source)
    BY <1>4 DEF DeleteGhosts, TypeOK, sourceVars
  <2>3. ASSUME quiet'[p]
        PROVE  /\ doomed'[p] = Present(lake') \ Present(source)
               /\ missing[p] \cup Present(held[p]) = Present(source) \ Present(lake')
    <3>1. quiet[p]
      BY <2>3 DEF Commit
    <3>2. /\ doomed[p] = Present(lake) \ Present(source)
          /\ missing[p] \cup Present(held[p]) = Present(source) \ Present(lake)
      BY <2>1, <3>1 DEF PassInv, Judged
    <3>3. lake' = Only(lake, Keys \ B)
      BY <3>2 DEF Commit
    <3>4. Present(lake') = Present(lake) \ B
      BY <3>3 DEF Only, Present
    <3> QED BY <2>2, <3>2, <3>4
  <2> QED BY <2>1, <2>2, <2>3 DEF PassInv, Judged
<1>5. CASE Reload(p)
  <2>1. pc[p] = "reload" /\ pc'[p] = StepFor(doomed[p], missing[p])
    BY <1>5 DEF Reload, GoTo, TypeOK
  <2>2. UNCHANGED <<source, lake, held, doomed, missing, gone, quiet>>
    BY <1>5 DEF Reload, sourceVars, keyVars, history
  <2> QED BY <2>1, <2>2, StepForType DEF PassInv, Judged, Present
<1>6. CASE FetchMissing(p)
  <2> PICK B \in SUBSET missing[p] :
        /\ missing' = [missing EXCEPT ![p] = @ \ B]
        /\ held' = [held EXCEPT ![p] = Only(source, B)]
        /\ GoTo(p, IF B \cap Present(source) = {}
                   THEN StepFor({}, missing[p] \ B) ELSE "load")
    BY <1>6 DEF FetchMissing
  <2>1. pc[p] = "fetch" /\ UNCHANGED <<source, lake, doomed, gone, quiet>>
    BY <1>6 DEF FetchMissing, sourceVars, history
  <2>2. doomed[p] = {} /\ held[p] = NoRows
    BY <2>1 DEF PassInv
  <2>3. missing'[p] = missing[p] \ B /\ held'[p] = Only(source, B)
    BY DEF TypeOK
  <2>4. Present(held'[p]) = B \cap Present(source)
    BY <2>3 DEF Only, Present, TypeOK
  <2>5. CASE B \cap Present(source) = {}
    <3>1. pc'[p] = StepFor({}, missing'[p])
      BY <2>3, <2>5 DEF GoTo, TypeOK
    <3>2. held'[p] = NoRows
      BY <2>3, <2>5 DEF Only, NoRows, Present, TypeOK
    <3>3. ASSUME quiet[p] PROVE missing[p] = Present(source) \ Present(lake)
      BY <1>e, <2>1, <2>2, <3>3 DEF PassInv, Judged
    <3>4. ASSUME quiet[p] PROVE missing'[p] = missing[p]
      BY <2>3, <2>5, <3>3, <3>4
    <3> QED BY <1>e, <2>1, <2>2, <2>3, <3>1, <3>2, <3>3, <3>4, StepForType
            DEF PassInv, Judged, Present
  <2>6. CASE B \cap Present(source) # {}
    <3>1. pc'[p] = "load"
      BY <2>6 DEF GoTo, TypeOK
    <3>2. ASSUME quiet[p]
          PROVE  missing'[p] \cup Present(held'[p]) = Present(source) \ Present(lake)
      <4>1. missing[p] = Present(source) \ Present(lake)
        BY <1>e, <2>1, <2>2, <3>2 DEF PassInv, Judged
      <4> QED BY <2>3, <2>4, <4>1
    <3>3. missing'[p] \cap Present(held'[p]) = {}
      BY <2>3, <2>4
    <3>4. Present(source') = Present(source) /\ Present(lake') = Present(lake)
          /\ Present(held[p])' = Present(held'[p])
      BY <2>1 DEF Present
    <3> QED BY <2>1, <2>2, <3>1, <3>2, <3>3, <3>4 DEF PassInv, Judged
  <2> QED BY <2>5, <2>6
<1>7. CASE LoadForMerge(p)
  <2>1. pc[p] = "load" /\ pc'[p] = "merge"
    BY <1>7 DEF LoadForMerge, GoTo, TypeOK
  <2>2. UNCHANGED <<source, lake, held, doomed, missing, gone, quiet>>
    BY <1>7 DEF LoadForMerge, sourceVars, keyVars, history
  <2> QED BY <2>1, <2>2 DEF PassInv, Judged, Present
<1>8. CASE MergeMissing(p)
  <2>1. pc[p] = "merge" /\ pc'[p] = StepFor({}, missing[p]) /\ doomed[p] = {}
    BY <1>8 DEF MergeMissing, GoTo, TypeOK, PassInv
  <2>2. UNCHANGED <<source, doomed, missing, gone>> /\ held'[p] = NoRows
    BY <1>8 DEF MergeMissing, sourceVars, keyVars, TypeOK
  <2>3. Present(lake') = Present(lake) \cup Present(held[p])
    BY <1>8 DEF MergeMissing, Overwrite, Commit, Present, TypeOK
  <2>4. quiet'[p] => quiet[p]
    BY <1>8 DEF MergeMissing, Overwrite, Commit
  <2>5. ASSUME quiet[p]
        PROVE  /\ {} = Present(lake') \ Present(source)
               /\ missing[p] = Present(source) \ Present(lake')
    <3>1. /\ {} = Present(lake) \ Present(source)
          /\ missing[p] \cup Present(held[p]) = Present(source) \ Present(lake)
      BY <2>1, <2>5 DEF PassInv, Judged
    <3>2. missing[p] \cap Present(held[p]) = {}
      BY DEF PassInv
    <3> QED BY <2>3, <3>1, <3>2
  <2>6. Present(source') = Present(source) /\ Present(held[p])' = {}
    BY <1>e, <2>2 DEF Present
  <2> QED BY <2>1, <2>2, <2>4, <2>5, <2>6, StepForType DEF PassInv, Judged
<1>9. CASE Record(p) \/ CommitConflict(p) \/ Fail(p)
  <2>1. Forget(p) /\ pc'[p] \in {"idle", "scanLake"}
    BY <1>9 DEF Record, CommitConflict, Fail, Raise, GoTo, TypeOK
  <2>2. held'[p] = NoRows /\ missing'[p] = {}
    BY <2>1 DEF Forget, TypeOK
  <2> QED BY <2>1, <2>2 DEF PassInv, Judged
<1> QED
  BY <1>1, <1>2, <1>3, <1>4, <1>5, <1>6, <1>7, <1>8, <1>9 DEF PassStep

\* The types and every pass's parts are kept by every step.
LEMMA InvStep ==
  ReconcileInv /\ [Next]_vars => ReconcileInv'
<1> SUFFICES ASSUME ReconcileInv, [Next]_vars PROVE ReconcileInv'
  OBVIOUS
<1>1. TypeOK /\ (\A q \in Passes : PassInv(q))
  BY PassInvParts DEF ReconcileInv
<1>2. TypeOK'
  BY <1>1, TypeStep
<1>3. ASSUME NEW q \in Passes PROVE PassInv(q)'
  <2>1. ASSUME NEW k \in Keys, Write(k) \/ Delete(k) PROVE PassInv(q)'
    BY <1>1, <2>1, SourceKeeps
  <2>2. ASSUME NEW s \in Syncs, SyncLoad(s) \/ SyncCopy(s) \/ SyncMerge(s) \/ SyncEnd(s)
        PROVE  PassInv(q)'
    BY <1>1, <2>2, SyncKeeps
  <2>3. ASSUME NEW p \in Passes, PassStep(p) \/ Fail(p) PROVE PassInv(q)'
    BY <1>1, <2>3, PassesKeep, OwnStepKeeps
  <2>4. CASE UNCHANGED vars
    BY <1>1, <2>4 DEF vars, PassInv, Present
  <2> QED BY <2>1, <2>2, <2>3, <2>4 DEF Next
<1>4. (\A q \in Passes : PassInv(q))'
  BY <1>3
<1> QED BY <1>2, <1>4, PassInvParts, PTL

\* The invariant holds of every behaviour, for any batch sizes and any number
\* of concurrent passes and merges.
THEOREM InvariantHolds == Spec => []ReconcileInv
<1>1. Init => ReconcileInv
  <2> SUFFICES ASSUME Init PROVE ReconcileInv
    OBVIOUS
  <2>1. TypeOK
    BY DEF Init, TypeOK, Steps, NoRows
  <2>2. ASSUME NEW q \in Passes PROVE PassInv(q)
    BY DEF Init, PassInv, Judged, Actors, NoRows, Present
  <2> QED BY <2>1, <2>2, PassInvParts
<1> QED BY <1>1, InvStep, PTL DEF Spec

\* A pass that nobody disturbs leaves equal key sets (load/reconcile.py:1).
THEOREM QuietPassesAgree == Spec => []QuietPassAgrees
<1>1. ReconcileInv => QuietPassAgrees
  BY DEF ReconcileInv
<1> QED BY <1>1, InvariantHolds, PTL

\* A row is deleted from the lake only by a pass that found its key absent
\* from the source after its scan of the lake (load/reconcile.py:42).
THEOREM OnlyGhostsAreDeleted == Spec => DeletesOnlyGone
<1> DEFINE Allowed(k) == \E p \in Passes :
                           pc[p] = "delete" /\ pc'[p] = "reload" /\ k \in gone[p]
<1>1. ASSUME ReconcileInv, [Next]_vars, NEW k \in Keys, lake[k] # 0, lake'[k] = 0
      PROVE  Allowed(k)
  <2>1. ASSUME NEW a, Overwrite(a) PROVE FALSE
    <3>1. lake' = [j \in Keys |-> IF held[a][j] # 0 THEN held[a][j] ELSE lake[j]]
      BY <2>1 DEF Overwrite, Commit
    <3> QED BY <1>1, <3>1
  <2>2. PICK p \in Passes : DeleteGhosts(p)
    <3>1. lake' # lake
      BY <1>1
    <3> QED BY <1>1, <2>1, <3>1
            DEF Next, vars, Write, Delete, SyncLoad, SyncCopy, SyncMerge, SyncEnd, PassStep,
                StartPass, ScanLake, ScanSource, Reload, FetchMissing, LoadForMerge,
                MergeMissing, Record, CommitConflict, Fail, Raise
  <2>3. PICK B \in SUBSET doomed[p] :
          IF B \cap Present(lake) = {}
          THEN UNCHANGED <<lake, fresh, quiet>>
          ELSE Commit(p, Only(lake, Keys \ B))
    BY <2>2 DEF DeleteGhosts
  <2>4. lake' = Only(lake, Keys \ B)
    BY <1>1, <2>3 DEF Commit
  <2>5. k \in B
    BY <1>1, <2>4 DEF Only
  <2>6. pc[p] = "delete" /\ pc'[p] = "reload"
    BY <1>1, <2>2 DEF DeleteGhosts, GoTo, ReconcileInv, TypeOK, Actors
  <2>7. doomed[p] \subseteq gone[p]
    BY <1>1, <2>6 DEF ReconcileInv, DoomedAreGone
  <2> QED BY <2>5, <2>6, <2>7
<1>2. ReconcileInv /\ [Next]_vars =>
        [\A k \in Keys : lake[k] # 0 /\ lake'[k] = 0 => Allowed(k)]_vars
  BY <1>1
<1> QED BY <1>2, InvariantHolds, PTL DEF Spec, DeletesOnlyGone
=============================================================================
