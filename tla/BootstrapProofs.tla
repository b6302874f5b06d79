-------------------------- MODULE BootstrapProofs --------------------------
(***************************************************************************)
(* Proofs about Bootstrap: for every number of runs, chunks, retries and    *)
(* commit attempts, what is recorded DONE is committed and final, and no    *)
(* try lists its object twice.                                              *)
(***************************************************************************)
EXTENDS Bootstrap, TLAPS

\* What a worker knows at each of its steps about the table and its record.
WorkerKnows ==
  \A r \in Runs, c \in ChunkIds :
    /\ pc[r][c] \in {"copy", "upload", "load", "add", "mark"} => state[r][c] # "DONE"
    /\ RefusesListed /\ pc[r][c] = "add" => base[r][c][r][c] = 0
    /\ pc[r][c] = "mark" => table[r][c] >= 1 \/ got[r][c] = NoRows

IInv == TypeOK /\ WorkerKnows /\ DoneMeansCommitted /\ (RefusesListed => AddedOnce)

LEMMA NoRowsType == NoRows \in [Keys -> Nat] /\ Present(NoRows) = {}
  BY DEF NoRows, Present

LEMMA InitInv == Init => IInv
<1> SUFFICES ASSUME Init PROVE IInv
  OBVIOUS
<1> USE BootstrapAssumption, NoRowsType
<1>1. \A S, v : v \in S => PerChunk(v) \in [Runs -> [ChunkIds -> S]]
  BY DEF PerChunk
<1>2. Epoch \in Watermark BY DEF Epoch, Watermark
<1>3. TypeOK
  <2>1. table \in Files BY <1>1 DEF Init, Files
  <2>2. base \in [Runs -> [ChunkIds -> Files]] BY <1>1, <2>1 DEF Init
  <2>3. 0 \in 0..MaxRetries /\ 0 \in 0..(MaxAttempts - 1)
        /\ "none" \in Steps /\ "none" \in {"none", "RUNNING", "DONE", "FAILED"}
    BY DEF Steps
  <2>4. /\ tries \in [Runs -> [ChunkIds -> 0..MaxRetries]]
        /\ attempt \in [Runs -> [ChunkIds -> 0..(MaxAttempts - 1)]]
        /\ pc \in [Runs -> [ChunkIds -> Steps]]
        /\ state \in [Runs -> [ChunkIds -> {"none", "RUNNING", "DONE", "FAILED"}]]
    BY <1>1, <2>3 DEF Init
  <2>5. /\ got \in [Runs -> [ChunkIds -> [Keys -> Nat]]]
        /\ object \in [Runs -> [ChunkIds -> [Keys -> Nat]]]
    BY <1>1 DEF Init
  <2>6. /\ txn \in Nat /\ source \in [Keys -> Nat] /\ phase \in [Runs -> Phases]
        /\ snap \in [Runs -> [Keys -> Nat]] /\ plan \in [Runs -> SUBSET Chunk]
        /\ max \in [Runs -> Watermark] /\ wm \in Watermark
    BY <1>2 DEF Init, Phases
  <2> QED BY <2>1, <2>2, <2>4, <2>5, <2>6 DEF TypeOK
<1>4. WorkerKnows /\ DoneMeansCommitted /\ AddedOnce
  BY DEF Init, WorkerKnows, DoneMeansCommitted, AddedOnce, PerChunk
<1> QED BY <1>3, <1>4 DEF IInv

-----------------------------------------------------------------------------
(* Types.                                                                  *)

LEMMA UpdateType ==
  ASSUME NEW S, NEW f \in [Runs -> [ChunkIds -> S]],
         NEW r \in Runs, NEW c \in ChunkIds, NEW v \in S
  PROVE  [f EXCEPT ![r][c] = v] \in [Runs -> [ChunkIds -> S]]
<1>1. [f[r] EXCEPT ![c] = v] \in [ChunkIds -> S] OBVIOUS
<1> QED BY <1>1

LEMMA UpdateValue ==
  ASSUME NEW S, NEW f \in [Runs -> [ChunkIds -> S]],
         NEW r \in Runs, NEW c \in ChunkIds, NEW v
  PROVE  \A q \in Runs, d \in ChunkIds :
           [f EXCEPT ![r][c] = v][q][d] = IF q = r /\ d = c THEN v ELSE f[q][d]
  OBVIOUS

StepsType(f) == f \in [Runs -> [ChunkIds -> Steps]]
TriesType(f) == f \in [Runs -> [ChunkIds -> 0..MaxRetries]]
StateType(f) == f \in [Runs -> [ChunkIds -> {"none", "RUNNING", "DONE", "FAILED"}]]

LEMMA GoToType ==
  ASSUME StepsType(pc), NEW r \in Runs, NEW c \in ChunkIds, NEW s \in Steps, GoTo(r, c, s)
  PROVE  StepsType(pc')
<1>1. pc \in [Runs -> [ChunkIds -> Steps]] BY DEF StepsType
<1> QED BY <1>1, UpdateType DEF GoTo, StepsType

LEMMA PutType ==
  ASSUME StateType(state), NEW r \in Runs, NEW c \in ChunkIds,
         NEW s \in {"none", "RUNNING", "DONE", "FAILED"}, Put(r, c, s)
  PROVE  StateType(state')
<1>1. state \in [Runs -> [ChunkIds -> {"none", "RUNNING", "DONE", "FAILED"}]] BY DEF StateType
<1> QED BY <1>1, UpdateType DEF Put, StateType

LEMMA RaiseType ==
  ASSUME StepsType(pc), TriesType(tries), NEW r \in Runs, NEW c \in ChunkIds, Raise(r, c)
  PROVE  StepsType(pc') /\ TriesType(tries')
<1>0. tries \in [Runs -> [ChunkIds -> 0..MaxRetries]] BY DEF TriesType
<1>1. CASE tries[r][c] < MaxRetries
  <2>1. tries[r][c] + 1 \in 0..MaxRetries BY <1>0, <1>1, BootstrapAssumption
  <2>2. [tries EXCEPT ![r][c] = tries[r][c] + 1] \in [Runs -> [ChunkIds -> 0..MaxRetries]]
    BY <1>0, <2>1, UpdateType
  <2>3. "ready" \in Steps BY DEF Steps
  <2> QED BY <1>1, <2>2, <2>3, GoToType DEF Raise, TriesType
<1>2. CASE ~(tries[r][c] < MaxRetries)
  <2>1. "failed" \in Steps BY DEF Steps
  <2> QED BY <1>2, <2>1, GoToType DEF Raise, TriesType
<1> QED BY <1>1, <1>2

\* Every step of a worker keeps the types.
LEMMA WorkerType ==
  ASSUME TypeOK, NEW r \in Runs, NEW c \in ChunkIds, WorkerStep(r, c) \/ Fail(r, c)
  PROVE  TypeOK'
<1> DEFINE Rest == /\ txn \in Nat /\ source \in [Keys -> Nat] /\ phase \in [Runs -> Phases]
                   /\ snap \in [Runs -> [Keys -> Nat]] /\ plan \in [Runs -> SUBSET Chunk]
                   /\ max \in [Runs -> Watermark] /\ wm \in Watermark
           Attempts(f) == f \in [Runs -> [ChunkIds -> 0..(MaxAttempts - 1)]]
           Got(f) == f \in [Runs -> [ChunkIds -> [Keys -> Nat]]]
           Base(f) == f \in [Runs -> [ChunkIds -> Files]]
<1>0. /\ Rest /\ StepsType(pc) /\ TriesType(tries) /\ StateType(state)
      /\ Attempts(attempt) /\ Got(got) /\ Got(object) /\ Base(base) /\ table \in Files
  BY DEF TypeOK, StepsType, TriesType, StateType
<1>00. ASSUME Rest', StepsType(pc'), TriesType(tries'), StateType(state'),
              Attempts(attempt'), Got(got'), Got(object'), Base(base'), table' \in Files
       PROVE  TypeOK'
  BY <1>00 DEF TypeOK, StepsType, TriesType, StateType
<1>1. \A s \in Steps : GoTo(r, c, s) => StepsType(pc')
  BY <1>0, GoToType
<1>2. \A s \in {"RUNNING", "DONE", "FAILED"} : Put(r, c, s) => StateType(state')
  BY <1>0, PutType
<1>3. {"ready", "copy", "upload", "load", "add", "mark", "return", "returned"} \subseteq Steps
  BY DEF Steps
<1>4. CASE Begin(r, c)
  <2>1. StepsType(pc') /\ StateType(state')
    BY <1>0, <1>1, <1>2, <1>3, <1>4 DEF Begin
  <2>2. 0 \in 0..(MaxAttempts - 1) BY BootstrapAssumption
  <2>3. Attempts(attempt') BY <1>0, <1>4, <2>2, UpdateType DEF Begin
  <2> HIDE DEF Attempts, Got, Base
  <2> QED BY <1>0, <1>00, <1>4, <2>1, <2>3 DEF Begin
<1>5. CASE CopyChunk(r, c)
  <2>1. PICK rows \in [Keys -> Nat] :
          /\ got' = [got EXCEPT ![r][c] = rows]
          /\ GoTo(r, c, IF rows = NoRows THEN "mark" ELSE "upload")
    <3> DEFINE view == IF Attachable(r) THEN snap[r] ELSE source
               rows == [k \in Keys |-> IF k \in KeysOf(r, c) THEN view[k] ELSE 0]
    <3>1. rows \in [Keys -> Nat] BY <1>0
    <3> QED BY <1>5, <3>1 DEF CopyChunk
  <2>2. Got(got') BY <1>0, <2>1, UpdateType
  <2>3. StepsType(pc') BY <1>1, <1>3, <2>1
  <2>4. UNCHANGED <<txn, source, phase, snap, plan, tries, attempt, base, state,
                    object, table, max, wm>>
    BY <1>5 DEF CopyChunk
  <2> HIDE DEF Attempts, Got, Base
  <2> QED BY <1>0, <1>00, <2>2, <2>3, <2>4
<1>6. CASE UploadChunk(r, c)
  <2>1. StepsType(pc') BY <1>1, <1>3, <1>6 DEF UploadChunk
  <2>2. Got(object') BY <1>0, <1>6, UpdateType DEF UploadChunk
  <2> HIDE DEF Attempts, Got, Base
  <2> QED BY <1>0, <1>00, <1>6, <2>1, <2>2 DEF UploadChunk
<1>7. CASE LoadTable(r, c)
  <2>1. Base(base') BY <1>0, <1>7, UpdateType DEF LoadTable
  <2>2. StepsType(pc') /\ TriesType(tries') /\ StateType(state')
    BY <1>0, <1>1, <1>2, <1>3, <1>7, RaiseType DEF LoadTable
  <2> HIDE DEF Attempts, Got, Base
  <2> QED BY <1>0, <1>00, <1>7, <2>1, <2>2 DEF LoadTable
<1>8. CASE AddFiles(r, c)
  <2>1. base[r][c] \in [Runs -> [ChunkIds -> Nat]] BY <1>0 DEF Files
  <2>2. base[r][c][r][c] + 1 \in Nat BY <2>1
  <2>3. table' = [base[r][c] EXCEPT ![r][c] = base[r][c][r][c] + 1]
    BY <1>8 DEF AddFiles
  <2>4. table' \in Files BY <2>1, <2>2, <2>3, UpdateType DEF Files
  <2>5. StepsType(pc') BY <1>1, <1>3, <1>8 DEF AddFiles
  <2> HIDE DEF Attempts, Got, Base
  <2> QED BY <1>0, <1>00, <1>8, <2>4, <2>5 DEF AddFiles
<1>9. CASE CommitConflict(r, c)
  <2>1. StepsType(pc') /\ TriesType(tries') /\ StateType(state')
    BY <1>0, <1>1, <1>2, <1>3, <1>9, RaiseType DEF CommitConflict
  <2>2. Attempts(attempt')
    <3>1. CASE attempt[r][c] + 1 < MaxAttempts
      <4>1. attempt[r][c] + 1 \in 0..(MaxAttempts - 1)
        BY <1>0, <3>1, BootstrapAssumption
      <4>2. attempt' = [attempt EXCEPT ![r][c] = attempt[r][c] + 1]
        BY <1>9, <3>1 DEF CommitConflict
      <4> QED BY <1>0, <4>1, <4>2, UpdateType
    <3>2. CASE ~(attempt[r][c] + 1 < MaxAttempts)
      BY <1>0, <1>9, <3>2 DEF CommitConflict
    <3> QED BY <3>1, <3>2
  <2> HIDE DEF Attempts, Got, Base
  <2> QED BY <1>0, <1>00, <1>9, <2>1, <2>2 DEF CommitConflict
<1>10. CASE MarkDone(r, c)
  <2>1. StepsType(pc') /\ StateType(state')
    BY <1>1, <1>2, <1>3, <1>10 DEF MarkDone
  <2> HIDE DEF Attempts, Got, Base
  <2> QED BY <1>0, <1>00, <1>10, <2>1 DEF MarkDone
<1>11. CASE Return(r, c)
  <2>1. StepsType(pc') BY <1>1, <1>3, <1>11 DEF Return
  <2> HIDE DEF Attempts, Got, Base
  <2> QED BY <1>0, <1>00, <1>11, <2>1 DEF Return
<1>12. CASE Fail(r, c)
  <2>1. StepsType(pc') /\ TriesType(tries') /\ StateType(state')
    BY <1>0, <1>2, <1>12, RaiseType DEF Fail
  <2> HIDE DEF Attempts, Got, Base
  <2> QED BY <1>0, <1>00, <1>12, <2>1 DEF Fail
<1> QED BY <1>4, <1>5, <1>6, <1>7, <1>8, <1>9, <1>10, <1>11, <1>12 DEF WorkerStep

\* Every step of a run, and of the source, keeps the types.
LEMMA RunType ==
  ASSUME TypeOK,
         \/ \E W \in SUBSET Keys : SourceCommit(W)
         \/ \E r \in Runs : ExportSnapshot(r) \/ RunStep(r) \/ RunDies(r)
  PROVE  TypeOK'
<1> USE BootstrapAssumption DEF TypeOK
<1>1. ASSUME NEW W \in SUBSET Keys, SourceCommit(W) PROVE TypeOK'
  BY <1>1 DEF SourceCommit, workerVars
<1>2. ASSUME NEW r \in Runs, ExportSnapshot(r) PROVE TypeOK'
  BY <1>2 DEF ExportSnapshot, workerVars, Phases
<1>3. ASSUME NEW r \in Runs, PlanNothing(r) PROVE TypeOK'
  BY <1>3 DEF PlanNothing, workerVars, Phases
<1>4. ASSUME NEW r \in Runs, PlanChunks(r) PROVE TypeOK'
  <2>1. PICK lo \in Present(source), hi \in Present(source), s \in ChunkSteps :
          plan' = [plan EXCEPT ![r] = {p \in Ranges(lo, hi, s) : state[r][p.id] # "DONE"}]
    BY <1>4 DEF PlanChunks
  <2>2. lo \in Nat /\ hi \in Nat /\ s \in Nat \ {0} BY DEF Present
  <2>3. Ranges(lo, hi, s) \subseteq Chunk
    <3>1. (hi - lo) \div s \in Int BY <2>2
    <3>2. \A i \in 0..((hi - lo) \div s) :
            i \in Nat /\ lo + i * s \in Int /\ lo + (i + 1) * s \in Int /\ hi + 1 \in Int
      BY <2>2, <3>1
    <3> QED BY <3>2 DEF Ranges, Chunk
  <2>4. plan' \in [Runs -> SUBSET Chunk] BY <2>1, <2>3
  <2>5. pc' \in [Runs -> [ChunkIds -> Steps]] BY <1>4 DEF PlanChunks, Steps
  <2> QED BY <1>4, <2>4, <2>5 DEF PlanChunks, Phases
<1>5. ASSUME NEW r \in Runs, ReadMaximum(r) PROVE TypeOK'
  <2>1. max' \in [Runs -> Watermark]
    <3>1. CASE Present(source) = {} BY <1>5, <3>1 DEF ReadMaximum
    <3>2. CASE Present(source) # {}
      <4>1. PICK k \in Present(source), id \in {0} \cup Present(source) :
              max' = [max EXCEPT ![r] = [val |-> source[k], id |-> id]]
        BY <1>5, <3>2 DEF ReadMaximum
      <4>2. [val |-> source[k], id |-> id] \in Watermark BY DEF Present, Watermark
      <4> QED BY <4>1, <4>2
    <3> QED BY <3>1, <3>2
  <2> QED BY <1>5, <2>1 DEF ReadMaximum, workerVars, Phases
<1>6. ASSUME NEW r \in Runs, SeedWatermark(r) PROVE TypeOK'
  <2>1. wm' \in Watermark BY <1>6 DEF SeedWatermark
  <2> QED BY <1>6, <2>1 DEF SeedWatermark, workerVars, Phases
<1>7. ASSUME NEW r \in Runs, SeedFails(r) PROVE TypeOK'
  BY <1>7 DEF SeedFails, workerVars, Phases
<1>8. ASSUME NEW r \in Runs, RunFails(r) PROVE TypeOK'
  BY <1>8 DEF RunFails, workerVars, Phases
<1>9. ASSUME NEW r \in Runs, RunDies(r) PROVE TypeOK'
  <2>1. pc' \in [Runs -> [ChunkIds -> Steps]] BY <1>9 DEF RunDies, Steps
  <2> QED BY <1>9, <2>1 DEF RunDies, Phases
<1> QED BY <1>1, <1>2, <1>3, <1>4, <1>5, <1>6, <1>7, <1>8, <1>9 DEF RunStep

LEMMA NextType == TypeOK /\ [Next]_vars => TypeOK'
<1>1. TypeOK /\ UNCHANGED vars => TypeOK' BY DEF TypeOK, vars
<1> QED BY <1>1, WorkerType, RunType DEF Next

-----------------------------------------------------------------------------
(* The invariant.                                                          *)

WorkerInv(q, d) ==
  /\ pc[q][d] \in {"copy", "upload", "load", "add", "mark"} => state[q][d] # "DONE"
  /\ RefusesListed /\ pc[q][d] = "add" => base[q][d][q][d] = 0
  /\ pc[q][d] = "mark" => table[q][d] >= 1 \/ got[q][d] = NoRows
  /\ state[q][d] = "DONE" => table[q][d] >= 1 \/ got[q][d] = NoRows
  /\ RefusesListed => table[q][d] <= 1

\* What DoneIsFinal says of a step and one chunk.
DoneStays(q, d) ==
  state[q][d] = "DONE" => state'[q][d] # "RUNNING" /\ object'[q][d] = object[q][d]

LEMMA IInvByWorker ==
  IInv <=> TypeOK /\ \A q \in Runs, d \in ChunkIds : WorkerInv(q, d)
  BY DEF IInv, WorkerKnows, DoneMeansCommitted, AddedOnce, WorkerInv

\* A step of one worker keeps what every worker knows, and begins no chunk and
\* writes no object recorded DONE.
LEMMA WorkerKeeps ==
  ASSUME IInv, NEW r \in Runs, NEW c \in ChunkIds, WorkerStep(r, c) \/ Fail(r, c),
         NEW q \in Runs, NEW d \in ChunkIds
  PROVE  WorkerInv(q, d)' /\ DoneStays(q, d)
<1>1. TypeOK /\ WorkerInv(q, d) BY IInvByWorker
<1>2. \A s : GoTo(r, c, s) => pc'[q][d] = IF q = r /\ d = c THEN s ELSE pc[q][d]
  BY <1>1, UpdateValue DEF TypeOK, GoTo
<1>3. \A s : Put(r, c, s) => state'[q][d] = IF q = r /\ d = c THEN s ELSE state[q][d]
  BY <1>1, UpdateValue DEF TypeOK, Put
<1>4. Raise(r, c) => pc'[q][d] = pc[q][d] \/ pc'[q][d] \in {"ready", "failed"}
  BY <1>2 DEF Raise
<1> USE DEF WorkerInv, DoneStays
<1>5. CASE Begin(r, c)
  BY <1>1, <1>2, <1>3, <1>5 DEF Begin
<1>6. CASE CopyChunk(r, c)
  <2>1. PICK rows :
          /\ got' = [got EXCEPT ![r][c] = rows]
          /\ GoTo(r, c, IF rows = NoRows THEN "mark" ELSE "upload")
    BY <1>6 DEF CopyChunk
  <2>2. got'[q][d] = IF q = r /\ d = c THEN rows ELSE got[q][d]
    BY <1>1, <2>1, UpdateValue DEF TypeOK
  <2> QED BY <1>1, <1>2, <1>6, <2>1, <2>2 DEF CopyChunk
<1>7. CASE UploadChunk(r, c)
  <2>1. object'[q][d] = IF q = r /\ d = c THEN got[r][c] ELSE object[q][d]
    BY <1>1, <1>7, UpdateValue DEF TypeOK, UploadChunk
  <2> QED BY <1>1, <1>2, <1>7, <2>1 DEF UploadChunk
<1>8. CASE LoadTable(r, c)
  <2>1. base'[q][d] = IF q = r /\ d = c THEN table ELSE base[q][d]
    BY <1>1, <1>8, UpdateValue DEF TypeOK, LoadTable
  <2>2. pc'[q][d] = pc[q][d] \/ pc'[q][d] \in {"ready", "failed"}
        \/ (q = r /\ d = c /\ (RefusesListed => table[r][c] = 0) /\ pc'[q][d] = "add")
    BY <1>2, <1>4, <1>8 DEF LoadTable
  <2>3. state'[q][d] = state[q][d] \/ state'[q][d] = "FAILED"
    BY <1>3, <1>8 DEF LoadTable
  <2>4. pc[r][c] = "load" /\ UNCHANGED <<got, object, table>> BY <1>8 DEF LoadTable
  <2>5. RefusesListed /\ pc'[q][d] = "add" => base'[q][d][q][d] = 0
    <3>1. CASE q = r /\ d = c
      <4>1. RefusesListed /\ pc'[q][d] = "add" => table[r][c] = 0 BY <2>2, <2>4, <3>1
      <4> QED BY <2>1, <3>1, <4>1
    <3>2. CASE ~(q = r /\ d = c)
      <4>1. pc'[q][d] = "add" => pc[q][d] = "add" BY <2>2, <3>2
      <4> QED BY <1>1, <2>1, <3>2, <4>1
    <3> QED BY <3>1, <3>2
  <2>6. pc'[q][d] \in {"copy", "upload", "load", "add", "mark"} => state'[q][d] # "DONE"
    BY <1>1, <2>2, <2>3, <2>4
  <2> QED BY <1>1, <2>2, <2>3, <2>4, <2>5, <2>6
<1>9. CASE AddFiles(r, c)
  <2>1. pc[r][c] = "add" /\ base[r][c] = table /\ GoTo(r, c, "mark")
        /\ table' = [base[r][c] EXCEPT ![r][c] = base[r][c][r][c] + 1]
        /\ UNCHANGED <<got, base, state, object>>
    BY <1>9 DEF AddFiles
  <2>2. WorkerInv(r, c) BY IInvByWorker
  <2>3. RefusesListed => table[r][c] = 0 BY <2>1, <2>2
  <2>4. table \in [Runs -> [ChunkIds -> Nat]] BY <1>1 DEF TypeOK, Files
  <2>5. table'[q][d] = IF q = r /\ d = c THEN table[r][c] + 1 ELSE table[q][d]
    BY <2>1, <2>4, UpdateValue
  <2>6. table[r][c] \in Nat BY <2>4
  <2>7. CASE q = r /\ d = c
    <3>1. pc'[q][d] = "mark" /\ table'[q][d] >= 1 /\ (RefusesListed => table'[q][d] <= 1)
      BY <1>2, <2>1, <2>3, <2>5, <2>6, <2>7
    <3>2. state'[q][d] # "DONE" BY <1>1, <2>1, <2>7
    <3> QED BY <2>1, <3>1, <3>2
  <2>8. CASE ~(q = r /\ d = c) BY <1>1, <1>2, <2>1, <2>5, <2>8
  <2> QED BY <2>7, <2>8
<1>10. CASE CommitConflict(r, c)
  <2>1. pc'[q][d] = pc[q][d] \/ pc'[q][d] \in {"ready", "failed"}
        \/ (q = r /\ d = c /\ pc'[q][d] = "load")
    BY <1>2, <1>4, <1>10 DEF CommitConflict
  <2>2. state'[q][d] = state[q][d] \/ state'[q][d] = "FAILED"
    BY <1>3, <1>10 DEF CommitConflict
  <2>3. pc[r][c] = "add" /\ UNCHANGED <<got, base, object, table>>
    BY <1>10 DEF CommitConflict
  <2> QED BY <1>1, <2>1, <2>2, <2>3
<1>11. CASE MarkDone(r, c)
  BY <1>1, <1>2, <1>3, <1>11 DEF MarkDone
<1>12. CASE Return(r, c)
  BY <1>1, <1>2, <1>12 DEF Return
<1>13. CASE Fail(r, c)
  <2>1. state'[q][d] = state[q][d] \/ state'[q][d] = "FAILED"
    BY <1>3, <1>13 DEF Fail
  <2> QED BY <1>1, <1>4, <1>13, <2>1 DEF Fail
<1> QED BY <1>5, <1>6, <1>7, <1>8, <1>9, <1>10, <1>11, <1>12, <1>13 DEF WorkerStep

\* A step of a run or of the source starts workers or ends them, and does nothing
\* to their chunks.
LEMMA RunMoves ==
  ASSUME TypeOK,
         \/ \E W \in SUBSET Keys : SourceCommit(W)
         \/ \E r \in Runs : ExportSnapshot(r) \/ RunStep(r) \/ RunDies(r)
         \/ UNCHANGED vars
  PROVE  /\ UNCHANGED <<got, base, state, object, table>>
         /\ \A q \in Runs, d \in ChunkIds :
              pc'[q][d] = pc[q][d] \/ pc'[q][d] \in {"none", "ready", "failed"}
<1>1. UNCHANGED <<got, base, state, object, table>>
  BY DEF SourceCommit, ExportSnapshot, RunStep, PlanNothing, PlanChunks, ReadMaximum,
         SeedWatermark, SeedFails, RunFails, RunDies, workerVars, vars
<1>2. ASSUME NEW q \in Runs, NEW d \in ChunkIds
      PROVE  pc'[q][d] = pc[q][d] \/ pc'[q][d] \in {"none", "ready", "failed"}
  <2>1. ASSUME NEW r \in Runs, PlanChunks(r)
        PROVE  pc'[q][d] = pc[q][d] \/ pc'[q][d] \in {"none", "ready", "failed"}
    BY <2>1 DEF PlanChunks, TypeOK
  <2>2. ASSUME NEW r \in Runs, RunDies(r)
        PROVE  pc'[q][d] = pc[q][d] \/ pc'[q][d] \in {"none", "ready", "failed"}
    BY <2>2 DEF RunDies, TypeOK
  <2>3. CASE UNCHANGED pc BY <2>3
  <2> QED BY <2>1, <2>2, <2>3 DEF SourceCommit, ExportSnapshot, RunStep, PlanNothing,
             ReadMaximum, SeedWatermark, SeedFails, RunFails, workerVars, vars
<1> QED BY <1>1, <1>2

\* So what every worker knows stays true of it.
LEMMA RunKeeps ==
  ASSUME IInv,
         \/ \E W \in SUBSET Keys : SourceCommit(W)
         \/ \E r \in Runs : ExportSnapshot(r) \/ RunStep(r) \/ RunDies(r)
         \/ UNCHANGED vars,
         NEW q \in Runs, NEW d \in ChunkIds
  PROVE  WorkerInv(q, d)' /\ DoneStays(q, d)
<1>1. TypeOK /\ WorkerInv(q, d) BY IInvByWorker
<1>2. /\ UNCHANGED <<got, base, state, object, table>>
      /\ pc'[q][d] = pc[q][d] \/ pc'[q][d] \in {"none", "ready", "failed"}
  BY <1>1, RunMoves
<1> QED BY <1>1, <1>2 DEF WorkerInv, DoneStays

LEMMA NextInv ==
  IInv /\ [Next]_vars =>
    /\ IInv'
    /\ \A q \in Runs, d \in ChunkIds : DoneStays(q, d)
<1> SUFFICES ASSUME IInv, [Next]_vars
             PROVE  /\ IInv'
                    /\ \A q \in Runs, d \in ChunkIds : DoneStays(q, d)
  OBVIOUS
<1>1. TypeOK' BY NextType DEF IInv
<1>2. \A q \in Runs, d \in ChunkIds :
        WorkerInv(q, d)' /\ DoneStays(q, d)
  BY WorkerKeeps, RunKeeps DEF Next
<1>3. IInv' <=> TypeOK' /\ \A q \in Runs, d \in ChunkIds : WorkerInv(q, d)'
  BY DEF IInv, WorkerKnows, DoneMeansCommitted, AddedOnce, WorkerInv
<1> QED BY <1>1, <1>2, <1>3

LEMMA InvHolds == Spec => []IInv
  BY InitInv, NextInv, PTL DEF Spec

-----------------------------------------------------------------------------
(* Theorems.                                                               *)

\* Every variable keeps its type, for all constants; in particular no op is
\* tried more often than its retry policy and commit_files_with_retry allow.
THEOREM TypeCorrect == Spec => []TypeOK
<1>1. IInv => TypeOK BY DEF IInv
<1> QED BY <1>1, InvHolds, PTL

\* With any number of runs, workers, retries and commit attempts, a chunk
\* recorded DONE is listed in the table, or had no rows.
THEOREM DoneIsCommitted == Spec => []DoneMeansCommitted
<1>1. IInv => DoneMeansCommitted BY DEF IInv
<1> QED BY <1>1, InvHolds, PTL

\* With an add_files that refuses what is listed, no retry and no conflict makes the
\* table list a chunk's object twice.
THEOREM FilesAreAddedOnce == ASSUME RefusesListed PROVE Spec => []AddedOnce
<1>1. IInv => AddedOnce BY DEF IInv
<1> QED BY <1>1, InvHolds, PTL

\* A chunk recorded DONE is not begun again and its object not written, while
\* it is so recorded.
THEOREM DoneObjectsStay == Spec => DoneIsFinal
<1>1. IInv /\ [Next]_vars =>
        [\A r \in Runs, c \in ChunkIds :
           state[r][c] = "DONE" => /\ state'[r][c] # "RUNNING"
                                   /\ object'[r][c] = object[r][c]]_vars
  BY NextInv DEF DoneStays
<1> QED BY <1>1, InvHolds, PTL DEF Spec, DoneIsFinal
-----------------------------------------------------------------------------
(* A try lists its chunk once.                                             *)

\* A chunk has been listed at most once by each try that is over, and only the try
\* that is past its commit may have listed it too.
TryInv(q, d) ==
  /\ phase[q] \in {"idle", "planning"} => pc[q][d] = "none"
  /\ pc[q][d] = "none" => table[q][d] = 0
  /\ pc[q][d] \in {"ready", "copy", "upload", "load", "add"} => table[q][d] <= tries[q][d]
  /\ table[q][d] <= tries[q][d] + 1

TriesInv == TypeOK /\ \A q \in Runs, d \in ChunkIds : TryInv(q, d)

LEMMA TriesInit == Init => TriesInv
<1> SUFFICES ASSUME Init PROVE TriesInv
  OBVIOUS
<1>1. \A q \in Runs, d \in ChunkIds : pc[q][d] = "none" /\ table[q][d] = 0 /\ tries[q][d] = 0
  BY DEF Init, PerChunk
<1> QED BY <1>1, InitInv DEF TriesInv, TryInv, IInv

LEMMA WorkerTries ==
  ASSUME TriesInv, NEW r \in Runs, NEW c \in ChunkIds, WorkerStep(r, c) \/ Fail(r, c),
         NEW q \in Runs, NEW d \in ChunkIds
  PROVE  TryInv(q, d)'
<1>1. TypeOK /\ TryInv(q, d) BY DEF TriesInv
<1>t. table[q][d] \in Nat /\ tries[q][d] \in Nat
  BY <1>1 DEF TypeOK, Files
<1>2. \A s : GoTo(r, c, s) => pc'[q][d] = IF q = r /\ d = c THEN s ELSE pc[q][d]
  BY <1>1, UpdateValue DEF TypeOK, GoTo
<1>3. Raise(r, c) =>
        IF q = r /\ d = c
        THEN \/ pc'[q][d] = "ready" /\ tries'[q][d] = tries[q][d] + 1
             \/ pc'[q][d] = "failed" /\ tries'[q][d] = tries[q][d]
        ELSE pc'[q][d] = pc[q][d] /\ tries'[q][d] = tries[q][d]
  <2>1. tries \in [Runs -> [ChunkIds -> 0..MaxRetries]]
    BY <1>1 DEF TypeOK
  <2>2. tries' = [tries EXCEPT ![r][c] = tries[r][c] + 1] =>
          tries'[q][d] = IF q = r /\ d = c THEN tries[r][c] + 1 ELSE tries[q][d]
    BY <2>1, UpdateValue
  <2> QED BY <1>2, <2>2 DEF Raise
<1>p. phase' = phase
  BY DEF WorkerStep, Fail, Begin, CopyChunk, UploadChunk, LoadTable, AddFiles, CommitConflict,
     MarkDone, Return
<1> USE <1>1, <1>t, <1>p DEF TryInv
<1>4. CASE Begin(r, c)
  BY <1>2, <1>4 DEF Begin
<1>5. CASE CopyChunk(r, c)
  <2>1. /\ UNCHANGED <<table, tries>> /\ pc[r][c] = "copy"
        /\ GoTo(r, c, "mark") \/ GoTo(r, c, "upload")
    BY <1>5 DEF CopyChunk
  <2> QED BY <1>2, <2>1
<1>6. CASE UploadChunk(r, c)
  BY <1>2, <1>6 DEF UploadChunk
<1>7. CASE LoadTable(r, c) \/ CommitConflict(r, c)
  <2>1. /\ table' = table /\ pc[r][c] \in {"load", "add"}
        /\ \/ tries' = tries /\ (GoTo(r, c, "add") \/ GoTo(r, c, "load"))
           \/ Raise(r, c)
    BY <1>7 DEF LoadTable, CommitConflict
  <2> QED BY <1>2, <1>3, <2>1
<1>8. CASE AddFiles(r, c)
  <2>1. pc[r][c] = "add" /\ tries' = tries /\ GoTo(r, c, "mark")
        /\ table' = [table EXCEPT ![r][c] = table[r][c] + 1]
    BY <1>8 DEF AddFiles
  <2>2. table'[q][d] = IF q = r /\ d = c THEN table[r][c] + 1 ELSE table[q][d]
    BY <2>1, UpdateValue DEF TypeOK, Files
  <2> QED BY <1>2, <2>1, <2>2
<1>9. CASE MarkDone(r, c) \/ Return(r, c)
  BY <1>2, <1>9 DEF MarkDone, Return
<1>10. CASE Fail(r, c)
  <2>1. table' = table /\ pc[r][c] # "none" /\ Raise(r, c)
    BY <1>10 DEF Fail, Over
  <2> QED BY <1>3, <2>1
<1> QED BY <1>4, <1>5, <1>6, <1>7, <1>8, <1>9, <1>10 DEF WorkerStep

LEMMA RunTries ==
  ASSUME TriesInv,
         \/ \E W \in SUBSET Keys : SourceCommit(W)
         \/ \E r \in Runs : ExportSnapshot(r) \/ RunStep(r) \/ RunDies(r)
         \/ UNCHANGED vars,
         NEW q \in Runs, NEW d \in ChunkIds
  PROVE  TryInv(q, d)'
<1>1. /\ TryInv(q, d) /\ phase \in [Runs -> Phases] /\ pc \in [Runs -> [ChunkIds -> Steps]]
  BY DEF TriesInv, TypeOK
<1>2. UNCHANGED <<table, tries>>
  BY DEF SourceCommit, ExportSnapshot, RunStep, PlanNothing, PlanChunks, ReadMaximum,
         SeedWatermark, SeedFails, RunFails, RunDies, workerVars, vars
<1>t. table[q][d] \in Nat /\ tries[q][d] \in Nat
  BY DEF TriesInv, TypeOK, Files
<1>3. ASSUME NEW r \in Runs, PlanChunks(r) PROVE TryInv(q, d)'
  <2>1. CASE q = r
    <3>1. phase[q] = "planning" /\ phase'[q] \in {"running", "finished"}
          /\ pc'[q][d] \in {"none", "ready"}
      BY <1>1, <1>3, <2>1 DEF PlanChunks
    <3>2. table[q][d] = 0
      BY <1>1, <3>1 DEF TryInv
    <3> QED BY <1>2, <1>t, <3>1, <3>2 DEF TryInv
  <2>2. CASE q # r
    <3>1. phase'[q] = phase[q] /\ pc'[q] = pc[q]
      BY <1>1, <1>3, <2>2 DEF PlanChunks
    <3> QED BY <1>1, <1>2, <3>1 DEF TryInv
  <2> QED BY <2>1, <2>2
<1>4. ASSUME NEW r \in Runs, RunDies(r) PROVE TryInv(q, d)'
  <2>1. CASE q = r
    <3>1. phase'[q] = "failed" /\ pc'[q][d] \in {pc[q][d], "failed"}
      BY <1>1, <1>4, <2>1 DEF RunDies
    <3> QED BY <1>1, <1>2, <3>1 DEF TryInv
  <2>2. CASE q # r
    <3>1. phase'[q] = phase[q] /\ pc'[q] = pc[q]
      BY <1>1, <1>4, <2>2 DEF RunDies
    <3> QED BY <1>1, <1>2, <3>1 DEF TryInv
  <2> QED BY <2>1, <2>2
<1>5. ASSUME pc' = pc, phase'[q] = phase[q] \/ phase[q] = "idle" \/ phase'[q] \notin {"idle", "planning"}
      PROVE  TryInv(q, d)'
  BY <1>1, <1>2, <1>5 DEF TryInv
<1>6. ASSUME NEW r \in Runs,
             ExportSnapshot(r) \/ PlanNothing(r) \/ ReadMaximum(r) \/ SeedWatermark(r)
               \/ SeedFails(r) \/ RunFails(r)
      PROVE  TryInv(q, d)'
  <2>1. pc' = pc
        /\ (phase'[q] = phase[q] \/ phase[q] = "idle" \/ phase'[q] \notin {"idle", "planning"})
    BY <1>1, <1>6 DEF ExportSnapshot, PlanNothing, ReadMaximum, SeedWatermark, SeedFails, RunFails,
                      workerVars
  <2> QED BY <1>5, <2>1
<1>7. CASE (\E W \in SUBSET Keys : SourceCommit(W)) \/ UNCHANGED vars
  BY <1>5, <1>7 DEF SourceCommit, workerVars, vars
<1> QED BY <1>3, <1>4, <1>6, <1>7 DEF RunStep

LEMMA TriesNext == TriesInv /\ [Next]_vars => TriesInv'
<1> SUFFICES ASSUME TriesInv, [Next]_vars PROVE TriesInv'
  OBVIOUS
<1>1. TypeOK'
  BY NextType DEF TriesInv
<1>2. \A q \in Runs, d \in ChunkIds : TryInv(q, d)'
  BY WorkerTries, RunTries DEF Next
<1> QED BY <1>1, <1>2 DEF TriesInv

\* Whatever add_files does with a file the table lists already, and with any number
\* of workers and commit attempts, each try of a chunk lists its object at most once.
THEOREM TriesListOnce == Spec => []ListedOncePerTry
<1>1. TriesInv => ListedOncePerTry
  BY DEF TriesInv, TryInv, ListedOncePerTry
<1> QED BY <1>1, TriesInit, TriesNext, PTL DEF Spec

-----------------------------------------------------------------------------
(* A finished run is complete.                                             *)

\* ChunkIds bounds no plan.
PlansFit == \A lo, hi \in Keys, s \in ChunkSteps : 0..((hi - lo) \div s) \subseteq ChunkIds

\* No version is newer than the last transaction, and none is ever undone.
SourceInv == \A k \in Keys : source[k] <= txn /\ \A r \in Runs : snap[r][k] <= source[k]

\* What is copied, uploaded and committed of row k by way of chunk c.
RowInv(r, c, k) == k \in KeysOf(r, c) =>
  /\ pc[r][c] \in {"upload", "load", "add", "mark"} => got[r][c][k] >= snap[r][k]
  /\ pc[r][c] \in {"load", "add"} \/ table[r][c] >= 1 => object[r][c][k] >= snap[r][k]
  /\ pc[r][c] \in {"return", "returned"} \/ state[r][c] = "DONE"
       => table[r][c] >= 1 \/ snap[r][k] = 0

\* Before the plan nothing has been done; from then on every row of the snapshot
\* is in a chunk with a worker, which has returned when the run seeds or finishes.
PhaseInv(r) ==
  /\ phase[r] \in {"idle", "planning"} =>
       \A c \in ChunkIds : pc[r][c] = "none" /\ state[r][c] = "none" /\ table[r][c] = 0
  /\ phase[r] \in {"running", "seeding", "finished"} =>
       \A k \in Keys : snap[r][k] # 0 =>
         \E c \in ChunkIds : k \in KeysOf(r, c) /\ pc[r][c] # "none"
  /\ phase[r] \in {"seeding", "finished"} =>
       \A c \in ChunkIds : pc[r][c] \in {"none", "returned"}

CompleteInv ==
  /\ IInv /\ SourceInv
  /\ \A r \in Runs : PhaseInv(r)
  /\ \A r \in Runs, c \in ChunkIds, k \in Keys : RowInv(r, c, k)

LEMMA CompleteSuffices == CompleteInv => FinishedIsComplete
<1> SUFFICES ASSUME CompleteInv, NEW r \in Runs, NEW k \in Keys,
                    phase[r] \in {"seeding", "finished"}, snap[r][k] # 0
             PROVE  \E c \in ChunkIds : table[r][c] >= 1 /\ object[r][c][k] >= snap[r][k]
  BY DEF FinishedIsComplete
<1>1. PICK c \in ChunkIds : k \in KeysOf(r, c) /\ pc[r][c] # "none"
  BY DEF CompleteInv, PhaseInv
<1>2. pc[r][c] = "returned"
  BY <1>1 DEF CompleteInv, PhaseInv
<1> QED BY <1>1, <1>2 DEF CompleteInv, RowInv

LEMMA CompleteInit == Init => CompleteInv
<1> SUFFICES ASSUME Init PROVE CompleteInv
  OBVIOUS
<1>1. SourceInv
  BY DEF Init, SourceInv, NoRows
<1>2. \A r \in Runs : PhaseInv(r)
  BY DEF Init, PhaseInv, PerChunk
<1>3. \A r \in Runs, c \in ChunkIds, k \in Keys : RowInv(r, c, k)
  BY DEF Init, RowInv, KeysOf
<1> QED BY <1>1, <1>2, <1>3, InitInv DEF CompleteInv

LEMMA SourceKeeps ==
  ASSUME TypeOK, SourceInv, [Next]_vars
  PROVE  SourceInv'
<1>t. /\ txn \in Nat /\ source \in [Keys -> Nat] /\ snap \in [Runs -> [Keys -> Nat]]
  BY DEF TypeOK
<1>1. ASSUME NEW W \in SUBSET Keys, SourceCommit(W) PROVE SourceInv'
  <2>1. txn' = txn + 1 /\ snap' = snap
        /\ \A k \in Keys : source'[k] = IF k \in W THEN txn + 1 ELSE source[k]
    BY <1>1 DEF SourceCommit
  <2> QED BY <1>t, <2>1 DEF SourceInv
<1>2. ASSUME NEW r \in Runs, ExportSnapshot(r) PROVE SourceInv'
  <2>1. txn' = txn /\ source' = source /\ snap' = [snap EXCEPT ![r] = source]
    BY <1>2 DEF ExportSnapshot
  <2>2. \A q \in Runs : snap'[q] = IF q = r THEN source ELSE snap[q]
    BY <1>t, <2>1
  <2> QED BY <1>t, <2>1, <2>2 DEF SourceInv
<1>3. CASE UNCHANGED <<txn, source, snap>>
  BY <1>3 DEF SourceInv
<1>4. ASSUME NEW r \in Runs, RunStep(r) \/ RunDies(r) PROVE UNCHANGED <<txn, source, snap>>
  BY <1>4 DEF RunStep, RunDies, PlanNothing, PlanChunks, ReadMaximum, SeedWatermark, SeedFails,
     RunFails
<1>5. ASSUME NEW r \in Runs, NEW c \in ChunkIds, WorkerStep(r, c) \/ Fail(r, c)
      PROVE  UNCHANGED <<txn, source, snap>>
  BY <1>5 DEF WorkerStep, Fail, Begin, CopyChunk, UploadChunk, LoadTable, AddFiles, CommitConflict,
     MarkDone, Return
<1>6. UNCHANGED vars => UNCHANGED <<txn, source, snap>>
  BY DEF vars
<1> QED BY <1>1, <1>2, <1>3, <1>4, <1>5, <1>6 DEF Next

-----------------------------------------------------------------------------
(* The steps of a worker.                                                  *)

LEMMA WorkerRows ==
  ASSUME CompleteInv, NEW r \in Runs, NEW c \in ChunkIds, WorkerStep(r, c) \/ Fail(r, c),
         NEW q \in Runs, NEW d \in ChunkIds, NEW k \in Keys
  PROVE  RowInv(q, d, k)'
<1>1. TypeOK /\ RowInv(q, d, k) /\ WorkerInv(q, d) /\ SourceInv
  BY IInvByWorker DEF CompleteInv
<1>k. KeysOf(q, d)' = KeysOf(q, d) /\ snap' = snap
  BY DEF KeysOf, WorkerStep, Fail, Begin, CopyChunk, UploadChunk, LoadTable, AddFiles,
     CommitConflict, MarkDone, Return
<1>t. snap[q][k] \in Nat /\ source[k] \in Nat /\ got[q][d][k] \in Nat /\ object[q][d][k] \in Nat
  BY <1>1 DEF TypeOK
<1>2. \A s : GoTo(r, c, s) => pc'[q][d] = IF q = r /\ d = c THEN s ELSE pc[q][d]
  BY <1>1, UpdateValue DEF TypeOK, GoTo
<1>3. \A s : Put(r, c, s) => state'[q][d] = IF q = r /\ d = c THEN s ELSE state[q][d]
  BY <1>1, UpdateValue DEF TypeOK, Put
<1>4. Raise(r, c) => pc'[q][d] = pc[q][d] \/ pc'[q][d] \in {"ready", "failed"}
  BY <1>2 DEF Raise
<1> USE <1>1, <1>k, <1>t DEF RowInv
<1>5. CASE Begin(r, c)
  BY <1>2, <1>3, <1>5 DEF Begin
<1>6. CASE CopyChunk(r, c)
  <2> DEFINE view == IF Attachable(r) THEN snap[r] ELSE source
             rows == [j \in Keys |-> IF j \in KeysOf(r, c) THEN view[j] ELSE 0]
  <2>1. /\ got' = [got EXCEPT ![r][c] = rows]
        /\ GoTo(r, c, IF rows = NoRows THEN "mark" ELSE "upload")
        /\ pc[r][c] = "copy" /\ UNCHANGED <<state, object, table>>
    BY <1>6 DEF CopyChunk
  <2>2. k \in KeysOf(r, c) => rows[k] >= snap[r][k]
    BY DEF SourceInv, TypeOK
  <2> HIDE DEF rows
  <2>3. got'[q][d] = IF q = r /\ d = c THEN rows ELSE got[q][d]
    BY <2>1, UpdateValue DEF TypeOK
  <2>4. pc'[q][d] = IF q = r /\ d = c THEN (IF rows = NoRows THEN "mark" ELSE "upload") ELSE pc[q][d]
    BY <1>2, <2>1
  <2> QED BY <2>1, <2>2, <2>3, <2>4
<1>7. CASE UploadChunk(r, c)
  <2>1. object'[q][d] = IF q = r /\ d = c THEN got[r][c] ELSE object[q][d]
    BY <1>7, UpdateValue DEF TypeOK, UploadChunk
  <2>2. pc[r][c] = "upload" /\ UNCHANGED <<got, state, table>>
        /\ pc'[q][d] = IF q = r /\ d = c THEN "load" ELSE pc[q][d]
    BY <1>2, <1>7 DEF UploadChunk
  <2> QED BY <2>1, <2>2
<1>8. CASE LoadTable(r, c) \/ CommitConflict(r, c)
  <2>1. \/ pc'[q][d] = pc[q][d]
        \/ pc'[q][d] \in {"ready", "failed"}
        \/ q = r /\ d = c /\ pc[q][d] \in {"load", "add"} /\ pc'[q][d] \in {"load", "add"}
    BY <1>2, <1>4, <1>8 DEF LoadTable, CommitConflict
  <2>2. state'[q][d] = state[q][d] \/ state'[q][d] = "FAILED"
    BY <1>3, <1>8 DEF LoadTable, CommitConflict
  <2>3. UNCHANGED <<got, object, table>>
    BY <1>8 DEF LoadTable, CommitConflict
  <2> QED BY <2>1, <2>2, <2>3
<1>9. CASE AddFiles(r, c)
  <2>1. pc[r][c] = "add" /\ UNCHANGED <<got, state, object>>
        /\ pc'[q][d] = IF q = r /\ d = c THEN "mark" ELSE pc[q][d]
    BY <1>2, <1>9 DEF AddFiles
  <2>2. table'[q][d] = IF q = r /\ d = c THEN table[r][c] + 1 ELSE table[q][d]
    <3>1. table \in [Runs -> [ChunkIds -> Nat]]
      BY DEF TypeOK, Files
    <3>2. table' = [table EXCEPT ![r][c] = table[r][c] + 1]
      BY <1>9 DEF AddFiles
    <3> QED BY <3>1, <3>2, UpdateValue
  <2>3. CASE q = r /\ d = c
    <3>1. state[q][d] # "DONE" /\ pc'[q][d] = "mark"
      BY <2>1, <2>3 DEF WorkerInv
    <3> QED BY <2>1, <2>3, <3>1
  <2>4. CASE ~(q = r /\ d = c)
    BY <2>1, <2>2, <2>4
  <2> QED BY <2>3, <2>4
<1>10. CASE MarkDone(r, c)
  <2>1. pc[r][c] = "mark" /\ UNCHANGED <<got, object, table>>
        /\ pc'[q][d] = (IF q = r /\ d = c THEN "return" ELSE pc[q][d])
        /\ state'[q][d] = (IF q = r /\ d = c THEN "DONE" ELSE state[q][d])
    BY <1>2, <1>3, <1>10 DEF MarkDone
  <2>2. CASE q = r /\ d = c
    <3>1. k \in KeysOf(q, d) => table[q][d] >= 1 \/ snap[q][k] = 0
      BY <2>1, <2>2 DEF WorkerInv, NoRows
    <3> QED BY <2>1, <2>2, <3>1
  <2>3. CASE ~(q = r /\ d = c)
    BY <2>1, <2>3
  <2> QED BY <2>2, <2>3
<1>11. CASE Return(r, c)
  BY <1>2, <1>11 DEF Return
<1>12. CASE Fail(r, c)
  <2>1. state'[q][d] = state[q][d] \/ state'[q][d] = "FAILED"
    BY <1>3, <1>12 DEF Fail
  <2>2. UNCHANGED <<got, object, table>>
    BY <1>12 DEF Fail
  <2> QED BY <1>4, <1>12, <2>1, <2>2 DEF Fail
<1> QED BY <1>5, <1>6, <1>7, <1>8, <1>9, <1>10, <1>11, <1>12 DEF WorkerStep

LEMMA WorkerPhases ==
  ASSUME CompleteInv, NEW r \in Runs, NEW c \in ChunkIds, WorkerStep(r, c) \/ Fail(r, c),
         NEW q \in Runs
  PROVE  PhaseInv(q)'
<1>1. TypeOK /\ PhaseInv(q) /\ PhaseInv(r)
  BY DEF CompleteInv, IInv
<1>2. UNCHANGED <<phase, snap, plan>>
  BY DEF WorkerStep, Fail, Begin, CopyChunk, UploadChunk, LoadTable, AddFiles, CommitConflict,
     MarkDone, Return
<1>3. pc[r][c] \notin Over
  BY DEF WorkerStep, Fail, Begin, CopyChunk, UploadChunk, LoadTable, AddFiles, CommitConflict,
     MarkDone, Return, Over
<1>4. phase[r] \in {"running", "failed"}
  BY <1>1, <1>3 DEF PhaseInv, Over, TypeOK, Phases
<1>5. /\ \A p \in Runs, d \in ChunkIds : p # r \/ d # c =>
           pc'[p][d] = pc[p][d] /\ state'[p][d] = state[p][d] /\ table'[p][d] = table[p][d]
      /\ pc'[r][c] # "none"
  <2>1. \A s : GoTo(r, c, s) =>
          pc'[r][c] = s /\ \A p \in Runs, d \in ChunkIds : p # r \/ d # c => pc'[p][d] = pc[p][d]
    BY <1>1, UpdateValue DEF TypeOK, GoTo
  <2>2. \A s : Put(r, c, s) =>
          \A p \in Runs, d \in ChunkIds : p # r \/ d # c => state'[p][d] = state[p][d]
    BY <1>1, UpdateValue DEF TypeOK, Put
  <2>3. Raise(r, c) => pc'[r][c] \in {"ready", "failed"}
          /\ \A p \in Runs, d \in ChunkIds : p # r \/ d # c => pc'[p][d] = pc[p][d]
    BY <2>1 DEF Raise
  <2>4. \A p \in Runs, d \in ChunkIds : p # r \/ d # c => table'[p][d] = table[p][d]
    <3>1. table \in [Runs -> [ChunkIds -> Nat]]
      BY <1>1 DEF TypeOK, Files
    <3>2. AddFiles(r, c) => table' = [table EXCEPT ![r][c] = table[r][c] + 1]
      BY DEF AddFiles
    <3>3. AddFiles(r, c) \/ table' = table
      BY DEF WorkerStep, Fail, Begin, CopyChunk, UploadChunk, LoadTable, CommitConflict, MarkDone,
         Return
    <3> QED BY <3>1, <3>2, <3>3, UpdateValue
  <2>5. \A p \in Runs, d \in ChunkIds : p # r \/ d # c => state'[p][d] = state[p][d]
    BY <2>2 DEF WorkerStep, Fail, Begin, CopyChunk, UploadChunk, LoadTable, AddFiles,
       CommitConflict, MarkDone, Return
  <2>6. /\ \A p \in Runs, d \in ChunkIds : p # r \/ d # c => pc'[p][d] = pc[p][d]
        /\ pc'[r][c] # "none"
    BY <2>1, <2>3 DEF WorkerStep, Fail, Begin, CopyChunk, UploadChunk, LoadTable, AddFiles,
       CommitConflict, MarkDone, Return
  <2> QED BY <2>4, <2>5, <2>6
<1>6. \A d \in ChunkIds : KeysOf(q, d)' = KeysOf(q, d)
  BY <1>2 DEF KeysOf
<1>7. CASE q = r
  <2>1. phase[q] = "running" \/ phase[q] = "failed"
    BY <1>4, <1>7
  <2>2. \A d \in ChunkIds : pc[q][d] # "none" => pc'[q][d] # "none"
    BY <1>5, <1>7
  <2> QED BY <1>1, <1>2, <1>6, <2>1, <2>2 DEF PhaseInv
<1>8. CASE q # r
  BY <1>1, <1>2, <1>5, <1>6, <1>8 DEF PhaseInv
<1> QED BY <1>7, <1>8

-----------------------------------------------------------------------------
(* The plan.                                                               *)

\* Every id between the smallest and the largest is in the range of a chunk.
LEMMA InSomeRange ==
  ASSUME NEW lo \in Nat, NEW hi \in Nat, NEW s \in Nat \ {0}, NEW k \in Nat, lo <= k, k <= hi
  PROVE  \E p \in Ranges(lo, hi, s) :
           p.id \in 0..((hi - lo) \div s) /\ p.lo <= k /\ k < p.hi
<1> DEFINE i == (k - lo) \div s
           n == (hi - lo) \div s
           p == [id |-> i, lo |-> lo + i * s,
                 hi |-> IF lo + (i + 1) * s <= hi THEN lo + (i + 1) * s ELSE hi + 1]
<1>1. i \in Nat /\ n \in Nat /\ i * s \in Nat
  OBVIOUS
<1>2. i * s <= k - lo /\ k - lo < (i + 1) * s
  OBVIOUS
<1>3. i <= n
  <2>1. hi - lo < (n + 1) * s
    OBVIOUS
  <2>2. i * s < (n + 1) * s
    BY <1>1, <1>2, <2>1
  <2> QED BY <1>1, <2>2
<1>4. i \in 0..n
  BY <1>1, <1>3
<1>5. p \in Ranges(lo, hi, s)
  BY <1>4 DEF Ranges
<1>6. lo + i * s <= k /\ k < lo + (i + 1) * s
  BY <1>1, <1>2
<1>7. p.lo <= k /\ k < p.hi
  BY <1>6
<1> QED BY <1>4, <1>5, <1>7

LEMMA PlanCovers ==
  ASSUME PlansFit, CompleteInv, NEW r \in Runs, PlanChunks(r), NEW k \in Keys, snap[r][k] # 0
  PROVE  /\ \E c \in ChunkIds : k \in KeysOf(r, c)' /\ pc'[r][c] = "ready"
         /\ phase'[r] = "running"
<1>1. TypeOK /\ PhaseInv(r) /\ SourceInv /\ phase[r] = "planning"
  BY DEF CompleteInv, IInv, PlanChunks
<1>2. k \in Present(source)
  BY <1>1 DEF SourceInv, TypeOK, Present
<1>3. PICK lo \in Present(source), hi \in Present(source), s \in ChunkSteps :
        /\ \A j \in Present(source) : lo <= j /\ j <= hi
        /\ plan' = [plan EXCEPT ![r] = {p \in Ranges(lo, hi, s) : state[r][p.id] # "DONE"}]
  BY DEF PlanChunks
<1>4. lo \in Keys /\ hi \in Keys /\ lo \in Nat /\ hi \in Nat /\ k \in Nat /\ s \in Nat \ {0}
  BY BootstrapAssumption DEF Present
<1>5. PICK p \in Ranges(lo, hi, s) : p.id \in 0..((hi - lo) \div s) /\ p.lo <= k /\ k < p.hi
  BY <1>2, <1>3, <1>4, InSomeRange
<1>6. p.id \in ChunkIds
  BY <1>4, <1>5 DEF PlansFit
<1>7. state[r][p.id] # "DONE"
  BY <1>1, <1>6 DEF PhaseInv
<1>8. p \in plan'[r]
  BY <1>1, <1>3, <1>5, <1>7 DEF TypeOK
<1>9. k \in KeysOf(r, p.id)'
  BY <1>5, <1>8 DEF KeysOf
<1>10. pc'[r][p.id] = "ready" /\ phase'[r] = "running"
  BY <1>1, <1>6, <1>8 DEF PlanChunks, TypeOK
<1> QED BY <1>6, <1>9, <1>10

-----------------------------------------------------------------------------
(* The steps of a run and of the source.                                   *)

LEMMA RunPhases ==
  ASSUME PlansFit, CompleteInv, NEW r \in Runs, ExportSnapshot(r) \/ RunStep(r) \/ RunDies(r),
         NEW q \in Runs
  PROVE  PhaseInv(q)' /\ \A d \in ChunkIds, k \in Keys : RowInv(q, d, k)'
<1>1. /\ TypeOK /\ PhaseInv(q) /\ SourceInv /\ \A d \in ChunkIds, k \in Keys : RowInv(q, d, k)
  BY DEF CompleteInv, IInv
<1>t. /\ phase \in [Runs -> Phases] /\ snap \in [Runs -> [Keys -> Nat]]
      /\ plan \in [Runs -> SUBSET Chunk] /\ pc \in [Runs -> [ChunkIds -> Steps]]
  BY <1>1 DEF TypeOK
<1>u. UNCHANGED <<got, state, object, table>>
  BY DEF ExportSnapshot, RunStep, RunDies, PlanNothing, PlanChunks, ReadMaximum, SeedWatermark,
     SeedFails, RunFails, workerVars
<1>2. CASE q # r
  <2>1. phase'[q] = phase[q] /\ snap'[q] = snap[q] /\ plan'[q] = plan[q] /\ pc'[q] = pc[q]
    BY <1>2, <1>t DEF ExportSnapshot, RunStep, RunDies, PlanNothing, PlanChunks, ReadMaximum,
       SeedWatermark, SeedFails, RunFails, workerVars
  <2>2. \A d \in ChunkIds : KeysOf(q, d)' = KeysOf(q, d)
    BY <2>1 DEF KeysOf
  <2>3. PhaseInv(q)'
    BY <1>1, <1>u, <2>1, <2>2 DEF PhaseInv
  <2>4. \A d \in ChunkIds, k \in Keys : RowInv(q, d, k)'
    BY <1>1, <1>u, <2>1, <2>2 DEF RowInv
  <2> QED BY <2>3, <2>4
<1>3. CASE q = r /\ ExportSnapshot(r)
  <2>1. phase[q] = "idle" /\ phase'[q] = "planning" /\ pc' = pc /\ plan' = plan
    BY <1>3, <1>t DEF ExportSnapshot, workerVars
  <2>2. \A d \in ChunkIds : pc[q][d] = "none" /\ state[q][d] = "none" /\ table[q][d] = 0
    BY <1>1, <2>1 DEF PhaseInv
  <2>3. PhaseInv(q)'
    BY <1>u, <2>1, <2>2 DEF PhaseInv
  <2>4. \A d \in ChunkIds, k \in Keys : RowInv(q, d, k)'
    BY <1>u, <2>1, <2>2 DEF RowInv
  <2> QED BY <2>3, <2>4
<1>4. CASE q = r /\ PlanChunks(r)
  <2>1. phase[q] = "planning" /\ phase'[q] \in {"running", "finished"} /\ snap' = snap
        /\ \A d \in ChunkIds : pc'[q][d] \in {"none", "ready"}
    BY <1>4, <1>t DEF PlanChunks
  <2>2. \A d \in ChunkIds : state[q][d] = "none" /\ table[q][d] = 0
    BY <1>1, <2>1 DEF PhaseInv
  <2>3. phase'[q] = "finished" => \A d \in ChunkIds : pc'[q][d] = "none"
    BY <1>4, <1>t DEF PlanChunks
  <2>4. \A k \in Keys : snap'[q][k] # 0 =>
          \E c \in ChunkIds : k \in KeysOf(q, c)' /\ pc'[q][c] = "ready"
    BY <1>4, <2>1, PlanCovers
  <2>5. PhaseInv(q)'
    BY <2>1, <2>3, <2>4 DEF PhaseInv
  <2>6. \A d \in ChunkIds, k \in Keys : RowInv(q, d, k)'
    BY <1>u, <2>1, <2>2 DEF RowInv
  <2> QED BY <2>5, <2>6
<1>5. CASE q = r /\ RunDies(r)
  <2>1. phase'[q] = "failed" /\ UNCHANGED <<snap, plan>>
        /\ \A d \in ChunkIds : pc'[q][d] \in {pc[q][d], "failed"}
    BY <1>5, <1>t DEF RunDies
  <2>2. \A d \in ChunkIds : KeysOf(q, d)' = KeysOf(q, d)
    BY <2>1 DEF KeysOf
  <2>3. PhaseInv(q)'
    BY <2>1 DEF PhaseInv
  <2>4. \A d \in ChunkIds, k \in Keys : RowInv(q, d, k)'
    BY <1>1, <1>u, <2>1, <2>2 DEF RowInv
  <2> QED BY <2>3, <2>4
<1>6. CASE q = r /\ (PlanNothing(r) \/ ReadMaximum(r) \/ SeedWatermark(r) \/ SeedFails(r) \/ RunFails(r))
  <2>1. UNCHANGED <<snap, plan, pc>>
    BY <1>6 DEF PlanNothing, ReadMaximum, SeedWatermark, SeedFails, RunFails, workerVars
  <2>2. \A d \in ChunkIds : KeysOf(q, d)' = KeysOf(q, d)
    BY <2>1 DEF KeysOf
  <2>3. \A d \in ChunkIds, k \in Keys : RowInv(q, d, k)'
    BY <1>1, <1>u, <2>1, <2>2 DEF RowInv
  <2>4. PhaseInv(q)'
    <3>1. CASE PlanNothing(r)
      <4>1. phase'[q] = "finished" /\ phase[q] = "planning" /\ Present(source) = {}
        BY <1>6, <1>t, <3>1 DEF PlanNothing
      <4>2. \A k \in Keys : snap[q][k] = 0
        BY <1>1, <4>1 DEF SourceInv, Present, TypeOK
      <4> QED BY <1>1, <2>1, <4>1, <4>2 DEF PhaseInv
    <3>2. CASE ReadMaximum(r)
      <4>1. phase'[q] = "seeding" /\ phase[q] = "running"
            /\ \A d \in ChunkIds : pc[q][d] \in {"none", "returned"}
        BY <1>6, <1>t, <3>2 DEF ReadMaximum
      <4> QED BY <1>1, <2>1, <2>2, <4>1 DEF PhaseInv
    <3>3. CASE SeedWatermark(r) \/ SeedFails(r)
      <4>1. phase'[q] = "finished" /\ phase[q] = "seeding"
        BY <1>6, <1>t, <3>3 DEF SeedWatermark, SeedFails
      <4> QED BY <1>1, <2>1, <2>2, <4>1 DEF PhaseInv
    <3>4. CASE RunFails(r)
      <4>1. phase'[q] = "failed"
        BY <1>6, <1>t, <3>4 DEF RunFails
      <4> QED BY <4>1 DEF PhaseInv
    <3> QED BY <1>6, <3>1, <3>2, <3>3, <3>4
  <2> QED BY <2>3, <2>4
<1> QED BY <1>2, <1>3, <1>4, <1>5, <1>6 DEF RunStep

LEMMA CompleteNext == PlansFit /\ CompleteInv /\ [Next]_vars => CompleteInv'
<1> SUFFICES ASSUME PlansFit, CompleteInv, [Next]_vars PROVE CompleteInv'
  OBVIOUS
<1>1. IInv' /\ SourceInv'
  BY NextInv, SourceKeeps DEF CompleteInv, IInv
<1>2. ASSUME NEW q \in Runs
      PROVE  PhaseInv(q)' /\ \A d \in ChunkIds, k \in Keys : RowInv(q, d, k)'
  <2>1. CASE \E r \in Runs : ExportSnapshot(r) \/ RunStep(r) \/ RunDies(r)
    BY <2>1, RunPhases
  <2>2. CASE \E r \in Runs, c \in ChunkIds : WorkerStep(r, c) \/ Fail(r, c)
    BY <2>2, WorkerRows, WorkerPhases
  <2>3. CASE UNCHANGED vars \/ \E W \in SUBSET Keys : SourceCommit(W)
    <3>1. UNCHANGED <<phase, snap, plan, pc, got, state, object, table>>
      BY <2>3 DEF vars, SourceCommit, workerVars
    <3>2. PhaseInv(q) /\ \A d \in ChunkIds, k \in Keys : RowInv(q, d, k)
      BY DEF CompleteInv
    <3> QED BY <3>1, <3>2 DEF PhaseInv, RowInv, KeysOf
  <2> QED BY <2>1, <2>2, <2>3 DEF Next
<1> QED BY <1>1, <1>2 DEF CompleteInv

\* A run that reports success has loaded every row that was there when it started,
\* in the version of that moment or a later one, whatever the size of the plan,
\* the conflicts, the retries and the transactions meanwhile.
THEOREM FinishedRunsAreComplete == ASSUME PlansFit PROVE Spec => []FinishedIsComplete
<1>1. CompleteInv /\ [Next]_vars => CompleteInv'
  BY CompleteNext
<1> QED BY <1>1, CompleteInit, CompleteSuffices, PTL DEF Spec

-----------------------------------------------------------------------------
(* The job implements the abstract load.                                   *)

\* What a worker holds on to from one step to the next: its chunk is recorded
\* RUNNING until it is marked, and what it registers is the object it uploaded.
LoadInv(q, d) ==
  /\ pc[q][d] \in {"copy", "upload", "load", "add", "mark"} => state[q][d] = "RUNNING"
  /\ pc[q][d] = "return" => state[q][d] # "none"
  /\ pc[q][d] \in {"upload", "load", "add"} => got[q][d] # NoRows
  /\ pc[q][d] \in {"load", "add"} => object[q][d] = got[q][d]

LoadsInv == IInv /\ \A q \in Runs, d \in ChunkIds : LoadInv(q, d)

LEMMA LoadsInit == Init => LoadsInv
<1> SUFFICES ASSUME Init PROVE LoadsInv
  OBVIOUS
<1>1. \A q \in Runs, d \in ChunkIds : pc[q][d] = "none"
  BY DEF Init, PerChunk
<1> QED BY <1>1, InitInv DEF LoadsInv, LoadInv

\* A step of one worker keeps what every worker holds on to.
LEMMA WorkerLoads ==
  ASSUME LoadsInv, NEW r \in Runs, NEW c \in ChunkIds, WorkerStep(r, c) \/ Fail(r, c),
         NEW q \in Runs, NEW d \in ChunkIds
  PROVE  LoadInv(q, d)'
<1>1. TypeOK /\ LoadInv(q, d) /\ WorkerInv(q, d)
  BY IInvByWorker DEF LoadsInv
<1>2. \A s : GoTo(r, c, s) => pc'[q][d] = IF q = r /\ d = c THEN s ELSE pc[q][d]
  BY <1>1, UpdateValue DEF TypeOK, GoTo
<1>3. \A s : Put(r, c, s) => state'[q][d] = IF q = r /\ d = c THEN s ELSE state[q][d]
  BY <1>1, UpdateValue DEF TypeOK, Put
<1>4. Raise(r, c) => IF q = r /\ d = c THEN pc'[q][d] \in {"ready", "failed"}
                     ELSE pc'[q][d] = pc[q][d]
  BY <1>2 DEF Raise
<1>n. NoRows' = NoRows
  BY DEF NoRows
<1> USE <1>1, <1>n DEF LoadInv
<1>5. CASE Begin(r, c)
  BY <1>2, <1>3, <1>5 DEF Begin
<1>6. CASE CopyChunk(r, c)
  <2>1. PICK rows :
          /\ got' = [got EXCEPT ![r][c] = rows]
          /\ GoTo(r, c, IF rows = NoRows THEN "mark" ELSE "upload")
          /\ pc[r][c] = "copy" /\ UNCHANGED <<state, object>>
    BY <1>6 DEF CopyChunk
  <2>2. got'[q][d] = IF q = r /\ d = c THEN rows ELSE got[q][d]
    BY <2>1, UpdateValue DEF TypeOK
  <2>3. pc'[q][d] = IF q = r /\ d = c THEN (IF rows = NoRows THEN "mark" ELSE "upload")
                    ELSE pc[q][d]
    BY <1>2, <2>1
  <2> QED BY <2>1, <2>2, <2>3
<1>7. CASE UploadChunk(r, c)
  <2>1. object'[q][d] = IF q = r /\ d = c THEN got[r][c] ELSE object[q][d]
    BY <1>7, UpdateValue DEF TypeOK, UploadChunk
  <2>2. pc[r][c] = "upload" /\ UNCHANGED <<got, state>>
        /\ pc'[q][d] = IF q = r /\ d = c THEN "load" ELSE pc[q][d]
    BY <1>2, <1>7 DEF UploadChunk
  <2> QED BY <2>1, <2>2
<1>8. CASE LoadTable(r, c) \/ CommitConflict(r, c)
  <2>1. CASE q = r /\ d = c
    <3>1. /\ pc[q][d] \in {"load", "add"} /\ UNCHANGED <<got, object>>
          /\ \/ pc'[q][d] \in {"load", "add"} /\ state'[q][d] = state[q][d]
             \/ pc'[q][d] \in {"ready", "failed"}
      BY <1>2, <1>4, <1>8, <2>1 DEF LoadTable, CommitConflict
    <3> QED BY <3>1
  <2>2. CASE ~(q = r /\ d = c)
    BY <1>2, <1>3, <1>4, <1>8, <2>2 DEF LoadTable, CommitConflict
  <2> QED BY <2>1, <2>2
<1>9. CASE AddFiles(r, c) \/ Return(r, c)
  BY <1>2, <1>9 DEF AddFiles, Return
<1>10. CASE MarkDone(r, c)
  BY <1>2, <1>3, <1>10 DEF MarkDone
<1>11. CASE Fail(r, c)
  <2>1. UNCHANGED <<got, object>>
    BY <1>11 DEF Fail
  <2>2. ~(q = r /\ d = c) => pc'[q][d] = pc[q][d] /\ state'[q][d] = state[q][d]
    BY <1>3, <1>4, <1>11 DEF Fail
  <2>3. q = r /\ d = c => pc'[q][d] \in {"ready", "failed"}
    BY <1>4, <1>11 DEF Fail
  <2> QED BY <2>1, <2>2, <2>3
<1> QED BY <1>5, <1>6, <1>7, <1>8, <1>9, <1>10, <1>11 DEF WorkerStep

\* The steps of a run and of the source touch neither objects nor records.
LEMMA RunLoads ==
  ASSUME LoadsInv,
         \/ \E W \in SUBSET Keys : SourceCommit(W)
         \/ \E r \in Runs : ExportSnapshot(r) \/ RunStep(r) \/ RunDies(r)
         \/ UNCHANGED vars
  PROVE  /\ UNCHANGED <<got, object, table, state>>
         /\ \A q \in Runs, d \in ChunkIds : LoadInv(q, d)'
<1>1. /\ UNCHANGED <<got, object, table, state>>
      /\ \A q \in Runs, d \in ChunkIds :
           pc'[q][d] = pc[q][d] \/ pc'[q][d] \in {"none", "ready", "failed"}
  BY RunMoves DEF LoadsInv, IInv
<1>2. NoRows' = NoRows
  BY DEF NoRows
<1> QED BY <1>1, <1>2 DEF LoadsInv, LoadInv

LEMMA LoadsNext == LoadsInv /\ [Next]_vars => LoadsInv'
<1> SUFFICES ASSUME LoadsInv, [Next]_vars PROVE LoadsInv'
  OBVIOUS
<1>1. IInv'
  BY NextInv DEF LoadsInv
<1>2. \A q \in Runs, d \in ChunkIds : LoadInv(q, d)'
  BY WorkerLoads, RunLoads DEF Next
<1> QED BY <1>1, <1>2 DEF LoadsInv

LEMMA LoadInit == Init => Load!Init
  BY DEF Init, Load!Init, Load!For, Load!Nothing, PerChunk, NoRows

LEMMA LoadNothing == Load!Nothing = NoRows
  BY DEF Load!Nothing, NoRows

\* Every step of a worker is one of the abstract load, or none.
LEMMA LoadStep ==
  ASSUME LoadsInv, NEW r \in Runs, NEW c \in ChunkIds, WorkerStep(r, c) \/ Fail(r, c)
  PROVE  [Load!Next]_<<got, object, table, state>>
<1>1. TypeOK /\ LoadInv(r, c) /\ WorkerInv(r, c)
  BY IInvByWorker DEF LoadsInv
<1>2. ASSUME NEW s \in {"RUNNING", "DONE", "FAILED"}, Put(r, c, s), Load!MayRecord(r, c, s),
             UNCHANGED <<got, object, table>>
      PROVE  Load!Next
  <2>1. Load!Record(r, c, s)
    BY <1>2 DEF Put, Load!Record
  <2> QED BY <2>1 DEF Load!Next
<1>3. state[r][c] # "none" => Load!MayRecord(r, c, "FAILED")
  BY DEF Load!MayRecord
<1>4. CASE Begin(r, c)
  <2>1. CASE state[r][c] = "DONE"
    BY <1>4, <2>1 DEF Begin
  <2>2. CASE state[r][c] # "DONE"
    <3>1. Load!MayRecord(r, c, "RUNNING")
      BY <2>2 DEF Load!MayRecord
    <3> QED BY <1>2, <1>4, <2>2, <3>1 DEF Begin
  <2> QED BY <2>1, <2>2
<1>5. CASE CopyChunk(r, c)
  <2>1. PICK rows :
          /\ rows \in [Keys -> Nat] /\ got' = [got EXCEPT ![r][c] = rows]
          /\ pc[r][c] = "copy" /\ UNCHANGED <<object, table, state>>
    <3> DEFINE view == IF Attachable(r) THEN snap[r] ELSE source
               rows == [k \in Keys |-> IF k \in KeysOf(r, c) THEN view[k] ELSE 0]
    <3>1. rows \in [Keys -> Nat]
      BY <1>1 DEF TypeOK
    <3> QED BY <1>5, <3>1 DEF CopyChunk
  <2>2. got'[r][c] = rows
    BY <1>1, <2>1, UpdateValue DEF TypeOK
  <2>3. Load!Copy(r, c)
    BY <1>1, <2>1, <2>2 DEF LoadInv, Load!Copy
  <2> QED BY <2>3 DEF Load!Next
<1>6. CASE UploadChunk(r, c)
  <2>1. Load!Upload(r, c)
    BY <1>1, <1>6, LoadNothing DEF UploadChunk, LoadInv, Load!Upload
  <2> QED BY <2>1 DEF Load!Next
<1>7. CASE LoadTable(r, c) \/ CommitConflict(r, c)
  <2>1. /\ UNCHANGED <<got, object, table>> /\ state[r][c] = "RUNNING"
        /\ UNCHANGED state \/ Put(r, c, "FAILED")
    BY <1>1, <1>7 DEF LoadTable, CommitConflict, LoadInv
  <2> QED BY <1>2, <1>3, <2>1
<1>8. CASE AddFiles(r, c)
  <2>1. /\ pc[r][c] = "add" /\ base[r][c] = table /\ UNCHANGED <<got, object, state>>
        /\ table' = [base[r][c] EXCEPT ![r][c] = base[r][c][r][c] + 1]
    BY <1>8 DEF AddFiles
  <2>2. table' = [table EXCEPT ![r][c] = table[r][c] + 1]
    BY <2>1
  <2>3. Load!Add(r, c)
    BY <1>1, <2>1, <2>2, LoadNothing DEF LoadInv, Load!Add
  <2> QED BY <2>3 DEF Load!Next
<1>9. CASE MarkDone(r, c)
  <2>1. Load!MayRecord(r, c, "DONE")
    BY <1>1, <1>9, LoadNothing DEF MarkDone, LoadInv, WorkerInv, Load!MayRecord
  <2> QED BY <1>2, <1>9, <2>1 DEF MarkDone
<1>10. CASE Return(r, c)
  BY <1>10 DEF Return
<1>11. CASE Fail(r, c)
  <2>1. /\ UNCHANGED <<got, object, table>>
        /\ UNCHANGED state \/ (pc[r][c] \in InTry /\ Put(r, c, "FAILED"))
    BY <1>11 DEF Fail
  <2>2. pc[r][c] \in InTry => state[r][c] # "none"
    BY <1>1 DEF InTry, LoadInv
  <2> QED BY <1>2, <1>3, <2>1, <2>2
<1> QED BY <1>4, <1>5, <1>6, <1>7, <1>8, <1>9, <1>10, <1>11 DEF WorkerStep

\* With any number of runs, workers and chunks, whatever is retried, whoever dies
\* and whichever commits conflict: an object is listed when it holds the rows
\* last copied for it, and not lost again, and DONE is recorded of nothing else but
\* chunks without rows.
THEOREM ImplementsChunkLoad == Spec => LoadsChunks
<1>1. LoadsInv /\ [Next]_vars => [Load!Next]_<<got, object, table, state>>
  BY LoadStep, RunLoads DEF Next
<1>2. Spec => []LoadsInv
  BY LoadsInit, LoadsNext, PTL DEF Spec
<1> QED BY <1>1, <1>2, LoadInit, PTL DEF Spec, LoadsChunks, Load!Spec, Load!vars
=============================================================================
