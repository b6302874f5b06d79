----------------------------- MODULE Bootstrap -----------------------------
(***************************************************************************)
(* Bootstrap of one table (orchestration/bootstrap_job.py): a run plans     *)
(* chunks under an exported snapshot (extract/snapshot.py), one worker per  *)
(* chunk copies it to its object in S3 (extract/copy_worker.py), registers  *)
(* the object in the Iceberg table by optimistic commits                    *)
(* (load/iceberg_writer.py) and records the chunk's state                   *)
(* (state/chunks.py); then the run seeds the incremental watermark          *)
(* (extract/incremental.py).  Meanwhile transactions change the source, any *)
(* call may raise, any worker or the whole run may die, and an operator may *)
(* launch the job again.                                                    *)
(*                                                                         *)
(* A row's version is its updated_at; every transaction has one of its own. *)
(***************************************************************************)
EXTENDS Integers, FiniteSets

CONSTANTS
  Runs,         \* Dagster runs of bootstrap_table_job for the table
  Keys,         \* numeric ids of the table's rows
  ChunkIds,     \* bound: the chunk ids a plan uses, 0, 1, ...
  ChunkSteps,   \* the id steps a plan may come to (see Chunker)
  MaxRetries,   \* RetryPolicy(max_retries) of extract_chunk_op
  MaxAttempts,  \* max_attempts of commit_files_with_retry
  Overlap,      \* incremental_overlap_seconds
  OneAtATime,   \* is the job launched only when no other run of it is live?
  RefusesListed, \* does add_files raise for a file the table lists already?
  MaxTxn        \* bound: the last transaction of a behaviour

ASSUME BootstrapAssumption ==
  /\ Keys \subseteq Nat \ {0} /\ ChunkIds \subseteq Nat
  /\ ChunkSteps \subseteq Nat \ {0}
  /\ MaxRetries \in Nat /\ MaxAttempts \in Nat \ {0}
  /\ Overlap \in Nat /\ OneAtATime \in BOOLEAN
  /\ RefusesListed \in BOOLEAN /\ MaxTxn \in Nat

VARIABLES
  txn,      \* transactions committed at the source, and the time of the last
  source,   \* source[k]: version of row k, 0 if there is none
  phase,    \* phase[r]: how far run r is
  snap,     \* snap[r]: what the snapshot exported by run r shows
  plan,     \* plan[r]: the chunks run r yielded
  pc,       \* pc[r][c]: the next step of the worker of chunk c
  tries,    \* tries[r][c]: retries of its op used so far
  attempt,  \* attempt[r][c]: commit attempts of this try
  got,      \* got[r][c]: rows its COPY returned
  base,     \* base[r][c]: the table's file list it loaded
  state,    \* state[r][c]: pipeline_chunk_state
  object,   \* object[r][c]: content of the chunk's object in S3
  table,    \* table[r][c]: how often the Iceberg table lists that object
  max,      \* max[r]: the source maximum read for the seed
  wm        \* the pipeline_watermarks row

workerVars == <<pc, tries, attempt, got, base>>
vars == <<txn, source, phase, snap, plan, pc, tries, attempt, got, base,
          state, object, table, max, wm>>

Phases == {"idle", "planning", "running", "seeding", "finished", "failed"}
Steps == {"none", "ready", "copy", "upload", "load", "add", "mark", "return",
          "returned", "failed"}
Over == {"none", "returned", "failed"}
InTry == {"copy", "upload", "load", "add", "mark", "return"}

NoRows == [k \in Keys |-> 0]
Present(f) == {k \in Keys : f[k] # 0}
PerChunk(v) == [r \in Runs |-> [c \in ChunkIds |-> v]]
Files == [Runs -> [ChunkIds -> Nat]]

-----------------------------------------------------------------------------
(* Watermarks, as in IncrementalSync.                                      *)

Epoch == [val |-> 0, id |-> 0]
After(v, k, val, id) == v > val \/ (v = val /\ k > id)
InReach(v, k, w) == After(v, k, w.val - Overlap, w.id)

Init ==
  /\ txn = 1 /\ source \in [Keys -> {0, 1}]
  /\ phase = [r \in Runs |-> "idle"]
  /\ snap = [r \in Runs |-> NoRows]
  /\ plan = [r \in Runs |-> {}]
  /\ pc = PerChunk("none") /\ tries = PerChunk(0) /\ attempt = PerChunk(0)
  /\ got = PerChunk(NoRows) /\ base = PerChunk(PerChunk(0))
  /\ state = PerChunk("none") /\ object = PerChunk(NoRows)
  /\ table = PerChunk(0)
  /\ max = [r \in Runs |-> Epoch] /\ wm = Epoch

\* A transaction inserts or updates the rows of W.
SourceCommit(W) ==
  /\ txn < MaxTxn /\ W # {}
  /\ txn' = txn + 1
  /\ source' = [k \in Keys |-> IF k \in W THEN txn + 1 ELSE source[k]]
  /\ UNCHANGED <<phase, snap, plan, workerVars, state, object, table, max, wm>>

-----------------------------------------------------------------------------
(* plan_bootstrap.                                                         *)

\* BEGIN REPEATABLE READ and pg_export_snapshot().
ExportSnapshot(r) ==
  /\ phase[r] = "idle"
  /\ OneAtATime => \A q \in Runs : phase[q] \notin {"planning", "running", "seeding"}
  /\ phase' = [phase EXCEPT ![r] = "planning"]
  /\ snap' = [snap EXCEPT ![r] = source]
  /\ UNCHANGED <<txn, source, plan, workerVars, state, object, table, max, wm>>

\* Mutant: the last chunk ends before the largest id.
RangesShort(lo, hi, s) ==
  {[id |-> i, lo |-> lo + i * s,
    hi |-> IF lo + (i + 1) * s < hi THEN lo + (i + 1) * s ELSE hi]
     : i \in 0..((hi - lo) \div s)}

\* What the planner's loop returns for ids lo..hi and step s.
Ranges(lo, hi, s) ==
  {[id |-> i, lo |-> lo + i * s,
    hi |-> IF lo + (i + 1) * s <= hi THEN lo + (i + 1) * s ELSE hi + 1]
     : i \in 0..((hi - lo) \div s)}

\* An empty table has no chunks, and commit_chunks no results to sum up.
PlanNothing(r) ==
  /\ phase[r] = "planning" /\ Present(source) = {}
  /\ phase' = [phase EXCEPT ![r] = "finished"]
  /\ UNCHANGED <<txn, source, snap, plan, workerVars, state, object, table, max, wm>>

\* The chunks are planned on another connection than the exporter's, the
\* exporter is closed at the end of the `with`, and only then are the chunks
\* yielded that this run has not marked DONE.
PlanChunks(r) ==
  /\ phase[r] = "planning"
  /\ \E lo, hi \in Present(source), s \in ChunkSteps :
       /\ \A k \in Present(source) : lo <= k /\ k <= hi
       /\ plan' = [plan EXCEPT ![r] =
                     {p \in Ranges(lo, hi, s) : state[r][p.id] # "DONE"}]
  /\ pc' = [pc EXCEPT ![r] = [c \in ChunkIds |->
              IF \E p \in plan'[r] : p.id = c THEN "ready" ELSE "none"]]
  /\ phase' = [phase EXCEPT ![r] = IF plan'[r] = {} THEN "finished" ELSE "running"]
  /\ UNCHANGED <<txn, source, snap, tries, attempt, got, base, state, object,
                 table, max, wm>>

-----------------------------------------------------------------------------
(* extract_chunk_op.                                                       *)

GoTo(r, c, step) == pc' = [pc EXCEPT ![r][c] = step]
Put(r, c, status) == state' = [state EXCEPT ![r][c] = status]

\* Mutant: the DONE guard is dropped.
BeginUnguarded(r, c) ==
  /\ pc[r][c] = "ready"
  /\ GoTo(r, c, "copy") /\ Put(r, c, "RUNNING")
  /\ attempt' = [attempt EXCEPT ![r][c] = 0]
  /\ UNCHANGED <<txn, source, phase, snap, plan, tries, got, base, object,
                 table, max, wm>>

\* A chunk this run has marked DONE is skipped.
Begin(r, c) ==
  /\ pc[r][c] = "ready"
  /\ IF state[r][c] = "DONE"
     THEN GoTo(r, c, "returned") /\ UNCHANGED state
     ELSE GoTo(r, c, "copy") /\ Put(r, c, "RUNNING")
  /\ attempt' = [attempt EXCEPT ![r][c] = 0]
  /\ UNCHANGED <<txn, source, phase, snap, plan, tries, got, base, object,
                 table, max, wm>>

KeysOf(r, c) == {k \in Keys : \E p \in plan[r] : p.id = c /\ p.lo <= k /\ k < p.hi}

\* The exporter's transaction is open while the run plans; a snapshot whose
\* exporter has closed cannot be attached to any more.
Attachable(r) == phase[r] = "planning"

\* The COPY sees the exported snapshot, or else the worker's own.
CopyChunk(r, c) ==
  /\ pc[r][c] = "copy"
  /\ LET view == IF Attachable(r) THEN snap[r] ELSE source
         rows == [k \in Keys |-> IF k \in KeysOf(r, c) THEN view[k] ELSE 0]
     IN /\ got' = [got EXCEPT ![r][c] = rows]
        /\ GoTo(r, c, IF rows = NoRows THEN "mark" ELSE "upload")
  /\ UNCHANGED <<txn, source, phase, snap, plan, tries, attempt, base, state,
                 object, table, max, wm>>

\* The key is made of run_id and chunk_id: a later try overwrites the object.
UploadChunk(r, c) ==
  /\ pc[r][c] = "upload" /\ GoTo(r, c, "load")
  /\ object' = [object EXCEPT ![r][c] = got[r][c]]
  /\ UNCHANGED <<txn, source, phase, snap, plan, tries, attempt, got, base,
                 state, table, max, wm>>

\* Mutant: one retry too many.
RaiseOffByOne(r, c) ==
  IF tries[r][c] <= MaxRetries
  THEN GoTo(r, c, "ready") /\ tries' = [tries EXCEPT ![r][c] = @ + 1]
  ELSE GoTo(r, c, "failed") /\ UNCHANGED tries

\* Mutant: the retries are not counted.
RaiseForever(r, c) == GoTo(r, c, "ready") /\ UNCHANGED tries

\* An exception leaves the op: retried, or failed for good.
Raise(r, c) ==
  IF tries[r][c] < MaxRetries
  THEN GoTo(r, c, "ready") /\ tries' = [tries EXCEPT ![r][c] = @ + 1]
  ELSE GoTo(r, c, "failed") /\ UNCHANGED tries

\* load_table.  The comments of extract_chunk_op and commit_files_with_retry say
\* that add_files does not look for files the table lists already; pyiceberg's
\* add_files does unless told otherwise, and raises.  RefusesListed is either.
LoadTable(r, c) ==
  /\ pc[r][c] = "load"
  /\ base' = [base EXCEPT ![r][c] = table]
  /\ IF RefusesListed /\ table[r][c] # 0
     THEN Raise(r, c) /\ Put(r, c, "FAILED")
     ELSE GoTo(r, c, "add") /\ UNCHANGED <<tries, state>>
  /\ UNCHANGED <<txn, source, phase, snap, plan, attempt, got, object, table, max, wm>>

\* Mutant: the commit does not compare, and drops what was added meanwhile.
AddFilesBlindly(r, c) ==
  /\ pc[r][c] = "add" /\ GoTo(r, c, "mark")
  /\ table' = [base[r][c] EXCEPT ![r][c] = @ + 1]
  /\ UNCHANGED <<txn, source, phase, snap, plan, tries, attempt, got, base,
                 state, object, max, wm>>

\* Mutant: every exception is taken for a conflict, also one raised after the
\* commit took effect.
AddFilesRetriesAll(r, c) ==
  /\ pc[r][c] = "add" /\ base[r][c] = table
  /\ table' = [base[r][c] EXCEPT ![r][c] = @ + 1]
  /\ \/ GoTo(r, c, "mark") /\ UNCHANGED attempt
     \/ /\ attempt[r][c] + 1 < MaxAttempts
        /\ GoTo(r, c, "load") /\ attempt' = [attempt EXCEPT ![r][c] = @ + 1]
  /\ UNCHANGED <<txn, source, phase, snap, plan, tries, got, base, state, object, max, wm>>

\* The commit: compare-and-swap of the table's metadata location.
AddFiles(r, c) ==
  /\ pc[r][c] = "add" /\ base[r][c] = table /\ GoTo(r, c, "mark")
  /\ table' = [base[r][c] EXCEPT ![r][c] = @ + 1]
  /\ UNCHANGED <<txn, source, phase, snap, plan, tries, attempt, got, base,
                 state, object, max, wm>>

\* Mutant: after the last attempt the function returns instead of raising.
CommitConflictGivesUp(r, c) ==
  /\ pc[r][c] = "add" /\ base[r][c] # table
  /\ IF attempt[r][c] + 1 < MaxAttempts
     THEN GoTo(r, c, "load") /\ attempt' = [attempt EXCEPT ![r][c] = @ + 1]
     ELSE GoTo(r, c, "mark") /\ UNCHANGED attempt
  /\ UNCHANGED <<txn, source, phase, snap, plan, tries, got, base, state, object,
                 table, max, wm>>

\* CommitFailedException: reload and try again, max_attempts times in all.
CommitConflict(r, c) ==
  /\ pc[r][c] = "add" /\ base[r][c] # table
  /\ IF attempt[r][c] + 1 < MaxAttempts
     THEN /\ GoTo(r, c, "load") /\ attempt' = [attempt EXCEPT ![r][c] = @ + 1]
          /\ UNCHANGED <<tries, state>>
     ELSE Raise(r, c) /\ Put(r, c, "FAILED") /\ UNCHANGED attempt
  /\ UNCHANGED <<txn, source, phase, snap, plan, got, base, object, table, max, wm>>

MarkDone(r, c) ==
  /\ pc[r][c] = "mark" /\ GoTo(r, c, "return") /\ Put(r, c, "DONE")
  /\ UNCHANGED <<txn, source, phase, snap, plan, tries, attempt, got, base,
                 object, table, max, wm>>

Return(r, c) ==
  /\ pc[r][c] = "return" /\ GoTo(r, c, "returned")
  /\ UNCHANGED <<txn, source, phase, snap, plan, tries, attempt, got, base,
                 state, object, table, max, wm>>

\* A call raises, before or after it took effect, or the worker dies: FAILED is
\* recorded, unless that fails too or the op was not inside its `try`.
Fail(r, c) ==
  /\ pc[r][c] \notin Over
  /\ Raise(r, c)
  /\ UNCHANGED state \/ (pc[r][c] \in InTry /\ Put(r, c, "FAILED"))
  /\ UNCHANGED <<txn, source, phase, snap, plan, attempt, got, base, object,
                 table, max, wm>>

WorkerStep(r, c) ==
  \/ Begin(r, c) \/ CopyChunk(r, c) \/ UploadChunk(r, c) \/ LoadTable(r, c)
  \/ AddFiles(r, c) \/ CommitConflict(r, c) \/ MarkDone(r, c) \/ Return(r, c)

-----------------------------------------------------------------------------
(* commit_chunks, and the end of a run.                                    *)

\* All chunks have returned: the sync is recorded and the maximum is read, its
\* time by one query and the largest id of that time, if still any, by another.
ReadMaximum(r) ==
  /\ phase[r] = "running"
  /\ \A c \in ChunkIds : pc[r][c] \in {"none", "returned"}
  /\ IF Present(source) = {} THEN UNCHANGED max
     ELSE \E k \in Present(source), id \in {0} \cup Present(source) :
            /\ \A j \in Present(source) : source[j] <= source[k]
            /\ id # 0 => source[id] = source[k]
            /\ max' = [max EXCEPT ![r] = [val |-> source[k], id |-> id]]
  /\ phase' = [phase EXCEPT ![r] = "seeding"]
  /\ UNCHANGED <<txn, source, snap, plan, workerVars, state, object, table, wm>>

\* set_watermark, forward-only; the seed is best effort.
SeedWatermark(r) ==
  /\ phase[r] = "seeding"
  /\ phase' = [phase EXCEPT ![r] = "finished"]
  /\ wm' = IF After(max[r].val, max[r].id, wm.val, wm.id) THEN max[r] ELSE wm
  /\ UNCHANGED <<txn, source, snap, plan, workerVars, state, object, table, max>>

SeedFails(r) ==
  /\ phase[r] = "seeding"
  /\ phase' = [phase EXCEPT ![r] = "finished"]
  /\ UNCHANGED <<txn, source, snap, plan, workerVars, state, object, table, max, wm>>

\* A chunk that failed for good fails the run once its other workers are over.
RunFails(r) ==
  /\ phase[r] = "running"
  /\ \E c \in ChunkIds : pc[r][c] = "failed"
  /\ \A c \in ChunkIds : pc[r][c] \in Over
  /\ phase' = [phase EXCEPT ![r] = "failed"]
  /\ UNCHANGED <<txn, source, snap, plan, workerVars, state, object, table, max, wm>>

\* Planning raises (it has no retry policy), or the host of the run is lost.
RunDies(r) ==
  /\ phase[r] \in {"planning", "running", "seeding"}
  /\ phase' = [phase EXCEPT ![r] = "failed"]
  /\ pc' = [pc EXCEPT ![r] = [c \in ChunkIds |->
              IF pc[r][c] \in Over THEN pc[r][c] ELSE "failed"]]
  /\ UNCHANGED <<txn, source, snap, plan, tries, attempt, got, base, state,
                 object, table, max, wm>>

RunStep(r) ==
  \/ PlanNothing(r) \/ PlanChunks(r)
  \/ ReadMaximum(r) \/ SeedWatermark(r) \/ SeedFails(r) \/ RunFails(r)

Next ==
  \/ \E W \in SUBSET Keys : SourceCommit(W)
  \/ \E r \in Runs : ExportSnapshot(r) \/ RunStep(r) \/ RunDies(r)
  \/ \E r \in Runs, c \in ChunkIds : WorkerStep(r, c) \/ Fail(r, c)

Spec == Init /\ [][Next]_vars

\* Dagster keeps executing what it has launched; nobody need launch a run.
Fairness ==
  /\ \A r \in Runs : WF_vars(RunStep(r))
  /\ \A r \in Runs, c \in ChunkIds : WF_vars(WorkerStep(r, c))

FairSpec == Spec /\ Fairness

-----------------------------------------------------------------------------
(* Properties.                                                             *)

Watermark == [val : Nat, id : Nat]
Chunk == [id : Nat, lo : Int, hi : Int]

TypeOK ==
  /\ txn \in Nat /\ source \in [Keys -> Nat]
  /\ phase \in [Runs -> Phases]
  /\ snap \in [Runs -> [Keys -> Nat]]
  /\ plan \in [Runs -> SUBSET Chunk]
  /\ pc \in [Runs -> [ChunkIds -> Steps]]
  /\ tries \in [Runs -> [ChunkIds -> 0..MaxRetries]]
  /\ attempt \in [Runs -> [ChunkIds -> 0..(MaxAttempts - 1)]]
  /\ got \in [Runs -> [ChunkIds -> [Keys -> Nat]]]
  /\ base \in [Runs -> [ChunkIds -> Files]]
  /\ state \in [Runs -> [ChunkIds -> {"none", "RUNNING", "DONE", "FAILED"}]]
  /\ object \in [Runs -> [ChunkIds -> [Keys -> Nat]]]
  /\ table \in Files
  /\ max \in [Runs -> Watermark] /\ wm \in Watermark

\* A chunk recorded DONE is in the table, or had no rows: no commit is lost to
\* a concurrent one, and none is reported that did not happen
\* (extract_chunk_op: "Mark DONE only after the commit succeeds").
DoneMeansCommitted ==
  \A r \in Runs, c \in ChunkIds :
    state[r][c] = "DONE" => table[r][c] >= 1 \/ got[r][c] = NoRows

\* One try of a chunk lists its object once, however many conflicts its commit
\* meets: an attempt that lost has left nothing behind (commit_files_with_retry:
\* "Each add_files is its own atomic snapshot, so retrying is safe").
ListedOncePerTry ==
  \A r \in Runs, c \in ChunkIds : table[r][c] <= tries[r][c] + 1

\* A chunk recorded DONE is neither begun again nor written to, by a retry or
\* by anyone else; only a failure recorded over it reopens it (the guard at the
\* top of extract_chunk_op).
DoneIsFinal ==
  [][\A r \in Runs, c \in ChunkIds :
       state[r][c] = "DONE" => /\ state'[r][c] # "RUNNING"
                               /\ object'[r][c] = object[r][c]]_vars

\* A run that reports success has loaded every row that existed when it
\* started, in the version of that moment or a later one.
FinishedIsComplete ==
  \A r \in Runs, k \in Keys :
    phase[r] \in {"seeding", "finished"} /\ snap[r][k] # 0 =>
      \E c \in ChunkIds : table[r][c] >= 1 /\ object[r][c][k] >= snap[r][k]

\* The job implements the abstract load: whatever is retried, reported late or
\* committed by other workers, an object is listed by the try that wrote it, and
\* no commit takes another's away
\* (commit_files_with_retry, extract_chunk_op).
Load == INSTANCE ChunkLoad WITH
  Runs <- Runs, ChunkIds <- ChunkIds, Keys <- Keys,
  copied <- got, object <- object, table <- table, state <- state
LoadsChunks == Load!Spec

\* A launched run finishes or fails: retries and commit attempts run out.
RunsEnd ==
  \A r \in Runs : phase[r] = "planning" ~> phase[r] \in {"finished", "failed"}

-----------------------------------------------------------------------------
(* What the documentation says of the job, and runs refute.                *)

\* "the only thing we must NOT do is re-add the same files twice, which the caller
\* guards via chunk-state idempotency" (commit_files_with_retry).  The guard does not
\* see a commit that was not marked DONE; only an add_files that refuses keeps this.
AddedOnce == \A r \in Runs, c \in ChunkIds : table[r][c] <= 1

\* "all parallel COPY operations see a single consistent point-in-time of the
\* source DB", that of the exported snapshot (extract/snapshot.py).
OneSnapshot ==
  \A r \in Runs, c \in ChunkIds :
    table[r][c] > 0 =>
      object[r][c] = [k \in Keys |-> IF k \in KeysOf(r, c) THEN snap[r][k] ELSE 0]

\* "if a previous attempt already extracted AND committed this chunk, do not
\* extract/commit again": a committed object is not replaced.
CommittedIsFinal ==
  [][\A r \in Runs, c \in ChunkIds :
       table[r][c] > 0 => object'[r][c] = object[r][c]]_vars

\* "Stuck bootstrap: rerun the job; pipeline_chunk_state skips chunks already
\* marked DONE": what one run recorded DONE is not added again by another.
RerunSkipsDone ==
  [][\A r, q \in Runs, c \in ChunkIds :
       r # q /\ state[q][c] = "DONE" => table'[r][c] = table[r][c]]_vars

\* "so the first incremental after a bootstrap pulls only genuinely new rows":
\* the rows it does not pull are in the lake already (seed_watermark).
SeedLeavesNothingBehind ==
  \A k \in Present(source) :
    \/ \E r \in Runs, c \in ChunkIds :
         table[r][c] > 0 /\ object[r][c][k] = source[k]
    \/ InReach(source[k], k, wm)
=============================================================================
