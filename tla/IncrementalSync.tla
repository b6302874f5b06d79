-------------------------- MODULE IncrementalSync --------------------------
(***************************************************************************)
(* Incremental replication of one table: the op incremental_one_table      *)
(* (orchestration/incremental_job.py), the window extraction               *)
(* run_incremental (extract/incremental.py), the batched merge             *)
(* (load/merge.py) and the forward-only watermark (state/watermarks.py),   *)
(* executed by any number of concurrent runs against a source whose        *)
(* transactions commit some time after they stamp updated_at.              *)
(*                                                                         *)
(* A row's version is its updated_at.  Time is counted in the seconds that *)
(* name a staging object; 0 is the epoch, the default watermark, and also  *)
(* the version of a row that does not exist.                               *)
(***************************************************************************)
EXTENDS Integers, FiniteSets

CONSTANTS
  Runs,            \* Dagster run slots; a slot is reused by a later run
  Keys,            \* primary keys: positive integers, the tie-breaker ids
  Overlap,         \* incremental_overlap_seconds
  SafetyGap,       \* incremental_safety_gap_seconds
  TimeBounded,     \* TRUE: timestamp_tz (hi = now - gap); FALSE: timestamp_naive
  BatchRows,       \* batch_rows of merge_parquet_batched
  MaxRetries,      \* RetryPolicy(max_retries) of the op
  MaxCommitDelay,  \* longest time between stamping updated_at and committing
  MaxClock         \* bound: the last second of a behaviour, in which nothing is written

EffectiveGap == IF TimeBounded THEN SafetyGap ELSE 0

ASSUME ConstantsAssumption ==
  /\ Keys \subseteq Nat \ {0}
  /\ Overlap \in Nat /\ SafetyGap \in Nat /\ MaxCommitDelay \in Nat
  /\ BatchRows \in Nat \ {0}
  /\ MaxRetries \in Nat /\ MaxClock \in Nat
  /\ TimeBounded \in BOOLEAN

\* The window's slack covers the slowest source transaction.
ASSUME SlackAssumption ==
  /\ Overlap > 0
  /\ MaxCommitDelay < Overlap + EffectiveGap

\* The safety gap does what it is for, avoiding transactions in flight: what a
\* window may hold (versions before Hi) no longer changes once `now` is taken.
\* A naive or integer watermark column has no upper bound and so no such gap.
WindowsSettle == TimeBounded /\ MaxCommitDelay <= SafetyGap

VARIABLES
  clock,    \* wall-clock time
  source,   \* source[k]: committed updated_at of row k
  open,     \* open[k]: updated_at stamped by the transaction holding row k
  lake,     \* lake[k]: version of row k in the Iceberg table
  wm,       \* the pipeline_watermarks row of the table
  pc,       \* pc[r]: the next step of run r
  tries,    \* tries[r]: retries of the op used so far
  fresh,    \* fresh[r]: no other run committed since r loaded the table
  now,      \* now[r]: the op's `now`
  wmRead,   \* wmRead[r]: the watermark the run started from
  rows,     \* rows[r]: versions extracted, staged, and still to merge
  newWm     \* newWm[r]: the watermark the run will write

sourceVars == <<clock, source, open>>
runVars == <<pc, tries, fresh, now, wmRead, rows, newWm>>
vars == <<clock, source, open, lake, wm, pc, tries, fresh, now, wmRead,
          rows, newWm>>

Steps == {"idle", "load", "stamp", "watermark", "copy", "upload", "open",
          "merge", "advance", "record"}

-----------------------------------------------------------------------------
(* Watermarks: (value, last_id) pairs in lexicographic order.              *)

Watermark == [val : Int, id : Nat]
Epoch == [val |-> 0, id |-> 0]

\* (v, k) > (val, id), the row comparison of the COPY predicate.
After(v, k, val, id) == v > val \/ (v = val /\ k > id)

\* w < x, as set_watermark and the running maximum compare tuples.
Earlier(w, x) == After(x.val, x.id, w.val, w.id)

\* Row version v of key k is not behind the window of a run that reads w.
InReach(v, k, w) == After(v, k, w.val - Overlap, w.id)

NoRows == [k \in Keys |-> 0]
Present(f) == {k \in Keys : f[k] # 0}

Init ==
  /\ clock = SafetyGap + 1
  /\ source = NoRows /\ open = NoRows /\ lake = NoRows
  /\ wm = Epoch
  /\ pc = [r \in Runs |-> "idle"]
  /\ tries = [r \in Runs |-> 0]
  /\ fresh = [r \in Runs |-> FALSE]
  /\ now = [r \in Runs |-> 0]
  /\ wmRead = [r \in Runs |-> Epoch]
  /\ rows = [r \in Runs |-> NoRows]
  /\ newWm = [r \in Runs |-> Epoch]

-----------------------------------------------------------------------------
(* The source database and time.                                           *)

\* Time passes; no transaction stays open longer than MaxCommitDelay.
Tick ==
  /\ clock < MaxClock
  /\ \A k \in Keys : open[k] # 0 => clock < open[k] + MaxCommitDelay
  /\ clock' = clock + 1
  /\ UNCHANGED <<source, open, lake, wm, runVars>>

\* A transaction inserts or updates row k, stamping updated_at, and keeps
\* the row locked; a row's updated_at increases with every version.  (The
\* last second, a bound, is left to what was written before it.)
SourceWrite(k) ==
  /\ open[k] = 0 /\ clock > source[k] /\ clock < MaxClock
  /\ open' = [open EXCEPT ![k] = clock]
  /\ UNCHANGED <<clock, source, lake, wm, runVars>>

SourceCommit(k) ==
  /\ open[k] # 0
  /\ source' = [source EXCEPT ![k] = open[k]]
  /\ open' = [open EXCEPT ![k] = 0]
  /\ UNCHANGED <<clock, lake, wm, runVars>>

SourceAbort(k) ==
  /\ open[k] # 0
  /\ open' = [open EXCEPT ![k] = 0]
  /\ UNCHANGED <<clock, source, lake, wm, runVars>>

-----------------------------------------------------------------------------
(* One run of incremental_one_table.                                       *)

GoTo(r, step) == pc' = [pc EXCEPT ![r] = step]

\* The op's local state is not used any more, at its end or before a retry.
Forget(r) ==
  /\ fresh' = [fresh EXCEPT ![r] = FALSE]
  /\ now' = [now EXCEPT ![r] = 0]
  /\ wmRead' = [wmRead EXCEPT ![r] = Epoch]
  /\ rows' = [rows EXCEPT ![r] = NoRows]
  /\ newWm' = [newWm EXCEPT ![r] = Epoch]

\* The schedule (or an operator) launches a run of the table.
StartRun(r) ==
  /\ pc[r] = "idle" /\ GoTo(r, "load")
  /\ UNCHANGED <<sourceVars, lake, wm, tries, fresh, now, wmRead, rows,
                 newWm>>

\* Mutant: the handle is kept across attempts instead of being loaded again.
LoadTableOnce(r) ==
  /\ pc[r] = "load" /\ GoTo(r, "stamp")
  /\ UNCHANGED <<sourceVars, lake, wm, tries, fresh, now, wmRead, rows, newWm>>

\* create_or_get_table and evolve_table_schema: the handle the merge will
\* commit through is loaded before anything is extracted.
LoadTable(r) ==
  /\ pc[r] = "load" /\ GoTo(r, "stamp")
  /\ fresh' = [fresh EXCEPT ![r] = TRUE]
  /\ UNCHANGED <<sourceVars, lake, wm, tries, now, wmRead, rows, newWm>>

\* The op's `now`: two runs of a table may well take it in the same second.
StampNow(r) ==
  /\ pc[r] = "stamp" /\ GoTo(r, "watermark")
  /\ now' = [now EXCEPT ![r] = clock]
  /\ UNCHANGED <<sourceVars, lake, wm, tries, fresh, wmRead, rows, newWm>>

\* Mutant: the window reaches up to the present.
HiWithoutGap(r) == now[r]

Hi(r) == now[r] - SafetyGap

\* get_watermark, and the early return of a window that is not open yet.
GetWatermark(r) ==
  /\ pc[r] = "watermark"
  /\ wmRead' = [wmRead EXCEPT ![r] = wm]
  /\ newWm' = [newWm EXCEPT ![r] = wm]
  /\ GoTo(r, IF TimeBounded /\ Hi(r) <= wm.val - Overlap THEN "advance"
                                                         ELSE "copy")
  /\ UNCHANGED <<sourceVars, lake, wm, tries, fresh, now, rows>>

\* Mutant: the overlap is forgotten in the COPY predicate.
WindowWithoutOverlap(r) ==
  {k \in Present(source) : /\ After(source[k], k, wmRead[r].val, wmRead[r].id)
                           /\ TimeBounded => source[k] < Hi(r)}

\* The rows the COPY returns from its REPEATABLE READ snapshot.
Window(r) ==
  {k \in Present(source) : /\ InReach(source[k], k, wmRead[r])
                           /\ TimeBounded => source[k] < Hi(r)}

\* What the running maximum ranges over: it starts from the watermark itself.
Candidates(r) ==
  {wmRead[r]} \cup {[val |-> source[k], id |-> k] : k \in Window(r)}

CopyWindow(r) ==
  /\ pc[r] = "copy"
  /\ rows' = [rows EXCEPT ![r] =
                [k \in Keys |-> IF k \in Window(r) THEN source[k] ELSE 0]]
  /\ IF Window(r) = {}
     THEN /\ newWm' = [newWm EXCEPT ![r] =
                         IF TimeBounded THEN [val |-> Hi(r), id |-> wmRead[r].id]
                                        ELSE wmRead[r]]
          /\ GoTo(r, "advance")
     ELSE /\ \E m \in Candidates(r) :
               /\ \A x \in Candidates(r) : ~Earlier(m, x)
               /\ newWm' = [newWm EXCEPT ![r] = m]
          /\ GoTo(r, "upload")
  /\ UNCHANGED <<sourceVars, lake, wm, tries, fresh, now, wmRead>>

\* upload_fileobj to window_<second of now>.parquet: another run of the same
\* second that has uploaded but not yet read finds this object instead.
\* run_incremental returns, and the watermark it read goes out of scope.
Upload(r) ==
  /\ pc[r] = "upload" /\ GoTo(r, "open")
  /\ rows' = [q \in Runs |-> IF pc[q] = "open" /\ now[q] = now[r]
                             THEN rows[r] ELSE rows[q]]
  /\ wmRead' = [wmRead EXCEPT ![r] = Epoch]
  /\ UNCHANGED <<sourceVars, lake, wm, tries, fresh, now, newWm>>

\* merge_parquet_batched opens the staged object.
OpenStaged(r) ==
  /\ pc[r] = "open" /\ GoTo(r, "merge")
  /\ UNCHANGED <<sourceVars, lake, wm, tries, fresh, now, wmRead, rows,
                 newWm>>

\* B is what iter_batches returns next: the object is in (updated_at, id) order.
IsNextBatch(B, f) ==
  /\ B # {} /\ B \subseteq Present(f)
  /\ Cardinality(B) = BatchRows \/ (B = Present(f) /\ Cardinality(B) < BatchRows)
  /\ \A b \in B, y \in Present(f) \ B : After(f[y], y, f[b], b)

\* Mutant: the overwrite commits whatever the table's snapshot is by now.
MergeBatchUnchecked(r) ==
  /\ pc[r] = "merge"
  /\ \E B \in SUBSET Keys :
       /\ IsNextBatch(B, rows[r])
       /\ lake' = [k \in Keys |-> IF k \in B THEN rows[r][k] ELSE lake[k]]
       /\ rows' = [rows EXCEPT ![r] =
                     [k \in Keys |-> IF k \in B THEN 0 ELSE rows[r][k]]]
       /\ GoTo(r, IF B = Present(rows[r]) THEN "advance" ELSE "merge")
  /\ fresh' = [q \in Runs |-> q = r]
  /\ UNCHANGED <<sourceVars, wm, tries, now, wmRead, newWm>>

\* overwrite(filter=In(pk, keys)) of one batch: replaces the rows whatever
\* their version, and commits only on the snapshot the handle was loaded at.
MergeBatch(r) ==
  /\ pc[r] = "merge" /\ fresh[r]
  /\ \E B \in SUBSET Keys :
       /\ IsNextBatch(B, rows[r])
       /\ lake' = [k \in Keys |-> IF k \in B THEN rows[r][k] ELSE lake[k]]
       /\ rows' = [rows EXCEPT ![r] =
                     [k \in Keys |-> IF k \in B THEN 0 ELSE rows[r][k]]]
       /\ GoTo(r, IF B = Present(rows[r]) THEN "advance" ELSE "merge")
  /\ fresh' = [q \in Runs |-> q = r]
  /\ UNCHANGED <<sourceVars, wm, tries, now, wmRead, newWm>>

\* Mutant: the upsert is not conditional, and the watermark may go back.
AdvanceWatermarkBlind(r) ==
  /\ pc[r] = "advance" /\ GoTo(r, "record")
  /\ wm' = newWm[r]
  /\ Forget(r)
  /\ UNCHANGED <<sourceVars, lake, tries>>

\* advance_watermark_after_merge: forward-only, under the row lock.  After it
\* the op's local state is only logged.
AdvanceWatermark(r) ==
  /\ pc[r] = "advance" /\ GoTo(r, "record")
  /\ wm' = IF Earlier(wm, newWm[r]) THEN newWm[r] ELSE wm
  /\ Forget(r)
  /\ UNCHANGED <<sourceVars, lake, tries>>

\* record_object_sync, the op's last call.
RecordSync(r) ==
  /\ pc[r] = "record" /\ GoTo(r, "idle")
  /\ tries' = [tries EXCEPT ![r] = 0]
  /\ UNCHANGED <<sourceVars, lake, wm, fresh, now, wmRead, rows, newWm>>

\* Mutant: one retry too many.
RaiseOffByOne(r) ==
  /\ IF tries[r] <= MaxRetries
     THEN GoTo(r, "load") /\ tries' = [tries EXCEPT ![r] = @ + 1]
     ELSE GoTo(r, "idle") /\ tries' = [tries EXCEPT ![r] = 0]
  /\ Forget(r)

\* An exception leaves the op: it is retried from its start, and once the
\* retries are used up the run has failed and a later run takes over.
Raise(r) ==
  /\ IF tries[r] < MaxRetries
     THEN GoTo(r, "load") /\ tries' = [tries EXCEPT ![r] = @ + 1]
     ELSE GoTo(r, "idle") /\ tries' = [tries EXCEPT ![r] = 0]
  /\ Forget(r)

\* CommitFailedException: another run committed since the table was loaded.
CommitConflict(r) ==
  /\ pc[r] = "merge" /\ ~fresh[r]
  /\ Raise(r)
  /\ UNCHANGED <<sourceVars, lake, wm>>

\* Any other call fails, the connection is lost, a staged object is replaced
\* while it is being read, or the worker dies: between any two steps.
Fail(r) ==
  /\ pc[r] # "idle"
  /\ Raise(r)
  /\ UNCHANGED <<sourceVars, lake, wm>>

RunStep(r) ==
  \/ StartRun(r) \/ LoadTable(r) \/ StampNow(r) \/ GetWatermark(r)
  \/ CopyWindow(r) \/ Upload(r) \/ OpenStaged(r) \/ MergeBatch(r)
  \/ AdvanceWatermark(r) \/ RecordSync(r) \/ CommitConflict(r)

Next ==
  \/ Tick
  \/ \E k \in Keys : SourceWrite(k) \/ SourceCommit(k) \/ SourceAbort(k)
  \/ \E r \in Runs : RunStep(r) \/ Fail(r)

Spec == Init /\ [][Next]_vars

\* Failures other than commit conflicts happen finitely often.
FailuresCease == <>[][\A r \in Runs : Fail(r) => RunStep(r)]_vars

\* Source transactions end, time passes, Dagster keeps running the op's steps
\* and launching runs, and failures cease; no fairness for writes or aborts.
Fairness ==
  /\ FailuresCease
  /\ WF_vars(Tick)
  /\ \A k \in Keys : WF_vars(SourceCommit(k) \/ SourceAbort(k))
  /\ \A r \in Runs : WF_vars(RunStep(r))

FairSpec == Spec /\ Fairness

-----------------------------------------------------------------------------
(* Properties.                                                             *)

\* Every variable has its type; one invariant for the whole module.
TypeOK ==
  /\ clock \in Nat
  /\ source \in [Keys -> Nat] /\ open \in [Keys -> Nat] /\ lake \in [Keys -> Nat]
  /\ wm \in Watermark
  /\ pc \in [Runs -> Steps]
  /\ tries \in [Runs -> 0..MaxRetries]
  /\ fresh \in [Runs -> BOOLEAN]
  /\ now \in [Runs -> Nat]
  /\ wmRead \in [Runs -> Watermark] /\ newWm \in [Runs -> Watermark]
  /\ rows \in [Runs -> [Keys -> Nat]]

\* No row is left behind: a committed row whose current version is not in
\* the lake is still in reach of the window of a run that would read the
\* watermark now (extract/incremental.py: the watermark only moves past
\* rows that were merged, or that the overlap re-scans).
NoRowLeftBehind ==
  \A k \in Present(source) :
    lake[k] # source[k] => InReach(source[k], k, wm)

\* Every watermark, written, read or about to be written, trails the clock by
\* the gap of its window kind: a transaction still open at the source is at
\* most Overlap behind it (extract/incremental.py: hi = now - safety_gap).
Trails(w) == w.val <= clock - EffectiveGap
WatermarkTrailsClock ==
  Trails(wm) /\ \A r \in Runs : Trails(wmRead[r]) /\ Trails(newWm[r])

\* An overwrite never replaces a row of the lake by an older version of it
\* (load/merge.py: "prefer the new row when updated_at is newer").
LakeNeverRegresses == [][\A k \in Keys : lake[k] <= lake'[k]]_vars

\* A version that stays current is eventually in the lake: failures, commit
\* conflicts and early advances of the watermark only delay it.  (A row that is
\* rewritten within every safety gap never gets out of it and may starve.)
EventuallyReplicated ==
  \A k \in Keys :
    \A v \in 1..(IF TimeBounded THEN MaxClock - SafetyGap - 1 ELSE MaxClock) :
      source[k] = v ~> lake[k] >= v \/ source[k] # v

-----------------------------------------------------------------------------
(* The inductive invariant behind NoRowLeftBehind.  A step keeps it if the  *)
(* windows settle (WindowsSettle), or as long as no two live runs stamp the *)
(* same second (DistinctSeconds): else a run may merge the other's rows.    *)

\* Versions are stamped with the time of the write, and a transaction is open
\* for MaxCommitDelay at most; no run's `now` lies ahead.
InTime ==
  /\ clock > SafetyGap
  /\ \A r \in Runs : now[r] <= clock
  /\ \A k \in Keys :
       /\ source[k] <= clock
       /\ open[k] # 0 => /\ source[k] < open[k] /\ open[k] <= clock
                         /\ clock <= open[k] + MaxCommitDelay

\* Only committed versions are extracted, and only those reach the lake.
OnlyCommitted ==
  \A k \in Keys : lake[k] <= source[k] /\ \A r \in Runs : rows[r][k] <= source[k]

\* What a run holds at each of its steps; no watermark it has read, nor the
\* default one, is later than the table's.
RunLocals ==
  /\ ~Earlier(wm, Epoch)
  /\ \A r \in Runs :
       /\ pc[r] \in {"idle", "load", "stamp", "record"} <=> now[r] = 0
       /\ pc[r] \notin {"upload", "open", "merge"} => rows[r] = NoRows
       /\ ~Earlier(wm, wmRead[r])

\* Not a guarantee of the code: nothing limits the live runs of a table.
DistinctSeconds ==
  \A r, q \in Runs : r # q /\ now[r] # 0 => now[r] # now[q]

\* Before Hi(r), f holds no version newer than those of run r.
SettledFor(r, f) ==
  \A k \in Present(rows[r]) : f[k] <= rows[r][k] \/ f[k] >= Hi(r)

\* Two runs of the same second extract the same versions of the rows that
\* changed since the watermark, so one may merge the object of the other.
SettledWindows ==
  /\ \A k \in Keys : lake[k] < clock - SafetyGap
  /\ \A r \in Runs :
       /\ \A k \in Present(rows[r]) : rows[r][k] < Hi(r)
       /\ SettledFor(r, source) /\ SettledFor(r, lake)
       /\ \A q \in Runs : SettledFor(r, rows[q])
       /\ fresh[r] /\ now[r] # 0 => \A k \in Keys : lake[k] < Hi(r)
       /\ pc[r] = "upload" => \A k \in Window(r) : rows[r][k] = source[k]

\* A run whose handle is current holds no version older than the lake's.
FreshIsNewer ==
  \A r \in Runs, k \in Keys :
    fresh[r] /\ rows[r][k] # 0 => lake[k] <= rows[r][k]

\* A run may write its watermark once its rows are merged: every row not yet
\* replicated is among them or in reach of that watermark.
Accounted ==
  \A r \in Runs, k \in Present(source) :
    pc[r] \in {"upload", "open", "merge", "advance"} =>
      \/ lake[k] = source[k]
      \/ rows[r][k] = source[k]
      \/ InReach(source[k], k, newWm[r])

\* Needs no assumption about the windows or the seconds.
TimeInv == TypeOK /\ InTime /\ WatermarkTrailsClock

SyncInv ==
  /\ TimeInv
  /\ OnlyCommitted /\ RunLocals /\ FreshIsNewer /\ Accounted /\ NoRowLeftBehind
  /\ WindowsSettle => SettledWindows

-----------------------------------------------------------------------------
\* The pipeline implements the abstract replica: every step of the lake is a
\* catching up with committed versions, and nothing but a merge moves it.
Replica == INSTANCE LakeReplica WITH Keys <- Keys, source <- source, lake <- lake
ReplicatesSource == Replica!Spec
=============================================================================
