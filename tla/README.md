# Verification of the PostgreSQL-to-Iceberg pipeline

TLA+ modules, TLC configurations and TLAPS proofs kept beside the code in
`src/src/viamedia_pipeline` (paths below are relative to it).

## 1. Inventory

The program copies tables of source PostgreSQL databases ("connections") into
Apache Iceberg tables in S3 and serves them through DuckDB.  Dagster executes
the jobs, a metadata PostgreSQL holds configuration, watermarks, chunk state and
the Iceberg catalog, and a FastAPI gateway holds the DuckDB connections.

| Component | State it keeps | Operations | Interacts with |
|---|---|---|---|
| Incremental replication (`orchestration/incremental_job.py`, `extract/incremental.py`, `load/merge.py`) | a staging object per table and second; the op's locals | one run per table and tick: load table, stamp `now`, read watermark, COPY the window, upload, merge in batches, advance | source, S3, Iceberg, watermark store |
| Watermark store (`state/watermarks.py`) | one row per (connection, table): value, last id | get; set, forward-only | metadata PostgreSQL |
| Chunk planner (`extract/chunker.py`) | none | id-range, whole-table and per-day plans | source |
| Bootstrap (`orchestration/bootstrap_job.py`, `extract/snapshot.py`, `extract/copy_worker.py`) | chunk state per run and chunk, one S3 object per chunk | plan under an exported snapshot, extract in parallel, commit, mark DONE, seed the watermark | planner, chunk state, Iceberg, watermarks |
| Iceberg writer (`load/iceberg_writer.py`) | the catalog; a cache of catalogs | create or get, evolve, optimistic commit, drop | catalog, S3 |
| Reconciliation (`load/reconcile.py`) | none | compare key sets, delete, add | source, Iceberg |
| Maintenance (`load/maintenance.py`, `orchestration/maintenance_job.py`) | none; the sensor's run keys | compact, expire, first-load sensor | Iceberg, Dagster |
| DuckDB pool, view refresher (`gateway/duckdb_pool.py`, `gateway/view_refresher.py`) | the deque of connections, the views on each | acquire/release, sweep, refresh | catalog, queries |
| Asynchronous queries (`gateway/query.py`) | jobs in memory, an executor | submit, run, read status, sign result | pool, S3 |
| HTTP application (`gateway/app.py`, `gateway/dagster_client.py`) | none of its own | connections, selection, runs, wipe, settings, queries | everything above |
| Configuration caches (`common/config_store.py`, `common/settings.py`, `orchestration/tables.py`) | connections, settings and tables, each cached with a time to live per process | read, write, invalidate | metadata PostgreSQL |
| Discovery (`extract/discovery.py`) | none | watermark column and kind of a table | source |
| Authentication, guard (`gateway/auth.py`, `oauth.py`, `sql_guard.py`) | tokens, users | check a request | configuration |
| Schema mapping, DDL, clients, admin page | none | — | — |

What makes each part hard, and what makes it correct:

* **Incremental.** Source transactions commit after they stamp `updated_at`; runs
  of one table overlap, because the schedule does not wait for the previous
  tick; every call may fail and the op is retried from its start; commits are
  optimistic.  Correct: no row is left behind the watermark; the lake never
  goes back; what stays current arrives.
* **Planner.** Sparse ids, estimates instead of counts, NULL days, time zones.
  Correct: each row is in one chunk; ids are unique; a file has one day; the
  loops end.
* **Bootstrap.** Workers commit to one table at once, and a chunk's life is
  spread over S3, Iceberg and the metadata database with no transaction over
  them.  Correct: DONE means committed, once; a finished run is complete; a run
  ends.
* **Gateway.** Threads of four kinds share a few connections.  Correct: no
  connection is lost or shared, nobody sleeps beside a free one, a statement
  sees one state of the views, jobs end.
* **Reconciliation.** Two scans at two moments, then deletes and fetches in
  batches over a table that incremental runs merge into.  Correct: a live key is
  never taken for a ghost; an undisturbed pass makes the key sets equal; what a
  disturbed pass leaves, later ones repair.
* **Table lifecycle and wipe.** The table is created, dropped, created again and
  evolved by runs that overlap, while the watermark lives in another database.
  Correct: the watermark stands over no row that was never in a table; the
  columns converge.
* **Caches.** Two caches with a time to live, one read through the other, one of
  them without a lock, in processes that know nothing of each other.  Correct:
  what is served is not older than the times to live allow, never goes back
  within a process, and a saved selection is what is synced.

`PROJECT.json` lists every hazard at the line where it bites, with the
properties that cover it.

## 2. Plan

| | Module | Status |
|---|---|---|
| 1 | `LakeReplica`, `IncrementalSync`, `IncrementalSyncProofs` | done |
| 2 | `Chunker`, `ChunkerProofs` | done |
| 3 | `ChunkLoad`, `Bootstrap`, `BootstrapProofs` | done |
| 4 | `ViewPool`, `Gateway` (pool, refresher, queries, the wipe's sweep), `GatewayProofs` | done |
| 5 | `Reconcile`, `ReconcileProofs` | done; it has incremental runs of its own, with windows of any rows, instead of an instance of `IncrementalSync` |
| 6 | `TableLifecycle`, `TableLifecycleProofs` | done; the first-load sensor is left out, it has no state but Dagster's |
| 7 | `ConfigCache`, `ConfigCacheProofs` | done |
| 8 | Composition of `Bootstrap` and `IncrementalSync` | not done: duplicates from `add_files` and the seed watermark are findings of `Bootstrap` already, and the product of the two is beyond TLC at bounds where a window, a commit and a chunk meet |

Abstract specifications: `LakeReplica`, which `IncrementalSync` implements;
`ChunkLoad`, which `Bootstrap` implements; `ViewPool`, which `Gateway` implements.
Each is checked as a property of a run and proved of every instance.  Left to
state: an abstract specification of `Reconcile` and `TableLifecycle`, whose
findings leave little that is simpler than the code and true of it.

## 3. Modules and code

### `IncrementalSync` (with `LakeReplica`)

Rows are versions: `source[k]`, `lake[k]` hold the row's `updated_at`, 0 for no
row.  `open[k]` is a source transaction that has stamped the row and not
committed.  `clock` counts the seconds that name a staging object.

| Action | Code |
|---|---|
| `StartRun` | the schedule (`incremental_job.py:100-129`) or an operator |
| `LoadTable`, `StampNow` | `create_or_get_table`/`evolve_table_schema` (54-68), then `now` (70-75) |
| `GetWatermark`, `CopyWindow`, `Upload` | `run_incremental` (`incremental.py:115-231`), early returns included |
| `OpenStaged`, `MergeBatch` | `merge_parquet_batched`: opens the object, one overwrite commit per batch |
| `AdvanceWatermark`, `RecordSync` | `set_watermark` under its row lock; `record_object_sync`, whose row is not state |
| `CommitConflict`, `Fail`, `Raise` | a conflict, any other failure at any step; retry from the start, or the run ends |

`fresh[r]` stands for the snapshot the handle of run `r` was loaded at: it is the
expected parent of every commit, so a commit of any other run makes it stale.
Any number of runs may stamp the same second, as nothing limits the runs of a
table; `Upload` of a run replaces the content another run of the same second has
staged and not opened yet.  Kinds of watermark: `TimeBounded` is `timestamp_tz` (upper
bound `now - gap`, overlap); FALSE is `timestamp_naive` (overlap only); a date is
the former with days for seconds; an integer watermark has no overlap and is
excluded by `SlackAssumption`.  Left out: source deletes (incremental replication
does not see them), column data, the tie of two versions of one row in one
second (a row's `updated_at` is assumed to increase).

### `Chunker`

A table maps ids to the time in the partition column; the ids in `NoIds` are
rows whose id is NULL, which a range predicate, `min` and `max` pass over.  Init chooses the table,
one of the three planners, whether the id is numeric and indexed, the column's
type.  `CutGroup` computes range and step for a group from an estimate (any
value from -1, as `reltuples` may be) or a count; `SkipGroup` passes over a day
whose ids are all NULL; `CutChunk` is one round of the `while`.  `Selects` is the WHERE clause `extract_chunk_to_s3` builds for the
chunk, with days bounded by UTC midnights.  The order in which groups are
visited (`ORDER BY 1`) is left open.  `Findable` are the rows a plan can reach:
those with an id, and all rows of a group that is not cut by ids.

### `Bootstrap` (with `ChunkLoad`)

`phase[r]` follows `plan_bootstrap`, the mapped `extract_chunk_op` and
`commit_chunks`; `pc[r][c]` the worker of a chunk.  `state` is
`pipeline_chunk_state`, `object` the parquet object under the key made of run
and chunk, `table[r][c]` how often the Iceberg table lists it, `base` the file
list the worker loaded (compare-and-swap of the metadata location).  `Fail`
covers calls that raise before or after their effect and lost workers; `RunDies`
the loss of the run; `SourceCommit` happens at any time.  One object per chunk
(roll-over into parts is left out), range plans only (the others are in
`Chunker`), no cap on parallel workers (more interleavings than the code has),
no deletes.  Whether `add_files` refuses a file the table lists is a constant,
`RefusesListed`.  The comments of the code say that it does not and that the
caller's chunk state guards against it; pyiceberg, at the version
`pyproject.toml:18` asks for, refuses by default.  The runs take the comments' word,
and what needs the refusal says so.

`ChunkLoad` knows of a chunk only its rows as last copied, its object, how often the
table lists it and its record.  `CopyChunk`, `UploadChunk`, `AddFiles` are its
`Copy`, `Upload`, `Add`; `Begin`, `MarkDone` and every failure that is recorded are
its `Record`; planning, loading the table, conflicts that are retried and the end
of a run do not show.  Its `Add` changes one chunk's entry, so a commit that drops
what another worker added meanwhile is no step of it.  It lets a later try
overwrite a listed object, as the code does (`bootstrap_overwrite`).

### `Gateway` (with `ViewPool`)

`avail`, `held`, `waiting`, `notified` are the deque, the acquired connections and
the condition variable: `notify` moves a sleeping thread to `notified`, and an
arriving thread may take the connection before that one runs (`Take`, `Wait`,
`TimeOut`).  `Query` is a statement of a job or of `POST /query`, its
`finally` included; SUCCEEDED and FAILED are one step, `ended`.  `Resolve` and
`Apply` are `refresh_once`: tables the catalog
does not answer for are not resolved, and their views are pruned.  `DropTables`
and `DropSchema` are the wipe's part in this: catalog entries first, then the
sweep.  Which sleeping thread is notified, and which queued job an executor
thread takes, is left open (FIFO in the code).  `visited` and `quiet` are history
variables of a sweep, `given` the version of each table a sweep last gave a view.

A statement of `POST /query` is checked by the guard and leaves the views alone,
except an administrator's when `gateway_admin_sql_unrestricted` is on
(`settings.py:84-86`, off by default; `app.py:549-559`, `582-587`): it goes to the
pooled connection as it is.  `Statement` lets those of `Admins` make, replace and
drop views of their own connection at will, which is all they can reach of another's:
each connection is its own in-memory database.  What else such a statement can do
(settings of the session, files, tables of its own) is not modelled.  Jobs have no
such way: their SQL goes into a `COPY (...)` (`query.py:80-84`).

`ViewPool` knows only who uses which connection, the views on it, the last
version of each table and the last one given to a view by a sweep.  A statement's
whole life on a connection is `Acquire` and `Release`, and an administrator may
release its connection with other views; what a sweeper does to one connection is
one `Sweep`, which may drop views or give them a version no older than any sweep
gave before.  Waiting, waking, timeouts, rounds of a sweep,
the catalog and the jobs do not show.

### `Reconcile`

A row is its version, 0 for no row; a key inserted again gets a higher version
than it ever had (`stamp`).

| Action | Code |
|---|---|
| `ScanLake`, `ScanSource` | `reconcile_table` (`load/reconcile.py`): `load_table` and the key column as of that snapshot, then the keys from a server-side cursor, one statement's snapshot |
| `DeleteGhosts`, `Reload` | the batches of deletes, one commit each, with a new handle after each; a delete that matches nothing commits nothing |
| `FetchMissing`, `LoadForMerge`, `MergeMissing` | `_add_missing_rows`: COPY a batch, read it back, load the table only then, overwrite by key |
| `Record`, `CommitConflict`, `Fail` | `record_object_sync`, and `reconcile_job`'s retry from the start |
| `SyncLoad` to `SyncEnd` | an incremental run, whose window may hold any rows that are at the source |
| `Write`, `Delete` | source transactions |

`fresh[a]` is again "the handle is at the current snapshot".  `gone` and `quiet`
are history: keys absent from the source at some time since the scan, and
whether anyone else has changed either side.  Tables without a numeric key are
skipped by the op before it reads anything.

### `TableLifecycle`

The source is append-only with an integer watermark: row n is the n-th insert,
and a window one commit.  `entry` is the catalog's row: none, live, or an orphan
whose metadata object is gone.  `fresh[r]` are the parts of the table, columns and
rows, that nobody has committed since run `r` loaded it: the catalog compares the
schema for a commit of the schema, the main snapshot for one of data, and the
table's identity for both, so a change of columns does not refuse another run's
merge.

| Action | Code |
|---|---|
| `Open`, `Probe`, `Drop`, `Create`, `LoseRace`, `DropFails` | `create_or_get_table` (`load/iceberg_writer.py`): load, ask for the metadata object, compare specs, drop, create, and the second drop and create when another run was faster |
| `LoadToEvolve`, `Union`, `LoadToUse`, `Prune`, `Skip` | `evolve_table_schema`, `_drop_removed_columns`; errors are logged and skipped |
| `Extract`, `Merge`, `Advance` | the window, the merge and `set_watermark` of an incremental run |
| `WipeTables`, `WipeFiles`, `WipeState`, `WipeRuns`, `WipeAborts` | `wipe_connection` (`gateway/app.py:296-338`), in its order, each part of it allowed to fail as the code lets it; the files go in pages, so it may stop with the data deleted and the metadata still there |
| `AlterSource`, `Reconfigure`, `Outage`, `Recover`, `DeleteFolder` | a column added or dropped, a new partition spec, S3 unreachable, curated files removed by hand |

`dropped` is history: rows of tables that are no more; `NeverSkipped` counts them
as present, so rows that go when a table is dropped are the business of
`QuietlyCovered`, and there only as the end of `calm`.  `calm` is history too:
no table with rows was dropped by a run, none was lost, and no run was beside a
wipe.  A wipe of a connection with several tables is modelled for one of them.

### `ConfigCache`

The database is the sequence of versions of each kind, with the time each was
committed; a cached entry is a version and the time it is kept under.

| Action | Code |
|---|---|
| `EnterHit`, `EnterMiss`, `Load`, `Keep`, `LoadFails`, `Clear` | `list_connections`, `all_settings` and the writers' invalidation, under `_lock` (`common/config_store.py`) |
| `Call`, `Overlay` | `get_settings` (`common/settings.py`): its cache first, then config_store's, then the environment when the database fails |
| `Tables`, `ReadSelection`, `KeepTables` | `get_tables` (`orchestration/tables.py`) and the filters of `discover` |
| `CommitEdit`, `CommitSetting`, `CommitSelection` | `update_connection` with `_resolve_secrets`, `set_setting`, `set_selection` |

A selection may be any set of objects, the empty one included, after which
discovery falls back to the globs; an edit puts globs and blacklist back to their
defaults (`Globbed`, `Barred`).  `MayCommit` bounds the versions.  Creating and deleting a connection are an
edit with other data; several connections are one, since the cache holds the
list of them as one entry.  Left out: `get_table`'s discovery of one object
(`tables.py:140-150`), which keeps nothing.  `NeverGoesBack` is about config_store's
caches; `get_settings` overlays its values without a lock, and a slow caller
can put an older overlay back for its time to live (`SettingsFresh` bounds it).

## 4. Runs

| Run | Bounds | Shows |
|---|---|---|
| `sync_tz` | 2 runs that may share a second and its staging object, 2 rows, overlap, gap and commit delay 1, batches of one row, clock to 5, failures anywhere | `NoRowLeftBehind`, `WatermarkTrailsClock`, the inductive `SyncInv`, refinement of `LakeReplica` |
| `sync_live` | 2 runs that may share a second, 1 row, a retry, finitely many failures, clock to 4 | `EventuallyReplicated` |
| `chunker` | tables of up to 4 sparse ids and a row without one over two days and NULL, session one hour off UTC, 2 rows per chunk, estimates to 8 | all properties of `Chunker` |
| `bootstrap` | 1 run, 2 rows in 1 or 2 chunks, 1 retry, 2 commit attempts, 2 transactions during the run, `add_files` lists a listed file again | all safety, refinement of `ChunkLoad` and `RunsEnd` |
| `gateway` | 2 connections, 1 job on 1 executor thread, 1 request of an unrestricted administrator, refresher, wipe, 1 table of 2 versions | all properties of `Gateway`, refinement of `ViewPool` |
| `reconcile` | 1 pass after another, 1 incremental run, 2 keys of 2 versions, batches of one | `QuietPassAgrees`, `DeletesOnlyGone`, the inductive `ReconcileInv`, `EventuallyAgrees` |
| `lifecycle` | 2 runs, 1 row, 1 column that comes and goes, 2 partition specs, 2 events | `NeverSkipped`, `QuietlyCovered`, the inductive `LifecycleInv`, `EventuallyEvolved` |
| `config` | 2 threads of one process or of two, every pair of requests, times to live 2, clock to 3, 2 versions of each kind | freshness, `NeverGoesBack`, `SelectionHonoured`, the inductive `ConfigInv` |
| `bootstrap_duplicate`, `reconcile_regress`, `lifecycle_wipe`, `config_secret` | the same or smaller | violations, see Findings |

Further configurations ask smaller questions of the same modules:
`bootstrap_rerun` (`FinishedIsComplete` across two runs at once) and
`bootstrap_refused` (`AddedOnce` when `add_files` refuses) pass;
`sync_same_second_naive` (`NoRowLeftBehind`), `bootstrap_relist` (`AddedOnce`),
`bootstrap_snapshot` (`OneSnapshot`), `bootstrap_overwrite` (`CommittedIsFinal`),
`bootstrap_seed` (`SeedLeavesNothingBehind`), `chunker_null_ids` (`EveryRowCopied`)
and `gateway_sweep` (`SweepReachesAll`) end in the violations that Findings
describes.

What some of the names do not promise: `QuietSweepReachesAll` is about sweeps
that had the pool to themselves; `EventuallyAgrees` is about the sets of keys, not
the versions of the rows, which `reconcile_regress` is about.

Why these bounds are enough to mean something: two runs are what a conflict, a
shared object or an out-of-order watermark needs; two rows are what a batch
boundary, the id tie-breaker and a half-merged window need; five seconds hold
a late commit, a window over it and a window after it; two chunks are the
smallest race of two workers; with two connections and four threads there are
sleeping threads, overtaking and an unlucky sweep, and a table of two versions can
be wiped and created again under a sweep; two keys with batches of one
leave a pass with a batch done and one to do, on either side, and a key that is
deleted and inserted again needs two versions; two events in a table's life are
a change during the repair of another; a clock that runs past a time to live of
two has an entry that is old and not yet expired.  `MaxClock`, `MaxTxn`,
`MaxTuples`, `MaxVersion`, `MaxVersions`, `MaxTime`, `MaxRows` and `MaxEvents` only
bound the exploration (nothing is written in second `MaxClock`, which no window of a
timestamptz column reaches).  The bootstrap, planner and lifecycle runs switch the
deadlock check off because runs, planners and bounded sources end.  Symmetry
(`RunSymmetry`, `Symmetry`) is used in runs without liveness alone.

### Fairness

Weak fairness of each run's own steps (Dagster executes what it has launched, and
the schedule launches again), of time, and of the end of source transactions;
none for writes or aborts.  Failures other than commit conflicts, unbounded in
the safety runs, cease at some point in `sync_live` (`FailuresCease`).  In
`Gateway`, weak fairness of each thread's turn at the lock, of its timeout, and
of statements (a statement that never ends is the one thing DuckDB cannot
bound); none for requests, commits and wipes.

`Reconcile`: passes are launched daily and run on; failures other than conflicts
cease, and so do merges of incremental runs, since a source that is left alone
has nothing for them once the overlap has passed.  `TableLifecycle`: runs are
started for ever and S3 comes back; errors that the state does not force cease.
`EventuallyEvolved` assumes besides that runs no longer overlap: two that do can
refuse each other's schema commit for ever, which the code logs and skips.
`ConfigCache` states no fairness: all its properties are safety.

### Findings

* Two runs of one table in one second share a staging object, and each may merge
  what the other extracted.  That is harmless as long as both windows end before
  any transaction in flight, which is proved; for a naive watermark column, which
  has no upper bound, the watermark passes a row nobody merged
  (`sync_same_second_naive`).
* The exporter's transaction ends before the first worker starts, so the chunks
  of a bootstrap are not one snapshot (`bootstrap_snapshot`).
* `bootstrap_job.py:158-160` and `iceberg_writer.py:297-299` say that `add_files` does not
  dedup and that the caller's chunk state keeps a file from being added twice.  It
  does not when a commit took effect and the worker failed before it marked the
  chunk DONE: the retry calls `add_files` with the same object again.  If `add_files`
  lists it again, the chunk's rows are double (`bootstrap_relist`); if it refuses, as
  pyiceberg does by default, no row is double (`bootstrap_refused`), but every retry
  raises and the run fails although the chunk is loaded.
* A retry after "committed, not marked DONE" overwrites an object the table
  already lists (`bootstrap_overwrite`).
* `chunker.py:1` speaks of slices of the whole object; rows with a NULL id are in no
  slice of a table or day that is cut by ids (`chunker.py:95-97`, `193-194`), and an
  index on the id does not make it NOT NULL (`chunker_null_ids`).
* A rerun has another `run_id`, skips nothing, and adds rows twice
  (`bootstrap_duplicate`).
* The seed watermark is the source maximum after the copy; changes made during
  the copy can be skipped by the first incremental (`bootstrap_seed`).
* A sweep of the pool can miss a busy connection (`gateway_sweep`).
* A reconciliation pass overwrites a newer row by an older one that it fetched
  before it loaded the table (`reconcile_regress`).  A later pass does not
  notice, because the keys agree; only a window that still covers the row
  brings it again.
* A run in flight writes its watermark after a wipe deleted the watermarks and
  before the wipe terminates it; the next runs skip the rows below it
  (`lifecycle_wipe`).
* An edit of a connection that leaves the password blank restores the password
  an overlapping edit has just replaced (`config_secret`).
* The bound of `SettingsFresh` is the sum of two times to live: a setting can be
  served for just under 60 seconds, where the repository's `README.md:146` says
  about 30.

## 5. Proofs

All for every value of the constants that satisfies the modules' assumptions.

**`IncrementalSyncProofs`.** `TypeCorrect`; `SyncInvariant`; from it
`RowsAreNotLeftBehind`, `WatermarksTrail`, `LakeMovesForward` and
`ImplementsReplica`.  All assume that the slack covers the slowest transaction
(`MaxCommitDelay < Overlap + EffectiveGap`, `Overlap > 0`).  `TypeCorrect` and
`WatermarksTrail` assume nothing else; the others assume `WindowsSettle`: the column
is a timestamptz and the gap is as long as the slowest transaction, which is what
the gap is for (`ui.py:303`, `incremental.py:125-131`).  They cover any number of runs
in one second.  `OneRunPerSecond` says what is left without `WindowsSettle`, for a
naive column or too short a gap: in every behaviour in which no two live runs
stamp the same second (`DistinctSeconds`), no row is left behind and no overwrite
makes a row older.  Nothing in the code guarantees that hypothesis; the finding
shows what happens without it.

`NoRowLeftBehind` is not inductive: when a run writes its watermark, one must know
that each row behind it was merged.  `SyncInv` adds that each unreplicated row is
either among the rows a run still holds or in reach of the watermark it will
write (`Accounted`); that stamps lie in the past and open transactions are not too
old (`InTime`); that only committed versions are extracted (`OnlyCommitted`); what
a run holds at each step (`RunLocals`); that watermarks trail the clock; and that a
run whose handle is current holds no version older than the lake's (`FreshIsNewer`):
the handle is loaded before the extraction, so whoever merged newer rows since has
made it stale.  What a run merges may have been staged by another of the same
second.  `SettledWindows` is why that does no harm: below the end of their common
window neither source nor lake holds anything newer than what either extracted.

**`ChunkerProofs`.** `TypeCorrect` (the step is never zero), `EveryRowOnce` (of the
`Findable` rows), `ChunkIdsDistinct`, `FilesStayInOneDay`, `DaysAreCutInProportion`.  The invariant
splits the rows into those selected by exactly one chunk and those of the groups,
and the part of the current range, still to be cut.  `DaysAreCutInProportion`
bounds a cardinality, which no step counts, by a quotient: `BudgetInv` says that the
ids a day has left fit into one step for each chunk it may still have, out of less
than twice the pieces asked for.  `StepsCoverRange` is why that holds when the step is
computed, rounded down, and `OneMoreStep` why each round keeps it.

**`BootstrapProofs`.** `TypeCorrect`, `DoneIsCommitted`, `TriesListOnce`,
`DoneObjectsStay`.  The invariant says what a worker knows at each step: before
`mark` the chunk is not recorded DONE; at `mark` its file is listed.  `TriesInv` counts:
a chunk that has not committed in this try is listed at most once for each try
before, because a commit that went through and was reported ends the attempts.
`FilesAreAddedOnce` assumes `RefusesListed`: then at `add` the chunk's own file is not in
the list the worker loaded, and that this list is the current one when the commit
succeeds is what makes the commit add it once.
`FinishedRunsAreComplete` adds to it what a worker's copy, object and commit
hold of each row of the plan (`RowInv`) and that every such row is in the range of
a chunk with a worker (`PhaseInv`, from integer division in `PlanCovers`).  It
assumes `PlansFit`: `ChunkIds`, a bound, is large enough for every plan.
`ImplementsChunkLoad` needs besides that a worker's chunk stays recorded RUNNING until
it is marked and that what it registers is what it copied (`LoadInv`); every step of
a worker is then a step of `ChunkLoad` or none, and no other step touches what
`ChunkLoad` sees.

**`GatewayProofs`.** `TypeCorrect`, `NoConnectionIsLost`, `WakeupsAreKept`,
`QuietSweepsAreComplete`, `QueriesSeeOneState`, for every size of the pool and any
threads.  The invariant: free and held connections are distinct and are all
there are; a thread holds one exactly while it uses it; sleeping and woken
threads are disjoint; the free and the holders add up to the size, and what a
sweep without company has reached is the tail of the deque.  The last two
together make `for_each`'s count of rounds the right one.  `ImplementsViewPool` adds
`ViewInv`: neither what the refresher has resolved nor what a sweep has given a view
is newer than the last version written, and a resolved version is no older than
any given, because only the refresher gives versions and it resolves again before
each of its sweeps.  It says nothing of the views themselves, which an
administrator may have changed.

**`ReconcileProofs`.** `TypeCorrect`, `InvariantHolds`, `QuietPassesAgree`,
`OnlyGhostsAreDeleted`, for any number of passes and incremental runs at once
and any batch sizes.  `QuietPassAgrees` speaks of the end of a pass;
`ReconcileInv` says what is true in its middle: undisturbed, the lake differs from
the source in exactly the keys still to delete, to fetch or staged
(`QuietDifference`), and disturbed or not, what is left to delete was absent from
the source after the lake was scanned (`DoomedAreGone`).

**`TableLifecycleProofs`.** `InvariantHolds`, `WatermarkSkipsNothing`,
`CalmWatermarkIsCovered`, for any number of runs, specs, columns and events.  To
write a watermark safely a run must know that the rows below its window, and
after the merge those of the window, are in a table or were (`WindowsAdjoin`);
without drops, that they are in the lake, and that no run is beside a wipe that
has deleted files and not yet the watermark (`CalmWindows`).

**`ConfigCacheProofs`.** `InvariantHolds`, `ConnectionsAreFresh`, `SettingsAreFresh`,
`FallbackIsBrief`, `SelectionIsHonoured`, `ServedNeverGoesBack`, for any processes,
threads and times to live.  `ConfigInv` dates every cache entry and every local of
a request in progress; that whoever loads holds the lock (`LockHeld`) is why no
thread can keep a version older than one its process has shown (`AboveFloor`).
`KeptSecretsAreRecent` bounds what the finding of `config_secret` can do: the secret an
edit restores was replaced no earlier than the store's time to live before the edit
began.  The property, `KeptSecretIsRecent`, stands with its proof.

**Model-checked only.** Liveness (`EventuallyReplicated`, `PlannerReturns`,
`RunsEnd`, `JobsEnd`, `EventuallyAgrees`, `EventuallyEvolved`): fairness is beyond the
prover.  Every other property of a passing run is proved.

## 6. Not modelled

The components of `PROJECT.json` say it part by part.

* Maintenance: compaction and snapshot expiry rewrite files without changing
  rows, by library methods the code looks up with `hasattr`.  The first-load
  sensor keeps no state; its run key is fixed per table, so Dagster, whose rule
  for run keys is not in the repository, requests a first load once.
* Authentication, the SQL guard, schema mapping: decisions about single values,
  inside libraries or tables of names; nothing is shared between two of them.
* DDL, clients, logging, the admin page: I/O and wiring.  S3 clients and
  catalogs are cached for the life of a process and nothing invalidates them,
  so changed credentials need a restart; there is no step to model.
* Which connection signs a result: the first enabled one when it is asked for,
  not the one the result was written with.  With one enabled connection, or one
  bucket, they are the same.
* `Bootstrap` beside `IncrementalSync`: see the plan.
* Two incremental runs whose windows have several batches can invalidate each
  other's handle for ever; `sync_live` has one key and so one batch.

## 7. Running

    tlc -workers 2 -config sync_tz.cfg MCIncrementalSync.tla
    tlapm IncrementalSyncProofs.tla

Definitions marked "Mutant:" are wrong versions of the definition that follows;
`PROJECT.json` names the property each of them breaks.
