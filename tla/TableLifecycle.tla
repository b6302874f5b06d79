--------------------------- MODULE TableLifecycle ---------------------------
(***************************************************************************)
(* The life of one Iceberg table: created by the first run that needs it,  *)
(* dropped and created again when its partition spec or its metadata does  *)
(* not fit, evolved with the source's columns (load/iceberg_writer.py),    *)
(* filled by incremental runs (orchestration/incremental_job.py) and wiped *)
(* by an administrator (gateway/app.py), while the watermark lives on in   *)
(* another database.                                                       *)
(*                                                                         *)
(* The source is append-only with an integer watermark: row n is the n-th  *)
(* insert and the watermark a number of rows.  A window is merged in one   *)
(* commit (IncrementalSync has batches, overlap and gap).  Key, watermark  *)
(* and partition columns are never dropped at the source and left out.     *)
(***************************************************************************)
EXTENDS Naturals, FiniteSets

CONSTANTS
  Runs,         \* concurrent runs that open the table
  Cols,         \* columns that come and go
  Specs,        \* partition specs the configuration can ask for
  FirstSpec,    \* the one it asks for first
  DropRemoved,  \* the setting sync_drop_removed_columns
  MaxRows,      \* bound: rows inserted
  MaxEvents     \* bound: DDL, respecs, outages, deleted folders and wipes

ASSUME LifecycleAssumption ==
  /\ DropRemoved \in BOOLEAN /\ MaxRows \in Nat /\ MaxEvents \in Nat
  /\ FirstSpec \in Specs

VARIABLES
  produced, srcCols,  \* the source: its number of rows, its columns
  spec,               \* the configured partition spec
  s3up,               \* S3 answers
  entry,              \* the catalog row: none, live, or orphan (its metadata is gone)
  tspec, cols, rows,  \* the registered table: spec, columns, rows in it
  wm,                 \* the pipeline_watermarks row; 0 is no row
  pc,                 \* pc[r]: the next step of run r
  want, seen,         \* want[r], seen[r]: configuration and columns r started with
  fresh,              \* fresh[r]: what of the table r loaded nobody has committed since
  lo, hi,             \* lo[r], hi[r]: r's window, rows lo+1 to hi
  wipe,               \* the next step of the wipe
  events,             \* number of events
  dropped,            \* history: rows of tables that are no more
  calm                \* history: no rows dropped, no run beside a wipe

source == <<produced, srcCols>>
config == <<spec, s3up, events>>
lake == <<entry, tspec, cols, rows>>
window == <<lo, hi>>
begun == <<want, seen>>
history == <<dropped, calm>>
vars == <<source, config, lake, wm, pc, begun, fresh, window, wipe, history>>

Steps == {"idle", "open", "probe", "drop", "create", "dropAgain", "createAgain",
          "evolve", "union", "reopen", "prune", "reload", "extract", "merge", "advance"}
None == "no spec"
Parts == {"cols", "rows"}  \* what commits are compared by: schema and snapshot
WipeSteps == {"idle", "files", "state", "runs"}

Init ==
  /\ produced = 0 /\ srcCols \in SUBSET Cols /\ spec = FirstSpec /\ s3up = TRUE
  /\ entry = "none" /\ tspec = None /\ cols = {} /\ rows = {}
  /\ wm = 0
  /\ pc = [r \in Runs |-> "idle"]
  /\ want = [r \in Runs |-> None] /\ seen = [r \in Runs |-> {}]
  /\ fresh = [r \in Runs |-> {}]
  /\ lo = [r \in Runs |-> 0] /\ hi = [r \in Runs |-> 0]
  /\ wipe = "idle" /\ events = 0 /\ dropped = {} /\ calm = TRUE

Loadable == entry = "live" /\ s3up
InFlight == {r \in Runs : pc[r] # "idle"}
GoTo(r, step) == pc' = [pc EXCEPT ![r] = step]

\* Runs that end forget what they held.
Keeping(f, nothing, S) == [r \in Runs |-> IF r \in S THEN nothing ELSE f[r]]
End(S) ==
  /\ pc' = Keeping(pc, "idle", S)
  /\ want' = Keeping(want, None, S) /\ seen' = Keeping(seen, {}, S)
  /\ fresh' = Keeping(fresh, {}, S)
  /\ lo' = Keeping(lo, 0, S) /\ hi' = Keeping(hi, 0, S)

-----------------------------------------------------------------------------
(* The environment.                                                        *)

Event == events < MaxEvents /\ events' = events + 1

Insert ==
  /\ produced < MaxRows /\ produced' = produced + 1
  /\ UNCHANGED <<srcCols, config, lake, wm, pc, begun, fresh, window, wipe, history>>

AlterSource ==
  /\ Event /\ \E c \in Cols : srcCols' = IF c \in srcCols THEN srcCols \ {c}
                                         ELSE srcCols \cup {c}
  /\ UNCHANGED <<produced, spec, s3up, lake, wm, pc, begun, fresh, window, wipe, history>>

Reconfigure ==
  /\ Event /\ \E s \in Specs \ {spec} : spec' = s
  /\ UNCHANGED <<source, s3up, lake, wm, pc, begun, fresh, window, wipe, history>>

Outage ==
  /\ Event /\ s3up /\ s3up' = FALSE
  /\ UNCHANGED <<source, spec, lake, wm, pc, begun, fresh, window, wipe, history>>

Recover ==
  /\ ~s3up /\ s3up' = TRUE
  /\ UNCHANGED <<source, spec, events, lake, wm, pc, begun, fresh, window, wipe, history>>

\* The objects under curated/ are gone, and with them the rows of the table.
LoseFiles ==
  /\ entry' = IF entry = "none" THEN "none" ELSE "orphan"
  /\ rows' = {} /\ dropped' = dropped \cup rows
  /\ UNCHANGED <<tspec, cols>>

DeleteFolder ==
  /\ Event /\ entry = "live" /\ LoseFiles /\ calm' = FALSE
  /\ UNCHANGED <<source, spec, s3up, wm, pc, begun, fresh, window, wipe>>

-----------------------------------------------------------------------------
(* Opening the table: create_or_get_table.                                 *)

\* The catalog row goes, whichever table it stands for by now; the objects
\* stay.
Unregister ==
  /\ entry' = "none" /\ rows' = {} /\ cols' = {} /\ UNCHANGED tspec
  /\ dropped' = dropped \cup rows
  /\ fresh' = [r \in Runs |-> {}]

\* The columns and transforms of the table's spec are those asked for.
Fits(r) == tspec = want[r]

\* The metadata object is written and the catalog row inserted.
Register(r) ==
  /\ entry = "none" /\ s3up
  /\ entry' = "live" /\ tspec' = want[r] /\ cols' = seen[r] /\ rows' = {}

Start(r) ==
  /\ pc[r] = "idle" /\ GoTo(r, "open")
  /\ want' = [want EXCEPT ![r] = spec]
  /\ seen' = [seen EXCEPT ![r] = srcCols]
  /\ calm' = (calm /\ wipe = "idle")
  /\ UNCHANGED <<source, config, lake, wm, fresh, window, wipe, dropped>>

\* load_table, and the comparison of the partition specs.
Open(r) ==
  /\ pc[r] = "open"
  /\ GoTo(r, IF entry = "none" THEN "create"
             ELSE IF ~Loadable THEN "probe"
             ELSE IF Fits(r) THEN "evolve" ELSE "drop")
  /\ UNCHANGED <<source, config, lake, wm, begun, fresh, window, wipe, history>>

\* The registered metadata object is asked for; any error counts as missing.
\* When it answers, or there is no row any more, the load's error is raised.
Probe(r) ==
  /\ pc[r] = "probe" /\ GoTo(r, "drop")
  /\ entry # "none" /\ ~Loadable
  /\ UNCHANGED <<source, config, lake, wm, begun, fresh, window, wipe, history>>

DropStep(r) ==
  \/ pc[r] = "drop" /\ GoTo(r, "create")
  \/ pc[r] = "dropAgain" /\ GoTo(r, "createAgain")

Drop(r) ==
  /\ DropStep(r) /\ Unregister
  /\ calm' = (calm /\ rows = {})
  /\ UNCHANGED <<source, config, wm, begun, window, wipe>>

\* A drop that fails is logged, and the op goes on.
DropFails(r) ==
  /\ DropStep(r)
  /\ UNCHANGED <<source, config, lake, wm, begun, fresh, window, wipe, history>>

Create(r) ==
  /\ pc[r] \in {"create", "createAgain"} /\ GoTo(r, "evolve")
  /\ Register(r)
  /\ UNCHANGED <<source, config, wm, begun, fresh, window, wipe, history>>

\* "already exists": another run was faster, or the drop failed.
LoseRace(r) ==
  /\ pc[r] = "create" /\ entry # "none" /\ s3up /\ GoTo(r, "dropAgain")
  /\ UNCHANGED <<source, config, lake, wm, begun, fresh, window, wipe, history>>

-----------------------------------------------------------------------------
(* evolve_table_schema.                                                    *)

Load(r) == Loadable /\ fresh' = [fresh EXCEPT ![r] = Parts]

\* The catalog compares a commit of r with the part of the table it changes
\* (and with the table's identity); r goes on with what it has committed.
MayChange(r, part) == part \in fresh[r] /\ Loadable
Changed(r, part) == fresh' = [s \in Runs |-> IF s = r THEN Parts ELSE fresh[s] \ {part}]

LoadToEvolve(r) ==
  /\ pc[r] = "evolve" /\ Load(r) /\ GoTo(r, "union")
  /\ UNCHANGED <<source, config, lake, wm, begun, window, wipe, history>>

LoadToUse(r) ==
  /\ \/ /\ pc[r] = "reopen"
        /\ GoTo(r, IF DropRemoved /\ ~(cols \subseteq seen[r]) THEN "prune" ELSE "extract")
     \/ pc[r] = "reload" /\ GoTo(r, "extract")
  /\ Load(r)
  /\ UNCHANGED <<source, config, lake, wm, begun, window, wipe, history>>

\* A schema commit: one that changes nothing writes nothing, and one made of
\* another schema than the table has by now is refused by the catalog.
SetCols(r, C) ==
  /\ cols' = C
  /\ IF C = cols THEN UNCHANGED fresh
     ELSE MayChange(r, "cols") /\ Changed(r, "cols")
  /\ UNCHANGED <<source, config, entry, tspec, rows, wm, begun, window, wipe, history>>

\* Mutant: the change of the schema is not committed.
UnionForgotten(r) ==
  pc[r] = "union" /\ GoTo(r, "reopen") /\ SetCols(r, cols)

\* union_by_name.
Union(r) ==
  pc[r] = "union" /\ GoTo(r, "reopen") /\ SetCols(r, cols \cup seen[r])

\* _drop_removed_columns, with the columns of the introspection.
Prune(r) ==
  pc[r] = "prune" /\ GoTo(r, "reload") /\ SetCols(r, cols \cap seen[r])

\* An error of the two is logged, and the op goes on without the change.
Skip(r) ==
  /\ \/ pc[r] = "union" /\ GoTo(r, "reopen")
     \/ pc[r] = "prune" /\ GoTo(r, "reload")
  /\ UNCHANGED <<source, config, lake, wm, begun, fresh, window, wipe, history>>

Conflict(r) == ~MayChange(r, "cols") /\ Skip(r)

-----------------------------------------------------------------------------
(* The rows.                                                               *)

Extract(r) ==
  /\ pc[r] = "extract" /\ GoTo(r, IF produced > wm THEN "merge" ELSE "advance")
  /\ lo' = [lo EXCEPT ![r] = wm]
  /\ hi' = [hi EXCEPT ![r] = IF produced > wm THEN produced ELSE wm]
  /\ UNCHANGED <<source, config, lake, wm, begun, fresh, wipe, history>>

\* Mutant: the watermark is written before the rows are merged.
AdvanceFirst(r) ==
  /\ pc[r] = "merge" /\ UNCHANGED pc
  /\ wm' = IF hi[r] > wm THEN hi[r] ELSE wm
  /\ UNCHANGED <<source, config, lake, begun, fresh, window, wipe, history>>

\* Mutant: a commit is not compared with what was loaded.
BlindMerge(r) ==
  /\ pc[r] = "merge" /\ GoTo(r, "advance")
  /\ rows' = IF entry = "live" THEN rows \cup (lo[r] + 1 .. hi[r]) ELSE rows
  /\ Changed(r, "rows")
  /\ UNCHANGED <<source, config, entry, tspec, cols, wm, begun, window, wipe, history>>

\* A change of the schema by another run does not stand in its way.
Merge(r) ==
  /\ pc[r] = "merge" /\ MayChange(r, "rows") /\ GoTo(r, "advance")
  /\ rows' = rows \cup (lo[r] + 1 .. hi[r])
  /\ Changed(r, "rows")
  /\ UNCHANGED <<source, config, entry, tspec, cols, wm, begun, window, wipe, history>>

\* set_watermark: forward only; a row that was deleted is inserted again.
Advance(r) ==
  /\ pc[r] = "advance" /\ End({r})
  /\ wm' = IF hi[r] > wm THEN hi[r] ELSE wm
  /\ UNCHANGED <<source, config, lake, wipe, history>>

\* The op raises, or its worker dies; a retry begins at the beginning.
Fail(r) ==
  /\ pc[r] # "idle" /\ End({r})
  /\ UNCHANGED <<source, config, lake, wm, wipe, history>>

\* What makes the op raise without an error of the environment.
MustFail(r) ==
  \/ pc[r] = "probe" /\ (entry = "none" \/ Loadable)
  \/ pc[r] \in {"create", "createAgain"} /\ ~s3up
  \/ pc[r] = "createAgain" /\ entry # "none"
  \/ pc[r] \in {"evolve", "reopen", "reload"} /\ ~Loadable
  \/ pc[r] = "merge" /\ ~MayChange(r, "rows")

-----------------------------------------------------------------------------
(* wipe_connection.                                                        *)

WipeTables ==
  /\ Event /\ wipe = "idle" /\ wipe' = "files"
  /\ Unregister \/ UNCHANGED <<lake, dropped, fresh>>
  /\ calm' = (calm /\ InFlight = {})
  /\ UNCHANGED <<source, spec, s3up, wm, pc, begun, window>>

\* delete_prefix deletes page by page, data before metadata; a prefix that fails,
\* on whichever page, is logged and skipped.
LoseSomeRows ==
  /\ \E kept \in SUBSET rows : rows' = kept /\ dropped' = dropped \cup (rows \ kept)
  /\ UNCHANGED <<entry, tspec, cols>>

WipeFiles ==
  /\ wipe = "files" /\ wipe' = "state"
  /\ \/ s3up /\ (LoseFiles \/ LoseSomeRows)
     \/ UNCHANGED <<lake, dropped>>
  /\ UNCHANGED <<source, config, wm, pc, begun, fresh, window, calm>>

\* Mutant: the wipe leaves the watermarks alone.
WipeChunksOnly ==
  /\ wipe = "state" /\ wipe' = "runs"
  /\ UNCHANGED <<source, config, lake, wm, pc, begun, fresh, window, history>>

WipeState ==
  /\ wipe = "state" /\ wipe' = "runs"
  /\ wm' = 0
  /\ UNCHANGED <<source, config, lake, pc, begun, fresh, window, history>>

\* delete_runs: a run that cannot be terminated goes on.
WipeRuns ==
  /\ wipe = "runs" /\ wipe' = "idle"
  /\ \E ended \in SUBSET InFlight : End(ended)
  /\ UNCHANGED <<source, config, lake, wm, history>>

\* The request ends with an error and what it did stays done.
WipeAborts ==
  /\ wipe # "idle" /\ wipe' = "idle" /\ calm' = FALSE
  /\ UNCHANGED <<source, config, lake, wm, pc, begun, fresh, window, dropped>>

-----------------------------------------------------------------------------
RunStep(r) ==
  \/ Start(r) \/ Open(r) \/ Probe(r) \/ Drop(r) \/ Create(r) \/ LoseRace(r)
  \/ LoadToEvolve(r) \/ Union(r) \/ LoadToUse(r) \/ Prune(r) \/ Conflict(r)
  \/ Extract(r) \/ Merge(r) \/ Advance(r)
  \/ MustFail(r) /\ Fail(r)

RunError(r) == Fail(r) \/ Skip(r) \/ DropFails(r)

Environment ==
  Insert \/ AlterSource \/ Reconfigure \/ Outage \/ Recover \/ DeleteFolder

Wipe == WipeTables \/ WipeFiles \/ WipeState \/ WipeRuns \/ WipeAborts

Next ==
  \/ Environment \/ Wipe
  \/ \E r \in Runs : RunStep(r) \/ RunError(r)

Spec == Init /\ [][Next]_vars

\* The schedule starts runs for ever, S3 comes back, and errors that are not
\* consequences of the state cease.
Fairness ==
  /\ \A r \in Runs : WF_vars(RunStep(r))
  /\ WF_vars(Recover)
  /\ <>[][\A r \in Runs : RunError(r) => RunStep(r)]_vars

FairSpec == Spec /\ Fairness

-----------------------------------------------------------------------------
(* Properties.                                                             *)

TypeOK ==
  /\ produced \in Nat /\ srcCols \subseteq Cols /\ spec \in Specs /\ s3up \in BOOLEAN
  /\ entry \in {"none", "live", "orphan"} /\ tspec \in Specs \cup {None}
  /\ cols \subseteq Cols /\ rows \subseteq Nat /\ (entry = "none" => rows = {})
  /\ wm \in Nat
  /\ pc \in [Runs -> Steps]
  /\ want \in [Runs -> Specs \cup {None}] /\ seen \in [Runs -> SUBSET Cols]
  /\ fresh \in [Runs -> SUBSET Parts]
  /\ lo \in [Runs -> Nat] /\ hi \in [Runs -> Nat]
  /\ wipe \in WipeSteps /\ events \in Nat
  /\ dropped \subseteq Nat /\ calm \in BOOLEAN

\* The watermark never passes a row that was in no table: whatever is created,
\* dropped, lost or wiped meanwhile, a row at or below it is in the lake or
\* was in a table that was dropped (incremental_job.py:87, "the watermark is
\* only advanced after a successful upsert", README.md:258).
NeverSkipped == \A n \in 1 .. wm : n \in rows \cup dropped

\* As long as no table with rows in it was dropped and no run was beside a
\* wipe, the rows at or below the watermark are in the lake, across the wipes
\* (gateway/app.py:321: the watermarks go with the tables).
QuietlyCovered == calm /\ wipe = "idle" => \A n \in 1 .. wm : n \in rows

\* Once the source and the configuration rest and runs do not overlap, the
\* lake has the source's columns, with sync_drop_removed_columns exactly them
\* (evolve_table_schema), whatever stale runs and skipped errors did before.
EventuallyEvolved ==
  (/\ <>[][UNCHANGED <<source, spec, wipe>>]_vars
   /\ <>[][\A r \in Runs : Start(r) => InFlight = {}]_vars)
  => <>[](/\ entry = "live" /\ tspec = spec /\ srcCols \subseteq cols
          /\ DropRemoved => cols = srcCols)

\* "Delete ALL synced data for a connection but KEEP the connection record ...
\* Lets you start that connection fresh" (gateway/app.py:299-302): when the
\* wipe is done, no watermark stands over rows that the lake does not have.
WipeStartsFresh ==
  [][wipe = "runs" /\ wipe' = "idle" => \A n \in 1 .. wm : n \in rows]_vars

-----------------------------------------------------------------------------
(* The inductive invariant.                                                *)

\* What a window leaves out below it is in a table, or was.
WindowsAdjoin ==
  \A r \in Runs :
    /\ pc[r] \in {"merge", "advance"} => \A n \in 1 .. lo[r] : n \in rows \cup dropped
    /\ pc[r] = "advance" => \A n \in 1 .. hi[r] : n \in rows \cup dropped

\* The same of the lake alone while nothing was dropped.
CalmWindows ==
  calm =>
    /\ \A r \in Runs :
         /\ pc[r] \in {"merge", "advance"} => \A n \in 1 .. lo[r] : n \in rows
         /\ pc[r] = "advance" => \A n \in 1 .. hi[r] : n \in rows
    /\ wipe \in {"files", "state"} => InFlight = {}
    /\ wipe \notin {"files", "state"} => \A n \in 1 .. wm : n \in rows

LifecycleInv == TypeOK /\ NeverSkipped /\ WindowsAdjoin /\ CalmWindows
=============================================================================
