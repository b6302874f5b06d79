----------------------------- MODULE Reconcile -----------------------------
(***************************************************************************)
(* Primary-key reconciliation of one table (load/reconcile.py and          *)
(* orchestration/reconcile_job.py): a pass compares the keys of the lake   *)
(* with those of the source, deletes the lake's ghosts in batches and      *)
(* fetches and overwrites the missing rows in batches, while incremental   *)
(* runs merge into the same table and the source goes on changing.         *)
(*                                                                         *)
(* The table has a numeric key (the op skips others before it reads        *)
(* anything).  A row is its version: 0 is no row, and a key that is        *)
(* deleted and inserted again gets a higher version than it ever had.      *)
(***************************************************************************)
EXTENDS Naturals, FiniteSets

CONSTANTS
  Keys,          \* primary keys
  Passes,        \* runs of reconcile_job: the daily one and an operator's
  Syncs,         \* runs of incremental_job
  DeleteBatch,   \* _DELETE_BATCH
  InsertBatch,   \* _INSERT_BATCH
  MaxVersion     \* bound: versions of a row

Actors == Passes \cup Syncs

ASSUME ReconcileAssumption ==
  /\ DeleteBatch \in Nat \ {0} /\ InsertBatch \in Nat \ {0}
  /\ MaxVersion \in Nat
  /\ IsFiniteSet(Keys) /\ Passes \cap Syncs = {}

VARIABLES
  source,   \* source[k]: the version of row k at the source
  stamp,    \* stamp[k]: the last version row k ever had there
  lake,     \* lake[k]: the version of row k in the Iceberg table
  pc,       \* pc[a]: the next step of a pass or of an incremental run
  fresh,    \* fresh[a]: nobody else committed since a loaded the table
  held,     \* held[a]: rows extracted and staged, still to be merged
  doomed,   \* doomed[p]: lake keys of the scan; then those still to delete
  missing,  \* missing[p]: source keys still to fetch
  gone,     \* history: keys absent from the source at some time since p's scan
  quiet     \* history: neither side was changed by others since p's scan

vars == <<source, stamp, lake, pc, fresh, held, doomed, missing, gone, quiet>>
sourceVars == <<source, stamp>>
keyVars == <<doomed, missing>>
history == <<gone, quiet>>

Steps == {"idle", "copy", "merge", "scanLake", "scanSource", "delete",
          "reload", "fetch", "load", "record"}

NoRows == [k \in Keys |-> 0]
Present(f) == {k \in Keys : f[k] # 0}
Only(f, B) == [k \in Keys |-> IF k \in B THEN f[k] ELSE 0]

Init ==
  /\ source = NoRows /\ stamp = NoRows /\ lake = NoRows
  /\ pc = [a \in Actors |-> "idle"]
  /\ fresh = [a \in Actors |-> FALSE]
  /\ held = [a \in Actors |-> NoRows]
  /\ doomed = [p \in Passes |-> {}] /\ missing = [p \in Passes |-> {}]
  /\ gone = [p \in Passes |-> {}] /\ quiet = [p \in Passes |-> FALSE]

GoTo(a, step) == pc' = [pc EXCEPT ![a] = step]
Load(a) == fresh' = [fresh EXCEPT ![a] = TRUE]

-----------------------------------------------------------------------------
(* The source, and the incremental runs, whose windows may hold any rows.  *)

Write(k) ==
  /\ stamp[k] < MaxVersion
  /\ stamp' = [stamp EXCEPT ![k] = @ + 1]
  /\ source' = [source EXCEPT ![k] = stamp[k] + 1]
  /\ quiet' = [p \in Passes |-> FALSE]
  /\ UNCHANGED <<lake, pc, fresh, held, keyVars, gone>>

Delete(k) ==
  /\ source[k] # 0
  /\ source' = [source EXCEPT ![k] = 0]
  /\ gone' = [p \in Passes |-> gone[p] \cup {k}]
  /\ quiet' = [p \in Passes |-> FALSE]
  /\ UNCHANGED <<stamp, lake, pc, fresh, held, keyVars>>

\* An Iceberg commit through a's handle: it succeeds on the snapshot the
\* handle was loaded at, and makes every other handle stale.
Commit(a, rows) ==
  /\ fresh[a]
  /\ lake' = rows
  /\ fresh' = [b \in Actors |-> b = a]
  /\ quiet' = [p \in Passes |-> p = a /\ quiet[p]]

\* overwrite(filter=In(pk, keys)): the staged rows replace whatever is there.
Overwrite(a) ==
  Commit(a, [k \in Keys |-> IF held[a][k] # 0 THEN held[a][k] ELSE lake[k]])

SyncLoad(s) ==
  /\ pc[s] = "idle" /\ GoTo(s, "copy") /\ Load(s)
  /\ UNCHANGED <<sourceVars, lake, held, keyVars, history>>

SyncCopy(s) ==
  /\ pc[s] = "copy" /\ GoTo(s, "merge")
  /\ \E W \in SUBSET Present(source) :
       W # {} /\ held' = [held EXCEPT ![s] = Only(source, W)]
  /\ UNCHANGED <<sourceVars, lake, fresh, keyVars, history>>

SyncMerge(s) ==
  /\ pc[s] = "merge" /\ GoTo(s, "idle")
  /\ Overwrite(s)
  /\ held' = [held EXCEPT ![s] = NoRows]
  /\ UNCHANGED <<sourceVars, keyVars, gone>>

\* A conflict, a failure, or nothing to do; a retry starts from the load.
SyncEnd(s) ==
  /\ pc[s] # "idle" /\ GoTo(s, "idle")
  /\ fresh' = [fresh EXCEPT ![s] = FALSE]
  /\ held' = [held EXCEPT ![s] = NoRows]
  /\ UNCHANGED <<sourceVars, lake, keyVars, history>>

-----------------------------------------------------------------------------
(* A pass of reconcile_table.                                              *)

\* B is a next batch of at most n of the keys in S.
IsBatch(B, S, n) ==
  /\ B # {} /\ B \subseteq S
  /\ Cardinality(B) = n \/ (B = S /\ Cardinality(B) < n)

\* The step that follows when D is left to delete and M to fetch.
StepFor(D, M) ==
  IF D # {} THEN "delete" ELSE IF M # {} THEN "fetch" ELSE "record"

StartPass(p) ==
  /\ pc[p] = "idle" /\ GoTo(p, "scanLake")
  /\ UNCHANGED <<sourceVars, lake, fresh, held, keyVars, history>>

\* Mutant: an attempt goes on with a handle it was given, not a fresh one.
ScanLakeOnce(p) ==
  /\ pc[p] = "scanLake" /\ GoTo(p, "scanSource")
  /\ doomed' = [doomed EXCEPT ![p] = Present(lake)]
  /\ gone' = [gone EXCEPT ![p] = Keys \ Present(source)]
  /\ quiet' = [quiet EXCEPT ![p] = TRUE]
  /\ UNCHANGED <<sourceVars, lake, fresh, held, missing>>

\* load_table, and the key column as of the snapshot it loaded.
ScanLake(p) ==
  /\ pc[p] = "scanLake" /\ GoTo(p, "scanSource") /\ Load(p)
  /\ doomed' = [doomed EXCEPT ![p] = Present(lake)]
  /\ gone' = [gone EXCEPT ![p] = Keys \ Present(source)]
  /\ quiet' = [quiet EXCEPT ![p] = TRUE]
  /\ UNCHANGED <<sourceVars, lake, held, missing>>

\* Mutant: the last, partial round of source keys is never appended.
ScanSourceShort(p) ==
  /\ pc[p] = "scanSource"
  /\ \E ids \in SUBSET Present(source) :
       /\ doomed' = [doomed EXCEPT ![p] = @ \ ids]
       /\ missing' = [missing EXCEPT ![p] = ids \ doomed[p]]
       /\ GoTo(p, StepFor(doomed[p] \ ids, ids \ doomed[p]))
  /\ UNCHANGED <<sourceVars, lake, fresh, held, history>>

\* Mutant: the two differences are swapped.
ScanSourceSwapped(p) ==
  /\ pc[p] = "scanSource"
  /\ LET ids == Present(source) IN
       /\ doomed' = [doomed EXCEPT ![p] = ids \ @]
       /\ missing' = [missing EXCEPT ![p] = doomed[p] \ ids]
       /\ GoTo(p, StepFor(ids \ doomed[p], doomed[p] \ ids))
  /\ UNCHANGED <<sourceVars, lake, fresh, held, history>>

\* The server-side cursor over the source's keys, one statement's snapshot;
\* both differences are taken with the lake's keys as scanned.
ScanSource(p) ==
  /\ pc[p] = "scanSource"
  /\ LET ids == Present(source) IN
       /\ doomed' = [doomed EXCEPT ![p] = @ \ ids]
       /\ missing' = [missing EXCEPT ![p] = ids \ doomed[p]]
       /\ GoTo(p, StepFor(doomed[p] \ ids, ids \ doomed[p]))
  /\ UNCHANGED <<sourceVars, lake, fresh, held, history>>

\* Mutant: the loop over the batches ends after the first.
DeleteOneBatch(p) ==
  /\ pc[p] = "delete" /\ fresh[p] /\ GoTo(p, "reload")
  /\ doomed' = [doomed EXCEPT ![p] = {}]
  /\ \E B \in SUBSET doomed[p] :
       IsBatch(B, doomed[p], DeleteBatch) /\ Commit(p, Only(lake, Keys \ B))
  /\ UNCHANGED <<sourceVars, held, missing, gone>>

\* delete(In(pk, chunk)); a delete that matches no row commits nothing.
DeleteGhosts(p) ==
  /\ pc[p] = "delete" /\ fresh[p] /\ GoTo(p, "reload")
  /\ \E B \in SUBSET doomed[p] :
       /\ IsBatch(B, doomed[p], DeleteBatch)
       /\ doomed' = [doomed EXCEPT ![p] = @ \ B]
       /\ IF B \cap Present(lake) = {}
          THEN UNCHANGED <<lake, fresh, quiet>>
          ELSE Commit(p, Only(lake, Keys \ B))
  /\ UNCHANGED <<sourceVars, held, missing, gone>>

\* The handle for the next batch: the keys to delete are not looked at again.
Reload(p) ==
  /\ pc[p] = "reload" /\ GoTo(p, StepFor(doomed[p], missing[p])) /\ Load(p)
  /\ UNCHANGED <<sourceVars, lake, held, keyVars, history>>

\* extract_chunk_to_s3 of one batch of missing keys, and reading it back; a
\* batch of rows deleted meanwhile stages no object.
FetchMissing(p) ==
  /\ pc[p] = "fetch"
  /\ \E B \in SUBSET missing[p] :
       /\ IsBatch(B, missing[p], InsertBatch)
       /\ missing' = [missing EXCEPT ![p] = @ \ B]
       /\ held' = [held EXCEPT ![p] = Only(source, B)]
       /\ GoTo(p, IF B \cap Present(source) = {}
                  THEN StepFor({}, missing[p] \ B) ELSE "load")
  /\ UNCHANGED <<sourceVars, lake, fresh, doomed, history>>

\* The table is loaded after the rows were fetched.
LoadForMerge(p) ==
  /\ pc[p] = "load" /\ GoTo(p, "merge") /\ Load(p)
  /\ UNCHANGED <<sourceVars, lake, held, keyVars, history>>

\* merge_arrow_table.
MergeMissing(p) ==
  /\ pc[p] = "merge" /\ GoTo(p, StepFor({}, missing[p]))
  /\ Overwrite(p)
  /\ held' = [held EXCEPT ![p] = NoRows]
  /\ UNCHANGED <<sourceVars, keyVars, gone>>

Forget(p) ==
  /\ fresh' = [fresh EXCEPT ![p] = FALSE]
  /\ held' = [held EXCEPT ![p] = NoRows]
  /\ doomed' = [doomed EXCEPT ![p] = {}] /\ missing' = [missing EXCEPT ![p] = {}]
  /\ gone' = [gone EXCEPT ![p] = {}] /\ quiet' = [quiet EXCEPT ![p] = FALSE]

\* record_object_sync ends the op.
Record(p) ==
  /\ pc[p] = "record" /\ GoTo(p, "idle") /\ Forget(p)
  /\ UNCHANGED <<sourceVars, lake>>

\* An exception: the op is retried from its start, or its retries are used up
\* and the next daily run takes over.
Raise(p) ==
  /\ \E step \in {"scanLake", "idle"} : GoTo(p, step)
  /\ Forget(p)
  /\ UNCHANGED <<sourceVars, lake>>

CommitConflict(p) == pc[p] \in {"delete", "merge"} /\ ~fresh[p] /\ Raise(p)
Fail(p) == pc[p] # "idle" /\ Raise(p)

PassStep(p) ==
  \/ StartPass(p) \/ ScanLake(p) \/ ScanSource(p) \/ DeleteGhosts(p)
  \/ Reload(p) \/ FetchMissing(p) \/ LoadForMerge(p) \/ MergeMissing(p)
  \/ Record(p) \/ CommitConflict(p)

Next ==
  \/ \E k \in Keys : Write(k) \/ Delete(k)
  \/ \E s \in Syncs : SyncLoad(s) \/ SyncCopy(s) \/ SyncMerge(s) \/ SyncEnd(s)
  \/ \E p \in Passes : PassStep(p) \/ Fail(p)

Spec == Init /\ [][Next]_vars

\* Passes are launched daily and run on; failures that are no conflicts cease,
\* and so do merges, once the source is left alone and the overlap has passed.
Fairness ==
  /\ \A p \in Passes : WF_vars(PassStep(p))
  /\ <>[][\A p \in Passes : Fail(p) => PassStep(p)]_vars
  /\ <>[][\A s \in Syncs : ~SyncMerge(s)]_vars

FairSpec == Spec /\ Fairness

-----------------------------------------------------------------------------
(* Properties.                                                             *)

TypeOK ==
  /\ source \in [Keys -> Nat] /\ stamp \in [Keys -> Nat] /\ lake \in [Keys -> Nat]
  /\ pc \in [Actors -> Steps]
  /\ fresh \in [Actors -> BOOLEAN]
  /\ held \in [Actors -> [Keys -> Nat]]
  /\ doomed \in [Passes -> SUBSET Keys] /\ missing \in [Passes -> SUBSET Keys]
  /\ gone \in [Passes -> SUBSET Keys] /\ quiet \in [Passes -> BOOLEAN]

\* A row leaves the lake only if its key was absent from the source at some
\* moment after the pass found it in the lake: a row inserted and replicated
\* between the two scans is never taken for a ghost (load/reconcile.py:42).
DeletesOnlyGone ==
  [][\A k \in Keys : lake[k] # 0 /\ lake'[k] = 0 =>
       \E p \in Passes : pc[p] = "delete" /\ pc'[p] = "reload" /\ k \in gone[p]]_vars

\* A pass that nobody disturbs makes the two key sets equal, in any number of
\* batches and whatever the earlier attempts left behind ("make the lake's
\* row set match the source's", load/reconcile.py:1).
QuietPassAgrees ==
  \A p \in Passes : pc[p] = "record" /\ quiet[p] => Present(lake) = Present(source)

\* Once the source is left alone, ghosts and gaps disappear for good, those a
\* disturbed pass put into the lake itself included.
EventuallyAgrees ==
  (<>[][source' = source]_source) => <>[](Present(lake) = Present(source))

\* merge.py says of an upsert that the newer updated_at is preferred; a pass
\* overwrites by key, with rows it fetched before it loaded the table.
LakeNeverRegresses ==
  [][\A k \in Keys : lake'[k] # 0 => lake[k] <= lake'[k]]_vars

-----------------------------------------------------------------------------
(* The inductive invariant.                                                *)

\* What is left to delete was absent from the source after the scan, and
\* between its scans a pass has committed nothing.
DoomedAreGone ==
  \A p \in Passes :
    /\ pc[p] \notin {"idle", "scanLake"} => Keys \ Present(source) \subseteq gone[p]
    /\ pc[p] \in {"delete", "reload", "fetch", "load", "merge", "record"}
         => doomed[p] \subseteq gone[p]
    /\ pc[p] = "delete" => doomed[p] # {}
    /\ pc[p] \in {"fetch", "load", "merge", "record"} => doomed[p] = {}
    /\ pc[p] = "record" => missing[p] = {}

\* Undisturbed, the lake differs from the source in exactly the keys the pass
\* has still to delete, to fetch or to merge.
QuietDifference ==
  \A p \in Passes : quiet[p] =>
    /\ pc[p] = "scanSource" => doomed[p] = Present(lake)
    /\ pc[p] \in {"delete", "reload", "fetch", "load", "merge", "record"} =>
         /\ doomed[p] = Present(lake) \ Present(source)
         /\ missing[p] \cup Present(held[p]) = Present(source) \ Present(lake)

\* Rows are staged between fetching and merging only, and not fetched twice.
HeldInSteps ==
  \A p \in Passes :
    /\ pc[p] \notin {"load", "merge"} => held[p] = NoRows
    /\ missing[p] \cap Present(held[p]) = {}

ReconcileInv ==
  TypeOK /\ DoomedAreGone /\ QuietDifference /\ HeldInSteps /\ QuietPassAgrees
=============================================================================
