------------------------------ MODULE Chunker ------------------------------
(***************************************************************************)
(* How a bootstrap cuts a table into chunks (extract/chunker.py), and which *)
(* rows the COPY of a chunk selects (extract/copy_worker.py).  The planner *)
(* is a loop over the groups of rows it has counted; in a group with        *)
(* numeric ids an inner loop cuts the id range into steps.                  *)
(*                                                                         *)
(* A table is a function from its rows, known by their ids or, where the id *)
(* is NULL, by a name, to the stored value of their partition column, in    *)
(* hours: an instant counted from UTC midnight                              *)
(* (timestamptz) or a literal time (timestamp).  plan_range_chunks and      *)
(* plan_full_chunk look at the table as one group, plan_partitioned_chunks  *)
(* at one group per day.                                                    *)
(***************************************************************************)
EXTENDS Integers, FiniteSets

CONSTANTS
  Ids,      \* the ids rows may have
  NoIds,    \* the rows that may be there with a NULL id
  Times,    \* the times the partition column may have
  DayHours, \* hours of a day
  Zone,     \* the offset of the session's time zone from UTC
  NullDay,  \* the partition column is NULL
  AnyDay,   \* the one group of an unpartitioned plan
  Target,   \* extract_rows_per_chunk
  MaxTuples \* bound: the largest reltuples estimate

ASSUME ChunkerAssumption ==
  /\ Ids \subseteq Int /\ IsFiniteSet(Ids)
  /\ NoIds \cap Ids = {} /\ IsFiniteSet(NoIds)
  /\ Target \in Nat \ {0} /\ MaxTuples \in Nat
  /\ Times \subseteq Int /\ DayHours \in Nat \ {0} /\ Zone \in Int
  /\ NullDay \notin Int /\ AnyDay \notin Int \cup {NullDay}

Days == Int \cup {NullDay, AnyDay}
Planners == {"full", "range", "partitioned"}

VARIABLES
  table,     \* the rows the planner counts
  planner,   \* which of the three planners runs
  partTz,    \* the partition column is a timestamptz
  numericId, \* has_numeric_id: numeric and leading in an index
  todo,      \* the groups not looked at yet
  day,       \* the group whose ids are being cut
  curLo, hi, step,
  cid,       \* the next chunk_id
  chunks,    \* the chunks planned so far
  pc

vars == <<table, planner, partTz, numericId, todo, day, curLo, hi, step, cid, chunks, pc>>

Tables == UNION {[S -> Times \cup {NullDay}] : S \in SUBSET (Ids \cup NoIds)}

\* The expression the planner groups by: the UTC date, or the literal one.
DayExpr(i) == IF table[i] = NullDay THEN NullDay ELSE table[i] \div DayHours

\* The rows a GROUP BY puts into group d, and the ids there are among them.
Group(d) == IF d = AnyDay THEN DOMAIN table
                          ELSE {i \in DOMAIN table : DayExpr(i) = d}
IdsOf(d) == Group(d) \cap Ids

Groups == IF planner = "partitioned" THEN {DayExpr(i) : i \in DOMAIN table}
                                     ELSE {AnyDay}

AtLeastOne(n) == IF n < 1 THEN 1 ELSE n

\* Into how many pieces a group of n rows is to be cut, and the step for it.
Pieces(n) == AtLeastOne(n \div Target)

\* Mutant: the step is rounded down once more.
StepForTooSmall(span, n) == AtLeastOne(span \div (Pieces(n) + 1))

\* Mutant: the step of a range with fewer ids than pieces is zero.
StepForZero(span, n) == span \div Pieces(n)

StepFor(span, n) == AtLeastOne(span \div Pieces(n))

\* The row count a planner goes by: reltuples is an estimate, -1 before the
\* first ANALYZE; count(*) is exact.
RowCounts(d) == IF planner = "range" THEN -1..MaxTuples
               ELSE {Cardinality(Group(d))}

Whole(d) == [id |-> cid, day |-> d, whole |-> TRUE, lo |-> 0, hi |-> 0]
Cut(d, a, b) == [id |-> cid, day |-> d, whole |-> FALSE, lo |-> a, hi |-> b]

\* Does the COPY's predicate on the partition column hold, with midnight at m?
InDay(c, i, m) ==
  IF c.day = NullDay THEN table[i] = NullDay
  ELSE /\ table[i] # NullDay
       /\ m + c.day * DayHours <= table[i] /\ table[i] < m + (c.day + 1) * DayHours

\* Mutant: a timestamptz is compared with midnight in the session's time zone.
SelectsInSession(c, i) ==
  /\ c.day # AnyDay => InDay(c, i, IF partTz THEN -Zone ELSE 0)
  /\ ~c.whole => i \in Ids /\ c.lo <= i /\ i < c.hi

\* The WHERE clause of the chunk's COPY, for the row with this id: for a
\* timestamptz midnight is UTC's.
Selects(c, i) ==
  /\ c.day # AnyDay => InDay(c, i, 0)
  /\ ~c.whole => i \in Ids /\ c.lo <= i /\ i < c.hi

\* Iceberg's DayTransform of the row: the partition it belongs to.
IcebergDay(i) == IF table[i] = NullDay THEN NullDay ELSE table[i] \div DayHours

Init ==
  /\ table \in Tables /\ planner \in Planners
  /\ partTz \in BOOLEAN /\ numericId \in BOOLEAN
  /\ planner = "range" => numericId
  /\ todo = Groups
  /\ day = AnyDay /\ curLo = 0 /\ hi = 0 /\ step = 1
  /\ cid = 0 /\ chunks = {}
  /\ pc = "group"

Emit(c) == chunks' = chunks \cup {c} /\ cid' = cid + 1

\* One COPY for the whole group.
WholeGroup(d) ==
  /\ pc = "group" /\ d \in todo
  /\ planner = "full" \/ (planner = "partitioned" /\ (~numericId \/ d = NullDay))
  /\ Emit(Whole(d))
  /\ todo' = todo \ {d}
  /\ UNCHANGED <<table, planner, partTz, numericId, day, curLo, hi, step, pc>>

\* Mutant: without the early return the arithmetic on NULL raises.
EmptyTableUnchecked ==
  /\ pc = "group" /\ planner = "range" /\ AnyDay \in todo /\ IdsOf(AnyDay) = {}
  /\ pc' = "raised"
  /\ UNCHANGED <<table, planner, partTz, numericId, todo, day, curLo, hi, step, cid, chunks>>

\* min(id) and max(id) of a table without ids are NULL: no chunks.
EmptyTable ==
  /\ pc = "group" /\ planner = "range" /\ AnyDay \in todo /\ IdsOf(AnyDay) = {}
  /\ todo' = {}
  /\ UNCHANGED <<table, planner, partTz, numericId, day, curLo, hi, step, cid, chunks, pc>>

\* Group d is cut by ids.
ByRange(d) == planner = "range" \/ (planner = "partitioned" /\ numericId /\ d # NullDay)

\* A day without ids is passed over.
SkipGroup(d) ==
  /\ pc = "group" /\ d \in todo /\ planner = "partitioned" /\ ByRange(d)
  /\ IdsOf(d) = {}
  /\ todo' = todo \ {d}
  /\ UNCHANGED <<table, planner, partTz, numericId, day, curLo, hi, step, cid, chunks, pc>>

\* The id range of a group and the step to cut it with.
CutGroup(d) ==
  /\ pc = "group" /\ d \in todo /\ ByRange(d)
  /\ \E lo, top \in IdsOf(d), n \in RowCounts(d) :
       /\ \A i \in IdsOf(d) : lo <= i /\ i <= top
       /\ curLo' = lo /\ hi' = top
       /\ step' = StepFor(top - lo + 1, n)
  /\ day' = d /\ todo' = todo \ {d} /\ pc' = "cut"
  /\ UNCHANGED <<table, planner, partTz, numericId, cid, chunks>>

\* Mutant: the last chunk of a group ends before the largest id.
CutChunkShort ==
  /\ pc = "cut" /\ curLo <= hi
  /\ Emit(Cut(day, curLo, IF curLo + step <= hi THEN curLo + step ELSE hi))
  /\ curLo' = curLo + step
  /\ UNCHANGED <<table, planner, partTz, numericId, todo, day, hi, step, pc>>

\* Mutant: chunk ids start again in every group.
CutChunkIdsPerDay ==
  /\ pc = "cut" /\ curLo <= hi
  /\ Emit([Cut(day, curLo, IF curLo + step <= hi THEN curLo + step ELSE hi + 1)
             EXCEPT !.id = (hi - curLo) \div step])
  /\ curLo' = curLo + step
  /\ UNCHANGED <<table, planner, partTz, numericId, todo, day, hi, step, pc>>

\* The while loop's body.
CutChunk ==
  /\ pc = "cut" /\ curLo <= hi
  /\ Emit(Cut(day, curLo, IF curLo + step <= hi THEN curLo + step ELSE hi + 1))
  /\ curLo' = curLo + step
  /\ UNCHANGED <<table, planner, partTz, numericId, todo, day, hi, step, pc>>

GroupCut ==
  /\ pc = "cut" /\ curLo > hi /\ pc' = "group"
  /\ UNCHANGED <<table, planner, partTz, numericId, todo, day, curLo, hi, step, cid, chunks>>

Return ==
  /\ pc = "group" /\ todo = {} /\ pc' = "done"
  /\ UNCHANGED <<table, planner, partTz, numericId, todo, day, curLo, hi, step, cid, chunks>>

Next ==
  \/ \E d \in todo : WholeGroup(d) \/ SkipGroup(d) \/ CutGroup(d)
  \/ EmptyTable \/ CutChunk \/ GroupCut \/ Return

Spec == Init /\ [][Next]_vars
FairSpec == Spec /\ WF_vars(Next)

-----------------------------------------------------------------------------
(* Properties.                                                             *)

Chunk == [id : Nat, day : Days, whole : BOOLEAN, lo : Int, hi : Int]

TypeOK ==
  /\ table \in Tables /\ planner \in Planners
  /\ partTz \in BOOLEAN /\ numericId \in BOOLEAN
  /\ todo \subseteq Days /\ day \in Days
  /\ curLo \in Int /\ hi \in Int /\ step \in Nat \ {0}
  /\ cid \in Nat /\ chunks \subseteq Chunk
  /\ pc \in {"group", "cut", "done"}

\* The rows a plan can find: those with an id, and all of a group that is not
\* cut by ids.
GroupOf(i) == IF planner = "partitioned" THEN DayExpr(i) ELSE AnyDay
Findable == {i \in DOMAIN table : i \in Ids \/ ~ByRange(GroupOf(i))}

\* Every row a plan can find is in exactly one chunk: none is skipped at a
\* range's end or between two days, and none is copied twice, which add_files
\* would keep as a duplicate (plan_range_chunks, plan_partitioned_chunks, the
\* COPY predicate of extract_chunk_to_s3).
ExactlyOneChunk ==
  pc = "done" => \A i \in Findable :
    /\ \E c \in chunks : Selects(c, i)
    /\ \A c, e \in chunks : Selects(c, i) /\ Selects(e, i) => c = e

\* "Chunk a source object into id-range slices" (extract/chunker.py:1): the
\* chunks of a plan make up the object.  Rows with a NULL id are in no slice.
EveryRowCopied ==
  pc = "done" => \A i \in DOMAIN table : \E c \in chunks : Selects(c, i)

\* Chunks of one plan have distinct ids: the id names the chunk's object in S3
\* and its row in pipeline_chunk_state, so two chunks with one id would
\* overwrite each other's file (copy_worker.py, chunks.chunk_key).
DistinctIds == \A c, e \in chunks : c.id = e.id => c = e

\* A file never straddles two days of a partitioned table: the rows of a chunk
\* have one partition value, whatever the session's time zone (add_files rejects
\* other files; _day_expr, extract_chunk_to_s3).
OneDayPerChunk ==
  planner = "partitioned" => \A c \in chunks, i, j \in DOMAIN table :
    Selects(c, i) /\ Selects(c, j) => IcebergDay(i) = IcebergDay(j)

\* A partitioned plan cuts a day into less than twice the pieces asked for,
\* however sparse its ids (n_sub, span and step).
ChunksBounded ==
  planner = "partitioned" => \A d \in {c.day : c \in chunks} :
    Cardinality({c \in chunks : c.day = d}) < 2 * Pieces(Cardinality(Group(d)))

\* The planner ends: every round of both loops makes progress.
PlannerReturns == <>(pc = "done")
=============================================================================
