--------------------------- MODULE ChunkerProofs ---------------------------
(***************************************************************************)
(* Proofs about Chunker: for every table, every size of chunk and every    *)
(* day length, each row a plan can find ends up in exactly one chunk and   *)
(* chunk ids are distinct.                                                 *)
(***************************************************************************)
EXTENDS Chunker, FiniteSetTheorems, TLAPS

\* Row i is accounted for: no group still to do holds it, and the inner loop
\* has passed it.
Reached(i) ==
  /\ \A d \in todo : i \notin Group(d)
  /\ pc = "cut" /\ i \in Group(day) => i < curLo

\* The groups are those of the planner that runs.
OwnGroups ==
  /\ planner = "partitioned" => /\ AnyDay \notin todo
                                /\ pc = "cut" => day # AnyDay
                                /\ \A c \in chunks : c.day # AnyDay
  /\ planner # "partitioned" => todo \subseteq {AnyDay}
  /\ planner # "partitioned" /\ pc = "cut" => day = AnyDay
  /\ pc = "cut" => /\ day \notin todo
                   /\ ByRange(day)
                   /\ \A i \in IdsOf(day) : i <= hi
  /\ pc = "done" => todo = {}

OnceReached ==
  /\ \A i \in Findable : Reached(i) => \E c \in chunks : Selects(c, i)
  /\ \A i \in Findable, c \in chunks : Selects(c, i) => Reached(i)
  /\ \A i \in Findable, c, e \in chunks : Selects(c, i) /\ Selects(e, i) => c = e

IdsBelow == \A c \in chunks : c.id < cid

IInv == TypeOK /\ OwnGroups /\ OnceReached /\ IdsBelow /\ DistinctIds

-----------------------------------------------------------------------------
(* Arithmetic and the meaning of the COPY predicate.                       *)

LEMMA Monotone ==
  ASSUME NEW a \in Int, NEW b \in Int, NEW h \in Nat, a <= b
  PROVE  a * h <= b * h
  BY SMT

LEMMA DayOfTime ==
  ASSUME NEW h \in Nat \ {0}, NEW t \in Int, NEW q \in Int
  PROVE  q * h <= t /\ t < (q + 1) * h <=> t \div h = q
<1> DEFINE p == t \div h
<1>1. p \in Int /\ p * h <= t /\ t < (p + 1) * h
  BY SMT
<1>2. ASSUME q * h <= t, t < (q + 1) * h PROVE p = q
  <2>1. CASE p + 1 <= q
    <3>1. (p + 1) * h <= q * h BY <1>1, <2>1, Monotone
    <3> QED BY <1>1, <1>2, <3>1, SMT
  <2>2. CASE q + 1 <= p
    <3>1. (q + 1) * h <= p * h BY <1>1, <2>2, Monotone
    <3> QED BY <1>1, <1>2, <3>1, SMT
  <2> QED BY <1>1, <2>1, <2>2
<1> QED BY <1>1, <1>2

LEMMA TableType ==
  ASSUME table \in Tables
  PROVE  /\ DOMAIN table \subseteq Ids \cup NoIds
         /\ \A i \in DOMAIN table : /\ table[i] \in Int \cup {NullDay}
                                   /\ DayExpr(i) \in Int \cup {NullDay}
<1>1. PICK S \in SUBSET (Ids \cup NoIds) : table \in [S -> Times \cup {NullDay}]
  BY DEF Tables
<1>2. \A i \in DOMAIN table : table[i] \in Int \cup {NullDay}
  BY <1>1, ChunkerAssumption
<1>3. \A t \in Int : t \div DayHours \in Int
  BY ChunkerAssumption
<1>4. \A i \in DOMAIN table : DayExpr(i) \in Int \cup {NullDay}
  BY <1>2, <1>3 DEF DayExpr
<1> QED BY <1>1, <1>2, <1>4

\* A row's COPY predicate on the day says that the row is in the day's group.
LEMMA SelectsGroup ==
  ASSUME TypeOK, NEW c \in Chunk, NEW i \in DOMAIN table
  PROVE  Selects(c, i) <=> i \in Group(c.day) /\ (~c.whole => i \in Ids /\ c.lo <= i /\ i < c.hi)
<1>1. table[i] \in Int \cup {NullDay} /\ NullDay \notin Int
  BY TableType, ChunkerAssumption DEF TypeOK
<1>2. CASE c.day = AnyDay
  BY <1>2 DEF Selects, Group
<1>3. CASE c.day = NullDay
  <2>1. DayExpr(i) = NullDay <=> table[i] = NullDay
    BY <1>1, ChunkerAssumption DEF DayExpr
  <2>2. AnyDay # NullDay BY ChunkerAssumption
  <2> QED BY <1>3, <2>1, <2>2 DEF Selects, Group, InDay
<1>4. CASE c.day \in Int
  <2>0. c.day # AnyDay /\ c.day # NullDay BY <1>4, ChunkerAssumption
  <2>1. InDay(c, i, 0) <=> DayExpr(i) = c.day
    <3>1. CASE table[i] = NullDay BY <3>1, <2>0 DEF InDay, DayExpr
    <3>2. CASE table[i] # NullDay
      <4>1. table[i] \in Int BY <1>1, <3>2
      <4>2. DayHours \in Nat \ {0} BY ChunkerAssumption
      <4>3. c.day * DayHours <= table[i] /\ table[i] < (c.day + 1) * DayHours
              <=> table[i] \div DayHours = c.day
        BY <1>4, <4>1, <4>2, DayOfTime
      <4>4. 0 + c.day * DayHours = c.day * DayHours
            /\ 0 + (c.day + 1) * DayHours = (c.day + 1) * DayHours
        BY <1>4, <4>2
      <4> QED BY <4>3, <4>4, <3>2, <2>0 DEF InDay, DayExpr
    <3> QED BY <3>1, <3>2
  <2> QED BY <2>0, <2>1 DEF Selects, Group
<1> QED BY <1>2, <1>3, <1>4 DEF Chunk, Days

\* No row is in two groups of a partitioned plan.
LEMMA OneGroup ==
  ASSUME NEW d \in Days \ {AnyDay}, NEW e \in Days \ {AnyDay}, NEW i \in Group(d), i \in Group(e)
  PROVE  d = e
  BY DEF Group

LEMMA GroupIds ==
  ASSUME TypeOK, NEW d \in Days
  PROVE  /\ Group(d) \subseteq DOMAIN table /\ IdsOf(d) \subseteq Int
         /\ IsFiniteSet(Group(d)) /\ Cardinality(Group(d)) \in Nat
<1>1. DOMAIN table \subseteq Ids \cup NoIds BY TableType DEF TypeOK
<1>2. Group(d) \subseteq DOMAIN table BY DEF Group
<1>3. IsFiniteSet(Ids \cup NoIds) BY ChunkerAssumption, FS_Union
<1>4. IsFiniteSet(Group(d)) BY <1>1, <1>2, <1>3, FS_Subset
<1>5. Cardinality(Group(d)) \in Nat BY <1>4, FS_CardinalityType
<1>6. IdsOf(d) \subseteq Int BY ChunkerAssumption DEF IdsOf
<1> QED BY <1>2, <1>4, <1>5, <1>6

\* A row that can be found and is in a group cut by ids has an id.
LEMMA CutRowsHaveIds ==
  ASSUME NEW d, ByRange(d), NEW i \in Findable, i \in Group(d),
         planner = "partitioned" => d # AnyDay
  PROVE  i \in IdsOf(d)
<1>1. CASE planner = "partitioned"
  <2>1. DayExpr(i) = d BY <1>1 DEF Group
  <2> QED BY <1>1, <2>1 DEF Findable, GroupOf, IdsOf
<1>2. CASE planner # "partitioned"
  BY <1>2 DEF Findable, GroupOf, IdsOf, ByRange
<1> QED BY <1>1, <1>2

LEMMA StepType ==
  ASSUME NEW span \in Nat, NEW n \in Int
  PROVE  StepFor(span, n) \in Nat \ {0}
<1>1. Pieces(n) \in Nat \ {0}
  <2>1. n \div Target \in Int BY ChunkerAssumption
  <2> QED BY <2>1 DEF Pieces, AtLeastOne
<1>2. span \div Pieces(n) \in Int BY <1>1
<1> QED BY <1>2 DEF StepFor, AtLeastOne

-----------------------------------------------------------------------------
(* The invariant.                                                          *)

LEMMA InitInv == Init => IInv
<1> SUFFICES ASSUME Init PROVE IInv
  OBVIOUS
<1>1. \A i \in DOMAIN table : DayExpr(i) \in Int \cup {NullDay}
  BY TableType DEF Init
<1>2. TypeOK
  BY <1>1 DEF Init, TypeOK, Groups, Days
<1>3. OwnGroups
  BY <1>1, ChunkerAssumption DEF Init, OwnGroups, Groups
<1>4. \A i \in DOMAIN table : ~Reached(i)
  <2> SUFFICES ASSUME NEW i \in DOMAIN table PROVE ~Reached(i)
    OBVIOUS
  <2>1. CASE planner = "partitioned"
    <3>1. DayExpr(i) \in todo /\ DayExpr(i) # AnyDay
      BY <1>1, <2>1, ChunkerAssumption DEF Init, Groups
    <3>2. i \in Group(DayExpr(i)) BY <3>1 DEF Group
    <3> QED BY <3>1, <3>2 DEF Reached
  <2>2. CASE planner # "partitioned"
    BY <2>2 DEF Init, Groups, Group, Reached
  <2> QED BY <2>1, <2>2
<1>5. Findable \subseteq DOMAIN table
  BY DEF Findable
<1>6. OnceReached /\ IdsBelow /\ DistinctIds
  BY <1>4, <1>5 DEF Init, OnceReached, IdsBelow, DistinctIds
<1> QED BY <1>2, <1>3, <1>6 DEF IInv

\* What emitting a chunk preserves when it selects exactly the rows that the
\* same step reaches.
LEMMA EmitInv ==
  ASSUME IInv, TypeOK', NEW c \in Chunk, c.id = cid, Emit(c),
         UNCHANGED <<table, planner, numericId>>,
         \A i \in Findable : Reached(i)' <=> Reached(i) \/ Selects(c, i),
         \A i \in Findable : Selects(c, i) => ~Reached(i)
  PROVE  OnceReached' /\ IdsBelow' /\ DistinctIds'
<1>1. chunks' = chunks \cup {c} /\ cid' = cid + 1 BY DEF Emit
<1>0. Findable' = Findable
  BY DEF Findable, GroupOf, ByRange, DayExpr
<1>2. \A e \in Chunk, i \in Findable : Selects(e, i)' <=> Selects(e, i)
  BY DEF Selects, InDay
<1>3. chunks \subseteq Chunk /\ cid \in Nat BY DEF IInv, TypeOK
<1>4. \A e \in chunks : e.id \in Nat /\ e.id < cid BY <1>3 DEF IInv, IdsBelow, Chunk
<1>5. IdsBelow' /\ DistinctIds'
  BY <1>1, <1>3, <1>4 DEF IInv, IdsBelow, DistinctIds
<1>6. ASSUME NEW i \in Findable, Reached(i)'
      PROVE  \E e \in chunks' : Selects(e, i)
  BY <1>1, <1>6 DEF IInv, OnceReached
<1>7. ASSUME NEW i \in Findable, NEW e \in chunks', Selects(e, i)
      PROVE  Reached(i)'
  BY <1>1, <1>7 DEF IInv, OnceReached
<1>8. ASSUME NEW i \in Findable, NEW e \in chunks', NEW f \in chunks',
             Selects(e, i), Selects(f, i)
      PROVE  e = f
  BY <1>1, <1>8 DEF IInv, OnceReached
<1>9. chunks' \subseteq Chunk BY <1>1, <1>3
<1>10. OnceReached'
  <2>1. \A i \in Findable : Reached(i)' => \E e \in chunks' : Selects(e, i)'
    BY <1>2, <1>6, <1>9
  <2>2. \A i \in Findable, e \in chunks' : Selects(e, i)' => Reached(i)'
    BY <1>2, <1>7, <1>9
  <2>3. \A i \in Findable, e, f \in chunks' : Selects(e, i)' /\ Selects(f, i)' => e = f
    BY <1>2, <1>8, <1>9
  <2> QED BY <1>0, <2>1, <2>2, <2>3 DEF OnceReached
<1> QED BY <1>5, <1>10

\* A step that emits nothing keeps what is known about rows, if it reaches none.
LEMMA SilentInv ==
  ASSUME IInv, UNCHANGED <<table, planner, numericId, cid, chunks>>,
         \A i \in Findable : Reached(i)' <=> Reached(i)
  PROVE  OnceReached' /\ IdsBelow' /\ DistinctIds'
<1>1. \A e \in chunks, i \in Findable : Selects(e, i)' <=> Selects(e, i)
  BY DEF Selects, InDay
<1>2. Findable' = Findable
  BY DEF Findable, GroupOf, ByRange, DayExpr
<1> QED BY <1>1, <1>2 DEF IInv, OnceReached, IdsBelow, DistinctIds

\* The types are kept by every step.
LEMMA NextType == TypeOK /\ [Next]_vars => TypeOK'
<1> SUFFICES ASSUME TypeOK, [Next]_vars PROVE TypeOK'
  OBVIOUS
<1> USE DEF TypeOK
<1>1. ASSUME NEW d \in todo, WholeGroup(d) PROVE TypeOK'
  <2>1. Whole(d) \in Chunk BY DEF Whole, Chunk
  <2> QED BY <1>1, <2>1 DEF WholeGroup, Emit
<1>2. ASSUME NEW d \in todo, CutGroup(d) PROVE TypeOK'
  <2>1. d \in Days OBVIOUS
  <2>2. PICK lo \in IdsOf(d), top \in IdsOf(d), n \in RowCounts(d) :
          /\ \A i \in IdsOf(d) : lo <= i /\ i <= top
          /\ curLo' = lo /\ hi' = top
          /\ step' = StepFor(top - lo + 1, n)
    BY <1>2 DEF CutGroup
  <2>3. lo \in Int /\ top \in Int BY <2>1, GroupIds
  <2>4. top - lo + 1 \in Nat BY <2>2, <2>3
  <2>5. n \in Int BY <2>1, GroupIds, ChunkerAssumption DEF RowCounts
  <2>6. step' \in Nat \ {0} BY <2>2, <2>4, <2>5, StepType
  <2> QED BY <1>2, <2>1, <2>2, <2>3, <2>6 DEF CutGroup
<1>3. CASE EmptyTable \/ \E d \in todo : SkipGroup(d)
  BY <1>3 DEF EmptyTable, SkipGroup
<1>4. CASE CutChunk
  <2>1. (IF curLo + step <= hi THEN curLo + step ELSE hi + 1) \in Int OBVIOUS
  <2>2. Cut(day, curLo, IF curLo + step <= hi THEN curLo + step ELSE hi + 1) \in Chunk
    BY <2>1 DEF Cut, Chunk
  <2> QED BY <1>4, <2>2 DEF CutChunk, Emit
<1>5. CASE GroupCut BY <1>5 DEF GroupCut
<1>6. CASE Return BY <1>6 DEF Return
<1>7. CASE UNCHANGED vars BY <1>7 DEF vars
<1> QED BY <1>1, <1>2, <1>3, <1>4, <1>5, <1>6, <1>7 DEF Next

LEMMA NextInv == IInv /\ [Next]_vars => IInv'
<1> SUFFICES ASSUME IInv, [Next]_vars PROVE IInv'
  OBVIOUS
<1>0. TypeOK /\ TypeOK' BY NextType DEF IInv
<1>1. ASSUME NEW d \in todo, WholeGroup(d) PROVE IInv'
  <2>1. Whole(d) \in Chunk /\ Whole(d).id = cid /\ Whole(d).whole /\ Whole(d).day = d
    BY <1>0 DEF Whole, Chunk, TypeOK
  <2>2. \A i \in Findable : Selects(Whole(d), i) <=> i \in Group(d)
    BY <1>0, <2>1, SelectsGroup DEF Findable
  <2>3. \A e : Group(e)' = Group(e)
    BY <1>1 DEF WholeGroup, Group, DayExpr
  <2>4. pc = "group" /\ pc' = "group" /\ todo' = todo \ {d} /\ Emit(Whole(d))
        /\ UNCHANGED <<table, planner, numericId>>
    BY <1>1 DEF WholeGroup
  <2>5. \A e \in todo \ {d} : Group(e) \cap Group(d) = {}
    <3>1. CASE planner = "partitioned"
      BY <3>1, <1>0, OneGroup DEF IInv, OwnGroups, TypeOK
    <3>2. CASE planner # "partitioned"
      BY <3>2 DEF IInv, OwnGroups
    <3> QED BY <3>1, <3>2
  <2>6. \A i \in Findable : Reached(i)' <=> Reached(i) \/ Selects(Whole(d), i)
    BY <2>2, <2>3, <2>4, <2>5 DEF Reached
  <2>7. \A i \in Findable : Selects(Whole(d), i) => ~Reached(i)
    BY <2>2 DEF Reached
  <2>8. OnceReached' /\ IdsBelow' /\ DistinctIds'
    BY <1>0, <2>1, <2>4, <2>6, <2>7, EmitInv
  <2>9. OwnGroups'
    BY <2>1, <2>4 DEF IInv, OwnGroups, Emit
  <2> QED BY <1>0, <2>8, <2>9 DEF IInv
<1>2. ASSUME NEW d \in todo, CutGroup(d) PROVE IInv'
  <2>1. PICK lo \in IdsOf(d), top \in IdsOf(d) :
          /\ \A i \in IdsOf(d) : lo <= i /\ i <= top
          /\ curLo' = lo /\ hi' = top
    BY <1>2 DEF CutGroup
  <2>2. pc = "group" /\ pc' = "cut" /\ day' = d /\ todo' = todo \ {d} /\ ByRange(d)
        /\ UNCHANGED <<table, planner, numericId, cid, chunks>>
    BY <1>2 DEF CutGroup
  <2>3. \A e : Group(e)' = Group(e)
    BY <2>2 DEF Group, DayExpr
  <2>4. IdsOf(d) \subseteq Int BY <1>0, GroupIds DEF TypeOK
  <2>5. \A i \in Findable : i \in Group(d) => ~(i < curLo')
    <3>1. planner = "partitioned" => d # AnyDay BY DEF IInv, OwnGroups
    <3> QED BY <2>1, <2>2, <2>4, <3>1, CutRowsHaveIds
  <2>6. \A i \in Findable : Reached(i)' <=> Reached(i)
    BY <2>2, <2>3, <2>5 DEF Reached
  <2>7. OnceReached' /\ IdsBelow' /\ DistinctIds'
    BY <2>2, <2>6, SilentInv
  <2>8. OwnGroups'
    <3>1. IdsOf(d)' = IdsOf(d) /\ ByRange(d)'
      BY <2>2, <2>3 DEF IdsOf, ByRange
    <3> QED BY <2>1, <2>2, <3>1 DEF IInv, OwnGroups
  <2> QED BY <1>0, <2>7, <2>8 DEF IInv
<1>3. CASE EmptyTable
  <2>1. UNCHANGED <<table, planner, numericId, day, curLo, hi, pc, cid, chunks>> /\ todo' = {}
        /\ pc = "group" /\ planner = "range" /\ IdsOf(AnyDay) = {} /\ AnyDay \in todo
        /\ UNCHANGED numericId
    BY <1>3 DEF EmptyTable
  <2>2. Findable = {} BY <2>1 DEF Findable, GroupOf, ByRange, IdsOf, Group
  <2>3. OnceReached' /\ IdsBelow' /\ DistinctIds'
    BY <2>1, <2>2, SilentInv
  <2>4. OwnGroups' BY <2>1 DEF IInv, OwnGroups
  <2> QED BY <1>0, <2>3, <2>4 DEF IInv
<1>8. ASSUME NEW d \in todo, SkipGroup(d) PROVE IInv'
  <2>1. /\ UNCHANGED <<table, planner, numericId, day, curLo, hi, pc, cid, chunks>>
        /\ todo' = todo \ {d} /\ pc = "group" /\ IdsOf(d) = {} /\ ByRange(d)
    BY <1>8 DEF SkipGroup
  <2>2. \A e : Group(e)' = Group(e)
    BY <2>1 DEF Group, DayExpr
  <2>3. \A i \in Findable : i \notin Group(d)
    <3>1. planner = "partitioned" => d # AnyDay BY DEF IInv, OwnGroups
    <3> QED BY <2>1, <3>1, CutRowsHaveIds
  <2>4. \A i \in Findable : Reached(i)' <=> Reached(i)
    BY <2>1, <2>2, <2>3 DEF Reached
  <2>5. OnceReached' /\ IdsBelow' /\ DistinctIds'
    BY <2>1, <2>4, SilentInv
  <2>6. OwnGroups' BY <2>1 DEF IInv, OwnGroups
  <2> QED BY <1>0, <2>5, <2>6 DEF IInv
<1>4. CASE CutChunk
  <2> DEFINE end == IF curLo + step <= hi THEN curLo + step ELSE hi + 1
             c == Cut(day, curLo, end)
  <2>1. pc = "cut" /\ Emit(c) /\ curLo' = curLo + step /\ curLo <= hi
        /\ UNCHANGED <<table, planner, numericId, todo, day, hi, pc>>
    BY <1>4 DEF CutChunk
  <2>2. curLo \in Int /\ hi \in Int /\ step \in Nat \ {0} /\ end \in Int /\ day \in Days
    BY <1>0 DEF TypeOK
  <2>3. c \in Chunk /\ c.id = cid /\ ~c.whole /\ c.day = day /\ c.lo = curLo /\ c.hi = end
    BY <1>0, <2>2 DEF Cut, Chunk, TypeOK
  <2>4. \A e : Group(e)' = Group(e)
    BY <2>1 DEF Group, DayExpr
  <2>5. \A i \in Findable : i \in Group(day) => i \in Ids /\ i \in Int /\ i <= hi
    <3>1. ByRange(day) /\ (planner = "partitioned" => day # AnyDay)
          /\ \A i \in IdsOf(day) : i <= hi
      BY <2>1 DEF IInv, OwnGroups
    <3>2. \A i \in Findable : i \in Group(day) => i \in IdsOf(day)
      BY <3>1, CutRowsHaveIds
    <3> QED BY <2>2, <3>1, <3>2, <1>0, GroupIds DEF IdsOf
  <2>6. \A i \in Findable : i \in Group(day) =>
          (i < curLo' <=> i < curLo \/ (curLo <= i /\ i < end))
    BY <2>1, <2>2, <2>5
  <2>7. \A i \in Findable :
          Selects(c, i) <=> i \in Group(day) /\ curLo <= i /\ i < end
    BY <1>0, <2>3, <2>5, SelectsGroup DEF Findable
  <2>8. \A e \in todo : Group(e) \cap Group(day) = {}
    <3>1. CASE planner = "partitioned"
      BY <3>1, <1>0, <2>1, OneGroup DEF IInv, OwnGroups, TypeOK
    <3>2. CASE planner # "partitioned"
      BY <3>2, <2>1 DEF IInv, OwnGroups
    <3> QED BY <3>1, <3>2
  <2>9. \A i \in Findable : Reached(i)' <=> Reached(i) \/ Selects(c, i)
    BY <2>1, <2>4, <2>6, <2>7, <2>8 DEF Reached
  <2>10. \A i \in Findable : i \in Group(day) /\ curLo <= i => ~(i < curLo)
    BY <2>2, <2>5
  <2>11. \A i \in Findable : Selects(c, i) => ~Reached(i)
    BY <2>1, <2>7, <2>10 DEF Reached
  <2>12. OnceReached' /\ IdsBelow' /\ DistinctIds'
    BY <1>0, <2>1, <2>3, <2>9, <2>11, EmitInv
  <2>13. OwnGroups'
    <3>1. IdsOf(day)' = IdsOf(day) /\ (ByRange(day)' <=> ByRange(day))
      BY <2>1, <2>4 DEF IdsOf, ByRange
    <3> QED BY <2>1, <2>3, <3>1 DEF IInv, OwnGroups, Emit
  <2> QED BY <1>0, <2>12, <2>13 DEF IInv
<1>5. CASE GroupCut
  <2>1. pc = "cut" /\ pc' = "group" /\ curLo > hi
        /\ UNCHANGED <<table, planner, numericId, todo, day, hi, cid, chunks>>
    BY <1>5 DEF GroupCut
  <2>2. \A e : Group(e)' = Group(e)
    BY <2>1 DEF Group, DayExpr
  <2>3. \A i \in Findable : i \in Group(day) => i < curLo
    <3>1. ByRange(day) /\ (planner = "partitioned" => day # AnyDay)
          /\ \A i \in IdsOf(day) : i <= hi
      BY <2>1 DEF IInv, OwnGroups
    <3>2. \A i \in Findable : i \in Group(day) => i \in IdsOf(day)
      BY <3>1, CutRowsHaveIds
    <3>3. IdsOf(day) \subseteq Int /\ curLo \in Int /\ hi \in Int
      BY <1>0, GroupIds DEF TypeOK
    <3> QED BY <2>1, <3>1, <3>2, <3>3
  <2>4. \A i \in Findable : Reached(i)' <=> Reached(i)
    BY <2>1, <2>2, <2>3 DEF Reached
  <2>5. OnceReached' /\ IdsBelow' /\ DistinctIds'
    BY <2>1, <2>4, SilentInv
  <2>6. OwnGroups' BY <2>1 DEF IInv, OwnGroups
  <2> QED BY <1>0, <2>5, <2>6 DEF IInv
<1>6. CASE Return
  <2>1. pc = "group" /\ pc' = "done" /\ todo = {}
        /\ UNCHANGED <<table, planner, numericId, todo, cid, chunks>>
    BY <1>6 DEF Return
  <2>2. \A i \in Findable : Reached(i)' <=> Reached(i)
    BY <2>1 DEF Reached
  <2>3. OnceReached' /\ IdsBelow' /\ DistinctIds'
    BY <2>1, <2>2, SilentInv
  <2>4. OwnGroups' BY <2>1 DEF IInv, OwnGroups
  <2> QED BY <1>0, <2>3, <2>4 DEF IInv
<1>7. CASE UNCHANGED vars
  <2>1. \A e : Group(e)' = Group(e)
    BY <1>7 DEF vars, Group, DayExpr
  <2>2. \A i \in Findable : Reached(i)' <=> Reached(i)
    BY <1>7, <2>1 DEF vars, Reached
  <2>3. OnceReached' /\ IdsBelow' /\ DistinctIds'
    BY <1>7, <2>2, SilentInv DEF vars
  <2>4. OwnGroups'
    <3>1. IdsOf(day)' = IdsOf(day) /\ (ByRange(day)' <=> ByRange(day))
      BY <1>7, <2>1 DEF vars, IdsOf, ByRange
    <3> QED BY <1>7, <3>1 DEF vars, IInv, OwnGroups
  <2> QED BY <1>0, <2>3, <2>4 DEF IInv
<1> QED BY <1>1, <1>2, <1>3, <1>4, <1>5, <1>6, <1>7, <1>8 DEF Next

-----------------------------------------------------------------------------
(* Theorems.                                                               *)

\* Every variable keeps its type, for every table and size of chunk: the step
\* of the inner loop, in particular, is never zero (step = max(1, ...)).
THEOREM TypeCorrect == Spec => []TypeOK
<1>1. Init => TypeOK BY InitInv DEF IInv
<1> QED BY <1>1, NextType, PTL DEF Spec

LEMMA InvHolds == Spec => []IInv
  BY InitInv, NextInv, PTL DEF Spec

\* No row is lost or copied twice by the plan, whatever the ids, their gaps,
\* the estimate of the row count, the days and NULLs of the partition column.
THEOREM EveryRowOnce == Spec => []ExactlyOneChunk
<1>1. IInv => ExactlyOneChunk
  <2> SUFFICES ASSUME IInv, pc = "done" PROVE ExactlyOneChunk
    BY DEF ExactlyOneChunk
  <2>1. \A i \in Findable : Reached(i) BY DEF IInv, OwnGroups, Reached
  <2> QED BY <2>1 DEF IInv, OnceReached, ExactlyOneChunk
<1> QED BY <1>1, InvHolds, PTL

\* A chunk id is used once in a plan: no chunk overwrites another's object.
THEOREM ChunkIdsDistinct == Spec => []DistinctIds
<1>1. IInv => DistinctIds BY DEF IInv
<1> QED BY <1>1, InvHolds, PTL

\* A file holds rows of one partition value: the day the planner groups by and
\* the day the COPY cuts out are the day Iceberg partitions by.
THEOREM FilesStayInOneDay == Spec => []OneDayPerChunk
<1>1. IInv => OneDayPerChunk
  <2> SUFFICES ASSUME IInv, planner = "partitioned", NEW c \in chunks,
                      NEW i \in DOMAIN table, NEW j \in DOMAIN table,
                      Selects(c, i), Selects(c, j)
               PROVE  IcebergDay(i) = IcebergDay(j)
    BY DEF OneDayPerChunk
  <2>1. TypeOK /\ c \in Chunk BY DEF IInv, TypeOK
  <2>2. i \in Group(c.day) /\ j \in Group(c.day) BY <2>1, SelectsGroup
  <2>3. c.day # AnyDay BY DEF IInv, OwnGroups
  <2> QED BY <2>2, <2>3 DEF Group, DayExpr, IcebergDay
<1> QED BY <1>1, InvHolds, PTL

-----------------------------------------------------------------------------
(* How many chunks a day is cut into.                                      *)

DayChunks(d) == {c \in chunks : c.day = d}
PiecesOf(d) == Pieces(Cardinality(Group(d)))

\* A day not begun has no chunk.  While a day is cut, its chunks so far and the
\* ids left fit into one step for each chunk the day may have.
BudgetInv ==
  /\ IsFiniteSet(chunks)
  /\ planner = "partitioned" =>
       /\ \A d \in todo : DayChunks(d) = {}
       /\ \A d \in Days : Cardinality(DayChunks(d)) < 2 * PiecesOf(d)
       /\ pc = "cut" => Cardinality(DayChunks(day)) * step + (hi + 1 - curLo)
                          <= (2 * PiecesOf(day) - 1) * step

LEMMA PiecesType == ASSUME NEW n \in Int PROVE Pieces(n) \in Nat \ {0}
<1>1. n \div Target \in Int BY ChunkerAssumption
<1> QED BY <1>1 DEF Pieces, AtLeastOne

\* Rounding the step down at most doubles the number of steps.
LEMMA StepsCoverRange ==
  ASSUME NEW span \in Nat, NEW p \in Nat \ {0}, NEW s, s = AtLeastOne(span \div p)
  PROVE  s \in Nat \ {0} /\ span <= (2 * p - 1) * s
<1> DEFINE q == span \div p
<1>1. q \in Int /\ span < (q + 1) * p
  BY SMT
<1>2. (q + 1) * p = q * p + p
  BY <1>1, SMT
<1>3. CASE q >= 1
  <2>1. s = q /\ q \in Nat \ {0}
    BY <1>1, <1>3 DEF AtLeastOne
  <2>2. 1 * (p - 1) <= q * (p - 1)
    BY <2>1, Monotone
  <2> HIDE DEF q
  <2>3. q * (p - 1) = q * p - q /\ (2 * p - 1) * q = 2 * (q * p) - q /\ q * p \in Int
    BY <2>1, SMT
  <2> QED BY <1>1, <1>2, <2>1, <2>2, <2>3
<1>4. CASE q < 1
  <2>1. s = 1
    BY <1>1, <1>4 DEF AtLeastOne
  <2>2. (q + 1) * p <= 1 * p
    BY <1>1, <1>4, Monotone
  <2> QED BY <1>1, <2>1, <2>2, SMT
<1> QED BY <1>1, <1>3, <1>4

\* As long as ids are left, so is a step.
LEMMA StepLeft ==
  ASSUME NEW k \in Nat, NEW m \in Nat, NEW s \in Nat \ {0}, NEW r \in Nat \ {0},
         k * s + r <= m * s
  PROVE  k + 1 <= m
<1> SUFFICES ASSUME m <= k PROVE FALSE
  OBVIOUS
<1>1. m * s <= k * s
  BY Monotone
<1>2. m * s \in Int /\ k * s \in Int
  BY SMT
<1> QED BY <1>1, <1>2

LEMMA OneMoreStep == ASSUME NEW k \in Nat, NEW s \in Nat PROVE (k + 1) * s = k * s + s
  BY SMT

LEMMA NoStepYet ==
  ASSUME NEW s \in Nat, NEW a \in Int, NEW b \in Int
  PROVE  0 * s + (b + 1 - a) = b - a + 1
<1>1. 0 * s = 0
  OBVIOUS
<1> QED BY <1>1

LEMMA DayCounts ==
  ASSUME IsFiniteSet(chunks), NEW d
  PROVE  IsFiniteSet(DayChunks(d)) /\ Cardinality(DayChunks(d)) \in Nat
  BY FS_Subset, FS_CardinalityType DEF DayChunks

LEMMA EmitCounts ==
  ASSUME IsFiniteSet(chunks), NEW c, chunks' = chunks \cup {c}
  PROVE  /\ IsFiniteSet(chunks')
         /\ \A d : d # c.day => DayChunks(d)' = DayChunks(d)
         /\ Cardinality(DayChunks(c.day)') \in Nat
         /\ Cardinality(DayChunks(c.day)') <= Cardinality(DayChunks(c.day)) + 1
<1>1. IsFiniteSet(chunks')
  BY FS_AddElement
<1>2. ASSUME NEW d, d # c.day PROVE DayChunks(d)' = DayChunks(d)
  BY <1>2 DEF DayChunks
<1>3. DayChunks(c.day)' = DayChunks(c.day) \cup {c}
  BY DEF DayChunks
<1>4. IsFiniteSet(DayChunks(c.day)) /\ Cardinality(DayChunks(c.day)) \in Nat
  BY DayCounts
<1>5. /\ Cardinality(DayChunks(c.day) \cup {c}) =
           IF c \in DayChunks(c.day) THEN Cardinality(DayChunks(c.day))
                                     ELSE Cardinality(DayChunks(c.day)) + 1
  BY <1>4, FS_AddElement
<1> QED BY <1>1, <1>2, <1>3, <1>4, <1>5

LEMMA BudgetInit == Init => BudgetInv
<1> SUFFICES ASSUME Init PROVE BudgetInv
  OBVIOUS
<1>1. chunks = {} /\ \A d : DayChunks(d) = {}
  BY DEF Init, DayChunks
<1>2. \A d \in Days : PiecesOf(d) \in Nat \ {0}
  <2>1. TypeOK BY InitInv DEF IInv
  <2> QED BY <2>1, GroupIds, PiecesType DEF PiecesOf
<1>3. IsFiniteSet({}) /\ Cardinality({}) = 0
  BY FS_EmptySet
<1>4. pc = "group"
  BY DEF Init
<1>5. ASSUME NEW d \in Days PROVE Cardinality(DayChunks(d)) < 2 * PiecesOf(d)
  <2>1. Cardinality(DayChunks(d)) = 0
    BY <1>1, <1>3
  <2>2. PiecesOf(d) \in Nat \ {0}
    BY <1>2
  <2> QED BY <2>1, <2>2
<1> QED BY <1>1, <1>3, <1>4, <1>5 DEF BudgetInv

LEMMA BudgetNext == IInv /\ BudgetInv /\ [Next]_vars => BudgetInv'
<1> SUFFICES ASSUME IInv, BudgetInv, [Next]_vars PROVE BudgetInv'
  OBVIOUS
<1>i. TypeOK /\ IsFiniteSet(chunks)
  BY DEF IInv, BudgetInv
<1>p. \A d \in Days : PiecesOf(d) \in Nat \ {0}
  BY <1>i, GroupIds, PiecesType DEF PiecesOf
<1>n. \A d : Cardinality(DayChunks(d)) \in Nat
  BY <1>i, DayCounts
<1>t. planner' = planner /\ \A d : PiecesOf(d)' = PiecesOf(d)
  BY DEF Next, WholeGroup, SkipGroup, CutGroup, EmptyTable, CutChunk, GroupCut, Return, vars,
         PiecesOf, Group, DayExpr
<1>1. ASSUME NEW d \in todo, WholeGroup(d) PROVE BudgetInv'
  <2>1. /\ chunks' = chunks \cup {Whole(d)} /\ Whole(d).day = d
        /\ pc' = "group" /\ todo' = todo \ {d} /\ d \in Days
    BY <1>1, <1>i DEF WholeGroup, Emit, Whole, TypeOK
  <2> DEFINE w == Whole(d)
  <2> HIDE DEF w
  <2>2. /\ IsFiniteSet(chunks')
        /\ \A e : e # d => DayChunks(e)' = DayChunks(e)
        /\ Cardinality(DayChunks(d)') \in Nat
        /\ Cardinality(DayChunks(d)') <= Cardinality(DayChunks(d)) + 1
    <3>1. chunks' = chunks \cup {w} /\ w.day = d
      BY <2>1 DEF w
    <3> QED BY <1>i, <3>1, EmitCounts
  <2>3. planner = "partitioned" => Cardinality(DayChunks(d)') < 2 * PiecesOf(d)
    <3>1. planner = "partitioned" => Cardinality(DayChunks(d)) = 0
      BY FS_EmptySet DEF BudgetInv
    <3>2. PiecesOf(d) \in Nat \ {0}
      BY <1>p, <2>1
    <3> QED BY <2>2, <3>1, <3>2
  <2> QED BY <1>t, <2>1, <2>2, <2>3 DEF BudgetInv
<1>2. ASSUME NEW d \in todo, CutGroup(d) PROVE BudgetInv'
  <2>1. PICK lo \in IdsOf(d), top \in IdsOf(d), n \in RowCounts(d) :
          /\ \A i \in IdsOf(d) : lo <= i /\ i <= top
          /\ curLo' = lo /\ hi' = top
          /\ step' = StepFor(top - lo + 1, n)
    BY <1>2 DEF CutGroup
  <2>2. /\ chunks' = chunks /\ day' = d /\ pc' = "cut" /\ todo' = todo \ {d} /\ d \in Days
    BY <1>2, <1>i DEF CutGroup, TypeOK
  <2>3. lo \in Int /\ top \in Int /\ top - lo + 1 \in Nat
    BY <1>i, <2>1, <2>2, GroupIds
  <2>4. ASSUME planner = "partitioned"
        PROVE  Cardinality(DayChunks(d)) * step' + (top + 1 - lo) <= (2 * PiecesOf(d) - 1) * step'
    <3>1. Cardinality(DayChunks(d)) = 0
      BY <2>4, FS_EmptySet DEF BudgetInv
    <3>2. step' = AtLeastOne((top - lo + 1) \div PiecesOf(d))
      BY <2>1, <2>4 DEF StepFor, RowCounts, PiecesOf
    <3>3. step' \in Nat \ {0} /\ top - lo + 1 <= (2 * PiecesOf(d) - 1) * step'
      BY <2>2, <2>3, <3>2, <1>p, StepsCoverRange
    <3>4. step' \in Nat
      BY <3>3
    <3>5. 0 * step' + (top + 1 - lo) = top - lo + 1
      BY <2>3, <3>4, NoStepYet
    <3> QED BY <3>1, <3>3, <3>5
  <2>5. \A e : DayChunks(e)' = DayChunks(e)
    BY <2>2 DEF DayChunks
  <2>6. planner = "partitioned" =>
          Cardinality(DayChunks(day)') * step' + (hi' + 1 - curLo') <= (2 * PiecesOf(day)' - 1) * step'
    BY <1>t, <2>1, <2>2, <2>4, <2>5
  <2> QED BY <1>i, <1>t, <2>2, <2>5, <2>6 DEF BudgetInv
<1>3. CASE CutChunk
  <2> DEFINE c == Cut(day, curLo, IF curLo + step <= hi THEN curLo + step ELSE hi + 1)
             k == Cardinality(DayChunks(day))
             m == 2 * PiecesOf(day) - 1
  <2>1. /\ chunks' = chunks \cup {c} /\ c.day = day /\ curLo' = curLo + step /\ curLo <= hi
        /\ pc = "cut" /\ UNCHANGED <<todo, day, hi, step, pc>>
    BY <1>3 DEF CutChunk, Emit, Cut
  <2>2. /\ curLo \in Int /\ hi \in Int /\ step \in Nat \ {0} /\ day \in Days /\ k \in Nat
        /\ m \in Nat /\ PiecesOf(day) \in Nat \ {0} /\ hi + 1 - curLo \in Nat \ {0}
    BY <1>i, <1>p, <1>n, <2>1 DEF TypeOK
  <2>3. /\ IsFiniteSet(chunks')
        /\ \A e : e # day => DayChunks(e)' = DayChunks(e)
        /\ Cardinality(DayChunks(day)') \in Nat
        /\ Cardinality(DayChunks(day)') <= k + 1
    <3> HIDE DEF c
    <3> QED BY <1>i, <2>1, EmitCounts
  <2> DEFINE j == Cardinality(DayChunks(day)')
  <2>4. ASSUME planner = "partitioned"
        PROVE  j < 2 * PiecesOf(day) /\ j * step + (hi + 1 - (curLo + step)) <= m * step
    <3>1. k * step + (hi + 1 - curLo) <= m * step
      BY <2>1, <2>4 DEF BudgetInv
    <3> HIDE DEF k, m, j
    <3>2. k + 1 <= m
      BY <2>2, <3>1, StepLeft
    <3>3. j \in Nat /\ j <= k + 1
      BY <2>3 DEF j, k
    <3>4. j * step <= (k + 1) * step /\ (k + 1) * step = k * step + step
      BY <2>2, <3>3, Monotone, OneMoreStep
    <3>5. j * step \in Int /\ k * step \in Int /\ m * step \in Int
      BY <2>2, <3>3, SMT
    <3>6. j * step + (hi + 1 - (curLo + step)) <= m * step
      BY <2>2, <3>1, <3>4, <3>5
    <3> QED BY <2>2, <3>2, <3>3, <3>6 DEF m
  <2>5. planner = "partitioned" => \A d \in todo : d # day
    BY <2>1 DEF IInv, OwnGroups
  <2>6. DayChunks(day)' = {e \in chunks' : e.day = day}
    BY <2>1 DEF DayChunks
  <2> QED BY <1>t, <2>1, <2>3, <2>4, <2>5, <2>6 DEF BudgetInv
<1>4. CASE EmptyTable \/ (\E d \in todo : SkipGroup(d)) \/ GroupCut \/ Return \/ UNCHANGED vars
  <2>1. /\ chunks' = chunks /\ todo' \subseteq todo
        /\ pc' = "cut" => pc = "cut" /\ UNCHANGED <<day, hi, step, curLo>>
    BY <1>4 DEF EmptyTable, SkipGroup, GroupCut, Return, vars
  <2>2. \A d : DayChunks(d)' = DayChunks(d)
    BY <2>1 DEF DayChunks
  <2> QED BY <1>t, <2>1, <2>2 DEF BudgetInv
<1> QED BY <1>1, <1>2, <1>3, <1>4 DEF Next

\* However sparse its ids, a day is cut into less than twice the pieces that
\* its number of rows asks for (plan_partitioned_chunks: n_sub, span, step).
THEOREM DaysAreCutInProportion == Spec => []ChunksBounded
<1>1. IInv /\ BudgetInv => ChunksBounded
  <2> SUFFICES ASSUME IInv, BudgetInv, planner = "partitioned", NEW c \in chunks
               PROVE  Cardinality(DayChunks(c.day)) < 2 * PiecesOf(c.day)
    BY DEF ChunksBounded, DayChunks, PiecesOf
  <2>1. c.day \in Days
    BY DEF IInv, TypeOK, Chunk
  <2> QED BY <2>1 DEF BudgetInv
<1>2. Spec => []BudgetInv
  BY BudgetInit, BudgetNext, InvHolds, PTL DEF Spec
<1> QED BY <1>1, <1>2, InvHolds, PTL
=============================================================================
