------------------------- MODULE ConfigCacheProofs -------------------------
(***************************************************************************)
(* Theorems about ConfigCache for any processes, threads, times to live    *)
(* and bounds.                                                             *)
(***************************************************************************)
EXTENDS ConfigCache, TLAPS

-----------------------------------------------------------------------------
(* Ages of versions.                                                       *)

\* FreshSince for a sequence of commit times.
Fresh(s, v, time) == v \in 1..Len(s) /\ (v < Len(s) => s[v + 1] >= time)

LEMMA FreshIs ==
  ASSUME NEW k, NEW v, NEW time
  PROVE  FreshSince(k, v, time) <=> Fresh(commits[k], v, time)
BY DEF FreshSince, Fresh, Current

\* A version stays as fresh as it was when newer ones are committed.
LEMMA FreshAppend ==
  ASSUME NEW s \in Seq(Nat), NEW v \in Nat, NEW time \in Int, NEW c \in Nat,
         time <= c, Fresh(s, v, time)
  PROVE  Fresh(Append(s, c), v, time)
<1>1. Len(Append(s, c)) = Len(s) + 1 /\ Len(s) \in Nat
  OBVIOUS
<1>2. CASE v < Len(s)
  <2>1. Append(s, c)[v + 1] = s[v + 1]
    BY <1>2
  <2> QED BY <1>1, <1>2, <2>1 DEF Fresh
<1>3. CASE v = Len(s)
  <2>1. Append(s, c)[v + 1] = c
    BY <1>3
  <2> QED BY <1>1, <1>3, <2>1 DEF Fresh
<1> QED BY <1>2, <1>3 DEF Fresh

\* What is fresh since a moment is fresh since any earlier one.
LEMMA FreshEarlier ==
  ASSUME NEW s \in Seq(Nat), NEW v \in Nat, NEW a \in Int, NEW b \in Int,
         b <= a, Fresh(s, v, a)
  PROVE  Fresh(s, v, b)
<1> SUFFICES ASSUME v < Len(s) PROVE s[v + 1] >= b
  BY DEF Fresh
<1>1. s[v + 1] \in Nat
  BY DEF Fresh
<1> QED BY <1>1 DEF Fresh

\* Two times to live add up: what is kept under `at`, `at` being less than `outer`
\* before `start`, and was then at most `inner` old.
LEMMA FreshThrough ==
  ASSUME NEW s \in Seq(Nat), NEW v \in Nat, NEW at \in Int, NEW start \in Int,
         NEW outer \in Int, NEW inner \in Int,
         start - outer < at, Fresh(s, v, at - inner + 1)
  PROVE  Fresh(s, v, start - outer - inner + 2)
<1> DEFINE a == at - inner + 1
           b == start - outer - inner + 2
<1>1. a \in Int /\ b \in Int /\ b <= a
  OBVIOUS
<1>2. Fresh(s, v, a)
  OBVIOUS
<1> HIDE DEF a, b
<1>3. Fresh(s, v, b)
  BY <1>1, <1>2, FreshEarlier
<1> QED BY <1>3 DEF b

\* The newest version is fresh since any moment.
LEMMA FreshNewest ==
  ASSUME NEW s \in Seq(Nat), Len(s) >= 1, NEW time \in Int
  PROVE  Fresh(s, Len(s), time)
BY DEF Fresh

-----------------------------------------------------------------------------
(* What a step leaves alone.                                               *)

\* Versions are only added, at the time of the clock.
Grew == \A k \in Kinds : commits'[k] \in {commits[k], Append(commits[k], clock)}

Same(u) ==
  /\ pc'[u] = pc[u] /\ force'[u] = force[u] /\ begin'[u] = begin[u]
  /\ now'[u] = now[u] /\ got'[u] = got[u] /\ sel'[u] = sel[u]

LEMMA KindType ==
  ASSUME TypeOK, NEW t \in Threads
  PROVE  /\ KindOf(t) \in Kinds /\ home[t] \in Procs
         /\ req[t] \in {"list", "edit", "tables"} => KindOf(t) = "connections"
         /\ req[t] \in {"settings", "set"} => KindOf(t) = "settings"
         /\ req[t] = "select" => KindOf(t) = "selection"
         /\ site' = site => KindOf(t)' = KindOf(t)
BY DEF TypeOK, KindOf, Kinds, Requests, site

LEMMA Frame ==
  ASSUME TypeOK, NEW t \in Threads, Step(t)
  PROVE  /\ site' = site /\ clock' = clock /\ Grew
         /\ \A u \in Threads \ {t} : Same(u)
<1>1. /\ pc \in [Threads -> Steps] /\ force \in [Threads -> BOOLEAN]
      /\ begin \in [Threads -> Nat] /\ now \in [Threads -> Nat]
      /\ got \in [Threads -> Nat] /\ sel \in [Threads -> Nat]
      /\ commits \in [Kinds -> Seq(Nat)]
  BY DEF TypeOK
<1> USE <1>1 DEF locals, store, site, Upd, GoTo, Grew, Same
<1>2. CASE Begin(t)
  BY <1>2 DEF Begin
<1>3. CASE Call(t)
  BY <1>3 DEF Call
<1>4. CASE EnterHit(t)
  BY <1>4 DEF EnterHit
<1>5. CASE EnterMiss(t)
  BY <1>5 DEF EnterMiss
<1>6. CASE Load(t)
  BY <1>6 DEF Load
<1>7. CASE Keep(t)
  BY <1>7 DEF Keep
<1>8. CASE LoadFails(t)
  BY <1>8 DEF LoadFails
<1>9. CASE Overlay(t)
  BY <1>9 DEF Overlay
<1>10. CASE Tables(t)
  BY <1>10 DEF Tables
<1>11. CASE ReadSelection(t)
  BY <1>11 DEF ReadSelection
<1>12. CASE KeepTables(t)
  BY <1>12 DEF KeepTables
<1>13. CASE DiscoverFails(t)
  BY <1>13 DEF DiscoverFails
<1>14. CASE CommitEdit(t)
  BY <1>14 DEF CommitEdit, Committed
<1>15. CASE CommitSetting(t)
  BY <1>15 DEF CommitSetting, Committed
<1>16. CASE CommitSelection(t)
  BY <1>16 DEF CommitSelection, Committed
<1>17. CASE WriteFails(t)
  BY <1>17 DEF WriteFails
<1>18. CASE Clear(t)
  BY <1>18 DEF Clear
<1> QED
  BY <1>2, <1>3, <1>4, <1>5, <1>6, <1>7, <1>8, <1>9, <1>10, <1>11, <1>12,
     <1>13, <1>14, <1>15, <1>16, <1>17, <1>18 DEF Step

\* Fresh versions stay fresh.
LEMMA FreshStays ==
  ASSUME TypeOK, Grew, NEW k \in Kinds, NEW v \in Nat, NEW time \in Int,
         time <= clock, Fresh(commits[k], v, time)
  PROVE  Fresh(commits'[k], v, time)
<1>1. commits[k] \in Seq(Nat) /\ clock \in Nat
  BY DEF TypeOK
<1> QED BY <1>1, FreshAppend DEF Grew

-----------------------------------------------------------------------------
(* Type correctness.                                                       *)

LEMMA InitType == ConfigAssumption /\ Init => TypeOK
BY DEF ConfigAssumption, Init, TypeOK, Kinds, Steps, NoEntry, NoTables

LEMMA UpdType ==
  ASSUME NEW D, NEW R, NEW f \in [D -> R], NEW d \in D, NEW x \in R
  PROVE  Upd(f, d, x) \in [D -> R]
BY DEF Upd

LEMMA ShownType ==
  ASSUME TypeOK, NEW p \in Procs, NEW k \in Kinds, NEW v \in Nat, Shown(p, k, v)
  PROVE  /\ floor' \in [Procs -> [Kinds -> Nat]]
         /\ floor'[p][k] >= v /\ floor'[p][k] \in {v, floor[p][k]}
         /\ \A q \in Procs, j \in Kinds : q # p \/ j # k => floor'[q][j] = floor[q][j]
<1>1. floor \in [Procs -> [Kinds -> Nat]]
  BY DEF TypeOK
<1> DEFINE x == IF floor[p][k] > v THEN floor[p][k] ELSE v
<1>2. floor' = [floor EXCEPT ![p] = [floor[p] EXCEPT ![k] = x]]
  BY DEF Shown
<1>3. x \in Nat /\ x >= v /\ x \in {v, floor[p][k]}
  BY <1>1
<1> QED BY <1>1, <1>2, <1>3

LEMMA StepType ==
  ASSUME ConfigAssumption, ConfigInv, NEW t \in Threads, Step(t)
  PROVE  TypeOK'
<1>i. /\ TypeOK /\ StoreInSteps
      /\ pc[t] = "write" /\ req[t] = "edit" => FreshSince("connections", got[t], Since(t))
  BY DEF ConfigInv, LocalDated
<1> USE <1>i DEF TypeOK, caches, store, locals, history, site
<1>k. KindOf(t) \in Kinds /\ home[t] \in Procs
  BY KindType
<1>n. \A k \in Kinds : Current(k) \in Nat
  BY DEF Current
<1>1. CASE Begin(t)
  <2>1. pc' \in [Threads -> Steps]
    BY <1>1, UpdType DEF Begin, GoTo, Steps
  <2>2. force' \in [Threads -> BOOLEAN]
    BY <1>1 DEF Begin, Upd
  <2>3. begin' \in [Threads -> Nat] /\ now' \in [Threads -> Nat]
    BY <1>1 DEF Begin, Upd
  <2>4. got' \in [Threads -> Nat] /\ sel' \in [Threads -> Nat]
    BY <1>1 DEF Begin, Upd
  <2> QED BY <1>1, <2>1, <2>2, <2>3, <2>4 DEF Begin
<1>2. CASE Call(t)
  <2>1. overlay[home[t]].v \in Nat
    BY <1>k
  <2>2. pc' \in [Threads -> Steps] /\ got' \in [Threads -> Nat]
    BY <1>2, <2>1 DEF Call, Upd, GoTo, Steps
  <2>3. now' \in [Threads -> Nat]
    BY <1>2 DEF Call, Upd
  <2> QED BY <1>2, <2>2, <2>3 DEF Call
<1>a. After(t) \in Steps
  BY DEF After, Steps
<1>3. CASE EnterHit(t)
  <2>1. cache[home[t]][KindOf(t)].v \in Nat
    BY <1>k
  <2>2. got' \in [Threads -> Nat] /\ pc' \in [Threads -> Steps]
    BY <1>3, <1>a, <2>1 DEF EnterHit, Upd, GoTo
  <2>3. floor' \in [Procs -> [Kinds -> Nat]]
    BY <1>3, <1>k, <2>1, ShownType DEF EnterHit
  <2> QED BY <1>3, <2>2, <2>3 DEF EnterHit
<1>4. CASE EnterMiss(t)
  <2>1. pc' \in [Threads -> Steps] /\ lock' \in [Procs -> Threads \cup {NoOne}]
    BY <1>4, <1>k DEF EnterMiss, Upd, GoTo, Steps
  <2> QED BY <1>4, <2>1 DEF EnterMiss
<1>5. CASE Load(t)
  <2>1. pc' \in [Threads -> Steps]
    BY <1>5 DEF Load, Upd, GoTo, Steps
  <2>2. got' \in [Threads -> Nat]
    <3>1. Current(KindOf(t)) \in Nat /\ got' = Upd(got, t, Current(KindOf(t)))
      BY <1>5, <1>k, <1>n DEF Load
    <3> QED BY <3>1, UpdType
  <2> QED BY <1>5, <2>1, <2>2 DEF Load
<1>6. CASE Keep(t)
  <2>1. pc' \in [Threads -> Steps] /\ lock' \in [Procs -> Threads \cup {NoOne}]
    BY <1>6, <1>k, <1>a DEF Keep, Upd, GoTo
  <2>2. floor' \in [Procs -> [Kinds -> Nat]]
    BY <1>6, <1>k, ShownType DEF Keep
  <2>3. cache' \in [Procs -> [Kinds -> [full : BOOLEAN, at : Nat, v : Nat]]]
    BY <1>6, <1>k DEF Keep
  <2> QED BY <1>6, <2>1, <2>2, <2>3 DEF Keep
<1>7. CASE LoadFails(t)
  <2>1. pc' \in [Threads -> Steps] /\ lock' \in [Procs -> Threads \cup {NoOne}]
    BY <1>7, <1>k DEF LoadFails, Upd, GoTo, Steps
  <2>2. failed' \in [Procs -> Int]
    BY <1>7, <1>k DEF LoadFails, Upd
  <2> QED BY <1>7, <2>1, <2>2 DEF LoadFails
<1>8. CASE Overlay(t)
  <2>1. pc' \in [Threads -> Steps] /\ overlay' \in [Procs -> [full : BOOLEAN, at : Nat, v : Nat]]
    BY <1>8, <1>k DEF Overlay, Upd, GoTo, Steps
  <2> QED BY <1>8, <2>1 DEF Overlay
<1>9. CASE Tables(t)
  <2>1. pc' \in [Threads -> Steps] /\ now' \in [Threads -> Nat]
    BY <1>9, <1>k DEF Tables, Upd, GoTo, Steps
  <2>2. tables[home[t]].v \in Nat /\ tables[home[t]].conn \in Nat
    BY <1>k
  <2>3. got' \in [Threads -> Nat] /\ sel' \in [Threads -> Nat]
    BY <1>9, <2>2 DEF Tables, Upd
  <2> QED BY <1>9, <2>1, <2>3 DEF Tables
<1>10. CASE ReadSelection(t)
  <2>1. pc' \in [Threads -> Steps] /\ sel' \in [Threads -> Nat]
    BY <1>10, <1>n DEF ReadSelection, Upd, GoTo, Steps, Kinds
  <2> QED BY <1>10, <2>1 DEF ReadSelection
<1>11. CASE KeepTables(t)
  <2>1. pc' \in [Threads -> Steps]
    BY <1>11 DEF KeepTables, Upd, GoTo, Steps
  <2>2. tables' \in [Procs -> [full : BOOLEAN, at : Nat, v : Nat, conn : Nat]]
    BY <1>11, <1>k DEF KeepTables, Upd
  <2> QED BY <1>11, <2>1, <2>2 DEF KeepTables
<1>12. CASE DiscoverFails(t) \/ WriteFails(t)
  <2>1. pc' \in [Threads -> Steps]
    BY <1>12 DEF DiscoverFails, WriteFails, Upd, GoTo, Steps
  <2> QED BY <1>12, <2>1 DEF DiscoverFails, WriteFails
<1>c. ASSUME Committed(t) PROVE commits' \in [Kinds -> Seq(Nat)]
  <2>1. Append(commits[KindOf(t)], clock) \in Seq(Nat)
    BY <1>k
  <2> QED BY <1>c, <1>k, <2>1, UpdType DEF Committed
<1>13. CASE CommitEdit(t)
  <2>1. Current("connections") + 1 \in Nat
    <3>1. Current("connections") \in Nat
      BY <1>n DEF Kinds
    <3> QED BY ONLY <3>1
  <2>2. pc' \in [Threads -> Steps] /\ got' \in [Threads -> Nat]
    <3>1. pc' = Upd(pc, t, "clear") /\ got' = Upd(got, t, Current("connections") + 1)
      BY <1>13 DEF CommitEdit, GoTo
    <3>2. "clear" \in Steps
      BY DEF Steps
    <3> QED BY <2>1, <3>1, <3>2, UpdType
  <2>3. commits' \in [Kinds -> Seq(Nat)]
    BY <1>13, <1>c DEF CommitEdit
  <2>4. got[t] \in 1..Len(secrets) /\ secrets \in Seq(Nat)
    BY <1>i, <1>13 DEF CommitEdit, MayCommit, FreshSince, StoreInSteps
  <2>5. secrets[got[t]] \in Nat
    BY ONLY <2>4
  <2>6. secrets' \in Seq(Nat)
    <3>1. PICK x \in {secrets[got[t]], Current("connections") + 1} : secrets' = Append(secrets, x)
      BY <1>13 DEF CommitEdit
    <3>2. x \in Nat
      BY ONLY <2>1, <2>5, <3>1
    <3> QED BY ONLY <2>4, <3>1, <3>2
  <2> QED BY <1>13, <2>2, <2>3, <2>6 DEF CommitEdit
<1>16. CASE CommitSetting(t)
  <2>1. Current("settings") + 1 \in Nat
    <3>1. Current("settings") \in Nat
      BY <1>n DEF Kinds
    <3> QED BY ONLY <3>1
  <2>2. pc' \in [Threads -> Steps] /\ got' \in [Threads -> Nat]
    <3>1. pc' = Upd(pc, t, "clear") /\ got' = Upd(got, t, Current("settings") + 1)
      BY <1>16 DEF CommitSetting, GoTo
    <3>2. "clear" \in Steps
      BY DEF Steps
    <3> QED BY <2>1, <3>1, <3>2, UpdType
  <2>3. commits' \in [Kinds -> Seq(Nat)]
    BY <1>16, <1>c DEF CommitSetting
  <2> QED BY <1>16, <2>2, <2>3 DEF CommitSetting
<1>14. CASE CommitSelection(t)
  <2>1. pc' \in [Threads -> Steps]
    BY <1>14 DEF CommitSelection, Upd, GoTo, Steps
  <2>2. commits' \in [Kinds -> Seq(Nat)]
    BY <1>14, <1>c DEF CommitSelection
  <2>3. chosen' \in Seq([listed : SUBSET Objects, on : SUBSET Objects, sent : SUBSET Objects])
    BY <1>14 DEF CommitSelection, Selected
  <2> QED BY <1>14, <2>1, <2>2, <2>3 DEF CommitSelection
<1>15. CASE Clear(t)
  <2>1. pc' \in [Threads -> Steps]
    BY <1>15 DEF Clear, Upd, GoTo, Steps
  <2>2. floor' \in [Procs -> [Kinds -> Nat]]
    BY <1>15, <1>k, ShownType DEF Clear
  <2>3. cache' \in [Procs -> [Kinds -> [full : BOOLEAN, at : Nat, v : Nat]]]
    BY <1>15, <1>k DEF Clear, NoEntry
  <2> QED BY <1>15, <2>1, <2>2, <2>3 DEF Clear
<1> QED
  BY <1>1, <1>2, <1>3, <1>4, <1>5, <1>6, <1>7, <1>8, <1>9, <1>10, <1>11, <1>12, <1>13, <1>14,
     <1>15, <1>16 DEF Step

-----------------------------------------------------------------------------
(* The steps of a request.                                                 *)

LEMMA StepSteps ==
  ASSUME ConfigInv, NEW t \in Threads, Step(t)
  PROVE  \A u \in Threads : InSteps(u)'
<1>i. TypeOK /\ \A u \in Threads : InSteps(u)
  BY DEF ConfigInv
<1>f. site' = site /\ clock' = clock /\ \A u \in Threads \ {t} : Same(u)
  BY <1>i, Frame
<1>1. ASSUME NEW u \in Threads \ {t} PROVE InSteps(u)'
  <2>1. Same(u) /\ InSteps(u)
    BY <1>i, <1>f
  <2> QED BY <1>f, <2>1 DEF InSteps, Same, site
<1>2. InSteps(t)'
  <2>1. /\ pc \in [Threads -> Steps] /\ force \in [Threads -> BOOLEAN]
        /\ begin \in [Threads -> Nat] /\ now \in [Threads -> Nat] /\ got \in [Threads -> Nat]
        /\ clock \in Nat /\ req[t] \in Requests
    BY <1>i DEF TypeOK
  <2>2. InSteps(t) /\ home' = home /\ req' = req /\ clock' = clock
    BY <1>i, <1>f DEF site
  <2> USE <2>1, <2>2 DEF InSteps, Upd, GoTo, After, locals, Requests
  <2>3. CASE Begin(t)
    BY <2>3 DEF Begin
  <2>4. CASE Call(t)
    BY <2>4 DEF Call
  <2>5. CASE EnterHit(t)
    BY <2>5 DEF EnterHit
  <2>6. CASE EnterMiss(t) \/ Load(t)
    BY <2>6 DEF EnterMiss, Load
  <2>7. CASE Keep(t)
    BY <2>7 DEF Keep
  <2>8. CASE LoadFails(t)
    BY <2>8 DEF LoadFails
  <2>9. CASE Overlay(t)
    BY <2>9 DEF Overlay
  <2>10. CASE Tables(t)
    BY <2>10 DEF Tables
  <2>11. CASE ReadSelection(t) \/ KeepTables(t)
    BY <2>11 DEF ReadSelection, KeepTables
  <2>12. CASE DiscoverFails(t) \/ WriteFails(t)
    BY <2>12 DEF DiscoverFails, WriteFails
  <2>13. CASE CommitEdit(t) \/ CommitSetting(t)
    BY <2>13 DEF CommitEdit, CommitSetting, MayCommit
  <2>14. CASE CommitSelection(t) \/ Clear(t)
    BY <2>14 DEF CommitSelection, Clear
  <2> QED
    BY <2>3, <2>4, <2>5, <2>6, <2>7, <2>8, <2>9, <2>10, <2>11, <2>12, <2>13, <2>14 DEF Step
<1> QED BY <1>1, <1>2

-----------------------------------------------------------------------------
(* The lock.                                                               *)

LEMMA LockStays ==
  ASSUME ConfigAssumption, ConfigInv, NEW t \in Threads, Step(t)
  PROVE  LockHeld'
<1>i. TypeOK /\ LockHeld
  BY DEF ConfigInv
<1>t. /\ lock \in [Procs -> Threads \cup {NoOne}] /\ pc \in [Threads -> Steps]
      /\ home \in [Threads -> Procs] /\ NoOne \notin Threads
  BY <1>i DEF TypeOK, ConfigAssumption
<1>f. home' = home /\ \A u \in Threads \ {t} : pc'[u] = pc[u]
  BY <1>i, Frame DEF site, Same
<1>1. CASE EnterMiss(t)
  BY <1>i, <1>t, <1>f, <1>1 DEF EnterMiss, Upd, LockHeld
<1>2. CASE Keep(t) \/ LoadFails(t)
  <2>1. pc'[t] \notin {"load", "keep"}
    BY <1>t, <1>2 DEF Keep, LoadFails, Upd, GoTo, After
  <2>2. lock[home[t]] = t /\ lock' = [lock EXCEPT ![home[t]] = NoOne]
    BY <1>i, <1>2 DEF Keep, LoadFails, Upd, LockHeld
  <2> QED BY <1>i, <1>t, <1>f, <2>1, <2>2 DEF LockHeld
<1>3. CASE Load(t)
  BY <1>i, <1>t, <1>f, <1>3 DEF Load, LockHeld, caches
<1>4. CASE ~EnterMiss(t) /\ ~Keep(t) /\ ~LoadFails(t) /\ ~Load(t)
  <2>1. lock' = lock
    BY <1>4 DEF Step, Begin, Call, EnterHit, Overlay, Tables, ReadSelection, KeepTables,
       DiscoverFails, CommitEdit, CommitSetting, CommitSelection, WriteFails, Clear, caches
  <2>2. pc'[t] \notin {"load", "keep"}
    BY <1>4, <1>t DEF Step, Begin, Call, EnterHit, Overlay, Tables, ReadSelection, KeepTables,
       DiscoverFails, CommitEdit, CommitSetting, CommitSelection, WriteFails, Clear, GoTo, Upd,
       After
  <2> QED BY <1>i, <1>f, <2>1, <2>2 DEF LockHeld
<1> QED BY <1>1, <1>2, <1>3, <1>4

-----------------------------------------------------------------------------
(* The database.                                                           *)

LEMMA CurrentGrows ==
  ASSUME TypeOK, Grew, NEW k \in Kinds
  PROVE  Current(k) \in Nat /\ Current(k)' \in {Current(k), Current(k) + 1}
<1>1. commits[k] \in Seq(Nat) /\ clock \in Nat
  BY DEF TypeOK
<1>2. Len(Append(commits[k], clock)) = Len(commits[k]) + 1
  BY <1>1
<1> QED BY <1>1, <1>2 DEF Current, Grew

LEMMA StoreStays ==
  ASSUME ConfigAssumption, ConfigInv, NEW t \in Threads, Step(t)
  PROVE  StoreInSteps'
<1>i. TypeOK /\ StoreInSteps
  BY DEF ConfigInv
<1>t. /\ secrets \in Seq(Nat)
      /\ chosen \in Seq([listed : SUBSET Objects, on : SUBSET Objects, sent : SUBSET Objects])
      /\ commits \in [Kinds -> Seq(Nat)] /\ clock \in Nat
  BY <1>i DEF TypeOK
<1>g. \A k \in Kinds : Current(k)' >= 1
  BY <1>i, Frame, CurrentGrows DEF StoreInSteps
<1>1. CASE CommitEdit(t)
  <2>1. commits' = [commits EXCEPT !["connections"] = Append(commits["connections"], clock)]
    BY <1>1 DEF CommitEdit, Committed, Upd, KindOf
  <2>2. Current("connections")' = Current("connections") + 1
        /\ Current("selection")' = Current("selection")
    BY <1>t, <2>1 DEF Current, Kinds
  <2>3. PICK x : secrets' = Append(secrets, x)
    BY <1>1 DEF CommitEdit
  <2>4. Len(secrets') = Len(secrets) + 1
    BY <1>t, <2>3
  <2> QED BY <1>i, <1>g, <1>1, <2>2, <2>4 DEF CommitEdit, StoreInSteps
<1>2. CASE CommitSetting(t)
  <2>1. commits' = [commits EXCEPT !["settings"] = Append(commits["settings"], clock)]
    BY <1>2 DEF CommitSetting, Committed, Upd, KindOf
  <2>2. Current("connections")' = Current("connections")
        /\ Current("selection")' = Current("selection")
    BY <1>t, <2>1 DEF Current, Kinds
  <2> QED BY <1>i, <1>g, <1>2, <2>2 DEF CommitSetting, StoreInSteps
<1>3. CASE CommitSelection(t)
  <2>1. commits' = [commits EXCEPT !["selection"] = Append(commits["selection"], clock)]
    BY <1>3 DEF CommitSelection, Committed, Upd, KindOf
  <2>2. Current("connections")' = Current("connections")
        /\ Current("selection")' = Current("selection") + 1
    BY <1>t, <2>1 DEF Current, Kinds
  <2>3. PICK sent \in SUBSET Objects, on \in SUBSET Objects :
          chosen' = Append(chosen, [listed |-> sent, on |-> on, sent |-> sent])
    BY <1>3 DEF CommitSelection, Selected
  <2>4. Len(chosen') = Len(chosen) + 1
    BY <1>t, <2>3
  <2>5. ASSUME NEW v \in 1..Len(chosen') PROVE chosen'[v].listed = chosen'[v].sent
    <3>1. CASE v \in 1..Len(chosen)
      BY <1>i, <1>t, <2>3, <3>1 DEF StoreInSteps
    <3>2. CASE v = Len(chosen) + 1
      BY <1>t, <2>3, <3>2
    <3> QED BY <1>t, <2>4, <3>1, <3>2
  <2> QED BY <1>i, <1>g, <1>3, <2>2, <2>4, <2>5 DEF CommitSelection, StoreInSteps
<1>4. CASE ~CommitEdit(t) /\ ~CommitSetting(t) /\ ~CommitSelection(t)
  <2>1. store' = store
    BY <1>4 DEF Step, Begin, Call, EnterHit, EnterMiss, Load, Keep, LoadFails, Overlay, Tables,
       ReadSelection, KeepTables, DiscoverFails, WriteFails, Clear
  <2> QED BY <1>i, <2>1 DEF StoreInSteps, store, Current
<1> QED BY <1>1, <1>2, <1>3, <1>4

-----------------------------------------------------------------------------
(* The ages of what threads hold.                                          *)

\* What t's step does not touch keeps its age; failures are the newest.
LEMMA Ages ==
  ASSUME ConfigAssumption, ConfigInv, NEW t \in Threads, Step(t)
  PROVE  /\ \A k \in Kinds, v \in Nat, time \in Int :
              time <= clock /\ Fresh(commits[k], v, time) => Fresh(commits'[k], v, time)
         /\ \A p \in Procs : failed'[p] \in {failed[p], clock}
<1>i. TypeOK /\ Grew
  BY Frame DEF ConfigInv
<1>1. \A k \in Kinds, v \in Nat, time \in Int :
        time <= clock /\ Fresh(commits[k], v, time) => Fresh(commits'[k], v, time)
  BY <1>i, FreshStays
<1>2. \A p \in Procs : failed'[p] \in {failed[p], clock}
  BY <1>i DEF TypeOK, Step, Begin, Call, EnterHit, EnterMiss, Load, Keep, LoadFails, Overlay, Tables,
     ReadSelection, KeepTables, DiscoverFails, CommitEdit, CommitSetting, CommitSelection,
     WriteFails, Clear, history, Upd
<1> QED BY <1>1, <1>2

\* The moment a thread may count on is past.
LEMMA SinceType ==
  ASSUME ConfigAssumption, TypeOK, NEW u \in Threads, InSteps(u)
  PROVE  Since(u) \in Int /\ Since(u) <= begin[u] /\ begin[u] <= now[u] /\ now[u] <= clock
<1>1. begin[u] \in Nat /\ StoreTTL \in Nat \ {0}
  BY DEF ConfigAssumption, TypeOK
<1>2. Since(u) \in Int /\ Since(u) <= begin[u]
  BY <1>1 DEF Since
<1>3. begin[u] <= now[u] /\ now[u] <= clock
  BY DEF InSteps
<1> QED BY <1>2, <1>3

\* The other threads.
LEMMA OthersStay ==
  ASSUME ConfigAssumption, ConfigInv, NEW t \in Threads, Step(t), NEW u \in Threads \ {t}
  PROVE  LocalDated(u)'
<1>i. /\ TypeOK /\ TypeOK' /\ InSteps(u) /\ LocalDated(u)
      /\ site' = site /\ clock' = clock /\ Grew /\ Same(u)
  BY Frame, StepType DEF ConfigInv
<1>t. /\ begin[u] \in Nat /\ now[u] \in Nat /\ got[u] \in Nat /\ sel[u] \in Nat
      /\ clock \in Nat /\ KindOf(u) \in Kinds /\ KindOf(u)' = KindOf(u) /\ home[u] \in Procs
      /\ failed[home[u]] \in Int
  BY <1>i, KindType DEF TypeOK
<1>s. /\ Since(u) \in Int /\ Since(u) <= begin[u] /\ begin[u] <= now[u] /\ now[u] <= clock
      /\ Since(u)' = Since(u)
  BY <1>i, SinceType DEF Since, Same
<1>a. \A k \in Kinds, v \in Nat, time \in Int :
        time <= clock /\ FreshSince(k, v, time) => Fresh(commits'[k], v, time)
  BY Ages, FreshIs
<1>1. pc[u] = "keep" => Fresh(commits'[KindOf(u)], got[u], now[u])
  BY <1>i, <1>t, <1>s, <1>a DEF LocalDated
<1>2. pc[u] \in {"tables", "select", "discover"} \/ (pc[u] = "write" /\ req[u] = "edit")
      \/ (pc[u] = "served" /\ req[u] = "list") => Fresh(commits'["connections"], got[u], Since(u))
  BY <1>i, <1>t, <1>s, <1>a DEF LocalDated, Kinds
<1>3. pc[u] = "overlay" => IF got[u] = 0 THEN failed'[home[u]] >= begin[u]
                           ELSE Fresh(commits'["settings"], got[u], Since(u))
  <2>1. failed'[home[u]] \in {failed[home[u]], clock}
    BY <1>t, Ages
  <2> QED BY <1>i, <1>t, <1>s, <1>a, <2>1 DEF LocalDated, Kinds
<1>4. pc[u] = "discover" => Fresh(commits'["selection"], sel[u], now[u])
  BY <1>i, <1>t, <1>s, <1>a DEF LocalDated, Kinds
<1>5. pc[u] = "clear" => got[u] <= Current(KindOf(u))'
  BY <1>i, <1>t, CurrentGrows DEF LocalDated
<1> QED
  BY <1>i, <1>t, <1>s, <1>1, <1>2, <1>3, <1>4, <1>5
     DEF LocalDated, FreshSince, Fresh, Current, Same, site

\* What config_store's cache holds is as fresh as the caller may count on.
LEMMA HitIsFresh ==
  ASSUME ConfigAssumption, ConfigInv, NEW t \in Threads, Hit(t),
         req[t] \in {"list", "edit", "settings", "tables"}
  PROVE  FreshSince(KindOf(t), cache[home[t]][KindOf(t)].v, Since(t))
<1>i. TypeOK /\ InSteps(t) /\ KindOf(t) \in Kinds /\ home[t] \in Procs /\ CacheDated(home[t])
  BY KindType DEF ConfigInv, TypeOK
<1> DEFINE e == cache[home[t]][KindOf(t)]
<1>t. /\ commits[KindOf(t)] \in Seq(Nat) /\ e.at \in Nat /\ e.v \in Nat
      /\ begin[t] \in Nat /\ now[t] \in Nat /\ StoreTTL \in Nat /\ begin[t] <= now[t]
  <2>1. cache[home[t]] \in [Kinds -> [full : BOOLEAN, at : Nat, v : Nat]]
    BY <1>i DEF TypeOK
  <2>2. e \in [full : BOOLEAN, at : Nat, v : Nat]
    BY <1>i, <2>1
  <2>3. commits[KindOf(t)] \in Seq(Nat) /\ begin[t] \in Nat /\ now[t] \in Nat
    BY <1>i DEF TypeOK
  <2>4. begin[t] <= now[t] /\ StoreTTL \in Nat
    BY <1>i DEF InSteps, ConfigAssumption
  <2> QED BY <2>2, <2>3, <2>4
<1>1. ~force[t] /\ e.full /\ now[t] - e.at < StoreTTL
  BY DEF Hit, Young
<1>2. Fresh(commits[KindOf(t)], e.v, e.at)
  BY <1>i, <1>1, FreshIs DEF CacheDated
<1>3. Since(t) \in Int /\ Since(t) <= e.at
  BY <1>t, <1>1 DEF Since
<1>4. Fresh(commits[KindOf(t)], e.v, Since(t))
  BY <1>t, <1>2, <1>3, FreshEarlier
<1> QED BY <1>4, FreshIs

\* The thread that makes the step.
LEMMA OneStays ==
  ASSUME ConfigAssumption, ConfigInv, NEW t \in Threads, Step(t)
  PROVE  LocalDated(t)'
<1>i. /\ TypeOK /\ StoreInSteps /\ InSteps(t) /\ LocalDated(t)
      /\ home' = home /\ req' = req /\ clock' = clock /\ Grew
  BY Frame DEF ConfigInv, site
<1>t. /\ begin[t] \in Nat /\ now[t] \in Nat /\ got[t] \in Nat /\ sel[t] \in Nat
      /\ clock \in Nat /\ KindOf(t) \in Kinds /\ KindOf(t)' = KindOf(t) /\ home[t] \in Procs
      /\ pc \in [Threads -> Steps] /\ got \in [Threads -> Nat] /\ sel \in [Threads -> Nat]
      /\ now \in [Threads -> Nat] /\ failed \in [Procs -> Int]
      /\ \A k \in Kinds : commits[k] \in Seq(Nat)
  BY <1>i, KindType DEF TypeOK, site
<1>s. Since(t) \in Int /\ Since(t) <= begin[t] /\ begin[t] <= now[t] /\ now[t] <= clock
  BY <1>i, SinceType
<1>k. /\ req[t] \in {"list", "edit", "tables"} => KindOf(t) = "connections"
      /\ req[t] \in {"settings", "set"} => KindOf(t) = "settings"
  BY <1>i, KindType
<1>1. CASE Begin(t)
  <2>1. pc'[t] \in {"call", "enter"} \/ (pc'[t] = "write" /\ req[t] # "edit")
    BY <1>t, <1>1 DEF Begin, GoTo, Upd
  <2> QED BY <1>i, <2>1 DEF LocalDated
<1>2. CASE Call(t)
  <2>1. pc'[t] = "enter" \/ (pc'[t] = "served" /\ req[t] = "settings")
    BY <1>i, <1>t, <1>2 DEF Call, GoTo, Upd, InSteps
  <2> QED BY <1>i, <2>1 DEF LocalDated
<1>a. ASSUME pc'[t] = After(t), force' = force, begin' = begin, commits' = commits,
             req[t] \in {"list", "edit", "settings", "tables"}, got'[t] \in Nat,
             FreshSince(KindOf(t), got'[t], Since(t))
      PROVE  LocalDated(t)'
  <2>1. got'[t] # 0
    BY <1>a DEF FreshSince
  <2> QED BY <1>i, <1>k, <1>a, <2>1 DEF LocalDated, After, FreshSince, Current, Since
<1>3. CASE EnterHit(t)
  <2>1. req[t] \in {"list", "edit", "settings", "tables"}
    BY <1>i, <1>3 DEF EnterHit, InSteps
  <2>2. pc'[t] = After(t) /\ got'[t] = cache[home[t]][KindOf(t)].v
    BY <1>t, <1>3 DEF EnterHit, GoTo, Upd
  <2>3. cache[home[t]][KindOf(t)].v \in Nat
    BY <1>i, <1>t DEF TypeOK
  <2>4. FreshSince(KindOf(t), got'[t], Since(t))
    BY <1>3, <2>1, <2>2, HitIsFresh DEF EnterHit
  <2> QED BY <1>3, <1>a, <2>1, <2>2, <2>3, <2>4 DEF EnterHit, store
<1>4. CASE EnterMiss(t)
  <2>1. pc'[t] = "load"
    BY <1>t, <1>4 DEF EnterMiss, GoTo, Upd
  <2> QED BY <1>i, <2>1 DEF LocalDated
<1>5. CASE Load(t)
  <2>1. pc'[t] = "keep" /\ got'[t] = Current(KindOf(t)) /\ now' = now /\ commits' = commits
    BY <1>t, <1>5 DEF Load, GoTo, Upd, store
  <2>2. FreshSince(KindOf(t), Current(KindOf(t)), now[t])
    BY <1>i, <1>t DEF FreshSince, StoreInSteps, Current
  <2> QED BY <1>i, <1>t, <2>1, <2>2 DEF LocalDated, FreshSince, Current
<1>6. CASE Keep(t)
  <2>1. req[t] \in {"list", "edit", "settings", "tables"}
    BY <1>i, <1>6 DEF Keep, InSteps
  <2>2. pc'[t] = After(t) /\ got' = got /\ force' = force /\ begin' = begin /\ commits' = commits
    BY <1>t, <1>6 DEF Keep, GoTo, Upd, store, locals
  <2>3. Fresh(commits[KindOf(t)], got[t], now[t])
    BY <1>i, <1>6, FreshIs DEF Keep, LocalDated
  <2>4. Fresh(commits[KindOf(t)], got[t], Since(t))
    BY <1>t, <1>s, <2>3, FreshEarlier
  <2>5. FreshSince(KindOf(t), got'[t], Since(t))
    BY <2>2, <2>4, FreshIs
  <2> QED BY <1>t, <1>a, <2>1, <2>2, <2>5
<1>7. CASE LoadFails(t)
  <2>1. pc'[t] \in {"overlay", "idle"} /\ (pc'[t] = "overlay" => req[t] = "settings")
    BY <1>t, <1>7 DEF LoadFails, GoTo, Upd
  <2>2. got'[t] = 0 /\ begin' = begin
    BY <1>i, <1>7 DEF LoadFails, InSteps, locals
  <2>3. req[t] = "settings" => failed'[home[t]] = clock
    BY <1>t, <1>7 DEF LoadFails, Upd
  <2> QED BY <1>i, <1>t, <1>s, <2>1, <2>2, <2>3 DEF LocalDated
<1>8. CASE Overlay(t) \/ KeepTables(t) \/ Clear(t)
  <2>1. pc'[t] = "served" /\ req[t] # "list"
    BY <1>i, <1>t, <1>8 DEF Overlay, KeepTables, Clear, GoTo, Upd, InSteps
  <2> QED BY <1>i, <2>1 DEF LocalDated
<1>9. CASE Tables(t)
  <2>1. \/ pc'[t] = "served" /\ req[t] # "list"
        \/ pc'[t] = "select" /\ UNCHANGED <<got, sel>>
    BY <1>i, <1>t, <1>9 DEF Tables, GoTo, Upd, InSteps
  <2>2. force' = force /\ begin' = begin /\ commits' = commits
    BY <1>9 DEF Tables, store
  <2>3. FreshSince("connections", got[t], Since(t))
    BY <1>i, <1>9 DEF Tables, LocalDated
  <2> QED BY <1>i, <2>1, <2>2, <2>3 DEF LocalDated, FreshSince, Current, Since
<1>10. CASE ReadSelection(t)
  <2>1. /\ pc'[t] = "discover" /\ sel'[t] = Current("selection") /\ now' = now /\ commits' = commits
        /\ force' = force /\ begin' = begin /\ got' = got
    BY <1>t, <1>10 DEF ReadSelection, GoTo, Upd, store
  <2>2. FreshSince("selection", Current("selection"), now[t])
    BY <1>i, <1>t DEF FreshSince, StoreInSteps, Current, Kinds
  <2>3. FreshSince("connections", got[t], Since(t))
    BY <1>i, <1>10 DEF ReadSelection, LocalDated
  <2> QED BY <1>i, <2>1, <2>2, <2>3 DEF LocalDated, FreshSince, Current, Since
<1>11. CASE DiscoverFails(t) \/ WriteFails(t) \/ CommitSelection(t)
  <2>1. pc'[t] = "idle"
    BY <1>t, <1>11 DEF DiscoverFails, WriteFails, CommitSelection, GoTo, Upd
  <2> QED BY <2>1 DEF LocalDated
<1>12. CASE CommitEdit(t) \/ CommitSetting(t)
  <2>1. pc'[t] = "clear" /\ got'[t] = Current(KindOf(t)) + 1
    BY <1>t, <1>k, <1>12 DEF CommitEdit, CommitSetting, GoTo, Upd
  <2>2. commits'[KindOf(t)] = Append(commits[KindOf(t)], clock)
    BY <1>i, <1>t, <1>12 DEF CommitEdit, CommitSetting, Committed, Upd, TypeOK
  <2>3. Current(KindOf(t))' = Current(KindOf(t)) + 1
    BY <1>t, <2>2 DEF Current
  <2> QED BY <1>t, <2>1, <2>3 DEF LocalDated, Current
<1> QED
  BY <1>1, <1>2, <1>3, <1>4, <1>5, <1>6, <1>7, <1>8, <1>9, <1>10, <1>11, <1>12 DEF Step

-----------------------------------------------------------------------------
(* The caches.                                                             *)

LEMMA CachesStay ==
  ASSUME ConfigAssumption, ConfigInv, NEW t \in Threads, Step(t), NEW p \in Procs
  PROVE  CacheDated(p)'
<1>i. /\ TypeOK /\ InSteps(t) /\ LocalDated(t) /\ CacheDated(p) /\ clock' = clock /\ Grew
  BY Frame DEF ConfigInv
<1>t. /\ begin[t] \in Nat /\ now[t] \in Nat /\ got[t] \in Nat /\ sel[t] \in Nat
      /\ clock \in Nat /\ KindOf(t) \in Kinds /\ home[t] \in Procs /\ StoreTTL \in Nat \ {0}
      /\ \A k \in Kinds : cache[p][k].at \in Nat /\ cache[p][k].v \in Nat
      /\ overlay[p].at \in Nat /\ overlay[p].v \in Nat
      /\ tables[p].at \in Nat /\ tables[p].v \in Nat /\ failed[p] \in Int
  <2>1. KindOf(t) \in Kinds /\ home[t] \in Procs
    BY <1>i, KindType
  <2>2. begin[t] \in Nat /\ now[t] \in Nat /\ got[t] \in Nat /\ sel[t] \in Nat /\ clock \in Nat
    BY <1>i DEF TypeOK
  <2>3. \A k \in Kinds : cache[p][k].at \in Nat /\ cache[p][k].v \in Nat
    <3>1. \A k \in Kinds : cache[p][k] \in [full : BOOLEAN, at : Nat, v : Nat]
      BY <1>i DEF TypeOK
    <3> QED BY <3>1
  <2>4. overlay[p].at \in Nat /\ overlay[p].v \in Nat /\ failed[p] \in Int
    BY <1>i DEF TypeOK
  <2>5. tables[p].at \in Nat /\ tables[p].v \in Nat
    BY <1>i DEF TypeOK
  <2> QED BY <2>1, <2>2, <2>3, <2>4, <2>5 DEF ConfigAssumption
<1>s. begin[t] <= now[t] /\ now[t] <= clock
  BY <1>i, SinceType
<1>a. \A k \in Kinds, v \in Nat, time \in Int :
        time <= clock /\ FreshSince(k, v, time) => Fresh(commits'[k], v, time)
  BY Ages, FreshIs
\* Entries nobody touches.
<1>c. \A k \in Kinds : cache[p][k].full => cache[p][k].at <= clock
        /\ Fresh(commits'[k], cache[p][k].v, cache[p][k].at)
  BY <1>i, <1>t, <1>a DEF CacheDated
<1>o. overlay[p].full => overlay[p].at <= clock /\
        IF overlay[p].v = 0 THEN failed'[p] >= overlay[p].at
        ELSE Fresh(commits'["settings"], overlay[p].v, overlay[p].at - StoreTTL + 1)
  <2>1. failed'[p] \in {failed[p], clock}
    BY Ages
  <2>2. overlay[p].at <= clock => overlay[p].at - StoreTTL + 1 \in Int
                                  /\ overlay[p].at - StoreTTL + 1 <= clock
    BY <1>t
  <2> QED BY <1>i, <1>t, <1>a, <2>1, <2>2 DEF CacheDated, Kinds
<1>b. tables[p].full => tables[p].at <= clock /\ Fresh(commits'["selection"], tables[p].v, tables[p].at)
  BY <1>i, <1>t, <1>a DEF CacheDated, Kinds
<1>1. CASE Keep(t)
  <2>1. Fresh(commits'[KindOf(t)], got[t], now[t])
    BY <1>i, <1>t, <1>s, <1>a, <1>1 DEF Keep, LocalDated
  <2>2. /\ cache' = [cache EXCEPT ![home[t]][KindOf(t)] = [full |-> TRUE, at |-> now[t], v |-> got[t]]]
        /\ overlay' = overlay /\ tables' = tables
    BY <1>1 DEF Keep
  <2>3. \A k \in Kinds : cache'[p][k] = IF p = home[t] /\ k = KindOf(t)
          THEN [full |-> TRUE, at |-> now[t], v |-> got[t]] ELSE cache[p][k]
    BY <1>i, <1>t, <2>2 DEF TypeOK
  <2>4. \A k \in Kinds : cache'[p][k].full => cache'[p][k].at <= clock
          /\ Fresh(commits'[k], cache'[p][k].v, cache'[p][k].at)
    BY <1>c, <1>s, <2>1, <2>3
  <2> QED BY <1>i, <1>o, <1>b, <2>2, <2>4 DEF CacheDated, FreshSince, Fresh, Current
<1>2. CASE Clear(t)
  <2>1. \A k \in Kinds : cache'[p][k] \in {cache[p][k], NoEntry}
    BY <1>i, <1>t, <1>2 DEF Clear, TypeOK
  <2>2. \A k \in Kinds : cache'[p][k].full => cache'[p][k].at <= clock
          /\ Fresh(commits'[k], cache'[p][k].v, cache'[p][k].at)
    BY <1>c, <2>1 DEF NoEntry
  <2> QED BY <1>i, <1>o, <1>b, <1>2, <2>2 DEF Clear, CacheDated, FreshSince, Fresh, Current
<1>3. CASE Overlay(t)
  <2>1. /\ overlay' = [overlay EXCEPT ![home[t]] = [full |-> TRUE, at |-> begin[t], v |-> got[t]]]
        /\ cache' = cache /\ tables' = tables /\ commits' = commits /\ failed' = failed
    BY <1>3 DEF Overlay, Upd, store, history
  <2>2. overlay'[p] = IF p = home[t] THEN [full |-> TRUE, at |-> begin[t], v |-> got[t]]
                                     ELSE overlay[p]
    BY <1>i, <1>t, <2>1 DEF TypeOK
  <2>3. ~force[t] /\ Since(t) = begin[t] - StoreTTL + 1
    BY <1>i, <1>3 DEF Overlay, InSteps, Since
  <2>4. IF got[t] = 0 THEN failed[home[t]] >= begin[t]
        ELSE FreshSince("settings", got[t], begin[t] - StoreTTL + 1)
    BY <1>i, <1>3, <2>3 DEF Overlay, LocalDated
  <2>5. begin[t] <= clock
    BY <1>t, <1>s
  <2>6. overlay'[p].full => overlay'[p].at <= clock /\
          IF overlay'[p].v = 0 THEN failed'[p] >= overlay'[p].at
          ELSE Fresh(commits'["settings"], overlay'[p].v, overlay'[p].at - StoreTTL + 1)
    BY <1>o, <2>1, <2>2, <2>4, <2>5, FreshIs
  <2> QED BY <1>i, <1>c, <1>b, <2>1, <2>6 DEF CacheDated, FreshSince, Fresh, Current
<1>4. CASE KeepTables(t)
  <2>1. /\ tables' = [tables EXCEPT ![home[t]] =
                        [full |-> TRUE, at |-> now[t], v |-> sel[t], conn |-> got[t]]]
        /\ cache' = cache /\ overlay' = overlay /\ commits' = commits
    BY <1>4 DEF KeepTables, Upd, store
  <2>2. tables'[p] = IF p = home[t] THEN [full |-> TRUE, at |-> now[t], v |-> sel[t], conn |-> got[t]]
                                    ELSE tables[p]
    BY <1>i, <1>t, <2>1 DEF TypeOK
  <2>3. FreshSince("selection", sel[t], now[t])
    BY <1>i, <1>4 DEF KeepTables, LocalDated
  <2>4. tables'[p].full => tables'[p].at <= clock
          /\ Fresh(commits'["selection"], tables'[p].v, tables'[p].at)
    BY <1>b, <1>s, <2>1, <2>2, <2>3, FreshIs
  <2> QED BY <1>i, <1>c, <1>o, <2>1, <2>4 DEF CacheDated, FreshSince, Fresh, Current
<1>5. CASE ~Keep(t) /\ ~Clear(t) /\ ~Overlay(t) /\ ~KeepTables(t)
  <2>1. cache' = cache /\ overlay' = overlay /\ tables' = tables
    BY <1>5 DEF Step, Begin, Call, EnterHit, EnterMiss, Load, LoadFails, Tables, ReadSelection,
       DiscoverFails, CommitEdit, CommitSetting, CommitSelection, WriteFails, caches
  <2> QED BY <1>i, <1>c, <1>o, <1>b, <2>1 DEF CacheDated, FreshSince, Fresh, Current
<1> QED BY <1>1, <1>2, <1>3, <1>4, <1>5

\* Nobody else is about to fill the cache while the lock is free or t's.
LEMMA Alone ==
  ASSUME ConfigAssumption, ConfigInv, NEW t \in Threads, lock[home[t]] \in {NoOne, t},
         NEW u \in Threads \ {t}, pc[u] = "keep"
  PROVE  home[u] # home[t]
BY DEF ConfigAssumption, ConfigInv, LockHeld

LEMMA FloorStays ==
  ASSUME ConfigAssumption, ConfigInv, NEW t \in Threads, Step(t)
  PROVE  AboveFloor'
<1>i. /\ TypeOK /\ TypeOK' /\ AboveFloor /\ LockHeld /\ StoreInSteps /\ LocalDated(t) /\ Grew
      /\ home' = home /\ req' = req /\ clock' = clock /\ \A u \in Threads \ {t} : Same(u)
  BY Frame, StepType DEF ConfigInv, site
<1>t. /\ KindOf(t) \in Kinds /\ home[t] \in Procs /\ got[t] \in Nat
      /\ \A q \in Procs, k \in Kinds : floor[q][k] \in Nat /\ cache[q][k].v \in Nat
      /\ \A u \in Threads : KindOf(u) \in Kinds /\ KindOf(u)' = KindOf(u) /\ home[u] \in Procs
      /\ pc \in [Threads -> Steps] /\ got \in [Threads -> Nat]
  <2>1. \A u \in Threads : KindOf(u) \in Kinds /\ home[u] \in Procs
    BY <1>i, KindType
  <2>2. \A u \in Threads : KindOf(u)' = KindOf(u)
    BY <1>i DEF KindOf
  <2>3. \A q \in Procs, k \in Kinds : floor[q][k] \in Nat /\ cache[q][k].v \in Nat
    BY <1>i DEF TypeOK
  <2>4. got[t] \in Nat /\ pc \in [Threads -> Steps] /\ got \in [Threads -> Nat]
    BY <1>i DEF TypeOK
  <2> QED BY <2>1, <2>2, <2>3, <2>4
<1>c. \A k \in Kinds : Current(k) \in Nat /\ Current(k)' >= Current(k) /\ Current(k)' \in Nat
  BY <1>i, CurrentGrows
\* The floor of one cache is raised to v, and the cache is at v or empty.
<1>r. ASSUME NEW v \in Nat, v <= Current(KindOf(t)), Shown(home[t], KindOf(t), v),
             lock[home[t]] \in {NoOne, t}, pc'[t] # "keep",
             \A q \in Procs, k \in Kinds : q # home[t] \/ k # KindOf(t) => cache'[q][k] = cache[q][k],
             LET e == cache'[home[t]][KindOf(t)] IN
               e.full => e.v = v /\ v >= floor[home[t]][KindOf(t)]
      PROVE  AboveFloor'
  <2>1. /\ floor'[home[t]][KindOf(t)] \in {v, floor[home[t]][KindOf(t)]}
        /\ floor'[home[t]][KindOf(t)] >= v
        /\ \A q \in Procs, k \in Kinds : q # home[t] \/ k # KindOf(t) => floor'[q][k] = floor[q][k]
    BY <1>i, <1>t, <1>r, ShownType
  <2>2. ASSUME NEW q \in Procs, NEW k \in Kinds
        PROVE  floor'[q][k] <= Current(k)' /\ (cache'[q][k].full => cache'[q][k].v >= floor'[q][k])
    <3>1. CASE q = home[t] /\ k = KindOf(t)
      BY <1>i, <1>t, <1>c, <1>r, <2>1, <3>1 DEF AboveFloor
    <3>2. CASE q # home[t] \/ k # KindOf(t)
      <4>1. floor'[q][k] = floor[q][k] /\ cache'[q][k] = cache[q][k]
        BY <1>r, <2>1, <3>2
      <4>2. floor[q][k] \in Nat /\ floor[q][k] <= Current(k) /\ (cache[q][k].full => cache[q][k].v >= floor[q][k])
        BY <1>i, <1>t DEF AboveFloor
      <4> QED BY <1>c, <4>1, <4>2
    <3> QED BY <3>1, <3>2
  <2>3. ASSUME NEW u \in Threads, pc'[u] = "keep" PROVE got'[u] >= floor'[home[u]][KindOf(u)]
    <3>1. u # t /\ pc[u] = "keep" /\ got'[u] = got[u]
      BY <1>i, <1>r, <2>3 DEF Same
    <3>2. home[u] # home[t]
      BY <1>r, <3>1, Alone
    <3> QED BY <1>i, <1>t, <2>1, <3>1, <3>2 DEF AboveFloor
  <2> QED BY <1>i, <1>t, <2>2, <2>3 DEF AboveFloor
\* Floor and cache stay.
<1>s. ASSUME floor' = floor, cache' = cache,
             pc'[t] = "keep" => got'[t] >= floor[home[t]][KindOf(t)]
      PROVE  AboveFloor'
  <2>1. ASSUME NEW u \in Threads, pc'[u] = "keep" PROVE got'[u] >= floor[home[u]][KindOf(u)]
    BY <1>i, <1>s, <2>1 DEF AboveFloor, Same
  <2>2. \A q \in Procs, k \in Kinds : floor[q][k] <= Current(k)'
    BY <1>i, <1>t, <1>c DEF AboveFloor
  <2> QED BY <1>i, <1>t, <1>s, <2>1, <2>2 DEF AboveFloor
<1>1. CASE EnterHit(t)
  <2> DEFINE e == cache[home[t]][KindOf(t)]
  <2>1. e.full /\ Shown(home[t], KindOf(t), e.v) /\ cache' = cache /\ lock[home[t]] = NoOne
    BY <1>1 DEF EnterHit, Hit, Young, caches
  <2>2. e.v <= Current(KindOf(t)) /\ e.v >= floor[home[t]][KindOf(t)] /\ e.v \in Nat
    <3>1. CacheDated(home[t])
      BY <1>t DEF ConfigInv
    <3>2. FreshSince(KindOf(t), e.v, e.at)
      BY <1>t, <2>1, <3>1 DEF CacheDated
    <3> QED BY <1>i, <1>t, <2>1, <3>2 DEF FreshSince, AboveFloor
  <2>3. pc'[t] # "keep"
    BY <1>t, <1>1 DEF EnterHit, GoTo, Upd, After
  <2> QED BY <1>r, <2>1, <2>2, <2>3
<1>2. CASE Keep(t)
  <2>1. lock[home[t]] = t /\ pc'[t] # "keep" /\ Shown(home[t], KindOf(t), got[t])
    BY <1>i, <1>t, <1>2 DEF Keep, LockHeld, GoTo, Upd, After
  <2>2. got[t] <= Current(KindOf(t)) /\ got[t] >= floor[home[t]][KindOf(t)]
    BY <1>i, <1>2 DEF Keep, LocalDated, FreshSince, AboveFloor
  <2>3. /\ cache'[home[t]][KindOf(t)] = [full |-> TRUE, at |-> now[t], v |-> got[t]]
        /\ \A q \in Procs, k \in Kinds : q # home[t] \/ k # KindOf(t) => cache'[q][k] = cache[q][k]
    BY <1>i, <1>t, <1>2 DEF Keep, TypeOK
  <2> QED BY <1>r, <1>t, <2>1, <2>2, <2>3
<1>3. CASE Clear(t)
  <2>1. lock[home[t]] = NoOne /\ pc'[t] # "keep" /\ Shown(home[t], KindOf(t), got[t])
    BY <1>t, <1>3 DEF Clear, GoTo, Upd
  <2>2. got[t] <= Current(KindOf(t))
    BY <1>i, <1>3 DEF Clear, LocalDated
  <2>3. /\ cache'[home[t]][KindOf(t)] = NoEntry
        /\ \A q \in Procs, k \in Kinds : q # home[t] \/ k # KindOf(t) => cache'[q][k] = cache[q][k]
    BY <1>i, <1>t, <1>3 DEF Clear, TypeOK
  <2> QED BY <1>r, <1>t, <2>1, <2>2, <2>3 DEF NoEntry
<1>4. CASE Load(t)
  <2>1. floor' = floor /\ cache' = cache /\ got'[t] = Current(KindOf(t))
    BY <1>t, <1>4 DEF Load, Upd, history, caches
  <2> QED BY <1>i, <1>t, <1>c, <1>s, <2>1 DEF AboveFloor
<1>5. CASE ~EnterHit(t) /\ ~Keep(t) /\ ~Clear(t) /\ ~Load(t)
  <2>1. floor' = floor /\ cache' = cache
    BY <1>5 DEF Step, Begin, Call, EnterMiss, LoadFails, Overlay, Tables, ReadSelection, KeepTables,
       DiscoverFails, CommitEdit, CommitSetting, CommitSelection, WriteFails, history, caches
  <2>2. pc'[t] # "keep"
    BY <1>5, <1>t DEF Step, Begin, Call, EnterMiss, LoadFails, Overlay, Tables, ReadSelection,
       KeepTables, DiscoverFails, CommitEdit, CommitSetting, CommitSelection, WriteFails, GoTo, Upd
  <2> QED BY <1>s, <2>1, <2>2
<1> QED BY <1>1, <1>2, <1>3, <1>4, <1>5

-----------------------------------------------------------------------------
(* The invariant.                                                          *)

LEMMA InitInv == ConfigAssumption /\ Init => ConfigInv
<1> SUFFICES ASSUME ConfigAssumption, Init PROVE ConfigInv
  OBVIOUS
<1>1. TypeOK
  BY InitType
<1>2. /\ \A k \in Kinds : commits[k] = <<0>>
      /\ \A k \in Kinds : Current(k) = 1
      /\ Len(secrets) = 1 /\ Len(chosen) = 1 /\ chosen[1].listed = chosen[1].sent
  BY DEF Init, Current
<1>3. StoreInSteps
  <2>1. \A v \in 1..Len(chosen) : v = 1
    BY <1>2
  <2> QED BY <1>2, <2>1 DEF StoreInSteps, Kinds
<1>4. LockHeld
  BY DEF Init, LockHeld
<1>5. AboveFloor
  BY <1>2 DEF Init, AboveFloor, NoEntry
<1>6. ASSUME NEW t \in Threads PROVE InSteps(t) /\ LocalDated(t)
  BY DEF Init, InSteps, LocalDated
<1>7. ASSUME NEW p \in Procs PROVE CacheDated(p)
  BY DEF Init, CacheDated, NoEntry, NoTables
<1> QED BY <1>1, <1>3, <1>4, <1>5, <1>6, <1>7 DEF ConfigInv

LEMMA StepInv ==
  ASSUME ConfigAssumption, ConfigInv, NEW t \in Threads, Step(t)
  PROVE  ConfigInv'
<1>1. \A u \in Threads : LocalDated(u)'
  BY OthersStay, OneStays
<1> QED BY <1>1, StepType, StepSteps, LockStays, StoreStays, FloorStays, CachesStay DEF ConfigInv

\* Time only makes what was fresh since a moment older.
LEMMA TickInv ==
  ASSUME ConfigAssumption, ConfigInv, Tick
  PROVE  ConfigInv'
<1>i. TypeOK /\ clock \in Nat /\ clock' = clock + 1
  BY DEF ConfigInv, TypeOK, Tick
<1>u. UNCHANGED <<commits, secrets, chosen, lock, cache, overlay, tables, home, req, pc, force,
                  begin, now, got, sel, floor, failed>>
  BY DEF Tick, store, caches, site, locals, history
<1>1. TypeOK'
  BY <1>i, <1>u DEF TypeOK
<1>2. StoreInSteps' /\ LockHeld' /\ AboveFloor'
  BY <1>u DEF ConfigInv, StoreInSteps, LockHeld, AboveFloor, Current, KindOf
<1>3. ASSUME NEW t \in Threads PROVE InSteps(t)' /\ LocalDated(t)'
  <2>1. InSteps(t) /\ LocalDated(t) /\ now[t] \in Nat
    BY <1>i DEF ConfigInv, TypeOK
  <2>2. InSteps(t)'
    BY <1>i, <1>u, <2>1 DEF InSteps
  <2>3. LocalDated(t)'
    BY <1>u, <2>1 DEF LocalDated, FreshSince, Current, KindOf, Since
  <2> QED BY <2>2, <2>3
<1>4. ASSUME NEW p \in Procs PROVE CacheDated(p)'
  <2>1. CacheDated(p) /\ overlay[p].at \in Nat /\ tables[p].at \in Nat
    BY <1>i DEF ConfigInv, TypeOK
  <2>2. \A k \in Kinds : cache[p][k].at \in Nat
    <3>1. \A k \in Kinds : cache[p][k] \in [full : BOOLEAN, at : Nat, v : Nat]
      BY <1>i DEF TypeOK
    <3> QED BY <3>1
  <2>3. \A k \in Kinds : cache'[p][k].full =>
          cache'[p][k].at <= clock' /\ FreshSince(k, cache[p][k].v, cache[p][k].at)
    BY <1>i, <1>u, <2>1, <2>2 DEF CacheDated
  <2>4. overlay'[p].full => overlay'[p].at <= clock' /\
          IF overlay[p].v = 0 THEN failed[p] >= overlay[p].at
          ELSE FreshSince("settings", overlay[p].v, overlay[p].at - StoreTTL + 1)
    BY <1>i, <1>u, <2>1 DEF CacheDated
  <2>5. tables'[p].full =>
          tables'[p].at <= clock' /\ FreshSince("selection", tables[p].v, tables[p].at)
    BY <1>i, <1>u, <2>1 DEF CacheDated
  <2> QED BY <1>u, <2>3, <2>4, <2>5 DEF CacheDated, FreshSince, Current
<1> QED BY <1>1, <1>2, <1>3, <1>4 DEF ConfigInv

LEMMA StutterInv ==
  ASSUME ConfigInv, UNCHANGED vars
  PROVE  ConfigInv'
<1>u. UNCHANGED <<clock, commits, secrets, chosen, lock, cache, overlay, tables, home, req, pc,
                  force, begin, now, got, sel, floor, failed>>
  BY DEF vars, store, caches, site, locals, history
<1>1. TypeOK' /\ StoreInSteps' /\ LockHeld' /\ AboveFloor'
  BY <1>u DEF ConfigInv, TypeOK, StoreInSteps, LockHeld, AboveFloor, Current, KindOf
<1>2. ASSUME NEW t \in Threads PROVE InSteps(t)' /\ LocalDated(t)'
  BY <1>u DEF ConfigInv, InSteps, LocalDated, FreshSince, Current, KindOf, Since
<1>3. ASSUME NEW p \in Procs PROVE CacheDated(p)'
  BY <1>u DEF ConfigInv, CacheDated, FreshSince, Current
<1> QED BY <1>1, <1>2, <1>3 DEF ConfigInv

\* Every entry and every local is as fresh as the time it is kept under says, the
\* lock is held by whoever loads, and no cache falls behind what its process has
\* shown (common/config_store.py, settings.py, orchestration/tables.py).
THEOREM InvariantHolds == Spec => []ConfigInv
<1>1. Init => ConfigInv
  BY ConfigAssumption, InitInv
<1>2. ConfigInv /\ [Next]_vars => ConfigInv'
  BY ConfigAssumption, StepInv, TickInv, StutterInv DEF Next
<1> QED BY <1>1, <1>2, PTL DEF Spec

\* A connection handed to a caller was current less than StoreTTL before the call
\* (config_store.list_connections, get_connection).
THEOREM ConnectionsAreFresh == Spec => []ConnectionsFresh
<1>1. ConfigInv => ConnectionsFresh
  BY DEF ConfigInv, LocalDated, ConnectionsFresh
<1> QED BY <1>1, InvariantHolds, PTL

-----------------------------------------------------------------------------
(* What a request is served.                                               *)

\* The ways a request for settings is answered: from the overlay cache, or with
\* what it has just kept there.
LEMMA SettingsServed ==
  ASSUME ConfigAssumption, ConfigInv, NEW t \in Threads, Step(t), req[t] = "settings",
         pc'[t] = "served"
  PROVE  /\ begin' = begin /\ commits' = commits /\ failed' = failed
         /\ IF got'[t] = 0 THEN failed[home[t]] > begin[t] - SettingsTTL
            ELSE FreshSince("settings", got'[t], begin[t] - SettingsTTL - StoreTTL + 2)
<1>i. /\ TypeOK /\ InSteps(t) /\ LocalDated(t) /\ home[t] \in Procs /\ CacheDated(home[t])
  BY KindType DEF ConfigInv
<1>t. /\ begin[t] \in Nat /\ got[t] \in Nat /\ pc \in [Threads -> Steps] /\ got \in [Threads -> Nat]
      /\ overlay[home[t]].at \in Nat /\ overlay[home[t]].v \in Nat /\ failed[home[t]] \in Int
      /\ SettingsTTL \in Nat \ {0} /\ StoreTTL \in Nat \ {0} /\ commits["settings"] \in Seq(Nat)
  BY <1>i DEF TypeOK, ConfigAssumption, Kinds
<1>1. CASE Call(t)
  <2> DEFINE e == overlay[home[t]]
  <2>1. Young(e, begin[t], SettingsTTL) /\ got'[t] = e.v
    BY <1>t, <1>1 DEF Call, GoTo, Upd
  <2>2. e.full /\ begin[t] - SettingsTTL < e.at
    BY <1>t, <2>1 DEF Young
  <2>3. IF e.v = 0 THEN failed[home[t]] >= e.at
        ELSE Fresh(commits["settings"], e.v, e.at - StoreTTL + 1)
    BY <1>i, <2>2, FreshIs DEF CacheDated
  <2>4. ASSUME e.v # 0
        PROVE  Fresh(commits["settings"], e.v, begin[t] - SettingsTTL - StoreTTL + 2)
    <3>1. Fresh(commits["settings"], e.v, e.at - StoreTTL + 1)
      BY <2>3, <2>4
    <3> HIDE DEF e
    <3>2. e.v \in Nat /\ e.at \in Int
      BY <1>t DEF e
    <3>3. /\ commits["settings"] \in Seq(Nat) /\ begin[t] \in Int
          /\ SettingsTTL \in Int /\ StoreTTL \in Int
      BY <1>t
    <3>4. begin[t] - SettingsTTL < e.at
      BY <2>2
    <3> QED BY ONLY <3>1, <3>2, <3>3, <3>4, FreshThrough
  <2>5. e.v = 0 => failed[home[t]] > begin[t] - SettingsTTL
    BY <1>t, <2>2, <2>3
  <2>6. begin' = begin /\ commits' = commits /\ failed' = failed
    BY <1>1 DEF Call, store, history
  <2>7. got'[t] # 0 => FreshSince("settings", got'[t], begin[t] - SettingsTTL - StoreTTL + 2)
    BY <2>1, <2>4, FreshIs
  <2> QED BY <2>1, <2>5, <2>6, <2>7
<1>2. CASE Overlay(t)
  <2>1. got' = got /\ begin' = begin /\ commits' = commits /\ failed' = failed /\ ~force[t]
    BY <1>i, <1>2 DEF Overlay, InSteps, locals, store, history
  <2>2. IF got[t] = 0 THEN failed[home[t]] >= begin[t]
        ELSE Fresh(commits["settings"], got[t], begin[t] - StoreTTL + 1)
    BY <1>i, <1>2, <2>1, FreshIs DEF Overlay, LocalDated, Since
  <2>3. ASSUME got[t] # 0
        PROVE  Fresh(commits["settings"], got[t], begin[t] - SettingsTTL - StoreTTL + 2)
    <3>1. Fresh(commits["settings"], got[t], begin[t] - StoreTTL + 1)
      BY <2>2, <2>3
    <3>2. /\ commits["settings"] \in Seq(Nat) /\ begin[t] \in Int /\ got[t] \in Nat
          /\ SettingsTTL \in Int /\ StoreTTL \in Int /\ begin[t] - SettingsTTL < begin[t]
      BY <1>t
    <3> QED BY ONLY <3>1, <3>2, FreshThrough
  <2>4. got[t] = 0 => failed[home[t]] > begin[t] - SettingsTTL
    BY <1>t, <2>2
  <2>5. got[t] # 0 => FreshSince("settings", got[t], begin[t] - SettingsTTL - StoreTTL + 2)
    BY <2>3, FreshIs
  <2> QED BY <2>1, <2>4, <2>5
<1>3. Call(t) \/ Overlay(t)
  BY <1>i, <1>t DEF Step, Begin, EnterHit, EnterMiss, Load, Keep, LoadFails, Tables, ReadSelection,
     KeepTables, DiscoverFails, CommitEdit, CommitSetting, CommitSelection, WriteFails, Clear,
     InSteps, After, GoTo, Upd
<1> QED BY <1>1, <1>2, <1>3

\* What settings t was served.
SettingsOf(t) == pc[t] = "served" /\ req[t] = "settings" =>
  IF got[t] = 0 THEN failed[home[t]] > begin[t] - SettingsTTL
  ELSE FreshSince("settings", got[t], begin[t] - SettingsTTL - StoreTTL + 2)

LEMMA SettingsStay ==
  ASSUME ConfigAssumption, ConfigInv, NEW t \in Threads, Step(t), NEW u \in Threads, SettingsOf(u)
  PROVE  SettingsOf(u)'
<1> SUFFICES ASSUME pc'[u] = "served", req'[u] = "settings" PROVE SettingsOf(u)'
  BY DEF SettingsOf
<1>i. TypeOK /\ home' = home /\ req' = req /\ \A w \in Threads \ {t} : Same(w)
  BY Frame DEF ConfigInv, site
<1>1. CASE u = t
  <2>1. /\ begin' = begin /\ commits' = commits /\ failed' = failed
        /\ IF got'[t] = 0 THEN failed[home[t]] > begin[t] - SettingsTTL
           ELSE FreshSince("settings", got'[t], begin[t] - SettingsTTL - StoreTTL + 2)
    BY <1>1, <1>i, SettingsServed
  <2> QED BY <1>1, <1>i, <2>1 DEF SettingsOf, FreshSince, Current
<1>2. CASE u # t
  <2>1. Same(u) /\ pc[u] = "served" /\ req[u] = "settings"
    BY <1>2, <1>i DEF Same
  <2>2. /\ begin[u] \in Nat /\ got[u] \in Nat /\ clock \in Nat /\ failed[home[u]] \in Int
        /\ home[u] \in Procs /\ begin[u] <= clock
        /\ SettingsTTL \in Nat \ {0} /\ StoreTTL \in Nat \ {0}
    <3>1. InSteps(u) /\ now[u] \in Nat
      BY <1>i DEF ConfigInv, TypeOK
    <3> QED BY <1>i, <3>1 DEF TypeOK, ConfigAssumption, InSteps
  <2>3. got[u] # 0 => Fresh(commits'["settings"], got[u], begin[u] - SettingsTTL - StoreTTL + 2)
    <3>1. begin[u] - SettingsTTL - StoreTTL + 2 \in Int /\ begin[u] - SettingsTTL - StoreTTL + 2 <= clock
      BY <2>2
    <3>2. got[u] # 0 => Fresh(commits["settings"], got[u], begin[u] - SettingsTTL - StoreTTL + 2)
      BY <2>1, FreshIs DEF SettingsOf
    <3> QED BY <2>2, <3>1, <3>2, Ages DEF Kinds
  <2>4. got[u] = 0 => failed'[home[u]] > begin[u] - SettingsTTL
    <3>1. failed'[home[u]] \in {failed[home[u]], clock}
      BY <2>2, Ages
    <3> QED BY <2>1, <2>2, <3>1 DEF SettingsOf
  <2> QED BY <1>i, <2>1, <2>3, <2>4 DEF SettingsOf, Same, FreshSince, Fresh, Current
<1> QED BY <1>1, <1>2

LEMMA SettingsAlways == Spec => [](\A t \in Threads : SettingsOf(t))
<1> DEFINE P == \A t \in Threads : SettingsOf(t)
<1>1. Init => P
  BY DEF Init, SettingsOf
<1>2. ConfigInv /\ P /\ [Next]_vars => P'
  <2> SUFFICES ASSUME ConfigInv, P, [Next]_vars, NEW u \in Threads
               PROVE  SettingsOf(u)'
    OBVIOUS
  <2>1. CASE Tick
    BY <2>1 DEF Tick, SettingsOf, FreshSince, Current, store, caches, site, locals, history
  <2>2. CASE \E t \in Threads : Step(t)
    BY <2>2, ConfigAssumption, SettingsStay
  <2>3. CASE UNCHANGED vars
    BY <2>3 DEF vars, SettingsOf, FreshSince, Current, store, site, locals, history
  <2> QED BY <2>1, <2>2, <2>3 DEF Next
<1> QED BY <1>1, <1>2, InvariantHolds, PTL DEF Spec

\* Settings served were current less than the two times to live before the call
\* (settings.get_settings over config_store.all_settings).
THEOREM SettingsAreFresh == Spec => []SettingsFresh
<1>1. (\A t \in Threads : SettingsOf(t)) => SettingsFresh
  BY DEF SettingsOf, SettingsFresh
<1> QED BY <1>1, SettingsAlways, PTL

\* The environment's defaults are served no longer than SettingsTTL after the
\* database failed to answer (settings.get_settings).
THEOREM FallbackIsBrief == Spec => []DefaultsAreBrief
<1>1. (\A t \in Threads : SettingsOf(t)) => DefaultsAreBrief
  BY DEF SettingsOf, DefaultsAreBrief
<1> QED BY <1>1, SettingsAlways, PTL

-----------------------------------------------------------------------------
(* The tables a request is served.                                         *)

\* What rows of the selection t was served.
TablesOf(t) == pc[t] = "served" /\ req[t] = "tables" =>
  FreshSince("selection", sel[t], IF force[t] THEN begin[t] ELSE begin[t] - TablesTTL + 1)

LEMMA TablesServed ==
  ASSUME ConfigAssumption, ConfigInv, NEW t \in Threads, Step(t), req[t] = "tables",
         pc'[t] = "served"
  PROVE  /\ begin' = begin /\ force' = force /\ commits' = commits
         /\ FreshSince("selection", sel'[t], IF force[t] THEN begin[t] ELSE begin[t] - TablesTTL + 1)
<1>i. TypeOK /\ InSteps(t) /\ LocalDated(t) /\ home[t] \in Procs /\ CacheDated(home[t])
  BY KindType DEF ConfigInv
<1>t. /\ begin[t] \in Nat /\ now[t] \in Nat /\ clock \in Nat /\ begin[t] <= now[t] /\ now[t] <= clock
      /\ pc \in [Threads -> Steps] /\ sel \in [Threads -> Nat] /\ sel[t] \in Nat
      /\ tables[home[t]].at \in Nat /\ tables[home[t]].v \in Nat
      /\ TablesTTL \in Nat \ {0} /\ commits["selection"] \in Seq(Nat)
  BY <1>i DEF TypeOK, ConfigAssumption, Kinds, InSteps
<1>1. CASE Tables(t)
  <2> DEFINE e == tables[home[t]]
  <2>1. ~force[t] /\ Young(e, clock, TablesTTL) /\ sel'[t] = e.v
    BY <1>t, <1>1 DEF Tables, GoTo, Upd
  <2>2. e.full /\ begin[t] - TablesTTL + 1 <= e.at
    BY <1>t, <2>1 DEF Young
  <2>3. Fresh(commits["selection"], e.v, e.at)
    BY <1>i, <2>2, FreshIs DEF CacheDated
  <2>4. Fresh(commits["selection"], e.v, begin[t] - TablesTTL + 1)
    BY <1>t, <2>2, <2>3, FreshEarlier
  <2>5. begin' = begin /\ force' = force /\ commits' = commits
    BY <1>1 DEF Tables, store
  <2> QED BY <2>1, <2>4, <2>5, FreshIs
<1>2. CASE KeepTables(t)
  <2>1. sel' = sel /\ begin' = begin /\ force' = force /\ commits' = commits
    BY <1>2 DEF KeepTables, locals, store
  <2>2. Fresh(commits["selection"], sel[t], now[t])
    BY <1>i, <1>2, FreshIs DEF KeepTables, LocalDated
  <2>3. Fresh(commits["selection"], sel[t], begin[t])
    BY <1>t, <2>2, FreshEarlier
  <2>4. Fresh(commits["selection"], sel[t], begin[t] - TablesTTL + 1)
    <3>1. begin[t] - TablesTTL + 1 <= begin[t] /\ begin[t] - TablesTTL + 1 \in Int
      BY <1>t
    <3> QED BY <1>t, <2>3, <3>1, FreshEarlier
  <2> QED BY <2>1, <2>3, <2>4, FreshIs
<1>3. Tables(t) \/ KeepTables(t)
  BY <1>i, <1>t DEF Step, Begin, Call, EnterHit, EnterMiss, Load, Keep, LoadFails, Overlay,
     ReadSelection, DiscoverFails, CommitEdit, CommitSetting, CommitSelection, WriteFails, Clear,
     InSteps, After, GoTo, Upd
<1> QED BY <1>1, <1>2, <1>3

LEMMA TablesStay ==
  ASSUME ConfigAssumption, ConfigInv, NEW t \in Threads, Step(t), NEW u \in Threads, TablesOf(u)
  PROVE  TablesOf(u)'
<1> SUFFICES ASSUME pc'[u] = "served", req'[u] = "tables" PROVE TablesOf(u)'
  BY DEF TablesOf
<1>i. TypeOK /\ req' = req /\ \A w \in Threads \ {t} : Same(w)
  BY Frame DEF ConfigInv, site
<1>1. CASE u = t
  <2>1. /\ begin' = begin /\ force' = force /\ commits' = commits
        /\ FreshSince("selection", sel'[t], IF force[t] THEN begin[t] ELSE begin[t] - TablesTTL + 1)
    BY <1>1, <1>i, TablesServed
  <2> QED BY <1>1, <1>i, <2>1 DEF TablesOf, FreshSince, Current
<1>2. CASE u # t
  <2> DEFINE from == IF force[u] THEN begin[u] ELSE begin[u] - TablesTTL + 1
  <2>1. Same(u) /\ pc[u] = "served" /\ req[u] = "tables"
    BY <1>2, <1>i DEF Same
  <2>2. sel[u] \in Nat /\ from \in Int /\ from <= clock
    <3>1. InSteps(u) /\ now[u] \in Nat /\ begin[u] \in Nat /\ clock \in Nat /\ sel[u] \in Nat
      BY <1>i DEF ConfigInv, TypeOK
    <3> QED BY <3>1 DEF ConfigAssumption, InSteps
  <2>3. Fresh(commits["selection"], sel[u], from)
    BY <2>1, FreshIs DEF TablesOf
  <2>4. Fresh(commits'["selection"], sel[u], from)
    BY <2>2, <2>3, Ages DEF Kinds
  <2> QED BY <1>i, <2>1, <2>4 DEF TablesOf, Same, FreshSince, Fresh, Current
<1> QED BY <1>1, <1>2

LEMMA TablesAlways == Spec => [](\A t \in Threads : TablesOf(t))
<1> DEFINE P == \A t \in Threads : TablesOf(t)
<1>1. Init => P
  BY DEF Init, TablesOf
<1>2. ConfigInv /\ P /\ [Next]_vars => P'
  <2> SUFFICES ASSUME ConfigInv, P, [Next]_vars, NEW u \in Threads
               PROVE  TablesOf(u)'
    OBVIOUS
  <2>1. CASE Tick
    BY <2>1 DEF Tick, TablesOf, FreshSince, Current, store, caches, site, locals, history
  <2>2. CASE \E t \in Threads : Step(t)
    BY <2>2, ConfigAssumption, TablesStay
  <2>3. CASE UNCHANGED vars
    BY <2>3 DEF vars, TablesOf, FreshSince, Current, store, site, locals, history
  <2> QED BY <2>1, <2>2, <2>3 DEF Next
<1> QED BY <1>1, <1>2, InvariantHolds, PTL DEF Spec

\* The tables served come from a selection that was current less than TablesTTL
\* before, and are among those it enables (orchestration/tables.get_tables).
THEOREM SelectionIsHonoured == Spec => []SelectionHonoured
<1>1. ConfigInv /\ (\A t \in Threads : TablesOf(t)) => SelectionHonoured
  <2> SUFFICES ASSUME ConfigInv, NEW t \in Threads, TablesOf(t), pc[t] = "served", req[t] = "tables",
                      chosen[sel[t]].sent # {}
               PROVE  Discovered(got[t], chosen[sel[t]]) \subseteq chosen[sel[t]].on
    BY DEF SelectionHonoured, TablesOf
  <2>1. sel[t] \in 1..Len(chosen)
    BY DEF TablesOf, FreshSince, ConfigInv, StoreInSteps, TypeOK
  <2>2. chosen[sel[t]].listed = chosen[sel[t]].sent
    BY <2>1 DEF ConfigInv, StoreInSteps
  <2> QED BY <2>2 DEF Discovered
<1> QED BY <1>1, InvariantHolds, TablesAlways, PTL

-----------------------------------------------------------------------------
(* Nothing goes back.                                                      *)

\* A process never serves a version older than one it has served or written: the
\* lock spans the load (config_store.list_connections, all_settings).
THEOREM ServedNeverGoesBack == Spec => NeverGoesBack
<1> DEFINE Forward == \A t \in Threads :
      pc[t] \in {"enter", "keep"} /\ pc'[t] \notin {pc[t], "load"}
        => got'[t] >= floor[home[t]][KindOf(t)]
<1>1. ASSUME ConfigInv, Next, NEW t \in Threads,
             pc[t] \in {"enter", "keep"}, pc'[t] \notin {pc[t], "load"}
      PROVE  got'[t] >= floor[home[t]][KindOf(t)]
  <2>1. TypeOK /\ AboveFloor /\ KindOf(t) \in Kinds /\ home[t] \in Procs /\ got \in [Threads -> Nat]
        /\ pc \in [Threads -> Steps]
    BY <1>1, KindType DEF ConfigInv, TypeOK
  <2>2. Step(t)
    <3>1. ~Tick
      BY <1>1 DEF Tick
    <3>2. PICK u \in Threads : Step(u)
      BY <1>1, <3>1 DEF Next
    <3>3. u = t
      BY <1>1, <2>1, <3>2, Frame DEF Same
    <3> QED BY <3>2, <3>3
  <2>3. EnterHit(t) \/ Keep(t)
    BY <1>1, <2>1, <2>2 DEF Step, Begin, Call, EnterMiss, Load, LoadFails, Overlay, Tables,
       ReadSelection, KeepTables, DiscoverFails, CommitEdit, CommitSetting, CommitSelection,
       WriteFails, Clear, MayCommit, GoTo, Upd
  <2>4. CASE EnterHit(t)
    <3>1. cache[home[t]][KindOf(t)].full /\ got'[t] = cache[home[t]][KindOf(t)].v
      BY <2>1, <2>4 DEF EnterHit, Hit, Young, Upd
    <3> QED BY <2>1, <3>1 DEF AboveFloor
  <2>5. CASE Keep(t)
    <3>1. pc[t] = "keep" /\ got' = got
      BY <2>5 DEF Keep, locals
    <3> QED BY <2>1, <3>1 DEF AboveFloor
  <2> QED BY <2>3, <2>4, <2>5
<1>2. ConfigInv /\ [Next]_vars => [Forward]_vars
  BY <1>1
<1> QED BY <1>2, InvariantHolds, PTL DEF Spec, NeverGoesBack

-----------------------------------------------------------------------------
(* Secrets that are kept.                                                  *)

\* An edit appends to the secrets its own, or that of a connection which was
\* current less than StoreTTL before the edit began: what KeptSecretIsCurrent
\* asks for fails by overlapping edits, and by no more than that.
KeptSecretIsRecent == [][secrets' # secrets =>
  \E t \in Threads : /\ pc[t] = "write" /\ req[t] = "edit"
                     /\ \/ secrets' = Append(secrets, Len(secrets) + 1)
                        \/ \E v \in 1..Len(secrets) :
                             /\ FreshSince("connections", v, begin[t] - StoreTTL + 1)
                             /\ secrets' = Append(secrets, secrets[v])]_vars

\* The secret an edit keeps (gateway/app.py, _resolve_secrets) is that of the
\* connection it read, through the cache, when it began; however long it waited,
\* the secret it puts back was replaced no earlier than StoreTTL before.
THEOREM KeptSecretsAreRecent == Spec => KeptSecretIsRecent
<1>1. ConfigInv /\ [Next]_vars => [secrets' # secrets =>
        \E t \in Threads : /\ pc[t] = "write" /\ req[t] = "edit"
                           /\ \/ secrets' = Append(secrets, Len(secrets) + 1)
                              \/ \E v \in 1..Len(secrets) :
                                   /\ FreshSince("connections", v, begin[t] - StoreTTL + 1)
                                   /\ secrets' = Append(secrets, secrets[v])]_vars
  <2> SUFFICES ASSUME ConfigInv, [Next]_vars, secrets' # secrets
               PROVE  \E t \in Threads :
                        /\ pc[t] = "write" /\ req[t] = "edit"
                        /\ \/ secrets' = Append(secrets, Len(secrets) + 1)
                           \/ \E v \in 1..Len(secrets) :
                                /\ FreshSince("connections", v, begin[t] - StoreTTL + 1)
                                /\ secrets' = Append(secrets, secrets[v])
    OBVIOUS
  <2>1. PICK t \in Threads : CommitEdit(t)
    BY DEF Next, Tick, Step, Begin, Call, EnterHit, EnterMiss, Load, Keep, LoadFails, Overlay,
       Tables, ReadSelection, KeepTables, DiscoverFails, CommitSetting, CommitSelection,
       WriteFails, Clear, store, vars
  <2>2. pc[t] = "write" /\ req[t] = "edit" /\ ~force[t]
    BY <2>1 DEF CommitEdit, MayCommit, ConfigInv, InSteps
  <2>3. FreshSince("connections", got[t], begin[t] - StoreTTL + 1)
    BY <2>2 DEF ConfigInv, LocalDated, Since
  <2>4. Len(secrets) = Current("connections")
    BY DEF ConfigInv, StoreInSteps
  <2>5. got[t] \in 1..Len(secrets)
    BY <2>3, <2>4 DEF FreshSince
  <2>6. \/ secrets' = Append(secrets, secrets[got[t]])
        \/ secrets' = Append(secrets, Len(secrets) + 1)
    BY <2>1, <2>4 DEF CommitEdit
  <2> QED BY <2>2, <2>3, <2>5, <2>6
<1> QED BY <1>1, InvariantHolds, PTL DEF Spec, KeptSecretIsRecent
=============================================================================
