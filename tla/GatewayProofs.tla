---------------------------- MODULE GatewayProofs ----------------------------
(***************************************************************************)
(* What is proved of the pool of DuckDB connections, for every number of   *)
(* connections, jobs, requests and tables.                                 *)
(***************************************************************************)
EXTENDS Gateway, FiniteSetTheorems, TLAPS

Holders == {t \in Threads : held[t] # NoConn}

\* A thread has a connection exactly while it uses one, and only a thread that
\* wants a connection sleeps or has been woken, never both.
StepInv ==
  /\ \A t \in Threads : held[t] # NoConn <=> step[t] = "use"
  /\ waiting \cap notified = {}
  /\ \A t \in waiting \cup notified : step[t] = "acquire"

\* The free and the held connections partition the pool.
PoolInv ==
  /\ \A i, j \in DOMAIN avail : avail[i] = avail[j] => i = j
  /\ \A t, u \in Threads : held[t] = held[u] /\ held[t] # NoConn => t = u
  /\ \A i \in DOMAIN avail, t \in Threads : avail[i] # held[t]
  /\ \A c \in Conns : (\E i \in DOMAIN avail : avail[i] = c) \/ \E t \in Threads : held[t] = c

CountInv ==
  /\ IsFiniteSet(notified) /\ IsFiniteSet(Holders)
  /\ Len(avail) + Cardinality(Holders) = Size

\* A sweep that has had the pool to itself has reached the connections at the
\* tail of the deque.
QuietInv == \A s \in Sweepers : quiet[s] =>
  /\ Holders \subseteq {s}
  /\ visited[s] = {avail[i] : i \in {j \in DOMAIN avail : j > Len(avail) - round[s]}}

\* Between sweeps nothing has been reached.
RestInv == \A s \in Sweepers : step[s] = "rest" => round[s] = 0 /\ visited[s] = {}

IInv == TypeOK /\ StepInv /\ PoolInv /\ CountInv /\ NoLostWakeup /\ QuietInv /\ RestInv
-----------------------------------------------------------------------------
(* The two ends of acquire.                                                *)

LEMMA SizeNat == Size \in Nat \ {0} /\ NoConn \notin Conns
  BY GatewayAssumption DEF Conns, NoConn

LEMMA InitInv == Init => IInv
<1> SUFFICES ASSUME Init PROVE IInv
  OBVIOUS
<1>1. TypeOK
  BY SizeNat, GatewayAssumption
     DEF Init, TypeOK, Conns, Threads, Sweepers, Steps, Versions, Nothing
<1>2. StepInv /\ NoLostWakeup /\ QuietInv /\ RestInv
  BY DEF Init, StepInv, NoLostWakeup, QuietInv, RestInv
<1>3. avail = [i \in 1..Size |-> i] /\ Len(avail) = Size /\ DOMAIN avail = 1..Size
  BY SizeNat DEF Init, Conns
<1>4. PoolInv
  BY <1>3, SizeNat DEF Init, PoolInv, Conns, NoConn
<1>5. Holders = {}
  BY DEF Init, Holders
<1>6. CountInv
  BY <1>3, <1>5, SizeNat, FS_EmptySet DEF Init, CountInv
<1> QED BY <1>1, <1>2, <1>4, <1>6 DEF IInv

\* Adding or removing one thread.
LEMMA OneMore == ASSUME NEW S, IsFiniteSet(S), NEW x, x \notin S
                 PROVE  IsFiniteSet(S \cup {x}) /\ Cardinality(S \cup {x}) = Cardinality(S) + 1
                        /\ Cardinality(S) \in Nat
  BY FS_AddElement, FS_CardinalityType

LEMMA OneLess == ASSUME NEW S, IsFiniteSet(S), NEW x
                 PROVE  /\ IsFiniteSet(S \ {x}) /\ Cardinality(S \ {x}) \in Nat
                        /\ Cardinality(S) \in Nat
                        /\ Cardinality(S \ {x}) >= Cardinality(S) - 1
                        /\ x \in S => Cardinality(S \ {x}) = Cardinality(S) - 1
<1>1. IsFiniteSet(S \ {x}) /\ Cardinality(S \ {x}) \in Nat /\ Cardinality(S) \in Nat
  BY FS_RemoveElement, FS_CardinalityType
<1>2. Cardinality(S \ {x}) = IF x \in S THEN Cardinality(S) - 1 ELSE Cardinality(S)
  BY FS_RemoveElement
<1> QED BY <1>1, <1>2

\* What is at the head of the deque, and behind it.
LEMMA Dequeued ==
  ASSUME avail \in Seq(Conns), avail # <<>>
  PROVE  /\ Len(avail) \in Nat \ {0} /\ DOMAIN avail = 1..Len(avail)
         /\ Head(avail) = avail[1] /\ Head(avail) \in Conns
         /\ Tail(avail) \in Seq(Conns)
         /\ Len(Tail(avail)) = Len(avail) - 1
         /\ DOMAIN Tail(avail) = 1..(Len(avail) - 1)
         /\ \A i \in 1..(Len(avail) - 1) : Tail(avail)[i] = avail[i + 1]
  OBVIOUS

LEMMA Enqueued ==
  ASSUME avail \in Seq(Conns), NEW c \in Conns
  PROVE  /\ Len(avail) \in Nat /\ DOMAIN avail = 1..Len(avail)
         /\ Append(avail, c) \in Seq(Conns)
         /\ Len(Append(avail, c)) = Len(avail) + 1
         /\ DOMAIN Append(avail, c) = 1..(Len(avail) + 1)
         /\ \A i \in 1..Len(avail) : Append(avail, c)[i] = avail[i]
         /\ Append(avail, c)[Len(avail) + 1] = c
  OBVIOUS

LEMMA GetKeeps ==
  ASSUME IInv, NEW t \in Threads, step[t] = "acquire", avail # <<>>, Get(t)
  PROVE  IInv'
<1> USE SizeNat DEF IInv
<1>0. held[t] = NoConn /\ held' = [held EXCEPT ![t] = avail[1]] /\ avail[1] \in Conns
      /\ avail[1] # NoConn /\ avail' = Tail(avail) /\ DOMAIN held = Threads
  BY Dequeued DEF Get, StepInv, TypeOK
<1>d. /\ Len(avail) \in Nat \ {0} /\ DOMAIN avail = 1..Len(avail)
      /\ Len(avail') = Len(avail) - 1 /\ DOMAIN avail' = 1..(Len(avail) - 1)
      /\ \A i \in 1..(Len(avail) - 1) : avail'[i] = avail[i + 1]
  BY <1>0, Dequeued DEF TypeOK
<1>1. TypeOK'
  BY <1>0, Dequeued DEF TypeOK, Get, GoTo, Steps, viewVars, lakeVars
<1>2. StepInv'
  BY <1>0 DEF StepInv, TypeOK, Get, GoTo
<1>3. PoolInv'
  <2>1. \A i, j \in DOMAIN avail' : avail'[i] = avail'[j] => i = j
    BY <1>d DEF PoolInv
  <2>2. \A u, v \in Threads : held'[u] = held'[v] /\ held'[u] # NoConn => u = v
    BY <1>0, <1>d DEF PoolInv
  <2>3. \A i \in DOMAIN avail', u \in Threads : avail'[i] # held'[u]
    BY <1>0, <1>d DEF PoolInv
  <2>4. ASSUME NEW c \in Conns
        PROVE (\E i \in DOMAIN avail' : avail'[i] = c) \/ \E u \in Threads : held'[u] = c
    <3>1. CASE \E u \in Threads : held[u] = c
      BY <3>1, <1>0
    <3>2. CASE avail[1] = c
      BY <3>2, <1>0
    <3>3. ASSUME NEW i \in DOMAIN avail, avail[i] = c, i # 1
          PROVE \E j \in DOMAIN avail' : avail'[j] = c
      <4>1. i - 1 \in DOMAIN avail' /\ avail'[i - 1] = c
        BY <3>3, <1>d
      <4> QED BY <4>1
    <3> QED BY <3>1, <3>2, <3>3 DEF PoolInv
  <2> QED BY <2>1, <2>2, <2>3, <2>4 DEF PoolInv
<1>4. CountInv' /\ NoLostWakeup'
  <2>1. Holders' = Holders \cup {t} /\ t \notin Holders
    BY <1>0 DEF Holders
  <2>2. notified' = notified \ {t} /\ waiting' = waiting \ {t}
    BY DEF Get
  <2>3. /\ IsFiniteSet(Holders \cup {t}) /\ Cardinality(Holders) \in Nat
        /\ Cardinality(Holders \cup {t}) = Cardinality(Holders) + 1
    BY <2>1, OneMore DEF CountInv
  <2>4. /\ IsFiniteSet(notified \ {t}) /\ Cardinality(notified \ {t}) \in Nat
        /\ Cardinality(notified) \in Nat
        /\ Cardinality(notified \ {t}) >= Cardinality(notified) - 1
    BY OneLess DEF CountInv
  <2>5. CountInv'
    BY <2>1, <2>2, <2>3, <2>4, <1>d DEF CountInv
  <2>6. NoLostWakeup'
    BY <2>2, <2>4, <1>d DEF NoLostWakeup
  <2> QED BY <2>5, <2>6
<1>5. QuietInv'
  <2> SUFFICES ASSUME NEW s \in Sweepers, quiet'[s]
      PROVE /\ Holders' \subseteq {s}
            /\ visited'[s] = {avail'[i] : i \in {j \in DOMAIN avail' : j > Len(avail') - round'[s]}}
    BY DEF QuietInv
  <2>1. quiet[s] /\ s = t /\ visited'[s] = visited[s] /\ round'[s] = round[s]
    BY DEF Get
  <2>2. Holders' \subseteq {s}
    BY <2>1, <1>0 DEF QuietInv, Holders
  <2>3. Holders = {}
    BY <2>1, <1>0 DEF QuietInv, Holders
  <2>4. Len(avail) = Size
    <3>1. Cardinality(Holders) = 0
      BY <2>3, FS_EmptySet
    <3> QED BY <3>1, <1>d DEF CountInv
  <2>5. round[s] \in 0..(Size - 1)
    BY DEF TypeOK
  <2>6. visited[s] = {avail[i] : i \in {j \in DOMAIN avail : j > Len(avail) - round[s]}}
    BY <2>1 DEF QuietInv
  <2>7. {avail[i] : i \in {j \in DOMAIN avail : j > Len(avail) - round[s]}}
          = {avail'[i] : i \in {j \in DOMAIN avail' : j > Len(avail') - round[s]}}
    <3>1. ASSUME NEW i \in {j \in DOMAIN avail : j > Len(avail) - round[s]}
          PROVE  i - 1 \in {j \in DOMAIN avail' : j > Len(avail') - round[s]} /\ avail'[i - 1] = avail[i]
      BY <1>d, <2>4, <2>5
    <3>2. ASSUME NEW i \in {j \in DOMAIN avail' : j > Len(avail') - round[s]}
          PROVE  i + 1 \in {j \in DOMAIN avail : j > Len(avail) - round[s]} /\ avail'[i] = avail[i + 1]
      BY <1>d, <2>4, <2>5
    <3> QED BY <3>1, <3>2
  <2> QED BY <2>1, <2>2, <2>6, <2>7
<1>6. RestInv'
  BY <1>0 DEF RestInv, Get, GoTo, TypeOK
<1> QED BY <1>1, <1>2, <1>3, <1>4, <1>5, <1>6

\* A connection goes back: what every release keeps.
LEMMA ReleaseKeeps ==
  ASSUME IInv, NEW t \in Threads, step[t] = "use", Release(t),
         NEW x \in Steps, x # "use", step' = [step EXCEPT ![t] = x]
  PROVE  /\ avail' \in Seq(Conns) /\ held' \in [Threads -> Conns \cup {NoConn}]
         /\ waiting' \subseteq Threads /\ notified' \subseteq Threads
         /\ step' \in [Threads -> Steps]
         /\ StepInv' /\ PoolInv' /\ CountInv' /\ NoLostWakeup'
<1> USE SizeNat DEF IInv
<1>0. held[t] \in Conns /\ held' = [held EXCEPT ![t] = NoConn] /\ DOMAIN held = Threads
      /\ avail' = Append(avail, held[t])
  BY DEF Release, StepInv, TypeOK
<1>d. /\ Len(avail) \in Nat /\ DOMAIN avail = 1..Len(avail)
      /\ Len(avail') = Len(avail) + 1 /\ DOMAIN avail' = 1..(Len(avail) + 1)
      /\ \A i \in 1..Len(avail) : avail'[i] = avail[i]
      /\ avail'[Len(avail) + 1] = held[t]
  BY <1>0, Enqueued DEF TypeOK
<1>w. \/ waiting = {} /\ waiting' = waiting /\ notified' = notified
      \/ \E w \in waiting : waiting' = waiting \ {w} /\ notified' = notified \cup {w}
  BY DEF Release, Notify
<1>1. /\ avail' \in Seq(Conns) /\ held' \in [Threads -> Conns \cup {NoConn}]
      /\ waiting' \subseteq Threads /\ notified' \subseteq Threads
      /\ step' \in [Threads -> Steps]
  BY <1>0, <1>w, Enqueued DEF TypeOK
<1>2. StepInv'
  BY <1>0, <1>w DEF StepInv, TypeOK
<1>3. PoolInv'
  <2>1. \A i, j \in DOMAIN avail' : avail'[i] = avail'[j] => i = j
    BY <1>d DEF PoolInv
  <2>2. \A u, v \in Threads : held'[u] = held'[v] /\ held'[u] # NoConn => u = v
    BY <1>0 DEF PoolInv
  <2>3. \A i \in DOMAIN avail', u \in Threads : avail'[i] # held'[u]
    <3> SUFFICES ASSUME NEW i \in DOMAIN avail', NEW u \in Threads PROVE avail'[i] # held'[u]
      OBVIOUS
    <3>1. avail'[i] \in Conns
      BY <1>1, <1>d
    <3>2. CASE u = t
      BY <3>1, <3>2, <1>0
    <3>3. CASE u # t /\ i = Len(avail) + 1
      BY <3>3, <1>0, <1>d DEF PoolInv
    <3>4. CASE u # t /\ i # Len(avail) + 1
      BY <3>4, <1>0, <1>d DEF PoolInv
    <3> QED BY <3>2, <3>3, <3>4
  <2>4. ASSUME NEW c \in Conns
        PROVE (\E i \in DOMAIN avail' : avail'[i] = c) \/ \E u \in Threads : held'[u] = c
    <3>1. CASE c = held[t]
      <4>1. Len(avail) + 1 \in DOMAIN avail'
        BY <1>d
      <4> QED BY <3>1, <4>1, <1>d
    <3>2. CASE c # held[t]
      BY <3>2, <1>0, <1>d DEF PoolInv
    <3> QED BY <3>1, <3>2
  <2> QED BY <2>1, <2>2, <2>3, <2>4 DEF PoolInv
<1>4. CountInv' /\ NoLostWakeup'
  <2>1. Holders' = Holders \ {t} /\ t \in Holders
    BY <1>0 DEF Holders
  <2>2. /\ IsFiniteSet(Holders \ {t}) /\ Cardinality(Holders) \in Nat
        /\ Cardinality(Holders \ {t}) = Cardinality(Holders) - 1
    BY <2>1, OneLess DEF CountInv
  <2>3. CASE waiting = {} /\ waiting' = waiting /\ notified' = notified
    BY <2>1, <2>2, <2>3, <1>d DEF CountInv, NoLostWakeup
  <2>4. ASSUME NEW w \in waiting, waiting' = waiting \ {w}, notified' = notified \cup {w}
        PROVE  CountInv' /\ NoLostWakeup'
    <3>1. /\ IsFiniteSet(notified \cup {w}) /\ Cardinality(notified) \in Nat
          /\ Cardinality(notified \cup {w}) = Cardinality(notified) + 1
      BY OneMore DEF CountInv, StepInv
    <3> QED BY <2>1, <2>2, <2>4, <3>1, <1>d DEF CountInv, NoLostWakeup
  <2> QED BY <1>w, <2>3, <2>4
<1> QED BY <1>1, <1>2, <1>3, <1>4

\* Steps that leave the pool alone and move a thread that neither wants nor has
\* a connection, or do not move one.
LEMMA StillKeeps ==
  ASSUME IInv, UNCHANGED poolVars, UNCHANGED history, UNCHANGED round, step' \in [Threads -> Steps],
         \A t \in Threads : step[t] \in {"acquire", "use"} => step'[t] = step[t],
         \A t \in Threads : step'[t] = "use" => step[t] = "use",
         \A s \in Sweepers : step'[s] = step[s]
  PROVE  StepInv' /\ PoolInv' /\ CountInv' /\ NoLostWakeup' /\ QuietInv' /\ RestInv'
<1> USE DEF IInv, poolVars, history
<1>1. StepInv'
  BY DEF StepInv, TypeOK
<1>2. Holders' = Holders
  BY DEF Holders
<1>3. PoolInv' /\ CountInv' /\ NoLostWakeup' /\ QuietInv' /\ RestInv'
  BY <1>2 DEF PoolInv, CountInv, NoLostWakeup, QuietInv, RestInv
<1> QED BY <1>1, <1>3

-----------------------------------------------------------------------------
(* The actions.                                                            *)

LEMMA CommitKeeps == ASSUME IInv, NEW t \in Tables, Commit(t) PROVE IInv'
<1>1. TypeOK'
  BY GatewayAssumption DEF IInv, TypeOK, Commit, Versions, poolVars, viewVars, history
<1>2. StepInv' /\ PoolInv' /\ CountInv' /\ NoLostWakeup' /\ QuietInv' /\ RestInv'
  BY StillKeeps DEF Commit, IInv, TypeOK
<1> QED BY <1>1, <1>2 DEF IInv

\* Submit, StartJob, Ask and Upload move one query that is not in acquire.
LEMMA QueryMoves ==
  ASSUME IInv, NEW q \in Queries, NEW x \in Steps, GoTo(q, x), x # "use",
         step[q] \notin {"acquire", "use"},
         UNCHANGED <<poolVars, round, viewVars, lakeVars, target, history>>
  PROVE  IInv'
<1>1. q \in Threads /\ q \notin Sweepers
  BY GatewayAssumption DEF Threads, Queries
<1>2. step' \in [Threads -> Steps]
  BY <1>1 DEF IInv, TypeOK, GoTo
<1>3. TypeOK'
  BY <1>2 DEF IInv, TypeOK, poolVars, viewVars, lakeVars, history
<1>4. /\ \A t \in Threads : step[t] \in {"acquire", "use"} => step'[t] = step[t]
      /\ \A t \in Threads : step'[t] = "use" => step[t] = "use"
      /\ \A s \in Sweepers : step'[s] = step[s]
  BY <1>1 DEF IInv, TypeOK, GoTo, Threads
<1>5. StepInv' /\ PoolInv' /\ CountInv' /\ NoLostWakeup' /\ QuietInv' /\ RestInv'
  BY <1>2, <1>4, StillKeeps
<1> QED BY <1>3, <1>5 DEF IInv

LEMMA JobsKeep ==
  ASSUME IInv, NEW q \in Queries, (q \in Jobs /\ (Submit(q) \/ JobStep(q))) \/ Ask(q)
  PROVE  IInv'
<1>1. CASE Submit(q)
  BY <1>1, QueryMoves DEF Submit, Steps
<1>2. CASE StartJob(q)
  BY <1>2, QueryMoves DEF StartJob, Steps
<1>3. CASE Upload(q)
  BY <1>3, QueryMoves DEF Upload, Steps
<1>4. CASE Ask(q)
  BY <1>4, QueryMoves DEF Ask, Steps
<1> QED BY <1>1, <1>2, <1>3, <1>4 DEF JobStep

LEMMA WaitKeeps == ASSUME IInv, NEW t \in Threads, Wait(t) PROVE IInv'
<1> USE DEF IInv
<1>1. TypeOK'
  BY DEF TypeOK, Wait, viewVars, lakeVars, history
<1>2. StepInv' /\ PoolInv' /\ QuietInv' /\ RestInv' /\ Holders' = Holders
  BY DEF Wait, StepInv, PoolInv, QuietInv, RestInv, Holders, history
<1>3. /\ IsFiniteSet(notified \ {t}) /\ Cardinality(notified \ {t}) \in Nat
      /\ notified' = notified \ {t} /\ avail' = <<>>
  BY OneLess DEF CountInv, Wait
<1>4. CountInv' /\ NoLostWakeup'
  BY <1>2, <1>3 DEF CountInv, NoLostWakeup, Wait
<1> QED BY <1>1, <1>2, <1>4

\* The outcomes of a timeout that finds nothing.
LEMMA GivesUpKeeps ==
  ASSUME IInv, NEW t \in Threads, step[t] = "acquire", avail = <<>>,
         waiting' = waiting \ {t}, notified' = notified \ {t},
         UNCHANGED <<avail, held, viewVars, lakeVars>>,
         IF t \in Sweepers THEN EndSweep(t)
         ELSE /\ GoTo(t, IF t \in Jobs THEN "ended" ELSE "rest")
              /\ UNCHANGED <<round, target, history>>
  PROVE  IInv'
<1> USE SizeNat DEF IInv
<1>0. step' \in [Threads -> Steps] /\ step'[t] \notin {"acquire", "use"}
      /\ \A u \in Threads \ {t} : step'[u] = step[u]
  BY DEF TypeOK, EndSweep, GoTo, Steps
<1>s. ASSUME t \in Sweepers
      PROVE  /\ round' = [round EXCEPT ![t] = 0] /\ visited' = [visited EXCEPT ![t] = {}]
             /\ quiet' = [quiet EXCEPT ![t] = FALSE] /\ target' \in {Nothing, target}
  BY <1>s DEF EndSweep
<1>q. ASSUME t \notin Sweepers PROVE UNCHANGED <<round, target, visited, quiet>>
  BY <1>q DEF history
<1>n. Nothing \in Versions
  BY GatewayAssumption DEF Nothing, Versions
<1>1. TypeOK'
  <2>1. /\ round' \in [Sweepers -> 0..(Size - 1)] /\ visited' \in [Sweepers -> SUBSET Conns]
        /\ quiet' \in [Sweepers -> BOOLEAN] /\ target' \in Versions
    <3>1. CASE t \in Sweepers
      <4>1. 0 \in 0..(Size - 1)
        OBVIOUS
      <4>2. round' \in [Sweepers -> 0..(Size - 1)]
        BY <3>1, <4>1, <1>s DEF TypeOK
      <4>3. visited' \in [Sweepers -> SUBSET Conns] /\ quiet' \in [Sweepers -> BOOLEAN]
        BY <3>1, <1>s DEF TypeOK
      <4>4. target' \in Versions
        BY <3>1, <1>s, <1>n DEF TypeOK
      <4> QED BY <4>2, <4>3, <4>4
    <3>2. CASE t \notin Sweepers
      BY <3>2, <1>q DEF TypeOK
    <3> QED BY <3>1, <3>2
  <2>2. UNCHANGED <<avail, held, view, given, catalog, latest>>
    BY DEF viewVars, lakeVars
  <2> QED BY <2>1, <2>2, <1>0 DEF TypeOK
<1>2. StepInv' /\ Holders' = Holders
  <2>1. step[t] = "acquire" /\ step'[t] # "use" /\ held' = held
    BY <1>0
  <2>2. \A u \in Threads : held'[u] # NoConn <=> step'[u] = "use"
    BY <2>1, <1>0 DEF StepInv
  <2>3. waiting' \cap notified' = {} /\ \A u \in waiting' \cup notified' : step'[u] = "acquire"
    BY <1>0 DEF StepInv, TypeOK
  <2> QED BY <2>1, <2>2, <2>3 DEF StepInv, Holders
<1>p. PoolInv'
  BY DEF PoolInv
<1>3. QuietInv' /\ RestInv'
  <2> SUFFICES ASSUME NEW s \in Sweepers
      PROVE /\ quiet'[s] => /\ Holders' \subseteq {s}
                            /\ visited'[s] = {avail'[i] : i \in {j \in DOMAIN avail' : j > Len(avail') - round'[s]}}
            /\ step'[s] = "rest" => round'[s] = 0 /\ visited'[s] = {}
    BY DEF QuietInv, RestInv
  <2>1. CASE s = t
    BY <2>1, <1>s DEF TypeOK
  <2>2. CASE s # t
    <3>1. /\ visited'[s] = visited[s] /\ round'[s] = round[s] /\ quiet'[s] = quiet[s]
          /\ step'[s] = step[s]
      BY <2>2, <1>0, <1>s, <1>q DEF TypeOK, Threads
    <3> QED BY <3>1, <1>2 DEF QuietInv, RestInv
  <2> QED BY <2>1, <2>2
<1>4. IsFiniteSet(notified \ {t}) /\ Cardinality(notified \ {t}) \in Nat
  BY OneLess DEF CountInv
<1>5. CountInv' /\ NoLostWakeup'
  BY <1>2, <1>4 DEF CountInv, NoLostWakeup
<1> QED BY <1>1, <1>2, <1>p, <1>3, <1>5

LEMMA PoolStepKeeps == ASSUME IInv, NEW t \in Threads, PoolStep(t) PROVE IInv'
<1>1. CASE Take(t)
  BY <1>1, GetKeeps DEF Take
<1>2. CASE Wait(t)
  BY <1>2, WaitKeeps
<1>3. CASE TimeOut(t) /\ avail # <<>>
  BY <1>3, GetKeeps DEF TimeOut
<1>4. CASE TimeOut(t) /\ avail = <<>>
  BY <1>4, GivesUpKeeps DEF TimeOut
<1> QED BY <1>1, <1>2, <1>3, <1>4 DEF PoolStep

\* A statement that ends cannot disturb a quiet sweep: there is none.
LEMMA QueryKeeps == ASSUME IInv, NEW q \in Queries, Query(q) PROVE IInv'
<1> USE SizeNat DEF IInv
<1>1. q \in Threads /\ q \notin Sweepers
  BY GatewayAssumption DEF Threads, Queries
<1>2. PICK x \in Steps : x # "use" /\ step' = [step EXCEPT ![q] = x]
  BY DEF Query, GoTo, AfterQuery, Steps
<1>3. /\ avail' \in Seq(Conns) /\ held' \in [Threads -> Conns \cup {NoConn}]
      /\ waiting' \subseteq Threads /\ notified' \subseteq Threads
      /\ step' \in [Threads -> Steps]
      /\ StepInv' /\ PoolInv' /\ CountInv' /\ NoLostWakeup'
  BY <1>1, <1>2, ReleaseKeeps DEF Query
<1>v. view' \in [Conns -> Versions] /\ given' = given
  <2>1. given' = given /\ (view' = view \/ \E v \in Versions : view' = [view EXCEPT ![held[q]] = v])
    BY DEF Query, Statement
  <2>2. view \in [Conns -> Versions]
    BY DEF TypeOK
  <2> QED BY <2>1, <2>2
<1>4. TypeOK'
  BY <1>3, <1>v DEF TypeOK, Query, lakeVars, history
<1>5. QuietInv'
  BY <1>1 DEF QuietInv, Query, history, Holders, StepInv
<1>6. RestInv'
  BY <1>1, <1>2 DEF RestInv, Query, history, TypeOK
<1> QED BY <1>3, <1>4, <1>5, <1>6

\* A sweep starts with its history empty.
LEMMA BeginKeeps ==
  ASSUME IInv, NEW s \in Sweepers, step[s] = "rest", BeginSweep(s), UNCHANGED poolVars,
         UNCHANGED viewVars, latest' = latest, catalog' \in Versions, target' \in Versions
  PROVE  IInv'
<1> USE DEF IInv, poolVars
<1>0. /\ step' \in [Threads -> Steps] /\ step'[s] = "acquire"
      /\ \A u \in Threads \ {s} : step'[u] = step[u]
  BY DEF TypeOK, BeginSweep, GoTo, Threads, Steps
<1>1. quiet' \in [Sweepers -> BOOLEAN] /\ round' = round /\ visited' = visited
  BY DEF TypeOK, BeginSweep
<1>2. TypeOK'
  BY <1>0, <1>1 DEF TypeOK, viewVars
<1>3. StepInv' /\ PoolInv' /\ Holders' = Holders
  <2>1. StepInv'
    <3>1. held[s] = NoConn /\ s \notin waiting \cup notified /\ s \in Threads
      BY DEF StepInv, Threads
    <3>2. \A u \in Threads : held'[u] # NoConn <=> step'[u] = "use"
      BY <1>0, <3>1 DEF StepInv
    <3>3. \A u \in waiting' \cup notified' : step'[u] = "acquire"
      BY <1>0, <3>1 DEF StepInv, TypeOK
    <3> QED BY <3>2, <3>3 DEF StepInv
  <2>2. PoolInv' /\ Holders' = Holders
    BY DEF PoolInv, Holders
  <2> QED BY <2>1, <2>2
<1>4. CountInv' /\ NoLostWakeup'
  BY <1>3 DEF CountInv, NoLostWakeup
<1>5. RestInv'
  BY <1>0, <1>1 DEF RestInv, Threads
<1>6. QuietInv'
  <2> SUFFICES ASSUME NEW r \in Sweepers, quiet'[r]
      PROVE /\ Holders' \subseteq {r}
            /\ visited'[r] = {avail'[i] : i \in {j \in DOMAIN avail' : j > Len(avail') - round'[r]}}
    BY DEF QuietInv
  <2>1. CASE r = s
    <3>1. round[s] = 0 /\ visited[s] = {}
      BY DEF RestInv
    <3>2. Holders = {}
      BY <2>1 DEF BeginSweep, TypeOK, Holders
    <3>3. {j \in DOMAIN avail : j > Len(avail) - 0} = {}
      BY DEF TypeOK
    <3> QED BY <2>1, <3>1, <3>2, <3>3, <1>1, <1>3
  <2>2. CASE r # s
    BY <2>2, <1>1, <1>3 DEF BeginSweep, TypeOK, QuietInv
  <2> QED BY <2>1, <2>2
<1> QED BY <1>2, <1>3, <1>4, <1>5, <1>6

\* A round ends: the connection joins the tail of the deque and the visited ones.
LEMMA EndRoundKeeps ==
  ASSUME IInv, NEW s \in Sweepers, step[s] = "use", EndRound(s),
         view' \in [Conns -> Versions], given' \in Versions
  PROVE  IInv'
<1> USE SizeNat DEF IInv
<1>t. s \in Threads
  BY DEF Threads
<1>n. Nothing \in Versions /\ 0 \in 0..(Size - 1)
  BY GatewayAssumption DEF Nothing, Versions
<1>0. PICK x \in {"acquire", "rest"} : step' = [step EXCEPT ![s] = x]
  BY DEF EndRound, EndSweep, GoTo
<1>1. /\ avail' \in Seq(Conns) /\ held' \in [Threads -> Conns \cup {NoConn}]
      /\ waiting' \subseteq Threads /\ notified' \subseteq Threads
      /\ step' \in [Threads -> Steps]
      /\ StepInv' /\ PoolInv' /\ CountInv' /\ NoLostWakeup'
  BY <1>0, <1>t, ReleaseKeeps DEF EndRound, Steps
<1>h. held[s] \in Conns /\ s \in Holders /\ Holders' = Holders \ {s}
      /\ avail' = Append(avail, held[s])
  BY <1>t DEF StepInv, TypeOK, Holders, EndRound, Release
<1>o. \A r \in Sweepers \ {s} : ~quiet[r]
  BY <1>h DEF QuietInv
<1>2. CASE EndSweep(s)
  <2>1. /\ round' = [round EXCEPT ![s] = 0] /\ visited' = [visited EXCEPT ![s] = {}]
        /\ quiet' = [quiet EXCEPT ![s] = FALSE] /\ target' \in {Nothing, target}
        /\ step' = [step EXCEPT ![s] = "rest"]
    BY <1>2 DEF EndSweep, GoTo
  <2>2. round' \in [Sweepers -> 0..(Size - 1)] /\ visited' \in [Sweepers -> SUBSET Conns]
    BY <2>1, <1>n DEF TypeOK
  <2>3. quiet' \in [Sweepers -> BOOLEAN] /\ target' \in Versions
    BY <2>1, <1>n DEF TypeOK
  <2>4. catalog' = catalog /\ latest' = latest
    BY DEF EndRound, lakeVars
  <2>5. TypeOK'
    BY <1>1, <2>2, <2>3, <2>4 DEF TypeOK
  <2>6. QuietInv'
    BY <2>1, <1>o DEF QuietInv, TypeOK
  <2>7. RestInv'
    BY <2>1, <1>t DEF RestInv, TypeOK, Threads
  <2> QED BY <1>1, <2>5, <2>6, <2>7
<1>3. CASE ~EndSweep(s)
  <2>1. /\ round[s] + 1 < Size
        /\ round' = [round EXCEPT ![s] = @ + 1]
        /\ visited' = [visited EXCEPT ![s] = @ \cup {held[s]}]
        /\ target' = target /\ quiet' = quiet
        /\ step' = [step EXCEPT ![s] = "acquire"]
    BY <1>3 DEF EndRound, GoTo
  <2>2. round[s] \in 0..(Size - 1) /\ visited[s] \subseteq Conns
    BY DEF TypeOK
  <2>3. round' \in [Sweepers -> 0..(Size - 1)] /\ visited' \in [Sweepers -> SUBSET Conns]
    BY <2>1, <2>2, <1>h DEF TypeOK
  <2>4. catalog' = catalog /\ latest' = latest
    BY DEF EndRound, lakeVars
  <2>5. TypeOK'
    BY <1>1, <2>1, <2>3, <2>4 DEF TypeOK
  <2>6. RestInv'
    BY <2>1, <1>t DEF RestInv, TypeOK, Threads
  <2>7. QuietInv'
    <3> SUFFICES ASSUME quiet[s]
        PROVE /\ Holders' \subseteq {s}
              /\ visited'[s] = {avail'[i] : i \in {j \in DOMAIN avail' : j > Len(avail') - round'[s]}}
      BY <2>1, <1>o DEF QuietInv
    <3>1. Holders' \subseteq {s}
      BY <1>h DEF QuietInv
    <3>2. visited[s] = {avail[i] : i \in {j \in DOMAIN avail : j > Len(avail) - round[s]}}
      BY DEF QuietInv
    <3>3. visited'[s] = visited[s] \cup {held[s]} /\ round'[s] = round[s] + 1
      BY <2>1 DEF TypeOK
    <3>d. /\ Len(avail) \in Nat /\ DOMAIN avail = 1..Len(avail)
          /\ Len(avail') = Len(avail) + 1 /\ DOMAIN avail' = 1..(Len(avail) + 1)
          /\ \A i \in 1..Len(avail) : avail'[i] = avail[i]
          /\ avail'[Len(avail) + 1] = held[s]
      BY <1>h, Enqueued DEF TypeOK
    <3>4. {j \in DOMAIN avail' : j > Len(avail') - (round[s] + 1)}
            = {j \in DOMAIN avail : j > Len(avail) - round[s]} \cup {Len(avail) + 1}
      BY <3>d, <2>2
    <3>5. {avail'[i] : i \in {j \in DOMAIN avail : j > Len(avail) - round[s]}}
            = {avail[i] : i \in {j \in DOMAIN avail : j > Len(avail) - round[s]}}
      BY <3>d
    <3>6. {avail'[i] : i \in {j \in DOMAIN avail' : j > Len(avail') - (round[s] + 1)}}
            = {avail[i] : i \in {j \in DOMAIN avail : j > Len(avail) - round[s]}} \cup {held[s]}
      BY <3>4, <3>5, <3>d
    <3> QED BY <3>1, <3>2, <3>3, <3>6
  <2> QED BY <1>1, <2>5, <2>6, <2>7
<1> QED BY <1>2, <1>3

LEMMA SweepsKeep == ASSUME IInv, Resolve \/ DropTables \/ Apply \/ DropSchema PROVE IInv'
<1> USE SizeNat DEF IInv
<1>s. Refresher \in Sweepers /\ Wiper \in Sweepers
  BY DEF Sweepers
<1>n. 0 \in 0..MaxVersion
  BY GatewayAssumption
<1>1. CASE Resolve
  <2>1. target' \in Versions
    BY <1>1, <1>n DEF Resolve, TypeOK, Versions
  <2> QED BY <1>1, <1>s, <2>1, BeginKeeps DEF Resolve, lakeVars, TypeOK
<1>2. CASE DropTables
  <2>1. catalog' \in Versions
    BY <1>2, <1>n DEF DropTables, Versions
  <2> QED BY <1>2, <1>s, <2>1, BeginKeeps DEF DropTables, TypeOK
<1>3. CASE Apply
  <2>1. PICK made \in SUBSET {t \in Tables : target[t] # 0}, prune \in BOOLEAN :
          /\ view' = [view EXCEPT ![held[Refresher]] = [t \in Tables |->
                        IF t \in made THEN target[t]
                        ELSE IF target[t] = 0 /\ prune THEN 0 ELSE @[t]]]
          /\ given' = [t \in Tables |-> IF t \in made THEN target[t] ELSE given[t]]
    BY <1>3 DEF Apply
  <2>2. held[Refresher] \in Conns
    BY <1>3, <1>s DEF Apply, StepInv, TypeOK, Threads
  <2>3. [t \in Tables |-> IF t \in made THEN target[t]
                          ELSE IF target[t] = 0 /\ prune THEN 0 ELSE view[held[Refresher]][t]] \in Versions
    BY <2>2, <1>n DEF TypeOK, Versions
  <2>4. view' \in [Conns -> Versions]
    BY <2>1, <2>2, <2>3 DEF TypeOK
  <2>5. given' \in Versions
    BY <2>1 DEF TypeOK, Versions
  <2> QED BY <1>3, <1>s, <2>4, <2>5, EndRoundKeeps DEF Apply
<1>4. CASE DropSchema
  <2>1. Nothing \in Versions
    BY <1>n DEF Nothing, Versions
  <2>2. view' \in [Conns -> Versions] /\ given' \in Versions
    BY <1>4, <2>1 DEF DropSchema, TypeOK
  <2> QED BY <1>4, <1>s, <2>2, EndRoundKeeps DEF DropSchema
<1> QED BY <1>1, <1>2, <1>3, <1>4

LEMMA NextInv == IInv /\ [Next]_vars => IInv'
<1> SUFFICES ASSUME IInv, [Next]_vars PROVE IInv'
  OBVIOUS
<1>1. CASE UNCHANGED vars
  <2>1. Holders' = Holders
    BY <1>1 DEF vars, poolVars, Holders
  <2>2. StepInv' /\ PoolInv' /\ CountInv' /\ NoLostWakeup' /\ QuietInv' /\ RestInv'
    BY <1>1, <2>1 DEF vars, poolVars, history, IInv, StepInv, PoolInv, CountInv, NoLostWakeup,
                      QuietInv, RestInv
  <2> QED BY <1>1, <2>2 DEF vars, poolVars, viewVars, lakeVars, history, IInv, TypeOK
<1>2. ASSUME NEW t \in Tables, Commit(t) PROVE IInv'
  BY <1>2, CommitKeeps
<1>3. ASSUME NEW j \in Jobs, Submit(j) \/ JobStep(j) PROVE IInv'
  BY <1>3, JobsKeep DEF Queries
<1>4. ASSUME NEW q \in Requests, Ask(q) PROVE IInv'
  BY <1>4, JobsKeep DEF Queries
<1>5. ASSUME NEW t \in Threads, PoolStep(t) PROVE IInv'
  BY <1>5, PoolStepKeeps
<1>6. ASSUME NEW q \in Queries, Query(q) PROVE IInv'
  BY <1>6, QueryKeeps
<1>7. CASE Resolve \/ DropTables \/ Apply \/ DropSchema
  BY <1>7, SweepsKeep
<1> QED BY <1>1, <1>2, <1>3, <1>4, <1>5, <1>6, <1>7 DEF Next, Use

LEMMA InvHolds == Spec => []IInv
  BY InitInv, NextInv, PTL DEF Spec

-----------------------------------------------------------------------------
(* Theorems.                                                               *)

\* Every variable keeps its type, whatever the size of the pool; in particular
\* for_each makes no round too many.
THEOREM TypeCorrect == Spec => []TypeOK
<1>1. IInv => TypeOK BY DEF IInv
<1> QED BY <1>1, InvHolds, PTL

\* However many threads compete, raise and time out, a connection is in the
\* deque once or held by one thread (acquire's try/finally).
THEOREM NoConnectionIsLost == Spec => []PoolConserved
<1>1. ASSUME IInv PROVE PoolConserved
  <2> SUFFICES ASSUME NEW c \in Conns
               PROVE  Cardinality({i \in DOMAIN avail : avail[i] = c})
                        + Cardinality({t \in Threads : held[t] = c}) = 1
    BY DEF PoolConserved
  <2>c. c # NoConn
    BY SizeNat
  <2>1. ASSUME NEW i \in DOMAIN avail, avail[i] = c
        PROVE  /\ {k \in DOMAIN avail : avail[k] = c} = {i}
               /\ {t \in Threads : held[t] = c} = {}
    BY <1>1, <2>1 DEF IInv, PoolInv
  <2>2. ASSUME NEW t \in Threads, held[t] = c
        PROVE  /\ {k \in DOMAIN avail : avail[k] = c} = {}
               /\ {u \in Threads : held[u] = c} = {t}
    BY <1>1, <2>2, <2>c DEF IInv, PoolInv
  <2>3. (\E i \in DOMAIN avail : avail[i] = c) \/ \E t \in Threads : held[t] = c
    BY <1>1 DEF IInv, PoolInv
  <2>4. CASE \E i \in DOMAIN avail : avail[i] = c
    <3>1. PICK i \in DOMAIN avail : avail[i] = c
      BY <2>4
    <3>2. /\ Cardinality({k \in DOMAIN avail : avail[k] = c}) = Cardinality({i})
          /\ Cardinality({t \in Threads : held[t] = c}) = Cardinality({})
      BY <3>1, <2>1
    <3>3. Cardinality({i}) = 1
      BY FS_Singleton
    <3>4. Cardinality({}) = 0
      BY FS_EmptySet
    <3> QED BY <3>2, <3>3, <3>4
  <2>5. CASE \E t \in Threads : held[t] = c
    <3>1. PICK t \in Threads : held[t] = c
      BY <2>5
    <3>2. /\ Cardinality({k \in DOMAIN avail : avail[k] = c}) = Cardinality({})
          /\ Cardinality({u \in Threads : held[u] = c}) = Cardinality({t})
      BY <3>1, <2>2
    <3>3. Cardinality({t}) = 1
      BY FS_Singleton
    <3>4. Cardinality({}) = 0
      BY FS_EmptySet
    <3> QED BY <3>2, <3>3, <3>4
  <2> QED BY <2>3, <2>4, <2>5
<1> QED BY <1>1, InvHolds, PTL

\* With any number of waiting threads and of arriving ones that overtake them,
\* no thread sleeps on while a connection is free and nobody is woken for it.
THEOREM WakeupsAreKept == Spec => []NoLostWakeup
<1>1. IInv => NoLostWakeup BY DEF IInv
<1> QED BY <1>1, InvHolds, PTL

\* A sweep that has the pool to itself reaches every connection, whatever the
\* size of the pool: for_each counts rounds, and the deque is a queue.
THEOREM QuietSweepsAreComplete == Spec => QuietSweepReachesAll
<1>1. ASSUME IInv, NEW s \in Sweepers, LastRound(s), quiet[s] PROVE Reached(s) = Conns
  <2> USE <1>1, SizeNat DEF IInv
  <2>1. s \in Threads /\ held[s] \in Conns
    BY DEF Threads, LastRound, StepInv, TypeOK
  <2>2. Holders = {s}
    BY <2>1 DEF QuietInv, Holders
  <2>3. Cardinality(Holders) = 1
    BY <2>2, FS_Singleton
  <2>4. Len(avail) = Size - 1 /\ round[s] = Size - 1
    BY <2>3 DEF CountInv, LastRound, TypeOK
  <2>5. {j \in DOMAIN avail : j > Len(avail) - round[s]} = DOMAIN avail
    <3>1. DOMAIN avail = 1..Len(avail) /\ Len(avail) - round[s] = 0
      BY <2>4 DEF TypeOK
    <3> QED BY <3>1
  <2>6. visited[s] = {avail[i] : i \in DOMAIN avail}
    BY <2>5 DEF QuietInv
  <2>7. \A t \in Threads : held[t] # NoConn => t = s
    BY <2>2 DEF Holders
  <2>8. ASSUME NEW c \in Conns PROVE c \in visited[s] \cup {held[s]}
    BY <2>6, <2>7 DEF PoolInv
  <2>9. visited[s] \subseteq Conns
    BY DEF TypeOK
  <2> QED BY <2>1, <2>8, <2>9 DEF Reached
<1>2. IInv => [\A s \in Sweepers : LastRound(s) /\ quiet[s] => Reached(s) = Conns]_vars
  BY <1>1
<1> QED BY <1>2, InvHolds, PTL DEF QuietSweepReachesAll

\* While a query has a connection nobody else changes its views: no refresher, no
\* wipe and no administrator's statement.
THEOREM QueriesSeeOneState == Spec => QuerySeesOneState
<1>1. ASSUME IInv, Next, NEW q \in Queries, held[q] # NoConn, held'[q] = held[q]
      PROVE  view'[held[q]] = view[held[q]]
  <2>0. q \in Threads /\ held \in [Threads -> Conns \cup {NoConn}]
        /\ view \in [Conns -> Versions] /\ held[q] \in Conns
    BY <1>1 DEF Threads, IInv, TypeOK
  <2>1. ASSUME NEW s \in Sweepers, step[s] = "use" PROVE held[s] # held[q]
    BY <1>1, <2>1, GatewayAssumption DEF IInv, PoolInv, StepInv, Threads, Queries
  <2>2. CASE Apply
    BY <2>0, <2>1, <2>2 DEF Apply, Sweepers
  <2>3. CASE DropSchema
    BY <2>0, <2>1, <2>3 DEF DropSchema, Sweepers
  <2>4. CASE view' = view
    BY <2>4
  <2>5. ASSUME NEW p \in Queries, Query(p) PROVE view'[held[q]] = view[held[q]]
    <3>1. p \in Threads /\ held'[p] = NoConn
      BY <2>0, <2>5 DEF Query, Release, Threads
    <3>2. held[p] # held[q]
      BY <1>1, <2>0, <3>1 DEF IInv, PoolInv
    <3> QED BY <2>0, <2>5, <3>2 DEF Query, Statement
  <2>6. view' = view \/ Apply \/ DropSchema \/ \E p \in Queries : Query(p)
    BY <1>1 DEF Next, Use, Commit, Submit, JobStep, StartJob, Upload, Ask, PoolStep, Take, Wait,
                TimeOut, Get, Resolve, DropTables, viewVars
  <2> QED BY <2>2, <2>3, <2>4, <2>5, <2>6
<1>2. IInv /\ [Next]_vars =>
        [\A q \in Queries :
           held[q] # NoConn /\ held'[q] = held[q] => view'[held[q]] = view[held[q]]]_vars
  BY <1>1
<1> QED BY <1>2, InvHolds, PTL DEF Spec, QuerySeesOneState

-----------------------------------------------------------------------------
(* Refinement of the abstract pool.                                        *)

\* What the refresher has resolved was written, and is not older than what it has
\* given to a view before.
ViewInv == \A x \in Tables :
  /\ catalog[x] \in {0, latest[x]} /\ target[x] <= latest[x]
  /\ given[x] <= latest[x] /\ (target[x] # 0 => given[x] <= target[x])

LEMMA ViewType ==
  ASSUME TypeOK
  PROVE  \A x \in Tables : /\ catalog[x] \in Nat /\ latest[x] \in Nat
                           /\ target[x] \in Nat /\ given[x] \in Nat
<1>1. 0..MaxVersion \subseteq Nat
  OBVIOUS
<1> QED BY <1>1 DEF TypeOK, Versions

\* What the refresher leaves on the connection it holds.
LEMMA AppliedViews ==
  ASSUME IInv, Apply
  PROVE  /\ held[Refresher] \in Conns /\ latest' = latest /\ catalog' = catalog
         /\ view' = [view EXCEPT ![held[Refresher]] = view'[held[Refresher]]]
         /\ given' = [x \in Tables |-> given'[x]]
         /\ \A x \in Tables :
              \/ /\ view'[held[Refresher]][x] \in {0, view[held[Refresher]][x]}
                 /\ given'[x] = given[x]
              \/ /\ target[x] # 0 /\ view'[held[Refresher]][x] = target[x]
                 /\ given'[x] = target[x]
         /\ target' \in {target, Nothing}
<1>1. held[Refresher] \in Conns
  BY DEF Apply, IInv, StepInv, TypeOK, Threads, Sweepers
<1>2. PICK made \in SUBSET {t \in Tables : target[t] # 0}, prune \in BOOLEAN :
        /\ view' = [view EXCEPT ![held[Refresher]] = [t \in Tables |->
                      IF t \in made THEN target[t]
                      ELSE IF target[t] = 0 /\ prune THEN 0 ELSE @[t]]]
        /\ given' = [t \in Tables |-> IF t \in made THEN target[t] ELSE given[t]]
  BY DEF Apply
<1>3. view \in [Conns -> Versions]
  BY DEF IInv, TypeOK
<1>4. view'[held[Refresher]] = [t \in Tables |->
        IF t \in made THEN target[t]
        ELSE IF target[t] = 0 /\ prune THEN 0 ELSE view[held[Refresher]][t]]
  BY <1>1, <1>2, <1>3
<1>5. view' = [view EXCEPT ![held[Refresher]] = view'[held[Refresher]]]
  BY <1>1, <1>2, <1>3
<1>6. ASSUME NEW x \in Tables
      PROVE  \/ /\ view'[held[Refresher]][x] \in {0, view[held[Refresher]][x]}
                /\ given'[x] = given[x]
             \/ /\ target[x] # 0 /\ view'[held[Refresher]][x] = target[x]
                /\ given'[x] = target[x]
  BY <1>2, <1>4
<1>7. given' = [x \in Tables |-> given'[x]]
  BY <1>2
<1>8. latest' = latest /\ catalog' = catalog /\ target' \in {target, Nothing}
  BY DEF Apply, EndRound, EndSweep, lakeVars
<1> QED BY <1>1, <1>5, <1>6, <1>7, <1>8

LEMMA DroppedViews ==
  ASSUME IInv, DropSchema
  PROVE  /\ held[Wiper] \in Conns /\ latest' = latest /\ catalog' = catalog
         /\ view' = [view EXCEPT ![held[Wiper]] = view'[held[Wiper]]]
         /\ \A x \in Tables : view'[held[Wiper]][x] = 0
         /\ given' = given /\ target' \in {target, Nothing}
<1>1. held[Wiper] \in Conns
  BY DEF DropSchema, IInv, StepInv, TypeOK, Threads, Sweepers
<1>2. view' = [view EXCEPT ![held[Wiper]] = [t \in Tables |-> 0]] /\ view \in [Conns -> Versions]
  BY DEF DropSchema, Nothing, IInv, TypeOK
<1>3. latest' = latest /\ catalog' = catalog /\ given' = given /\ target' \in {target, Nothing}
  BY DEF DropSchema, EndRound, EndSweep, lakeVars
<1> QED BY <1>1, <1>2, <1>3

LEMMA ViewInit == Init => ViewInv
BY DEF Init, ViewInv, Nothing

LEMMA ViewNext == IInv /\ ViewInv /\ [Next]_vars => ViewInv'
<1> SUFFICES ASSUME IInv, ViewInv, [Next]_vars PROVE ViewInv'
  OBVIOUS
<1>t. \A x \in Tables : /\ catalog[x] \in Nat /\ latest[x] \in Nat
                        /\ target[x] \in Nat /\ given[x] \in Nat
  BY ViewType DEF IInv
<1>f. latest \in [Tables -> 0..MaxVersion] /\ catalog \in [Tables -> 0..MaxVersion]
  BY DEF IInv, TypeOK, Versions
<1>1. ASSUME NEW y \in Tables, Commit(y) PROVE ViewInv'
  <2>1. /\ latest' = [latest EXCEPT ![y] = latest[y] + 1] /\ target' = target
        /\ catalog' = [catalog EXCEPT ![y] = latest[y] + 1] /\ given' = given
    BY <1>1 DEF Commit, viewVars
  <2>2. ASSUME NEW x \in Tables PROVE latest[x] <= latest'[x] /\ catalog'[x] \in {0, latest'[x]}
    BY <1>t, <1>f, <2>1 DEF ViewInv
  <2>3. ASSUME NEW x \in Tables PROVE latest'[x] \in Nat
    BY <1>t, <1>f, <2>1
  <2> QED BY <1>t, <2>1, <2>2, <2>3 DEF ViewInv
<1>2. CASE Apply
  <2>1. /\ latest' = latest /\ catalog' = catalog /\ target' \in {target, Nothing}
        /\ \A x \in Tables : given'[x] = given[x] \/ (target[x] # 0 /\ given'[x] = target[x])
    BY <1>2, AppliedViews
  <2>2. \A x \in Tables : target'[x] \in {0, target[x]}
    BY <2>1 DEF Nothing
  <2> QED BY <1>t, <2>1, <2>2 DEF ViewInv
<1>3. CASE Resolve
  <2>1. latest' = latest /\ catalog' = catalog /\ given' = given
    BY <1>3 DEF Resolve, viewVars, lakeVars
  <2>2. \A x \in Tables : target'[x] \in {0, catalog[x]}
    BY <1>3 DEF Resolve
  <2> QED BY <1>t, <2>1, <2>2 DEF ViewInv
<1>4. CASE DropTables
  <2>1. latest' = latest /\ target' = target /\ given' = given /\ catalog' = [x \in Tables |-> 0]
    BY <1>4 DEF DropTables, viewVars
  <2> QED BY <2>1 DEF ViewInv
<1>5. CASE /\ given' = given /\ latest' = latest /\ catalog' = catalog
           /\ target' \in {target, Nothing}
  <2>1. \A x \in Tables : target'[x] \in {0, target[x]}
    BY <1>5 DEF Nothing
  <2> QED BY <1>t, <1>5, <2>1 DEF ViewInv
<1>6. ASSUME DropSchema \/ \E q \in Queries : Query(q)
      PROVE  /\ given' = given /\ latest' = latest /\ catalog' = catalog
             /\ target' \in {target, Nothing}
  BY <1>6, DroppedViews DEF Query, Statement, lakeVars
<1>7. \/ Apply \/ DropSchema \/ Resolve \/ DropTables \/ \E x \in Tables : Commit(x)
      \/ \E q \in Queries : Query(q)
      \/ /\ given' = given /\ latest' = latest /\ catalog' = catalog
         /\ target' \in {target, Nothing}
  BY DEF Next, Use, Submit, JobStep, StartJob, Upload, Ask, PoolStep, Take, Wait, TimeOut, Get,
         EndSweep, vars, viewVars, lakeVars
<1> QED BY <1>1, <1>2, <1>3, <1>4, <1>5, <1>6, <1>7

LEMMA PromiseInit == Init => Promise!Init
BY DEF Init, Nothing, Promise!Init

\* Every step is one of the abstract pool's, or none of them.
LEMMA PromiseStep ==
  ASSUME IInv, ViewInv, [Next]_vars
  PROVE  [Promise!Next]_<<held, view, latest, given>>
<1>f. /\ held \in [Threads -> Conns \cup {NoConn}] /\ NoConn \notin Conns
      /\ avail \in Seq(Conns) /\ view \in [Conns -> Versions]
  BY SizeNat DEF IInv, TypeOK
<1>s. Sweepers \subseteq Threads /\ Queries \subseteq Threads
      /\ Refresher \in Sweepers /\ Wiper \in Sweepers
  BY DEF Sweepers, Threads
<1>1. ASSUME NEW x \in Tables, Commit(x) PROVE Promise!Next
  <2>1. Promise!Commit(x)
    BY <1>1 DEF Commit, Promise!Commit, poolVars, viewVars
  <2> QED BY <2>1 DEF Promise!Next
<1>2. ASSUME NEW t \in Threads, step[t] = "acquire", avail # <<>>, Get(t) PROVE Promise!Next
  <2>1. /\ held[t] = NoConn /\ held' = [held EXCEPT ![t] = avail[1]] /\ avail[1] \in Conns
        /\ 1 \in DOMAIN avail /\ UNCHANGED <<view, latest, given>>
    BY <1>f, <1>2, Dequeued DEF Get, viewVars, lakeVars, IInv, StepInv
  <2>2. \A u \in Threads : held[u] # avail[1]
    BY <2>1 DEF IInv, PoolInv
  <2>3. Promise!Acquire(t, avail[1])
    BY <2>1, <2>2 DEF Promise!Acquire
  <2> QED BY <2>1, <2>3 DEF Promise!Next
<1>3. ASSUME NEW t \in Threads, PoolStep(t)
      PROVE  Promise!Next \/ UNCHANGED <<held, view, latest, given>>
  BY <1>2, <1>3 DEF PoolStep, Take, Wait, TimeOut, viewVars, lakeVars
<1>4. ASSUME NEW q \in Queries, Query(q) PROVE Promise!Next
  <2>1. held[q] # NoConn /\ held[q] \in Conns
    BY <1>4, <1>s, <1>f DEF Query, IInv, StepInv
  <2>2. view' = view \/ (q \in Admins /\ Promise!OnlyOwnViews(q))
    <3>1. CASE view' = view
      BY <3>1
    <3>2. ASSUME q \in Admins, NEW v \in Versions, view' = [view EXCEPT ![held[q]] = v]
          PROVE  Promise!OnlyOwnViews(q)
      <4>1. view'[held[q]] = v
        BY <3>2, <2>1, <1>f
      <4> QED BY <3>2, <4>1 DEF Promise!OnlyOwnViews
    <3> QED BY <1>4, <3>1, <3>2 DEF Query, Statement
  <2>3. held' = [held EXCEPT ![q] = NoConn] /\ UNCHANGED <<latest, given>>
    BY <1>4 DEF Query, Statement, Release, lakeVars
  <2>4. Promise!Release(q)
    BY <2>1, <2>2, <2>3 DEF Promise!Release
  <2> QED BY <1>s, <2>4 DEF Promise!Next
<1>5. CASE Apply
  <2>1. held' = [held EXCEPT ![Refresher] = NoConn]
    BY <1>5 DEF Apply, EndRound, Release
  <2>2. /\ held[Refresher] \in Conns /\ latest' = latest /\ given' = [x \in Tables |-> given'[x]]
        /\ view' = [view EXCEPT ![held[Refresher]] = view'[held[Refresher]]]
    BY <1>5, AppliedViews
  <2>3. ASSUME NEW x \in Tables
        PROVE  LET v == view'[held[Refresher]][x] IN
                 \/ v \in {0, view[held[Refresher]][x]} /\ given'[x] = given[x]
                 \/ given[x] <= v /\ v <= latest[x] /\ given'[x] = v
    <3>1. target[x] <= latest[x] /\ (target[x] # 0 => given[x] <= target[x])
      BY DEF ViewInv
    <3>2. \/ /\ view'[held[Refresher]][x] \in {0, view[held[Refresher]][x]}
             /\ given'[x] = given[x]
          \/ /\ target[x] # 0 /\ view'[held[Refresher]][x] = target[x]
             /\ given'[x] = target[x]
      BY <1>5, AppliedViews
    <3> QED BY <3>1, <3>2
  <2>4. Promise!Sweep(Refresher)
    BY <1>f, <1>s, <2>1, <2>2, <2>3 DEF Promise!Sweep, Promise!OnlyOwnViews
  <2> QED BY <1>s, <2>4 DEF Promise!Next
<1>6. CASE DropSchema
  <2>1. held' = [held EXCEPT ![Wiper] = NoConn]
    BY <1>6 DEF DropSchema, EndRound, Release
  <2>2. /\ held[Wiper] \in Conns /\ latest' = latest /\ given' = given
        /\ view' = [view EXCEPT ![held[Wiper]] = view'[held[Wiper]]]
        /\ \A x \in Tables : view'[held[Wiper]][x] = 0
    BY <1>6, DroppedViews
  <2>3. given' = [x \in Tables |-> given'[x]]
    BY <2>2 DEF IInv, TypeOK, Versions
  <2>4. Promise!Sweep(Wiper)
    BY <1>f, <1>s, <2>1, <2>2, <2>3 DEF Promise!Sweep, Promise!OnlyOwnViews
  <2> QED BY <1>s, <2>4 DEF Promise!Next
<1>7. CASE (\E j \in Jobs : Submit(j) \/ JobStep(j)) \/ (\E q \in Requests : Ask(q))
           \/ Resolve \/ DropTables \/ UNCHANGED vars
  BY <1>7 DEF Submit, JobStep, StartJob, Upload, Ask, Resolve, DropTables, poolVars, viewVars,
              lakeVars, vars
<1> QED BY <1>1, <1>3, <1>4, <1>5, <1>6, <1>7 DEF Next, Use

\* With pools of any size, any threads, and tables committed, dropped and created
\* again while the refresher works: a connection has one user; its views move only
\* in the hands of the refresher, of a wipe, or of an administrator whose statements
\* are not restricted; and no sweep gives a view an older version than one before.
THEOREM ImplementsViewPool == Spec => KeepsViewPool
<1>1. Spec => []ViewInv
  BY ViewInit, ViewNext, InvHolds, PTL DEF Spec
<1>2. IInv /\ ViewInv /\ [Next]_vars => [Promise!Next]_<<held, view, latest, given>>
  BY PromiseStep
<1> QED BY <1>1, <1>2, PromiseInit, InvHolds, PTL
        DEF Spec, KeepsViewPool, Promise!Spec, Promise!vars
=============================================================================
