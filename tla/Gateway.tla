------------------------------ MODULE Gateway ------------------------------
(***************************************************************************)
(* The query gateway's pool of DuckDB connections                          *)
(* (gateway/duckdb_pool.py) and the threads that share it: asynchronous    *)
(* query jobs (gateway/query.py), synchronous requests, the view refresher *)
(* (gateway/view_refresher.py) and an administrator's wipe                 *)
(* (gateway/app.py).  Each pooled connection has views of its own; a view  *)
(* points at one metadata version of an Iceberg table.                     *)
(***************************************************************************)
EXTENDS Naturals, FiniteSets, Sequences

CONSTANTS
  Size,       \* size of the pool
  Jobs,       \* asynchronous queries
  Requests,   \* threads that serve synchronous queries
  Admins,     \* those of them whose statements the guard does not restrict
  Refresher,  \* the view refresher's thread
  Wiper,      \* the thread of a wipe request
  Tables,     \* the Iceberg tables of one source connection
  Workers,    \* max_workers of the executor
  MaxVersion  \* bound: the last metadata version of a table

Sweepers == {Refresher, Wiper}
Queries == Jobs \cup Requests
Threads == Queries \cup Sweepers
Conns == 1..Size
NoConn == 0

ASSUME GatewayAssumption ==
  /\ Size \in Nat \ {0}
  /\ Refresher # Wiper /\ Sweepers \cap Queries = {} /\ Jobs \cap Requests = {}
  /\ Admins \subseteq Requests
  /\ Workers \in Nat \ {0} /\ MaxVersion \in Nat

VARIABLES
  avail,     \* the deque of free connections
  held,      \* held[t]: the connection thread t has acquired
  waiting,   \* threads asleep in the condition variable
  notified,  \* threads notify() has picked and that have not run yet
  step,      \* step[t]: what thread t does next
  round,     \* round[s]: rounds of for_each done
  view,      \* view[c][t]: version the view of t on c points at; 0 if there is
             \* none, or one of an administrator's own
  catalog,   \* catalog[t]: the current version of t, 0 if t does not exist
  latest,    \* latest[t]: the last version ever written
  target,    \* target[t]: what the refresher resolved, 0 if nothing
  given,     \* history: given[t]: the last version a sweep has given to a view of t
  visited,   \* history: the connections the sweep of s has reached
  quiet      \* history: no other thread has used the pool during it

poolVars == <<avail, held, waiting, notified>>
viewVars == <<view, given>>
lakeVars == <<catalog, latest>>
history == <<visited, quiet>>
vars == <<poolVars, step, round, viewVars, lakeVars, target, history>>

\* "ended" stands for both final states of a job, SUCCEEDED and FAILED.
Steps == {"rest", "queued", "acquire", "use", "upload", "ended"}

Versions == [Tables -> 0..MaxVersion]
Nothing == [t \in Tables |-> 0]

Init ==
  /\ avail = [i \in Conns |-> i]
  /\ held = [t \in Threads |-> NoConn]
  /\ waiting = {} /\ notified = {}
  /\ step = [t \in Threads |-> "rest"]
  /\ round = [s \in Sweepers |-> 0]
  /\ view = [c \in Conns |-> [t \in Tables |-> 0]]
  /\ catalog = Nothing /\ latest = Nothing
  /\ target = Nothing /\ given = Nothing
  /\ visited = [s \in Sweepers |-> {}] /\ quiet = [s \in Sweepers |-> FALSE]

GoTo(t, s) == step' = [step EXCEPT ![t] = s]

\* A run of the pipeline commits a new version of a table, or creates it.
Commit(t) ==
  /\ latest[t] < MaxVersion
  /\ latest' = [latest EXCEPT ![t] = @ + 1]
  /\ catalog' = [catalog EXCEPT ![t] = latest[t] + 1]
  /\ UNCHANGED <<poolVars, step, round, viewVars, target, history>>

-----------------------------------------------------------------------------
(* DuckDBPool.acquire and its release.                                     *)

\* Mutant: the connection is looked at and stays in the deque.
GetShared(t) ==
  /\ held' = [held EXCEPT ![t] = Head(avail)]
  /\ waiting' = waiting \ {t} /\ notified' = notified \ {t}
  /\ GoTo(t, "use")
  /\ quiet' = [s \in Sweepers |-> quiet[s] /\ s = t]
  /\ UNCHANGED <<avail, round, viewVars, lakeVars, target, visited>>

\* The thread gets the connection at the head of the deque.
Get(t) ==
  /\ held' = [held EXCEPT ![t] = Head(avail)]
  /\ avail' = Tail(avail)
  /\ waiting' = waiting \ {t} /\ notified' = notified \ {t}
  /\ GoTo(t, "use")
  /\ quiet' = [s \in Sweepers |-> quiet[s] /\ s = t]
  /\ UNCHANGED <<round, viewVars, lakeVars, target, visited>>

\* A thread that arrives or was notified finds a connection; nothing keeps an
\* arriving thread from overtaking a notified one.
Take(t) ==
  /\ step[t] = "acquire" /\ t \notin waiting /\ avail # <<>>
  /\ Get(t)

\* wait_for: nothing is free, (again) to sleep.
Wait(t) ==
  /\ step[t] = "acquire" /\ t \notin waiting /\ avail = <<>>
  /\ waiting' = waiting \cup {t} /\ notified' = notified \ {t}
  /\ UNCHANGED <<avail, held, step, round, viewVars, lakeVars, target, history>>

\* Mutant: only the connection put into an empty deque is announced.
NotifyWhenEmpty ==
  IF waiting = {} \/ avail # <<>> THEN UNCHANGED <<waiting, notified>>
  ELSE \E w \in waiting : waiting' = waiting \ {w} /\ notified' = notified \cup {w}

Notify ==
  IF waiting = {} THEN UNCHANGED <<waiting, notified>>
  ELSE \E w \in waiting : waiting' = waiting \ {w} /\ notified' = notified \cup {w}

\* Mutant: the connection goes back to the head of the deque.
ReleaseToHead(t) ==
  /\ avail' = <<held[t]>> \o avail
  /\ held' = [held EXCEPT ![t] = NoConn]
  /\ Notify

\* The `finally` of acquire.
Release(t) ==
  /\ avail' = Append(avail, held[t])
  /\ held' = [held EXCEPT ![t] = NoConn]
  /\ Notify

-----------------------------------------------------------------------------
(* Queries.                                                                *)

\* POST /queries: the job is stored and handed to the executor.
Submit(j) ==
  /\ step[j] = "rest" /\ GoTo(j, "queued")
  /\ UNCHANGED <<poolVars, round, viewVars, lakeVars, target, history>>

Running == {j \in Jobs : step[j] \in {"acquire", "use", "upload"}}

\* A worker of the executor takes the job; there may be no enabled connection
\* to store its result in.
StartJob(j) ==
  /\ step[j] = "queued" /\ Cardinality(Running) < Workers
  /\ GoTo(j, "acquire") \/ GoTo(j, "ended")
  /\ UNCHANGED <<poolVars, round, viewVars, lakeVars, target, history>>

\* POST /query, on a thread of the web server.
Ask(q) ==
  /\ step[q] = "rest" /\ GoTo(q, "acquire")
  /\ UNCHANGED <<poolVars, round, viewVars, lakeVars, target, history>>

\* Where a query goes when its statement has succeeded or raised.
AfterQuery(q, ok) ==
  IF q \in Requests THEN "rest" ELSE IF ok THEN "upload" ELSE "ended"

\* What a statement does to the views of its connection, a database of its own.
\* The guard lets only reads through, but with gateway_admin_sql_unrestricted
\* set an administrator's statement makes, replaces and drops views at will.
Statement(q) ==
  /\ \/ UNCHANGED view
     \/ /\ q \in Admins
        /\ \E v \in Versions :
             /\ \A t \in Tables : v[t] <= latest[t]
             /\ view' = [view EXCEPT ![held[q]] = v]
  /\ UNCHANGED given

\* Mutant: the connection is returned only when the statement succeeds.
QueryLeaks(q) ==
  /\ step[q] = "use" /\ q \in Queries
  /\ \E ok \in BOOLEAN :
       /\ GoTo(q, AfterQuery(q, ok))
       /\ IF ok THEN Release(q)
          ELSE /\ held' = [held EXCEPT ![q] = NoConn]
               /\ UNCHANGED <<avail, waiting, notified>>
  /\ Statement(q)
  /\ UNCHANGED <<round, lakeVars, target, history>>

Query(q) ==
  /\ step[q] = "use" /\ q \in Queries
  /\ \E ok \in BOOLEAN : GoTo(q, AfterQuery(q, ok))
  /\ Statement(q) /\ Release(q)
  /\ UNCHANGED <<round, lakeVars, target, history>>

\* The result file is uploaded, or not, and the job's fields are set.
Upload(j) ==
  /\ step[j] = "upload" /\ GoTo(j, "ended")
  /\ UNCHANGED <<poolVars, round, viewVars, lakeVars, target, history>>

-----------------------------------------------------------------------------
(* for_each, and its two users.                                            *)

\* A sweep starts.
BeginSweep(s) ==
  /\ GoTo(s, "acquire")
  /\ quiet' = [quiet EXCEPT ![s] = \A t \in Threads : held[t] = NoConn]
  /\ UNCHANGED <<round, visited>>

\* A sweep is over, and its locals are gone.
EndSweep(s) ==
  /\ GoTo(s, "rest")
  /\ round' = [round EXCEPT ![s] = 0]
  /\ visited' = [visited EXCEPT ![s] = {}]
  /\ quiet' = [quiet EXCEPT ![s] = FALSE]
  /\ target' = IF s = Refresher THEN Nothing ELSE target

\* Mutant: one round too many.
EndRoundTooMany(s) ==
  /\ Release(s)
  /\ \/ /\ round[s] < Size /\ GoTo(s, "acquire")
        /\ round' = [round EXCEPT ![s] = @ + 1]
        /\ visited' = [visited EXCEPT ![s] = @ \cup {held[s]}]
        /\ UNCHANGED <<target, quiet>>
     \/ EndSweep(s)
  /\ UNCHANGED lakeVars

\* fn has been called on the connection: for_each goes on, returns, or lets an
\* exception through.
EndRound(s) ==
  /\ Release(s)
  /\ \/ /\ round[s] + 1 < Size /\ GoTo(s, "acquire")
        /\ round' = [round EXCEPT ![s] = @ + 1]
        /\ visited' = [visited EXCEPT ![s] = @ \cup {held[s]}]
        /\ UNCHANGED <<target, quiet>>
     \/ EndSweep(s)
  /\ UNCHANGED lakeVars

\* refresh_once: each table's current metadata, where the catalog answers.
Resolve ==
  /\ step[Refresher] = "rest"
  /\ \E seen \in SUBSET Tables :
       target' = [t \in Tables |-> IF t \in seen THEN catalog[t] ELSE 0]
  /\ BeginSweep(Refresher)
  /\ UNCHANGED <<poolVars, viewVars, lakeVars>>

\* _apply: views are created or replaced where the metadata can be read (a
\* wipe may have deleted it), and those of tables that were not resolved are
\* pruned; both may fail.
Apply ==
  /\ step[Refresher] = "use"
  /\ \E made \in SUBSET {t \in Tables : target[t] # 0}, prune \in BOOLEAN :
       /\ view' = [view EXCEPT ![held[Refresher]] = [t \in Tables |->
                    IF t \in made THEN target[t]
                    ELSE IF target[t] = 0 /\ prune THEN 0 ELSE @[t]]]
       /\ given' = [t \in Tables |-> IF t \in made THEN target[t] ELSE given[t]]
  /\ EndRound(Refresher)

\* wipe_connection: the tables are dropped from the catalog and their files
\* deleted before the pool is swept ...
DropTables ==
  /\ step[Wiper] = "rest"
  /\ catalog' = [t \in Tables |-> 0]
  /\ BeginSweep(Wiper)
  /\ UNCHANGED <<poolVars, viewVars, latest, target>>

\* Mutant: the schema is dropped on every connection without acquiring them.
DropSchemaEverywhere ==
  /\ step[Wiper] = "use"
  /\ view' = [c \in Conns |-> Nothing] /\ UNCHANGED given
  /\ EndRound(Wiper)

\* ... and the schema is dropped on each connection it reaches.
DropSchema ==
  /\ step[Wiper] = "use"
  /\ view' = [view EXCEPT ![held[Wiper]] = Nothing] /\ UNCHANGED given
  /\ EndRound(Wiper)

-----------------------------------------------------------------------------
\* Mutant: acquire waits without a timeout.
TimeOutNever(t) ==
  /\ step[t] = "acquire" /\ t \in waiting /\ avail # <<>>
  /\ Get(t)

\* The timeout of wait_for: the predicate is looked at once more, then
\* TimeoutError ends the query or the sweep.
TimeOut(t) ==
  /\ step[t] = "acquire" /\ t \in waiting \cup notified
  /\ \/ avail # <<>> /\ Get(t)
     \/ /\ avail = <<>>
        /\ waiting' = waiting \ {t} /\ notified' = notified \ {t}
        /\ IF t \in Sweepers THEN EndSweep(t)
           ELSE /\ GoTo(t, IF t \in Jobs THEN "ended" ELSE "rest")
                /\ UNCHANGED <<round, target, history>>
        /\ UNCHANGED <<avail, held, viewVars, lakeVars>>

JobStep(j) == StartJob(j) \/ Upload(j)
PoolStep(t) == Take(t) \/ Wait(t) \/ TimeOut(t)
Use == Apply \/ DropSchema \/ \E q \in Queries : Query(q)

Next ==
  \/ \E t \in Tables : Commit(t)
  \/ \E j \in Jobs : Submit(j) \/ JobStep(j)
  \/ \E q \in Requests : Ask(q)
  \/ \E t \in Threads : PoolStep(t)
  \/ Resolve \/ DropTables
  \/ Use

Spec == Init /\ [][Next]_vars

\* Threads are scheduled, statements end, and time passes for a thread that
\* waits; nobody need ask, commit or wipe.
Fairness ==
  /\ \A j \in Jobs : WF_vars(JobStep(j))
  /\ \A t \in Threads : WF_vars(Take(t) \/ Wait(t)) /\ WF_vars(TimeOut(t))
  /\ \A q \in Queries : WF_vars(Query(q))
  /\ WF_vars(Apply) /\ WF_vars(DropSchema)

FairSpec == Spec /\ Fairness

-----------------------------------------------------------------------------
(* Properties.                                                             *)

TypeOK ==
  /\ avail \in Seq(Conns)
  /\ held \in [Threads -> Conns \cup {NoConn}]
  /\ waiting \subseteq Threads /\ notified \subseteq Threads
  /\ step \in [Threads -> Steps]
  /\ round \in [Sweepers -> 0..(Size - 1)]
  /\ view \in [Conns -> Versions]
  /\ catalog \in Versions /\ latest \in Versions
  /\ target \in Versions /\ given \in Versions
  /\ visited \in [Sweepers -> SUBSET Conns]
  /\ quiet \in [Sweepers -> BOOLEAN]

\* Every connection is in the deque once or held by one thread, never lost by
\* an exception and never handed to two threads (acquire's try/finally).
PoolConserved ==
  \A c \in Conns :
    Cardinality({i \in DOMAIN avail : avail[i] = c})
      + Cardinality({t \in Threads : held[t] = c}) = 1

\* No wakeup is lost: while threads sleep, as many have been woken as there are
\* free connections (acquire's notify; arriving threads overtake the woken).
NoLostWakeup == waiting # {} => Len(avail) <= Cardinality(notified)

\* While a query has a connection its views do not move, whatever the refresher
\* and a wipe do meanwhile: a statement reads one state of the views.
QuerySeesOneState ==
  [][\A q \in Queries :
       held[q] # NoConn /\ held'[q] = held[q] => view'[held[q]] = view[held[q]]]_vars

\* The sweep of s ends its last round.
LastRound(s) == step[s] = "use" /\ round[s] + 1 = Size /\ step'[s] = "rest"
Reached(s) == visited[s] \cup {held[s]}

\* A sweep during which nobody else used the pool has reached every connection
\* when it returns: the deque is a queue (for_each).
QuietSweepReachesAll ==
  [][\A s \in Sweepers : LastRound(s) /\ quiet[s] => Reached(s) = Conns]_vars

\* A submitted query ends, however busy the pool is.
JobsEnd == \A j \in Jobs : step[j] = "queued" ~> step[j] = "ended"

\* The pool implements the abstract one: a connection has one user at a time,
\* its views move only in the hands of the refresher, the wipe or an unrestricted
\* administrator, and no sweep gives a view an older version than a sweep has
\* given one before (acquire, refresh_once, wipe_connection, run_query_sync).
Promise == INSTANCE ViewPool WITH
  Conns <- Conns, Threads <- Threads, Sweepers <- Sweepers, Admins <- Admins,
  Tables <- Tables, NoConn <- NoConn, held <- held, view <- view, latest <- latest,
  given <- given
KeepsViewPool == Promise!Spec

-----------------------------------------------------------------------------
\* "every pooled connection" (wipe_connection), "for every DuckDB connection in
\* the pool" (README.md): a sweep that returns has reached them all.
SweepReachesAll == [][\A s \in Sweepers : LastRound(s) => Reached(s) = Conns]_vars
=============================================================================
