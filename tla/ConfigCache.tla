----------------------------- MODULE ConfigCache -----------------------------
(***************************************************************************)
(* The configuration a process sees.  Connections and settings are kept in *)
(* PostgreSQL and cached in every process (common/config_store.py), under  *)
(* one lock and for StoreTTL; settings again, without a lock, overlaid on  *)
(* the environment (common/settings.py); the tables to sync again, per     *)
(* connection (orchestration/tables.py, extract/discovery.py).  The        *)
(* gateway's administrators change all three (gateway/app.py).             *)
(*                                                                         *)
(* A connection, the settings and the selection of its objects are known   *)
(* by the number of their version; version 1 is there from the start, the  *)
(* connection seeded from the environment.  A thread serves one kind of    *)
(* request over and over; processes share the database and nothing else.   *)
(***************************************************************************)
EXTENDS Integers, Sequences

CONSTANTS
  Threads, Procs,
  Objects,       \* the tables, views and materialized views of the source
  SeedMatches,   \* those the seeded connection's globs and kinds let through
  SeedBlacklisted, \* those in a schema of the seeded connection's blacklist
  Blacklisted,   \* those in a schema of the blacklist an edit falls back to
  StoreTTL, SettingsTTL, TablesTTL,
  MaxTime,       \* bound: the clock
  MaxVersions    \* bound: versions of each kind

Kinds == {"connections", "settings", "selection"}
Requests == {"list", "edit", "settings", "set", "tables", "select"}
Steps == {"idle", "served", "call", "enter", "load", "keep", "overlay",
          "tables", "select", "discover", "write", "clear"}
NoOne == "no thread"
NoEntry == [full |-> FALSE, at |-> 0, v |-> 0]
NoTables == [full |-> FALSE, at |-> 0, v |-> 0, conn |-> 0]

ASSUME ConfigAssumption ==
  /\ NoOne \notin Threads /\ SeedMatches \subseteq Objects
  /\ StoreTTL \in Nat \ {0} /\ SettingsTTL \in Nat \ {0} /\ TablesTTL \in Nat \ {0}
  /\ MaxTime \in Nat /\ MaxVersions \in Nat

VARIABLES
  clock,    \* time.monotonic()
  commits,  \* commits[k][v]: when version v of k was committed
  secrets,  \* secrets[v]: the version whose secret version v of the connection has
  chosen,   \* chosen[v]: the rows of pipeline_sync_selection, listed and enabled,
            \* and, history, the objects of the request that wrote them
  lock,     \* lock[p]: who holds config_store._lock
  cache,    \* cache[p][k]: config_store's caches
  overlay,  \* overlay[p]: settings._cache; version 0 is the environment alone
  tables,   \* tables[p]: tables._cache for the connection
  home, req,  \* home[t], req[t]: the process of thread t, the kind of request it serves
  pc, force, begin, now, got, sel,  \* locals of the request t is serving
  floor,    \* history: newest version p has served, or has written and cleared
  failed    \* history: when p last failed to read the settings

store == <<commits, secrets, chosen>>
site == <<home, req>>
caches == <<lock, cache, overlay, tables>>
locals == <<force, begin, now, got, sel>>
history == <<floor, failed>>
vars == <<clock, store, caches, site, pc, locals, history>>

KindOf(t) == CASE req[t] \in {"settings", "set"} -> "settings"
               [] req[t] = "select" -> "selection"
               [] OTHER -> "connections"
Current(k) == Len(commits[k])

Init ==
  /\ clock = 0
  /\ commits = [k \in Kinds |-> <<0>>] /\ secrets = <<1>>
  /\ chosen = <<[listed |-> {}, on |-> {}, sent |-> {}]>>
  /\ lock = [p \in Procs |-> NoOne]
  /\ cache = [p \in Procs |-> [k \in Kinds |-> NoEntry]]
  /\ overlay = [p \in Procs |-> NoEntry] /\ tables = [p \in Procs |-> NoTables]
  /\ home \in [Threads -> Procs] /\ req \in [Threads -> Requests]
  /\ pc = [t \in Threads |-> "idle"]
  /\ force = [t \in Threads |-> FALSE]
  /\ begin = [t \in Threads |-> 0] /\ now = [t \in Threads |-> 0]
  /\ got = [t \in Threads |-> 0] /\ sel = [t \in Threads |-> 0]
  /\ floor = [p \in Procs |-> [k \in Kinds |-> 0]]
  /\ failed = [p \in Procs |-> 0 - 1]

Upd(f, t, x) == [f EXCEPT ![t] = x]
GoTo(t, step) == pc' = Upd(pc, t, step)
Young(entry, time, ttl) == entry.full /\ time - entry.at < ttl

\* Version v of k was current at some moment from `time` on.
FreshSince(k, v, time) ==
  /\ v \in 1..Current(k)
  /\ v < Current(k) => commits[k][v + 1] >= time

\* History: p has shown version v of k to a caller, or written it.
Shown(p, k, v) == floor' = [floor EXCEPT ![p][k] = IF @ > v THEN @ ELSE v]

\* A request starts by reading the clock; get_settings and get_tables have
\* clocks of their own.  Editing reads the connection first (update_connection);
\* the other writers go straight to the database.
Begin(t) ==
  /\ pc[t] \in {"idle", "served"}
  /\ GoTo(t, CASE req[t] \in {"set", "select"} -> "write"
                [] req[t] = "settings" -> "call"
                [] OTHER -> "enter")
  /\ \E f \in BOOLEAN : force' = Upd(force, t, f /\ req[t] \in {"list", "tables"})
  /\ begin' = Upd(begin, t, clock) /\ now' = Upd(now, t, clock)
  /\ got' = Upd(got, t, 0) /\ sel' = Upd(sel, t, 0)
  /\ UNCHANGED <<clock, store, caches, site, history>>

\* Mutant of Call: the fallback to the environment never expires.
CallSticky(t) ==
  LET entry == overlay[home[t]] IN
  /\ pc[t] = "call"
  /\ IF Young(entry, begin[t], SettingsTTL) \/ (entry.full /\ entry.v = 0)
       THEN GoTo(t, "served") /\ got' = Upd(got, t, entry.v) /\ UNCHANGED now
       ELSE GoTo(t, "enter") /\ now' = Upd(now, t, clock) /\ UNCHANGED got
  /\ UNCHANGED <<clock, store, caches, site, force, begin, sel, history>>

\* get_settings: its own cache first, then config_store.all_settings.
Call(t) ==
  /\ pc[t] = "call"
  /\ IF Young(overlay[home[t]], begin[t], SettingsTTL)
       THEN GoTo(t, "served") /\ got' = Upd(got, t, overlay[home[t]].v) /\ UNCHANGED now
       ELSE GoTo(t, "enter") /\ now' = Upd(now, t, clock) /\ UNCHANGED got
  /\ UNCHANGED <<clock, store, caches, site, force, begin, sel, history>>

\* What the caller does with what config_store returned.
After(t) == CASE req[t] = "edit" -> "write"
              [] req[t] = "settings" -> "overlay"
              [] req[t] = "tables" -> "tables"
              [] OTHER -> "served"

\* Mutant of Hit: an entry lives one unit too long.
HitTooOld(t) == ~force[t] /\ Young(cache[home[t]][KindOf(t)], now[t], StoreTTL + 1)

\* list_connections and all_settings take the lock and look at the cache.
Hit(t) == ~force[t] /\ Young(cache[home[t]][KindOf(t)], now[t], StoreTTL)

EnterHit(t) ==
  /\ pc[t] = "enter" /\ lock[home[t]] = NoOne /\ Hit(t)
  /\ LET v == cache[home[t]][KindOf(t)].v IN
       /\ got' = Upd(got, t, v)
       /\ Shown(home[t], KindOf(t), v)
  /\ GoTo(t, After(t))
  /\ UNCHANGED <<clock, store, caches, site, force, begin, now, sel, failed>>

\* Mutant of EnterMiss: the lock is not held during the SELECT.
EnterMissUnlocked(t) ==
  /\ pc[t] = "enter" /\ lock[home[t]] = NoOne /\ ~Hit(t)
  /\ GoTo(t, "load")
  /\ UNCHANGED <<clock, store, caches, site, locals, history>>

EnterMiss(t) ==
  /\ pc[t] = "enter" /\ lock[home[t]] = NoOne /\ ~Hit(t)
  /\ lock' = Upd(lock, home[t], t)
  /\ GoTo(t, "load")
  /\ UNCHANGED <<clock, store, cache, overlay, tables, site, locals, history>>

\* The SELECT, on a connection of its own; the lock is held.
Load(t) ==
  /\ pc[t] = "load"
  /\ got' = Upd(got, t, Current(KindOf(t)))
  /\ GoTo(t, "keep")
  /\ UNCHANGED <<clock, store, caches, site, force, begin, now, sel, history>>

\* Mutant of Keep: the entry is dated after the load.
KeepLate(t) ==
  /\ pc[t] = "keep"
  /\ cache' = [cache EXCEPT ![home[t]][KindOf(t)] = [full |-> TRUE, at |-> clock, v |-> got[t]]]
  /\ Shown(home[t], KindOf(t), got[t])
  /\ lock' = Upd(lock, home[t], NoOne)
  /\ GoTo(t, After(t))
  /\ UNCHANGED <<clock, store, overlay, tables, site, locals, failed>>

Keep(t) ==
  /\ pc[t] = "keep"
  /\ cache' = [cache EXCEPT ![home[t]][KindOf(t)] = [full |-> TRUE, at |-> now[t], v |-> got[t]]]
  /\ Shown(home[t], KindOf(t), got[t])
  /\ lock' = Upd(lock, home[t], NoOne)
  /\ GoTo(t, After(t))
  /\ UNCHANGED <<clock, store, overlay, tables, site, locals, failed>>

\* The database does not answer: get_settings falls back to the environment,
\* any other request fails.
LoadFails(t) ==
  /\ pc[t] = "load"
  /\ lock' = Upd(lock, home[t], NoOne)
  /\ GoTo(t, IF req[t] = "settings" THEN "overlay" ELSE "idle")
  /\ failed' = IF req[t] = "settings" THEN Upd(failed, home[t], clock) ELSE failed
  /\ UNCHANGED <<clock, store, cache, overlay, tables, site, locals, floor>>

\* Mutant of Overlay: the settings are dated after they were read.
OverlayLate(t) ==
  /\ pc[t] = "overlay"
  /\ overlay' = Upd(overlay, home[t], [full |-> TRUE, at |-> clock, v |-> got[t]])
  /\ GoTo(t, "served")
  /\ UNCHANGED <<clock, store, lock, cache, tables, site, locals, history>>

\* get_settings keeps what it read under the time it began.
Overlay(t) ==
  /\ pc[t] = "overlay"
  /\ overlay' = Upd(overlay, home[t], [full |-> TRUE, at |-> begin[t], v |-> got[t]])
  /\ GoTo(t, "served")
  /\ UNCHANGED <<clock, store, lock, cache, tables, site, locals, history>>

\* get_tables, for the connection the caller has in hand.
Tables(t) ==
  LET entry == tables[home[t]] IN
  /\ pc[t] = "tables"
  /\ now' = Upd(now, t, clock)
  /\ IF ~force[t] /\ Young(entry, clock, TablesTTL)
       THEN GoTo(t, "served") /\ got' = Upd(got, t, entry.conn) /\ sel' = Upd(sel, t, entry.v)
       ELSE GoTo(t, "select") /\ UNCHANGED <<got, sel>>
  /\ UNCHANGED <<clock, store, caches, site, force, begin, history>>

ReadSelection(t) ==
  /\ pc[t] = "select"
  /\ sel' = Upd(sel, t, Current("selection"))
  /\ GoTo(t, "discover")
  /\ UNCHANGED <<clock, store, caches, site, force, begin, now, got, history>>

\* The source's catalog is read with the connection's filters, or the selection.
KeepTables(t) ==
  /\ pc[t] = "discover"
  /\ tables' = Upd(tables, home[t], [full |-> TRUE, at |-> now[t], v |-> sel[t], conn |-> got[t]])
  /\ GoTo(t, "served")
  /\ UNCHANGED <<clock, store, lock, cache, overlay, site, locals, history>>

DiscoverFails(t) ==
  /\ pc[t] \in {"select", "discover"}
  /\ GoTo(t, "idle")
  /\ UNCHANGED <<clock, store, caches, site, locals, history>>

\* An edit through the gateway sends neither the globs nor the blacklist: the
\* defaults replace those of the seeded connection; the globs' let all through.
Globbed(c) == IF c = 1 THEN SeedMatches ELSE Objects
Barred(c) == IF c = 1 THEN SeedBlacklisted ELSE Blacklisted

\* Without a row of the selection the globs decide.
Discovered(c, rows) ==
  (IF rows.listed = {} THEN Globbed(c) ELSE rows.on) \ Barred(c)

MayCommit(t) == pc[t] = "write" /\ Current(KindOf(t)) < MaxVersions
Committed(t) == commits' = Upd(commits, KindOf(t), Append(commits[KindOf(t)], clock))

\* upsert_connection.  A field left blank was resolved from the connection read
\* when the request began, before the database and the bucket were tested.
CommitEdit(t) ==
  /\ MayCommit(t) /\ req[t] = "edit" /\ Committed(t)
  /\ \E secret \in {secrets[got[t]], Current("connections") + 1} : secrets' = Append(secrets, secret)
  /\ got' = Upd(got, t, Current("connections") + 1)
  /\ GoTo(t, "clear")
  /\ UNCHANGED <<clock, chosen, caches, site, force, begin, now, sel, history>>

CommitSetting(t) ==
  /\ MayCommit(t) /\ req[t] = "set" /\ Committed(t)
  /\ got' = Upd(got, t, Current("settings") + 1)
  /\ GoTo(t, "clear")
  /\ UNCHANGED <<clock, secrets, chosen, caches, site, force, begin, now, sel, history>>

\* Mutant of CommitSelection: the DELETE is committed before the INSERTs.
DeleteCommitted(t) ==
  /\ MayCommit(t) /\ req[t] = "select" /\ Committed(t)
  /\ \E sent \in SUBSET Objects :
       \/ chosen' = Append(chosen, [listed |-> {}, on |-> {}, sent |-> sent]) /\ UNCHANGED pc
       \/ \E on \in SUBSET sent :
            chosen' = Append(chosen, [listed |-> sent, on |-> on, sent |-> sent]) /\ GoTo(t, "idle")
  /\ UNCHANGED <<clock, secrets, caches, site, locals, history>>

\* set_selection replaces the rows in one transaction and clears nothing; a
\* request may send any objects, none at all included.
Selected(sent, on) == Append(chosen, [listed |-> sent, on |-> on, sent |-> sent])
CommitSelection(t) ==
  /\ MayCommit(t) /\ req[t] = "select" /\ Committed(t)
  /\ \E sent \in SUBSET Objects : \E on \in SUBSET sent : chosen' = Selected(sent, on)
  /\ GoTo(t, "idle")
  /\ UNCHANGED <<clock, secrets, caches, site, locals, history>>

WriteFails(t) ==
  /\ pc[t] = "write"
  /\ GoTo(t, "idle")
  /\ UNCHANGED <<clock, store, caches, site, locals, history>>

\* The writer clears its own process's cache, once it gets the lock.
Clear(t) ==
  /\ pc[t] = "clear" /\ lock[home[t]] = NoOne
  /\ cache' = [cache EXCEPT ![home[t]][KindOf(t)] = NoEntry]
  /\ Shown(home[t], KindOf(t), got[t])
  /\ GoTo(t, "served")
  /\ UNCHANGED <<clock, store, lock, overlay, tables, site, locals, failed>>

Tick ==
  /\ clock < MaxTime
  /\ clock' = clock + 1
  /\ UNCHANGED <<store, caches, site, pc, locals, history>>

Step(t) ==
  \/ Begin(t) \/ Call(t) \/ EnterHit(t) \/ EnterMiss(t) \/ Load(t) \/ Keep(t) \/ LoadFails(t)
  \/ Overlay(t) \/ Tables(t) \/ ReadSelection(t) \/ KeepTables(t) \/ DiscoverFails(t)
  \/ CommitEdit(t) \/ CommitSetting(t) \/ CommitSelection(t) \/ WriteFails(t) \/ Clear(t)

Next == Tick \/ \E t \in Threads : Step(t)
Spec == Init /\ [][Next]_vars

-----------------------------------------------------------------------------
(* Invariants. *)

TypeOK ==
  /\ clock \in Nat /\ commits \in [Kinds -> Seq(Nat)] /\ secrets \in Seq(Nat)
  /\ chosen \in Seq([listed : SUBSET Objects, on : SUBSET Objects, sent : SUBSET Objects])
  /\ lock \in [Procs -> Threads \cup {NoOne}]
  /\ cache \in [Procs -> [Kinds -> [full : BOOLEAN, at : Nat, v : Nat]]]
  /\ overlay \in [Procs -> [full : BOOLEAN, at : Nat, v : Nat]]
  /\ tables \in [Procs -> [full : BOOLEAN, at : Nat, v : Nat, conn : Nat]]
  /\ home \in [Threads -> Procs] /\ req \in [Threads -> Requests]
  /\ pc \in [Threads -> Steps]
  /\ force \in [Threads -> BOOLEAN]
  /\ begin \in [Threads -> Nat] /\ now \in [Threads -> Nat]
  /\ got \in [Threads -> Nat] /\ sel \in [Threads -> Nat]
  /\ floor \in [Procs -> [Kinds -> Nat]] /\ failed \in [Procs -> Int]

\* The steps each kind of request goes through, and its locals.
InSteps(t) ==
  /\ pc[t] = "call" => req[t] = "settings"
  /\ pc[t] \in {"enter", "load", "keep"} => req[t] \in {"list", "edit", "settings", "tables"}
  /\ pc[t] = "overlay" => req[t] = "settings"
  /\ pc[t] \in {"tables", "select", "discover"} => req[t] = "tables"
  /\ pc[t] = "write" => req[t] \in {"edit", "set", "select"}
  /\ pc[t] = "clear" => req[t] \in {"edit", "set"}
  /\ req[t] \in {"edit", "settings"} => ~force[t]
  /\ req[t] \in {"list", "edit"} => now[t] = begin[t]
  /\ begin[t] <= now[t] /\ now[t] <= clock
  /\ pc[t] \in {"call", "enter", "load"} => got[t] = 0

\* Whoever loads holds the lock.
LockHeld == \A t \in Threads : pc[t] \in {"load", "keep"} => lock[home[t]] = t

\* One secret a version of the connection, one set of rows a version of the
\* selection.
StoreInSteps ==
  /\ Len(secrets) = Current("connections") /\ Len(chosen) = Current("selection")
  /\ \A k \in Kinds : Current(k) >= 1
  /\ \A v \in 1..Len(chosen) : chosen[v].listed = chosen[v].sent

\* An entry is not older than the time it is kept under says.
CacheDated(p) ==
  /\ \A k \in Kinds : cache[p][k].full =>
       cache[p][k].at <= clock /\ FreshSince(k, cache[p][k].v, cache[p][k].at)
  /\ overlay[p].full =>
       /\ overlay[p].at <= clock
       /\ IF overlay[p].v = 0 THEN failed[p] >= overlay[p].at
          ELSE FreshSince("settings", overlay[p].v, overlay[p].at - StoreTTL + 1)
  /\ tables[p].full =>
       tables[p].at <= clock /\ FreshSince("selection", tables[p].v, tables[p].at)

\* The moment the caller may count on: what config_store returned to t was
\* current at or after it.
Since(t) == IF force[t] THEN begin[t] ELSE begin[t] - StoreTTL + 1

LocalDated(t) ==
  /\ pc[t] = "keep" => FreshSince(KindOf(t), got[t], now[t])
  /\ (pc[t] \in {"tables", "select", "discover"} \/ (pc[t] = "write" /\ req[t] = "edit")
      \/ (pc[t] = "served" /\ req[t] = "list"))
       => FreshSince("connections", got[t], Since(t))
  /\ pc[t] = "overlay" => IF got[t] = 0 THEN failed[home[t]] >= begin[t]
                           ELSE FreshSince("settings", got[t], Since(t))
  /\ pc[t] = "discover" => FreshSince("selection", sel[t], now[t])
  /\ pc[t] = "clear" => got[t] <= Current(KindOf(t))

\* Neither the cache nor a thread about to fill it is behind the floor.
AboveFloor ==
  /\ \A p \in Procs, k \in Kinds :
       floor[p][k] <= Current(k) /\ (cache[p][k].full => cache[p][k].v >= floor[p][k])
  /\ \A t \in Threads : pc[t] = "keep" => got[t] >= floor[home[t]][KindOf(t)]

ConfigInv ==
  /\ TypeOK /\ StoreInSteps /\ LockHeld /\ AboveFloor
  /\ \A t \in Threads : InSteps(t) /\ LocalDated(t)
  /\ \A p \in Procs : CacheDated(p)

(* Safety. *)

\* A connection handed to a caller (list_connections, get_connection) was current
\* less than StoreTTL before the call, or after it when the call forces a load,
\* however long the call waited for the lock or the database.
ConnectionsFresh == \A t \in Threads :
  (pc[t] = "served" /\ req[t] = "list") \/ (pc[t] = "write" /\ req[t] = "edit")
    => FreshSince("connections", got[t], Since(t))

\* Settings served (get_settings) were current less than the sum of the two
\* times to live before the call; the caches are read one through the other.
SettingsFresh == \A t \in Threads : pc[t] = "served" /\ req[t] = "settings" /\ got[t] # 0
  => FreshSince("settings", got[t], begin[t] - SettingsTTL - StoreTTL + 2)

\* The environment's defaults are served for no longer than SettingsTTL after
\* the database failed to answer, whatever the order of two callers' results.
DefaultsAreBrief == \A t \in Threads : pc[t] = "served" /\ req[t] = "settings" /\ got[t] = 0
  => failed[home[t]] > begin[t] - SettingsTTL

\* The tables served (get_tables) come from a selection that was current less
\* than TablesTTL before; when the one saved last had any object in it, they are
\* among the objects it enables, whatever the connection's globs say: no reader
\* sees the rows deleted and not yet inserted (set_selection).
SelectionHonoured == \A t \in Threads : pc[t] = "served" /\ req[t] = "tables" =>
  /\ FreshSince("selection", sel[t], IF force[t] THEN begin[t] ELSE begin[t] - TablesTTL + 1)
  /\ chosen[sel[t]].sent # {} => Discovered(got[t], chosen[sel[t]]) \subseteq chosen[sel[t]].on

\* A process never serves a version older than one it has served, nor than one
\* it has itself written (list_connections, all_settings, set_setting,
\* upsert_connection): the lock spans the load, so that no thread keeps an old
\* version after another cleared the cache or kept a newer one.
NeverGoesBack == [][\A t \in Threads :
  pc[t] \in {"enter", "keep"} /\ pc'[t] \notin {pc[t], "load"}
    => got'[t] >= floor[home[t]][KindOf(t)]]_vars

\* "password blank on update = keep existing" (gateway/app.py:85): an edit
\* either sends a secret or leaves the one there is.
KeptSecretIsCurrent == [][secrets' # secrets =>
  LET v == Len(secrets') IN secrets'[v] \in {v, secrets[v - 1]}]_vars

=============================================================================
