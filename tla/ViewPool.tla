------------------------------ MODULE ViewPool ------------------------------
(***************************************************************************)
(* What the gateway's pool promises a query, without deque, condition      *)
(* variable, timeouts or rounds: a connection has one user at a time, and  *)
(* its views change only in the hands of a sweeper, or of an administrator *)
(* whose statements are not restricted.  A sweeper leaves a view alone,    *)
(* removes it, or gives it a version of its table that was written and is  *)
(* not older than what any sweeper gave before, on any connection.         *)
(***************************************************************************)
EXTENDS Naturals

CONSTANTS Conns, Threads, Sweepers, Admins, Tables, NoConn

VARIABLES held,    \* held[t]: the connection thread t uses
          view,    \* view[c][x]: version the view of x on c points at, 0 if none
          latest,  \* latest[x]: the last version of x ever written
          given    \* given[x]: the last version a sweeper gave to a view of x

vars == <<held, view, latest, given>>

Init == /\ held = [t \in Threads |-> NoConn]
        /\ view = [c \in Conns |-> [x \in Tables |-> 0]]
        /\ latest = [x \in Tables |-> 0] /\ given = latest

Commit(x) ==
  /\ latest' = [latest EXCEPT ![x] = @ + 1]
  /\ UNCHANGED <<held, view, given>>

\* Of the connections nobody uses.
Acquire(t, c) ==
  /\ held[t] = NoConn /\ \A u \in Threads : held[u] # c
  /\ held' = [held EXCEPT ![t] = c]
  /\ UNCHANGED <<view, latest, given>>

\* Whatever happens to the views of t's connection, those of others stay.
OnlyOwnViews(t) == view' = [view EXCEPT ![held[t]] = view'[held[t]]]

\* A query leaves the views of its connection as it found them, except an
\* administrator's.
Release(t) ==
  /\ held[t] # NoConn
  /\ held' = [held EXCEPT ![t] = NoConn]
  /\ view' = view \/ (t \in Admins /\ OnlyOwnViews(t))
  /\ UNCHANGED <<latest, given>>

Sweep(t) ==
  /\ t \in Sweepers /\ held[t] # NoConn
  /\ held' = [held EXCEPT ![t] = NoConn]
  /\ OnlyOwnViews(t)
  /\ given' = [x \in Tables |-> given'[x]]
  /\ \A x \in Tables : LET v == view'[held[t]][x] IN
       \/ v \in {0, view[held[t]][x]} /\ given'[x] = given[x]
       \/ given[x] <= v /\ v <= latest[x] /\ given'[x] = v
  /\ UNCHANGED latest

Next ==
  \/ \E x \in Tables : Commit(x)
  \/ \E t \in Threads : Release(t) \/ Sweep(t) \/ \E c \in Conns : Acquire(t, c)

Spec == Init /\ [][Next]_vars
=============================================================================
