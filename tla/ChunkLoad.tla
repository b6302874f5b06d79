----------------------------- MODULE ChunkLoad -----------------------------
(***************************************************************************)
(* What loading a table chunk by chunk promises, without workers, retries, *)
(* commit attempts or metadata versions: the lake table never loses a      *)
(* chunk's object once it lists it, the object holds the rows last copied  *)
(* when it is listed, and DONE is recorded of what is listed or had no     *)
(* rows; a chunk so recorded is let alone, and not listed again.           *)
(***************************************************************************)
EXTENDS Naturals

CONSTANTS Runs, ChunkIds, Keys

VARIABLES copied,  \* copied[r][c]: the rows last read for chunk c of run r
          object,  \* object[r][c]: what its object holds
          table,   \* table[r][c]: how often the lake table lists it
          state    \* state[r][c]: what is recorded of it

vars == <<copied, object, table, state>>

Nothing == [k \in Keys |-> 0]
For(v) == [r \in Runs |-> [c \in ChunkIds |-> v]]

Init == /\ copied = For(Nothing) /\ object = For(Nothing)
        /\ table = For(0) /\ state = For("none")

Copy(r, c) ==
  /\ state[r][c] = "RUNNING"
  /\ copied'[r][c] \in [Keys -> Nat]
  /\ copied' = [copied EXCEPT ![r][c] = copied'[r][c]]
  /\ UNCHANGED <<object, table, state>>

Upload(r, c) ==
  /\ state[r][c] = "RUNNING" /\ copied[r][c] # Nothing
  /\ object' = [object EXCEPT ![r][c] = copied[r][c]]
  /\ UNCHANGED <<copied, table, state>>

\* Nothing else is listed or lost by the commit.
Add(r, c) ==
  /\ state[r][c] = "RUNNING"
  /\ object[r][c] = copied[r][c] /\ copied[r][c] # Nothing
  /\ table' = [table EXCEPT ![r][c] = @ + 1]
  /\ UNCHANGED <<copied, object, state>>

MayRecord(r, c, status) ==
  CASE status = "RUNNING" -> state[r][c] # "DONE"
    [] status = "DONE"    -> /\ state[r][c] = "RUNNING"
                             /\ table[r][c] >= 1 \/ copied[r][c] = Nothing
    [] status = "FAILED"  -> state[r][c] # "none"

Record(r, c, status) ==
  /\ MayRecord(r, c, status)
  /\ state' = [state EXCEPT ![r][c] = status]
  /\ UNCHANGED <<copied, object, table>>

Next == \E r \in Runs, c \in ChunkIds :
  \/ Copy(r, c) \/ Upload(r, c) \/ Add(r, c)
  \/ \E status \in {"RUNNING", "DONE", "FAILED"} : Record(r, c, status)

Spec == Init /\ [][Next]_vars
=============================================================================
