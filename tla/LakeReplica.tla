---------------------------- MODULE LakeReplica ----------------------------
(***************************************************************************)
(* What replicating one source table into its lake table promises, without *)
(* watermarks, windows, staging objects or runs: the lake holds, for every *)
(* primary key, no row at all or a committed version of the source row,    *)
(* and it only ever moves towards the current one.                         *)
(*                                                                         *)
(* A version is the value of the row's watermark column (updated_at); 0    *)
(* stands for "no row".                                                    *)
(***************************************************************************)
EXTENDS Naturals

CONSTANT Keys       \* the primary keys of the table

VARIABLES source,   \* source[k]: the committed version of row k
          lake      \* lake[k]: the version of row k in the lake

Init == /\ source = [k \in Keys |-> 0]
        /\ lake = [k \in Keys |-> 0]

\* A transaction at the source commits a newer version of row k.
Commit(k) ==
  /\ source'[k] \in Nat /\ source'[k] > source[k]
  /\ source' = [source EXCEPT ![k] = source'[k]]
  /\ UNCHANGED lake

\* The lake catches up, fully or partly, on any set of rows at once.
CatchUp ==
  /\ lake' \in [Keys -> Nat]
  /\ \A k \in Keys : lake[k] <= lake'[k] /\ lake'[k] <= source[k]
  /\ UNCHANGED source

Next == CatchUp \/ \E k \in Keys : Commit(k)

Spec == Init /\ [][Next]_<<source, lake>>
=============================================================================
