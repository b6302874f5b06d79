----------------------------- MODULE MCChunker -----------------------------
(* Values for TLC's run of Chunker: sparse ids on both sides of zero, and  *)
(* times on both sides of two midnights.                                   *)
EXTENDS Chunker

SparseIds == {-1, 0, 3, 5}
TwoDays == {1, 2, 3}
=============================================================================
