--------------------------- MODULE MCConfigCache ---------------------------
(* ConfigCache with two threads, of one process or of two, for every pair of *)
(* requests.                                                                 *)
EXTENDS ConfigCache, TLC

CONSTANTS t1, t2, gateway, dagster

MCThreads == {t1, t2}
MCProcs == {gateway, dagster}
Symmetry == Permutations(MCThreads) \cup Permutations(MCProcs)
=============================================================================
