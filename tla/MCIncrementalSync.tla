------------------------- MODULE MCIncrementalSync -------------------------
(* Model values and symmetry for TLC's runs of IncrementalSync.            *)
EXTENDS IncrementalSync, TLC

CONSTANTS r1, r2, r3

OneRun == {r1}
TwoRuns == {r1, r2}
ThreeRuns == {r1, r2, r3}
RunSymmetry == Permutations(Runs)
=============================================================================
