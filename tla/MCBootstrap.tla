---------------------------- MODULE MCBootstrap ----------------------------
(* Model values for TLC's runs of Bootstrap.                               *)
EXTENDS Bootstrap, TLC

CONSTANTS b1, b2

OneRun == {b1}
TwoRuns == {b1, b2}
RunSymmetry == Permutations(Runs)
=============================================================================
