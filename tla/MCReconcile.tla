---------------------------- MODULE MCReconcile ----------------------------
(* Model values for TLC's runs of Reconcile.                               *)
EXTENDS Reconcile

CONSTANTS p1, s1, k1, k2

OnePass == {p1}
OneSync == {s1}
TwoKeys == {k1, k2}
=============================================================================
