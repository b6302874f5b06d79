----------------------------- MODULE MCGateway -----------------------------
(* Model values for TLC's runs of Gateway.                                 *)
EXTENDS Gateway, TLC

CONSTANTS j1, j2, q1, q2, t1

TwoJobs == {j1, j2}
TwoRequests == {q1, q2}
OneRequest == {q1}
OneJob == {j1}
OneTable == {t1}
=============================================================================
