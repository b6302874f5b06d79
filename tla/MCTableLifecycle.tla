-------------------------- MODULE MCTableLifecycle --------------------------
(* TableLifecycle with two runs, one column that comes and goes, and two     *)
(* partition specs.                                                          *)
EXTENDS TableLifecycle

CONSTANTS r1, r2, c

MCRuns == {r1, r2}
MCCols == {c}
MCSpecs == {"day", "unpartitioned"}
=============================================================================
