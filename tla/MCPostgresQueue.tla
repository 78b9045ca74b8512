--------------------------- MODULE MCPostgresQueue ---------------------------
(* Bounds for TLC: the rows and drains of the instance are model values.    *)
EXTENDS PostgresQueue, TLC

CONSTANTS j1, j2, d1, d2, k1

MCJobs == {j1, j2}
MCDrainers == {d1, d2}
MCSlots == {k1}
=============================================================================
