--------------------------- MODULE MCEventWebhooks ---------------------------
(* Bounds for TLC: one event for two endpoints, two drains.                 *)
EXTENDS EventWebhooks, TLC

CONSTANTS e1, p1, p2, w1, w2

OneToTwo == {<<e1, p1>>, <<e1, p2>>}
=============================================================================
