-------------------------- MODULE MCGmailReconcile ---------------------------
(* Bounds for TLC: the sweep's job and one push, a short history.           *)
EXTENDS GmailReconcile, TLC

SweepAndPush == {"sweep", "push"}
=============================================================================
