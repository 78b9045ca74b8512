--------------------------- MODULE MCGmailMailbox ----------------------------
(* Bounds for TLC: two callers that refresh at once.                        *)
EXTENDS GmailMailbox, TLC

CONSTANTS c1, c2, d1, d2

TwoCallers == {c1, c2}
=============================================================================
