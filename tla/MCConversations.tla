--------------------------- MODULE MCConversations ---------------------------
(* Bounds for TLC: two draft requests race over the drafts.                 *)
EXTENDS Conversations, TLC

CONSTANTS a1, a2

TwoAgents == {a1, a2}
=============================================================================
