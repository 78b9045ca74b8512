--------------------------- MODULE MCReplyComposer ---------------------------
(* Bounds for TLC: one reply, three keys, two requests at a time.           *)
EXTENDS ReplyComposer, TLC
=============================================================================
