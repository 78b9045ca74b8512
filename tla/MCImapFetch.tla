---------------------------- MODULE MCImapFetch -----------------------------
(* Bounds for TLC.                                                          *)
EXTENDS ImapFetch, TLC
=============================================================================
