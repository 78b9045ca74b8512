--------------------------- MODULE MCInboundIngest ---------------------------
(* Bounds for TLC: a reply with two attachments, an own message and a       *)
(* poison one, over one existing conversation.  The reply names, before the *)
(* token of that conversation, a token that does not verify; it may be an   *)
(* echo, which the sender suppresses if it comes before ingest.             *)
EXTENDS InboundIngest, TLC

CONSTANTS mReply, mOwn, mPoison, c1, w1, w2, p1, p2, forged, token

TwoWorkers == {w1, w2}
OneConversation == {c1}

AllMessages == {mReply, mOwn, mPoison}

MCInReplyTo == [m \in Messages |-> IF m = mReply THEN <<forged>> ELSE <<>>]
MCReferences == [m \in Messages |-> IF m = mReply THEN <<token, forged>> ELSE <<>>]
MCSignedFor == [i \in Ids |-> IF i = token THEN c1 ELSE NoConversation]
MCParts == [m \in Messages |-> IF m = mReply THEN {p1, p2} ELSE {}]
=============================================================================
