---------------------------- MODULE GmailMailbox ----------------------------
(***************************************************************************)
(* The OAuth grant of one Gmail mailbox: connect (src/mail/gmail-connect   *)
(* .ts), disconnect (gmail-disconnect.ts) and the refreshes that senders,  *)
(* reconcile runs and the watch cron do in between (gmail-oauth.ts).  Each *)
(* flow talks to Google between its read of the token row and its write,   *)
(* and meanwhile the others go on.                                         *)
(*                                                                         *)
(* The transactions of connect and disconnect, and the guarded token write *)
(* of a refresh, hold the mailbox row's lock: each is one step here.       *)
(***************************************************************************)
EXTENDS Naturals

CONSTANTS
    Callers,         \* concurrent callers of getAccessToken
    Closers,         \* disconnect requests, each made at most once
    GrantBound,      \* model bound: grants that the consent screen issues
    FaultBound       \* model bound: failed calls to Google

ASSUME MailboxAssumption == GrantBound \in Nat \ {0} /\ FaultBound \in Nat

NoGrant == 0
Grants == 1..GrantBound

VARIABLES
    mailboxStatus,   \* mailboxes.status
    token,           \* the grant whose refresh token is in mailbox_oauth_tokens
    fresh,           \* is the cached access token still good?
    issued,          \* Google: grants issued so far, numbered in order
    dead,            \* Google: grants revoked or expired
    latest,          \* the grant that the last connect stored
    tried,           \* grants that a disconnect tried to revoke
    orphans,         \* grants deleted here that no disconnect tried to revoke
    stage, held,     \* each caller: how far its refresh is, with which grant
    connecting,      \* the grants of connects that have not stored theirs yet
    closing, closed, \* each disconnect: how far it is, and the grant it read
    faults

mailbox == <<mailboxStatus, token, fresh>>
google == <<issued, dead>>
history == <<latest, tried, orphans>>
flows == <<stage, held, connecting, closing, closed>>
mailboxVars == <<mailbox, google, history, flows, faults>>

(* The types of the state; a refresh in flight has a grant.                 *)
MailboxTypeOK ==
    /\ mailboxStatus \in {"active", "needs_reconnect", "disconnected"}
    /\ token \in Grants \cup {NoGrant}
    /\ fresh \in BOOLEAN
    /\ issued \in Grants
    /\ dead \subseteq Grants /\ tried \subseteq Grants /\ orphans \subseteq Grants
    /\ latest \in Grants
    /\ stage \in [Callers -> {"idle", "asking", "granted", "rejected"}]
    /\ held \in [Callers -> Grants \cup {NoGrant}]
    /\ \A c \in Callers : stage[c] # "idle" => held[c] # NoGrant
    /\ connecting \subseteq Grants
    /\ closing \in [Closers -> {"idle", "reading", "revoking", "deactivating", "done"}]
    /\ closed \in [Closers -> Grants \cup {NoGrant}]
    /\ \A d \in Closers : closing[d] = "revoking" => closed[d] # NoGrant
    /\ faults \in Nat

(* A mailbox that has just been connected for the first time.               *)
MailboxInit ==
    /\ mailboxStatus = "active" /\ token = 1 /\ fresh = TRUE
    /\ issued = 1 /\ dead = {}
    /\ latest = 1 /\ tried = {} /\ orphans = {}
    /\ stage = [c \in Callers |-> "idle"]
    /\ held = [c \in Callers |-> NoGrant]
    /\ connecting = {}
    /\ closing = [d \in Closers |-> "idle"]
    /\ closed = [d \in Closers |-> NoGrant]
    /\ faults = 0

Fault == faults < FaultBound /\ faults' = faults + 1

-----------------------------------------------------------------------------
(* The call is over, and with it what it held.                              *)
RefreshEnds(c) ==
    /\ stage' = [stage EXCEPT ![c] = "idle"]
    /\ held' = [held EXCEPT ![c] = NoGrant]

(* getAccessToken: nothing happens while the cached token is fresh or there *)
(* is none stored; otherwise the stored grant is sent to Google.            *)
Ask(c) ==
    /\ stage[c] = "idle" /\ token # NoGrant /\ ~fresh
    /\ stage' = [stage EXCEPT ![c] = "asking"]
    /\ held' = [held EXCEPT ![c] = token]
    /\ UNCHANGED <<mailbox, google, history, connecting, closing, closed, faults>>

(* Mutant of Verdict: invalid_grant is one more transient failure.          *)
VerdictTransient(g) == IF g \in dead THEN "idle" ELSE "granted"

Verdict(g) == IF g \in dead THEN "rejected" ELSE "granted"

Answer(c) ==
    /\ stage[c] = "asking"
    /\ \/ stage' = [stage EXCEPT ![c] = Verdict(held[c])] /\ UNCHANGED <<held, faults>>
       \/ RefreshEnds(c) /\ Fault
    /\ UNCHANGED <<mailbox, google, history, connecting, closing, closed>>

(* Mutant of MayPersist: the write asks nothing.                            *)
MayPersistAlways == TRUE

(* upsertTokensUnlessDisconnected: the predicate rides on the write.        *)
MayPersist == mailboxStatus # "disconnected"

Persist(c) ==
    /\ stage[c] = "granted"
    /\ IF MayPersist THEN token' = held[c] /\ fresh' = TRUE ELSE UNCHANGED <<token, fresh>>
    /\ RefreshEnds(c)
    /\ UNCHANGED <<mailboxStatus, google, history, connecting, closing, closed, faults>>

(* markNeedsReconnect. *)
MarkDead(c) ==
    /\ stage[c] = "rejected"
    /\ mailboxStatus' = IF mailboxStatus = "disconnected" THEN mailboxStatus ELSE "needs_reconnect"
    /\ RefreshEnds(c)
    /\ UNCHANGED <<token, fresh, google, history, connecting, closing, closed, faults>>

-----------------------------------------------------------------------------
(* completeConnect: the code is exchanged for a grant, the watch is armed,  *)
(* and only then one transaction stores it all.  Nothing serialises two     *)
(* connects: they may store their grants in either order.                   *)

Exchange ==
    /\ issued < GrantBound
    /\ issued' = issued + 1
    /\ connecting' = connecting \cup {issued + 1}
    /\ UNCHANGED <<mailbox, dead, history, stage, held, closing, closed, faults>>

ConnectFails(g) ==
    /\ g \in connecting /\ Fault
    /\ connecting' = connecting \ {g}
    /\ UNCHANGED <<mailbox, google, history, stage, held, closing, closed>>

StoreGrant(g) ==
    /\ g \in connecting
    /\ mailboxStatus' = "active"
    /\ token' = g /\ fresh' = TRUE
    /\ latest' = g
    /\ connecting' = connecting \ {g}
    /\ UNCHANGED <<google, tried, orphans, stage, held, closing, closed, faults>>

-----------------------------------------------------------------------------
(* disconnect: a mailbox that is disconnected already is only swept again.  *)
(* The access token that users.stop needs comes from getAccessToken, like   *)
(* any caller's.                                                            *)

BeginDisconnect(d) ==
    /\ closing[d] = "idle"
    /\ closing' = [closing EXCEPT ![d] =
            IF mailboxStatus = "disconnected" THEN "deactivating" ELSE "reading"]
    /\ UNCHANGED <<mailbox, google, history, stage, held, connecting, closed, faults>>

RevokeNext == IF token = NoGrant THEN "deactivating" ELSE "revoking"

ReadGrant(d) ==
    /\ closing[d] = "reading"
    /\ closed' = [closed EXCEPT ![d] = token]
    /\ closing' = [closing EXCEPT ![d] = RevokeNext]
    /\ UNCHANGED <<mailbox, google, history, stage, held, connecting, faults>>

(* Best effort: a failed revoke is logged.                                  *)
Revoke(d) ==
    /\ closing[d] = "revoking"
    /\ tried' = tried \cup {closed[d]}
    /\ \/ dead' = dead \cup {closed[d]} /\ UNCHANGED faults
       \/ Fault /\ UNCHANGED dead
    /\ closing' = [closing EXCEPT ![d] = "deactivating"]
    /\ closed' = [closed EXCEPT ![d] = NoGrant]
    /\ UNCHANGED <<mailbox, issued, latest, orphans, stage, held, connecting>>

Deactivate(d) ==
    /\ closing[d] = "deactivating"
    /\ mailboxStatus' = "disconnected" /\ token' = NoGrant /\ fresh' = FALSE
    /\ orphans' = orphans \cup ({token} \ (tried \cup {NoGrant}))
    /\ closing' = [closing EXCEPT ![d] = "done"]
    /\ UNCHANGED <<google, latest, tried, stage, held, connecting, closed, faults>>

-----------------------------------------------------------------------------
(* Google and time: a grant is revoked by its user, an access token ages.   *)

GrantDies ==
    /\ \E g \in 1..issued : dead' = dead \cup {g}
    /\ UNCHANGED <<mailbox, issued, history, flows, faults>>

TokenAges ==
    /\ fresh
    /\ fresh' = FALSE
    /\ UNCHANGED <<mailboxStatus, token, google, history, flows, faults>>

DisconnectStep(d) == BeginDisconnect(d) \/ ReadGrant(d) \/ Revoke(d) \/ Deactivate(d)

CallerStep(c) == Ask(c) \/ Answer(c) \/ Persist(c) \/ MarkDead(c)

MailboxNext ==
    \/ \E c \in Callers : CallerStep(c)
    \/ Exchange
    \/ \E g \in Grants : ConnectFails(g) \/ StoreGrant(g)
    \/ \E d \in Closers : DisconnectStep(d)
    \/ GrantDies \/ TokenAges

MailboxSpec == MailboxInit /\ [][MailboxNext]_mailboxVars

(* Every minute the sweep's job asks for a token again, a call that has     *)
(* begun is answered or times out, and access tokens last an hour.          *)
FairMailboxSpec ==
    /\ MailboxSpec
    /\ \A c \in Callers : WF_mailboxVars(CallerStep(c))
    /\ WF_mailboxVars(TokenAges)

-----------------------------------------------------------------------------
TokenIffConnected == (mailboxStatus = "disconnected") <=> (token = NoGrant)

(* However refreshes, connects and disconnects interleave, a disconnected   *)
(* mailbox keeps no token (a refresh that was in flight cannot bring one    *)
(* back), and any other mailbox has one.                                    *)
TokensMatchStatus == MailboxTypeOK /\ TokenIffConnected

(* A mailbox whose stored grant is dead does not stay active: the operator  *)
(* is told to reconnect, even if a refresh stored the grant again meanwhile.*)
DeadGrantNoticed ==
    mailboxStatus = "active" /\ token \in dead ~> mailboxStatus # "active" \/ token \notin dead

-----------------------------------------------------------------------------
(* What the documents say and the code does not keep (README, Divergences). *)

(* What src/specs/mail/gmail-connect.md says of a reconnect: it replaces    *)
(* the stored tokens, so the grant stored is the one last connected.        *)
LatestGrantStored == token # NoGrant => token = latest

(* What src/store/mailboxes.ts says of needs_reconnect: the mailbox's grant *)
(* turned out revoked or expired.                                           *)
NeedsReconnectMeansDead == mailboxStatus = "needs_reconnect" => token \in dead

(* What src/mail/gmail-disconnect.ts says of the repeated disconnect: the   *)
(* tokens it deletes belong to a grant that a disconnect tried to revoke.   *)
NoOrphanGrant == orphans = {}
=============================================================================
