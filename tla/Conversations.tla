---------------------------- MODULE Conversations ----------------------------
(***************************************************************************)
(* One conversation as its store, the inbox and customer endpoints, the    *)
(* draft review and the snooze pass change it (src/store/conversations.ts, *)
(* src/api/conversations.ts, src/api/customer-conversations.ts,            *)
(* src/api/drafts.ts, src/mail/snooze-wake.ts).  Each writing store method *)
(* is one transaction that locks the conversation row, so it is one step;  *)
(* what is not atomic is a draft request between its preflight read and    *)
(* its transaction, a wake pass between its list of due ids and the update *)
(* of each, and the three statements of a customer's read.                 *)
(*                                                                         *)
(* Of subjects, bodies, tags and assignees only the events are kept.       *)
(***************************************************************************)
EXTENDS Naturals, FiniteSets

CONSTANTS Drafts,        \* assistant drafts on this conversation
          Replies,       \* idempotency keys of Agent replies
          Agents,        \* concurrent approve or discard requests
          NoDraft,
          MessageBound   \* model bound: inbound messages

ASSUME ConversationAssumption == NoDraft \notin Drafts /\ MessageBound \in Nat

VARIABLES
    status,     \* conversations.status; none before it is created
    timer,      \* conversations.snoozed_until: none, ahead of now, or due
    inbound,    \* how many inbound threads it has
    sent,       \* the replies that have an outbound thread
    draft,      \* threads.draft_status of each draft; none before it is posted
    resolved,   \* how many draft.resolved events each draft has had
    request,    \* request[a]: what a's preflight let through
    listed,     \* does a wake pass hold this conversation on its list?
    portal,     \* how far the customer's read of the conversation has got
    shown,      \* history: the status that the last step told the customer
    emitted,    \* history: the outbox events of the last step
    actor       \* history: who took the last step

convVars == <<status, timer, inbound>>
draftVars == <<draft, resolved, request>>
history == <<shown, emitted, actor>>
vars == <<convVars, sent, draftVars, listed, portal, history>>

ApiStatuses == {"active", "pending", "closed", "spam"}
Idle == [kind |-> "idle", draft |-> NoDraft]
Request == [kind : {"approve", "discard"}, draft : Drafts] \cup {Idle}
EventTypes == {"created", "message_received", "status_changed", "tags_changed",
               "assignee_changed", "draft_created", "draft_resolved"}

Exists == status \notin {"none", "deleted"}

(* The types of the state; a snooze is a timed pending, and nothing else.   *)
TypeOK ==
    /\ status \in ApiStatuses \cup {"none", "deleted"}
    /\ timer \in {"none", "ahead", "due"}
    /\ timer # "none" => status = "pending"
    /\ inbound \in Nat
    /\ sent \subseteq Replies
    /\ draft \in [Drafts -> {"none", "awaiting", "approved", "discarded"}]
    /\ resolved \in [Drafts -> Nat]
    /\ request \in [Agents -> Request]
    /\ listed \in BOOLEAN
    /\ portal \in {"idle", "found", "read"}
    /\ shown \in ApiStatuses \cup {"nothing"}
    /\ emitted \subseteq EventTypes
    /\ actor \in {"nobody", "customer", "agent", "assistant", "timer"}

Init ==
    /\ status = "none"
    /\ timer = "none"
    /\ inbound = 0
    /\ sent = {}
    /\ draft = [d \in Drafts |-> "none"]
    /\ resolved = [d \in Drafts |-> 0]
    /\ request = [a \in Agents |-> Idle]
    /\ listed = FALSE
    /\ portal = "idle" /\ shown = "nothing"
    /\ emitted = {}
    /\ actor = "nobody"

-----------------------------------------------------------------------------
(* Who acts, and the events appended to the outbox in the same transaction. *)
Acts(who) == actor' = who /\ shown' = "nothing"
By(who, events) == Acts(who) /\ emitted' = events

(* The conversation and its first message; no row of it existed.            *)
Found(s) ==
    /\ status = "none"
    /\ status' = s
    /\ inbound' = 1
    /\ By("customer", {"created", "message_received"})
    /\ UNCHANGED <<timer, sent, draftVars, listed, portal>>

(* By mail, as spam where the provider's verdict says so ...                *)
FoundByMail == Found("active") \/ Found("spam")

(* ... or by the customer endpoint, after the mailbox was found active and  *)
(* every attachment blob was written.                                       *)
FoundByCustomer == Found("active")

(* applyStatusTransitionInTx: any transition rewrites the timer, and only a *)
(* change of status is an event.                                            *)
Transition(prior, s, until) ==
    /\ status' = s
    /\ timer' = IF s = "pending" THEN until ELSE "none"
    /\ emitted' = IF prior = s THEN {} ELSE {"status_changed"}

(* Mutant of WokenByCustomer: a snoozed conversation sleeps on.             *)
WokenFromClosedOnly == status \in {"closed", "spam"}

(* An inbound message reopens a closed or junked conversation, and wakes a  *)
(* snoozed one; plain pending stays.                                        *)
WokenByCustomer == status \in {"closed", "spam"} \/ (status = "pending" /\ timer # "none")

Received ==
    /\ inbound < MessageBound
    /\ inbound' = inbound + 1
    /\ IF WokenByCustomer
       THEN status' = "active" /\ timer' = "none"
       ELSE UNCHANGED <<status, timer>>
    /\ By("customer", {"message_received"})
    /\ UNCHANGED <<sent, draftVars, listed, portal>>

(* Mail is appended unless the conversation is deleted (then it founds a    *)
(* new one); the customer's own reply also refuses spam.                    *)
AppendInbound == Exists /\ Received
AppendCustomerReply == Exists /\ status # "spam" /\ Received

(* A reply under a fresh key, with an optional thenSetStatus.  A plain one  *)
(* reopens silently.  A replayed key changes nothing.                       *)
AgentReply(r, then) ==
    /\ Exists /\ r \notin sent
    /\ sent' = sent \cup {r}
    /\ Acts("agent")
    /\ IF then = "none"
       THEN /\ status' = IF status \in {"closed", "spam"} THEN "active" ELSE status
            /\ emitted' = {}
            /\ UNCHANGED timer
       ELSE Transition(status, then, "none")
    /\ UNCHANGED <<inbound, draftVars, listed, portal>>

(* A note reopens nothing and is no event.                                  *)
PostNote(who) ==
    /\ Exists
    /\ By(who, {})
    /\ UNCHANGED <<convVars, sent, draftVars, listed, portal>>

(* Tags and assignee: events at every write, of the same value too.         *)
PutTags ==
    /\ Exists
    /\ By("agent", {"tags_changed"})
    /\ UNCHANGED <<convVars, sent, draftVars, listed, portal>>

(* An assignee who was deleted since the handler looked is refused by the   *)
(* foreign key.                                                             *)
PutAssignee ==
    /\ Exists
    /\ By("agent", {"assignee_changed"})
    /\ UNCHANGED <<convVars, sent, draftVars, listed, portal>>

(* setConversationStatus. *)
SetStatus(s, until) ==
    /\ Exists
    /\ Transition(status, s, until)
    /\ Acts("agent")
    /\ UNCHANGED <<inbound, sent, draftVars, listed, portal>>

(* A snooze goes with pending alone, and pending without one clears it.     *)
LegalPatch(s, until) == until = "none" \/ s = "pending"

PatchConversation(s, until) == LegalPatch(s, until) /\ SetStatus(s, until)

Delete ==
    /\ Exists
    /\ status' = "deleted"
    /\ timer' = "none"
    /\ By("agent", {})
    /\ UNCHANGED <<inbound, sent, draftVars, listed, portal>>

-----------------------------------------------------------------------------
(* getCustomerConversation: the row, its threads and the row once more, each *)
(* statement with a snapshot of its own.                                    *)
CustomerVisible == status \in {"active", "pending", "closed"}

PortalFinds ==
    /\ portal = "idle" /\ CustomerVisible
    /\ portal' = "found"
    /\ By("customer", {})
    /\ UNCHANGED <<convVars, sent, draftVars, listed>>

PortalReads ==
    /\ portal = "found"
    /\ portal' = "read"
    /\ By("customer", {})
    /\ UNCHANGED <<convVars, sent, draftVars, listed>>

(* Mutant of StillVisible: the transaction is trusted to be a snapshot.     *)
StillVisibleAnyway == Exists

StillVisible == CustomerVisible

PortalAnswers ==
    /\ portal = "read"
    /\ portal' = "idle"
    /\ shown' = IF StillVisible THEN status ELSE "nothing"
    /\ actor' = "customer" /\ emitted' = {}
    /\ UNCHANGED <<convVars, sent, draftVars, listed>>

-----------------------------------------------------------------------------
(* appendDraft: no reopen, and nothing on a deleted conversation.           *)
PostDraft(d) ==
    /\ Exists /\ draft[d] = "none"
    /\ draft' = [draft EXCEPT ![d] = "awaiting"]
    /\ By("assistant", {"draft_created"})
    /\ UNCHANGED <<convVars, sent, resolved, request, listed, portal>>

(* Its key again, in whatever state the draft is by now.                    *)
ReplayDraft(d) ==
    /\ Exists /\ draft[d] # "none"
    /\ By("assistant", {})
    /\ UNCHANGED <<convVars, sent, draftVars, listed, portal>>

CreateDraft(d) == PostDraft(d) \/ ReplayDraft(d)

(* What both requests read first.                                           *)
Preflight(a, kind, d) ==
    /\ request[a] = Idle
    /\ Exists /\ draft[d] = "awaiting"
    /\ request' = [request EXCEPT ![a] = [kind |-> kind, draft |-> d]]
    /\ By("agent", {})
    /\ UNCHANGED <<convVars, sent, draft, resolved, listed, portal>>

AskApproval(a, d) == status # "spam" /\ Preflight(a, "approve", d)
AskDiscard(a, d) == Preflight(a, "discard", d)

(* Mutant of StillAwaiting: the UPDATE is WHERE id = $1 alone.              *)
AnyDraft(d) == draft[d] # "none"

(* WHERE id = $1 AND draft_status = 'awaiting_review'.                      *)
StillAwaiting(d) == draft[d] = "awaiting"

(* Mutant of ApprovalRefused: the preflight's answer is trusted.            *)
ApprovalNotRechecked == FALSE

(* The status under the row lock, whatever the preflight saw.               *)
ApprovalRefused == status \in {"deleted", "spam"}

Resolve(a, outcome) ==
    LET d == request[a].draft IN
    /\ request' = [request EXCEPT ![a] = Idle]
    /\ IF StillAwaiting(d)
       THEN /\ draft' = [draft EXCEPT ![d] = outcome]
            /\ resolved' = [resolved EXCEPT ![d] = @ + 1]
            /\ By("agent", {"draft_resolved"})
       ELSE /\ UNCHANGED <<draft, resolved>>
            /\ By("agent", {})

(* resolveDraft, approve: the reopening comes before the draft's own UPDATE *)
(* and is committed with it even when that matches no row.                  *)
Approve(a) ==
    /\ request[a].kind = "approve" /\ ~ApprovalRefused
    /\ status' = IF status = "closed" THEN "active" ELSE status
    /\ Resolve(a, "approved")
    /\ UNCHANGED <<timer, inbound, sent, listed, portal>>

RefuseApproval(a) ==
    /\ request[a].kind = "approve" /\ ApprovalRefused
    /\ request' = [request EXCEPT ![a] = Idle]
    /\ By("agent", {})
    /\ UNCHANGED <<convVars, sent, draft, resolved, listed, portal>>

(* resolveDraft, discard: the conversation row is neither read nor locked.  *)
Discard(a) ==
    /\ request[a].kind = "discard"
    /\ Resolve(a, "discarded")
    /\ UNCHANGED <<convVars, sent, listed, portal>>

-----------------------------------------------------------------------------
BecomesDue ==
    /\ timer = "ahead"
    /\ timer' = "due"
    /\ By("nobody", {})
    /\ UNCHANGED <<status, inbound, sent, draftVars, listed, portal>>

(* Mutant of Due: only conversations of another status are looked for.      *)
DueIfClosed == status = "closed" /\ timer = "due"

Due == status = "pending" /\ timer = "due"

(* runSnoozeWake lists the due ids ...                                      *)
WakeList ==
    /\ ~listed /\ Due
    /\ listed' = TRUE
    /\ By("nobody", {})
    /\ UNCHANGED <<convVars, sent, draftVars, portal>>

(* ... and sets each to active if it is still pending.                      *)
Wake ==
    /\ listed
    /\ listed' = FALSE
    /\ Acts("timer")
    /\ IF status = "pending"
       THEN Transition("pending", "active", "none")
       ELSE UNCHANGED <<status, timer>> /\ emitted' = {}
    /\ UNCHANGED <<inbound, sent, draftVars, portal>>

-----------------------------------------------------------------------------
Next ==
    \/ FoundByMail \/ FoundByCustomer
    \/ AppendInbound \/ AppendCustomerReply
    \/ \E r \in Replies, then \in {"none", "closed", "pending"} : AgentReply(r, then)
    \/ \E who \in {"agent", "assistant"} : PostNote(who)
    \/ PutTags \/ PutAssignee
    \/ \E s \in ApiStatuses, until \in {"none", "ahead"} : PatchConversation(s, until)
    \/ Delete
    \/ PortalFinds \/ PortalReads \/ PortalAnswers
    \/ \E d \in Drafts :
        CreateDraft(d) \/ \E a \in Agents : AskApproval(a, d) \/ AskDiscard(a, d)
    \/ \E a \in Agents : Approve(a) \/ RefuseApproval(a) \/ Discard(a)
    \/ BecomesDue \/ WakeList \/ Wake

Spec == Init /\ [][Next]_vars

(* Time passes, and the snooze-wake cron keeps running.                     *)
FairSpec == Spec /\ WF_vars(BecomesDue) /\ WF_vars(WakeList) /\ WF_vars(Wake)

-----------------------------------------------------------------------------
(* A draft has one resolution and one draft.resolved event, however many    *)
(* approve and discard requests passed their preflight.                     *)
ResolvedOnce ==
    /\ TypeOK
    /\ \A d \in Drafts :
        resolved[d] = IF draft[d] \in {"approved", "discarded"} THEN 1 ELSE 0

(* A customer's message is never stored where it stays out of sight: the    *)
(* conversation comes back from closed, spam and snoozed.                   *)
MessagesSurface ==
    [][inbound' # inbound /\ Exists =>
          status' = "active" \/ (status' = "pending" /\ timer' = "none")]_vars

(* No draft becomes mail from a deleted or junked conversation, nor is left *)
(* behind in a closed one, whatever the approval's preflight read.          *)
ApprovalRespectsStatus ==
    [][\A d \in Drafts : (draft[d] # "approved" /\ draft'[d] = "approved") =>
          status \notin {"deleted", "spam"} /\ status' \in {"active", "pending"}]_vars

(* A customer is never shown a conversation, or a status, that is junked or *)
(* deleted when the answer is decided, although it was neither when the     *)
(* read began: the spam verdict is not disclosed.                           *)
SpamUndisclosed ==
    [][shown' # "nothing" => shown' = status /\ status \notin {"spam", "deleted"}]_vars

(* A snooze that is due ends.                                               *)
SnoozeEnds == timer = "due" ~> timer # "due"

-----------------------------------------------------------------------------
(* What the documents say and the code does not keep (README, Divergences). *)

(* substrate-v1.md: no event of any type fires for a deleted conversation.  *)
NothingAfterDeletion == [][status = "deleted" => emitted' = {}]_vars

(* agent-inbox-v1.md: plain pending stays until an Agent changes it.        *)
PlainPendingStays ==
    [][(status = "pending" /\ timer = "none" /\ status' = "active") => actor' = "agent"]_vars

(* A resolveDraft that resolves nothing leaves the conversation as it was.  *)
LostApprovalChangesNothing ==
    [][(\E a \in Agents : request[a] # Idle /\ request'[a] = Idle) /\ resolved' = resolved
          => status' = status]_vars
=============================================================================
