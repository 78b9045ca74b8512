---------------------- MODULE ConversationEvents_proofs ----------------------
(***************************************************************************)
(* Proofs about conversations and about the webhooks that carry their      *)
(* events, for any drafts, requests, events, endpoints, drains and limits. *)
(*                                                                         *)
(* Conversations: each draft has been resolved as often as its status says *)
(* (ResolvedOnce), by itself inductive; the rest is what a transaction     *)
(* decides under the row lock.                                             *)
(*                                                                         *)
(* EventWebhooks: NoEventDropped is not inductive, for a drain may be      *)
(* about to mark an event of which it has listed too little.  A drain that *)
(* fans out has listed every endpoint that has wanted its events without a *)
(* break (Listings), and what it has handed over was queued (Handovers).   *)
(* BrakeHolds needs that an endpoint not yet registered has no delivery    *)
(* (Unregistered), and that a job still to be counted was not (Tally).     *)
(***************************************************************************)
EXTENDS Conversations, EventWebhooks, TLAPS

-----------------------------------------------------------------------------
(* The types of a conversation.                                             *)
LEMMA IdleIsRequest == Idle \in Request /\ Idle.kind = "idle" /\ Idle.draft = NoDraft
BY DEF Idle, Request

(* What the actions of Next may do to the state, for any argument.          *)
LEMMA ConversationSteps ==
  ASSUME Next
  PROVE  \/ \E s \in {"active", "spam"} : Found(s)
         \/ Exists /\ Received
         \/ \E r \in Replies, then \in {"none", "closed", "pending"} : AgentReply(r, then)
         \/ \E who \in {"agent", "assistant"} : PostNote(who)
         \/ PutTags \/ PutAssignee
         \/ \E s \in ApiStatuses, until \in {"none", "ahead"} : LegalPatch(s, until) /\ SetStatus(s, until)
         \/ Delete
         \/ PortalFinds \/ PortalReads \/ PortalAnswers
         \/ \E d \in Drafts : PostDraft(d) \/ ReplayDraft(d)
         \/ \E d \in Drafts, a \in Agents, kind \in {"approve", "discard"} : Preflight(a, kind, d)
         \/ \E a \in Agents : Approve(a) \/ RefuseApproval(a) \/ Discard(a)
         \/ BecomesDue \/ WakeList \/ Wake
BY DEF Next, FoundByMail, FoundByCustomer, AppendInbound, AppendCustomerReply, PatchConversation,
       CreateDraft, AskApproval, AskDiscard

(* The types of a conversation: what is snoozed is pending, after every     *)
(* reply, message, patch, approval, deletion and wake.                      *)
THEOREM TypeCorrect == Spec => []TypeOK
<1>1. Init => TypeOK
  <2>1. Init => request \in [Agents -> Request] /\ listed \in BOOLEAN
    BY IdleIsRequest DEF Init
  <2> QED BY <2>1 DEF Init, TypeOK
<1>2. TypeOK /\ [Next]_vars => TypeOK'
  <2> SUFFICES ASSUME TypeOK, [Next]_vars PROVE TypeOK'
    OBVIOUS
  <2> USE DEF TypeOK, By, Acts, EventTypes
  <2>1. ASSUME NEW s \in {"active", "spam"}, Found(s) PROVE TypeOK'
    BY <2>1 DEF Found, ApiStatuses, draftVars
  <2>2. ASSUME Exists, Received PROVE TypeOK'
    BY <2>2 DEF Received, WokenByCustomer, ApiStatuses, draftVars
  <2>3. ASSUME NEW r \in Replies, NEW then \in {"none", "closed", "pending"}, AgentReply(r, then)
        PROVE  TypeOK'
    <3>1. CASE then = "none"
      BY <2>3, <3>1 DEF AgentReply, Exists, ApiStatuses, draftVars
    <3>2. CASE then # "none"
      BY <2>3, <3>2 DEF AgentReply, Transition, ApiStatuses, draftVars
    <3> QED BY <3>1, <3>2
  <2>4. ASSUME NEW who \in {"agent", "assistant"}, PostNote(who) PROVE TypeOK'
    BY <2>4 DEF PostNote, convVars, draftVars
  <2>5. CASE PutTags \/ PutAssignee
    BY <2>5 DEF PutTags, PutAssignee, convVars, draftVars
  <2>6. ASSUME NEW s \in ApiStatuses, NEW until \in {"none", "ahead"}, SetStatus(s, until) PROVE TypeOK'
    BY <2>6 DEF SetStatus, Transition, draftVars
  <2>7. CASE Delete
    BY <2>7 DEF Delete, draftVars
  <2>8. CASE PortalFinds \/ PortalReads
    BY <2>8 DEF PortalFinds, PortalReads, convVars, draftVars
  <2>9. CASE PortalAnswers
    BY <2>9 DEF PortalAnswers, StillVisible, CustomerVisible, ApiStatuses, convVars, draftVars
  <2>10. ASSUME NEW d \in Drafts, PostDraft(d) \/ ReplayDraft(d) PROVE TypeOK'
    BY <2>10 DEF PostDraft, ReplayDraft, convVars, draftVars
  <2>11. ASSUME NEW d \in Drafts, NEW a \in Agents, NEW kind \in {"approve", "discard"}, Preflight(a, kind, d)
         PROVE  TypeOK'
    <3>1. [kind |-> kind, draft |-> d] \in Request
      BY DEF Request
    <3> QED BY <2>11, <3>1 DEF Preflight, convVars
  <2>12. ASSUME NEW a \in Agents, NEW outcome \in {"approved", "discarded"}, Resolve(a, outcome)
         PROVE  /\ draft' \in [Drafts -> {"none", "awaiting", "approved", "discarded"}]
                /\ resolved' \in [Drafts -> Nat] /\ request' \in [Agents -> Request]
                /\ emitted' \subseteq EventTypes /\ actor' = "agent" /\ shown' = "nothing"
    BY <2>12, IdleIsRequest DEF Resolve
  <2>13. ASSUME NEW a \in Agents, Approve(a) PROVE TypeOK'
    BY <2>12, <2>13 DEF Approve, ApiStatuses
  <2>14. ASSUME NEW a \in Agents, RefuseApproval(a) PROVE TypeOK'
    BY <2>14, IdleIsRequest DEF RefuseApproval, convVars
  <2>15. ASSUME NEW a \in Agents, Discard(a) PROVE TypeOK'
    BY <2>12, <2>15 DEF Discard, convVars
  <2>16. CASE BecomesDue \/ WakeList
    BY <2>16 DEF BecomesDue, WakeList, convVars, draftVars
  <2>17. CASE Wake
    BY <2>17 DEF Wake, Transition, ApiStatuses, draftVars
  <2>18. CASE UNCHANGED vars
    BY <2>18 DEF vars, convVars, draftVars, history
  <2> QED BY <2>1, <2>2, <2>3, <2>4, <2>5, <2>6, <2>7, <2>8, <2>9, <2>10, <2>11, <2>13, <2>14, <2>15,
             <2>16, <2>17, <2>18, ConversationSteps
<1> QED BY <1>1, <1>2, PTL DEF Spec

(* A draft is resolved as often as its status says.                         *)
Resolutions == \A d \in Drafts : resolved[d] = IF draft[d] \in {"approved", "discarded"} THEN 1 ELSE 0

(* A draft has one resolution and one draft.resolved event, however many    *)
(* approvals and discards passed their preflight: resolveDraft updates the  *)
(* row only while it awaits review.                                         *)
THEOREM DraftsResolvedOnce == Spec => []ResolvedOnce
<1>1. Init => Resolutions
  BY DEF Init, Resolutions
<1>2. TypeOK /\ Resolutions /\ [Next]_vars => Resolutions'
  <2> SUFFICES ASSUME TypeOK, Resolutions, [Next]_vars PROVE Resolutions'
    OBVIOUS
  <2>0. /\ draft \in [Drafts -> {"none", "awaiting", "approved", "discarded"}]
        /\ resolved \in [Drafts -> Nat]
    BY DEF TypeOK
  <2>1. ASSUME NEW a \in Agents, NEW outcome \in {"approved", "discarded"}, Resolve(a, outcome)
        PROVE  Resolutions'
    BY <2>0, <2>1 DEF Resolve, StillAwaiting, Resolutions
  <2>2. ASSUME NEW a \in Agents, Approve(a) \/ Discard(a) PROVE Resolutions'
    BY <2>1, <2>2 DEF Approve, Discard
  <2>3. ASSUME NEW d \in Drafts, PostDraft(d) PROVE Resolutions'
    BY <2>0, <2>3 DEF PostDraft, Resolutions
  <2>4. CASE UNCHANGED <<draft, resolved>>
    BY <2>4 DEF Resolutions
  <2>5. ASSUME NEW a \in Agents, RefuseApproval(a) \/ \E d \in Drafts, kind \in {"approve", "discard"} :
                                                         Preflight(a, kind, d)
        PROVE  UNCHANGED <<draft, resolved>>
    BY <2>5 DEF RefuseApproval, Preflight
  <2>6. ASSUME \/ \E s \in {"active", "spam"} : Found(s)
               \/ Received
               \/ \E r \in Replies, then \in {"none", "closed", "pending"} : AgentReply(r, then)
               \/ \E who \in {"agent", "assistant"} : PostNote(who)
               \/ PutTags \/ PutAssignee \/ Delete
               \/ \E s \in ApiStatuses, until \in {"none", "ahead"} : SetStatus(s, until)
               \/ \E d \in Drafts : ReplayDraft(d)
        PROVE  UNCHANGED <<draft, resolved>>
    BY <2>6 DEF Found, Received, AgentReply, PostNote, PutTags, PutAssignee, SetStatus, Delete,
                ReplayDraft, draftVars
  <2>7. ASSUME PortalFinds \/ PortalReads \/ PortalAnswers \/ BecomesDue \/ WakeList \/ Wake \/ UNCHANGED vars
        PROVE  UNCHANGED <<draft, resolved>>
    BY <2>7 DEF PortalFinds, PortalReads, PortalAnswers, BecomesDue, WakeList, Wake, vars, draftVars
  <2> QED BY <2>2, <2>3, <2>4, <2>5, <2>6, <2>7, ConversationSteps
<1>3. TypeOK /\ Resolutions => ResolvedOnce
  BY DEF Resolutions, ResolvedOnce
<1> QED BY <1>1, <1>2, <1>3, TypeCorrect, PTL DEF Spec

(* A customer's message comes to where it is seen: what appends one reads   *)
(* the status under the row lock and wakes what is closed, junked or        *)
(* snoozed (appendInboundThread, appendCustomerReply).                      *)
THEOREM MessagesAreSeen == Spec => MessagesSurface
<1> DEFINE Seen == status' = "active" \/ (status' = "pending" /\ timer' = "none")
<1>1. TypeOK /\ [Next]_vars => (inbound' # inbound /\ Exists => Seen)
  <2> SUFFICES ASSUME TypeOK, [Next]_vars, inbound' # inbound, Exists PROVE Seen
    OBVIOUS
  <2>1. CASE Received
    BY <2>1 DEF Received, WokenByCustomer, Exists, TypeOK, ApiStatuses
  <2>2. ASSUME NEW s \in {"active", "spam"}, Found(s) PROVE FALSE
    BY <2>2 DEF Found, Exists
  <2>3. ASSUME \/ \E r \in Replies, then \in {"none", "closed", "pending"} : AgentReply(r, then)
               \/ \E who \in {"agent", "assistant"} : PostNote(who)
               \/ PutTags \/ PutAssignee \/ Delete
               \/ \E s \in ApiStatuses, until \in {"none", "ahead"} : SetStatus(s, until)
               \/ \E d \in Drafts : PostDraft(d) \/ ReplayDraft(d)
        PROVE  FALSE
    BY <2>3 DEF AgentReply, PostNote, PutTags, PutAssignee, SetStatus, Delete, PostDraft, ReplayDraft,
                convVars
  <2>4. ASSUME NEW a \in Agents,
               \/ \E d \in Drafts, kind \in {"approve", "discard"} : Preflight(a, kind, d)
               \/ Approve(a) \/ RefuseApproval(a) \/ Discard(a)
        PROVE  FALSE
    BY <2>4 DEF Preflight, Approve, RefuseApproval, Discard, convVars
  <2>5. ASSUME PortalFinds \/ PortalReads \/ PortalAnswers \/ BecomesDue \/ WakeList \/ Wake \/ UNCHANGED vars
        PROVE  FALSE
    BY <2>5 DEF PortalFinds, PortalReads, PortalAnswers, BecomesDue, WakeList, Wake, vars, convVars
  <2> QED BY <2>1, <2>2, <2>3, <2>4, <2>5, ConversationSteps
<1> QED BY <1>1, TypeCorrect, PTL DEF Spec, MessagesSurface

(* Nobody has asked about a draft of a conversation that is not there.      *)
Unasked == status = "none" => \A a \in Agents : request[a] = Idle

LEMMA UnaskedHolds == Spec => []Unasked
<1>1. Init => Unasked
  BY DEF Init, Unasked
<1>2. TypeOK /\ Unasked /\ [Next]_vars => Unasked'
  <2> SUFFICES ASSUME TypeOK, Unasked, [Next]_vars, status' = "none"
               PROVE  \A a \in Agents : request'[a] = Idle
    BY DEF Unasked
  <2>1. CASE UNCHANGED <<status, request>>
    BY <2>1 DEF Unasked
  <2>2. ASSUME NEW a \in Agents, Approve(a) \/ RefuseApproval(a) \/ Discard(a)
        PROVE  FALSE
    <3>1. request[a].kind # "idle" /\ status # "none"
      BY <2>2, IdleIsRequest DEF Approve, RefuseApproval, Discard, Unasked
    <3> QED BY <2>2, <3>1 DEF Approve, RefuseApproval, Discard, convVars
  <2>3. ASSUME \/ \E s \in {"active", "spam"} : Found(s)
               \/ Exists /\ Received
               \/ \E r \in Replies, then \in {"none", "closed", "pending"} : AgentReply(r, then)
               \/ Delete
               \/ \E s \in ApiStatuses, until \in {"none", "ahead"} : SetStatus(s, until)
               \/ Wake
        PROVE  UNCHANGED <<status, request>>
    BY <2>3 DEF Found, Exists, Received, AgentReply, Transition, Delete, SetStatus, Wake, ApiStatuses,
                draftVars
  <2>4. ASSUME NEW a \in Agents, \E d \in Drafts, kind \in {"approve", "discard"} : Preflight(a, kind, d)
        PROVE  FALSE
    BY <2>4 DEF Preflight, Exists, convVars
  <2>5. ASSUME \/ \E who \in {"agent", "assistant"} : PostNote(who)
               \/ PutTags \/ PutAssignee
               \/ \E d \in Drafts : PostDraft(d) \/ ReplayDraft(d)
               \/ PortalFinds \/ PortalReads \/ PortalAnswers \/ BecomesDue \/ WakeList \/ UNCHANGED vars
        PROVE  UNCHANGED <<status, request>>
    BY <2>5 DEF PostNote, PutTags, PutAssignee, PostDraft, ReplayDraft, PortalFinds, PortalReads,
                PortalAnswers, BecomesDue, WakeList, vars, convVars, draftVars
  <2> QED BY <2>1, <2>2, <2>3, <2>4, <2>5, ConversationSteps
<1> QED BY <1>1, <1>2, TypeCorrect, PTL DEF Spec

(* A draft is approved in a conversation that is open, whatever the         *)
(* preflight read: resolveDraft looks at the status again under the row     *)
(* lock, and reopens what is closed before the draft becomes mail.          *)
THEOREM ApprovalsAreRechecked == Spec => ApprovalRespectsStatus
<1>1. TypeOK /\ Unasked /\ [Next]_vars =>
        \A d \in Drafts : (draft[d] # "approved" /\ draft'[d] = "approved") =>
           status \notin {"deleted", "spam"} /\ status' \in {"active", "pending"}
  <2> SUFFICES ASSUME TypeOK, Unasked, [Next]_vars,
                      NEW d \in Drafts, draft[d] # "approved", draft'[d] = "approved"
               PROVE  status \notin {"deleted", "spam"} /\ status' \in {"active", "pending"}
    OBVIOUS
  <2>0. draft \in [Drafts -> {"none", "awaiting", "approved", "discarded"}]
    BY DEF TypeOK
  <2>1. ASSUME NEW a \in Agents, Approve(a)
        PROVE  status \notin {"deleted", "spam"} /\ status' \in {"active", "pending"}
    <3>1. status # "none"
      BY <2>1, IdleIsRequest DEF Approve, Unasked
    <3> QED BY <2>1, <3>1 DEF Approve, ApprovalRefused, TypeOK, ApiStatuses
  <2>2. ASSUME NEW a \in Agents, Discard(a) PROVE FALSE
    BY <2>0, <2>2 DEF Discard, Resolve
  <2>3. ASSUME NEW e \in Drafts, PostDraft(e) PROVE FALSE
    BY <2>0, <2>3 DEF PostDraft
  <2>4. ASSUME NEW a \in Agents, RefuseApproval(a) \/ \E e \in Drafts, kind \in {"approve", "discard"} :
                                                         Preflight(a, kind, e)
        PROVE  FALSE
    BY <2>4 DEF RefuseApproval, Preflight
  <2>5. ASSUME \/ \E s \in {"active", "spam"} : Found(s)
               \/ Received
               \/ \E r \in Replies, then \in {"none", "closed", "pending"} : AgentReply(r, then)
               \/ \E who \in {"agent", "assistant"} : PostNote(who)
               \/ PutTags \/ PutAssignee \/ Delete
               \/ \E s \in ApiStatuses, until \in {"none", "ahead"} : SetStatus(s, until)
               \/ \E e \in Drafts : ReplayDraft(e)
        PROVE  FALSE
    BY <2>5 DEF Found, Received, AgentReply, PostNote, PutTags, PutAssignee, SetStatus, Delete,
                ReplayDraft, draftVars
  <2>6. ASSUME PortalFinds \/ PortalReads \/ PortalAnswers \/ BecomesDue \/ WakeList \/ Wake \/ UNCHANGED vars
        PROVE  FALSE
    BY <2>6 DEF PortalFinds, PortalReads, PortalAnswers, BecomesDue, WakeList, Wake, vars, draftVars
  <2> QED BY <2>1, <2>2, <2>3, <2>4, <2>5, <2>6, ConversationSteps
<1> QED BY <1>1, TypeCorrect, UnaskedHolds, PTL DEF Spec, ApprovalRespectsStatus

(* The customer is told the status of the row as the transaction that       *)
(* answers reads it again, and nothing when that is junked or deleted, or   *)
(* was when the read began (getCustomerConversation).                       *)
THEOREM VerdictsAreKept == Spec => SpamUndisclosed
<1>1. TypeOK /\ [Next]_vars =>
        ((shown' # "nothing" => shown' = status /\ status \notin {"spam", "deleted"}) \/ UNCHANGED vars)
  <2> SUFFICES ASSUME TypeOK, Next, shown' # "nothing"
               PROVE  shown' = status /\ status \notin {"spam", "deleted"}
    OBVIOUS
  <2>1. CASE PortalAnswers
    BY <2>1 DEF PortalAnswers, StillVisible, CustomerVisible
  <2>3. ASSUME \/ \E s \in {"active", "spam"} : Found(s)
               \/ Received
               \/ \E r \in Replies, then \in {"none", "closed", "pending"} : AgentReply(r, then)
               \/ \E who \in {"agent", "assistant"} : PostNote(who)
               \/ PutTags \/ PutAssignee \/ Delete
               \/ \E s \in ApiStatuses, until \in {"none", "ahead"} : SetStatus(s, until)
               \/ \E e \in Drafts : PostDraft(e) \/ ReplayDraft(e)
        PROVE  FALSE
    BY <2>3 DEF Found, Received, AgentReply, PostNote, PutTags, PutAssignee, SetStatus, Delete,
                PostDraft, ReplayDraft, By, Acts
  <2>4. ASSUME NEW a \in Agents,
               \/ \E e \in Drafts, kind \in {"approve", "discard"} : Preflight(a, kind, e)
               \/ Approve(a) \/ RefuseApproval(a) \/ Discard(a)
        PROVE  FALSE
    BY <2>4 DEF Preflight, Approve, RefuseApproval, Discard, Resolve, By, Acts
  <2>5. ASSUME PortalFinds \/ PortalReads \/ BecomesDue \/ WakeList \/ Wake
        PROVE  FALSE
    BY <2>5 DEF PortalFinds, PortalReads, BecomesDue, WakeList, Wake, By, Acts
  <2> QED BY <2>1, <2>3, <2>4, <2>5, ConversationSteps
<1> QED BY <1>1, TypeCorrect, PTL DEF Spec, SpamUndisclosed

-----------------------------------------------------------------------------
(* Webhooks.  The types, in the parts that steps disturb.                   *)
DrainState == [stage : {"idle", "listing", "fanning"}, batch : SUBSET Events,
               listed : SUBSET Endpoints, handed : SUBSET Wants]

OutboxTypes == /\ event \in [Events -> {"none", "pending", "dispatched"}]
               /\ lease \in [Events -> {"free", "held", "lapsed"}]
EndpointTypes == /\ endpoint \in [Endpoints -> {"new", "active", "disabled", "auto_disabled", "absent"}]
                 /\ failures \in [Endpoints -> Nat] /\ narrowed \subseteq Endpoints
JobTypes == /\ job \in [Wants -> {"none", "waiting"} \cup Running]
            /\ attempts \in [Wants -> Nat]
            /\ \A d \in Wants : job[d] \in Running => attempts[d] > 0
DrainTypes == drain \in [Drains -> DrainState]
RecordTypes == /\ steady \in [Events -> SUBSET Endpoints]
               /\ enqueued \in [Wants -> Nat] /\ counted \in [Wants -> Nat] /\ deaths \in [Wants -> Nat]
               /\ got \in [Wants -> BOOLEAN] /\ buried \subseteq Wants
BoundTypes == changes \in Nat /\ faults \in Nat

LEMMA WebhookTypeParts ==
  WebhooksTypeOK <=> /\ OutboxTypes /\ EndpointTypes /\ JobTypes
                     /\ DrainTypes /\ RecordTypes /\ BoundTypes
BY DEF WebhooksTypeOK, OutboxTypes, EndpointTypes, JobTypes, DrainTypes, RecordTypes, BoundTypes, DrainState

LEMMA WebhookTypePartsPrimed ==
  OutboxTypes' /\ EndpointTypes' /\ JobTypes' /\ DrainTypes' /\ RecordTypes' /\ BoundTypes'
     => WebhooksTypeOK'
BY DEF WebhooksTypeOK, OutboxTypes, EndpointTypes, JobTypes, DrainTypes, RecordTypes, BoundTypes, DrainState

LEMMA Pairs == \A d \in Wants : d[1] \in Events /\ d[2] \in Endpoints
BY WebhooksAssumption

LEMMA NoDrainType ==
  /\ NoDrain \in DrainState
  /\ NoDrain.stage = "idle" /\ NoDrain.batch = {} /\ NoDrain.listed = {} /\ NoDrain.handed = {}
BY DEF NoDrain, DrainState

(* What the steps of a drain do to its local state.                         *)
LEMMA ClaimsBatch ==
  ASSUME DrainTypes, NEW w \in Drains, Claim(w)
  PROVE  /\ DrainTypes' /\ \A v \in Drains \ {w} : drain'[v] = drain[v]
         /\ drain'[w].stage = "listing"
         /\ drain'[w].batch = {e \in Events : event[e] = "pending" /\ lease[e] # "held"}
         /\ drain'[w].listed = {} /\ drain'[w].handed = {}
<1> DEFINE batch == {e \in Events : event[e] = "pending" /\ lease[e] # "held"}
<1>1. PICK d \in {[NoDrain EXCEPT !.stage = "listing", !.batch = batch]} : drain' = [drain EXCEPT ![w] = d]
  BY DEF Claim
<1>2. d = [stage |-> "listing", batch |-> batch, listed |-> {}, handed |-> {}]
  BY <1>1 DEF NoDrain
<1>3. d \in DrainState
  BY <1>2 DEF DrainState
<1> QED BY <1>1, <1>2, <1>3 DEF DrainTypes

LEMMA ListsEndpoints ==
  ASSUME DrainTypes, EndpointTypes, NEW w \in Drains, ListEndpoints(w)
  PROVE  /\ DrainTypes' /\ \A v \in Drains \ {w} : drain'[v] = drain[v]
         /\ drain'[w].stage = "fanning" /\ drain'[w].listed = Matching
         /\ drain'[w].batch = drain[w].batch /\ drain'[w].handed = drain[w].handed
<1>1. PICK d \in {[drain[w] EXCEPT !.stage = "fanning", !.listed = Matching]} :
         drain' = [drain EXCEPT ![w] = d]
  BY DEF ListEndpoints, DrainTypes
<1>2. drain[w] \in DrainState /\ Matching \in SUBSET Endpoints
  BY DEF DrainTypes, Matching
<1>3. /\ d \in DrainState /\ d.stage = "fanning" /\ d.listed = Matching
      /\ d.batch = drain[w].batch /\ d.handed = drain[w].handed
  BY <1>1, <1>2 DEF DrainState
<1> QED BY <1>1, <1>3 DEF DrainTypes

LEMMA HandsOver ==
  ASSUME DrainTypes, NEW w \in Drains, NEW e, NEW p \in Wants, Enqueue(w, e, p)
  PROVE  /\ DrainTypes' /\ \A v \in Drains \ {w} : drain'[v] = drain[v]
         /\ drain'[w].stage = "fanning" /\ drain'[w].listed = drain[w].listed
         /\ drain'[w].batch = drain[w].batch /\ drain'[w].handed = drain[w].handed \cup {p}
<1>1. PICK d \in {[drain[w] EXCEPT !.handed = drain[w].handed \cup {p}]} : drain' = [drain EXCEPT ![w] = d]
  BY DEF Enqueue, DrainTypes
<1>2. drain[w] \in DrainState /\ drain[w].stage = "fanning"
  BY DEF DrainTypes, Enqueue
<1>3. /\ d \in DrainState /\ d.stage = "fanning" /\ d.listed = drain[w].listed
      /\ d.batch = drain[w].batch /\ d.handed = drain[w].handed \cup {p}
  BY <1>1, <1>2 DEF DrainState
<1> QED BY <1>1, <1>3 DEF DrainTypes

LEMMA Dispatches ==
  ASSUME DrainTypes, NEW w \in Drains, NEW e, Dispatch(w, e)
  PROVE  /\ DrainTypes' /\ \A v \in Drains \ {w} : drain'[v] = drain[v]
         /\ \/ drain'[w] = NoDrain
            \/ /\ drain'[w].stage = drain[w].stage /\ drain'[w].listed = drain[w].listed
               /\ drain'[w].batch = drain[w].batch \ {e} /\ drain'[w].handed = drain[w].handed
<1>1. CASE drain[w].batch = {e}
  <2>1. drain' = [drain EXCEPT ![w] = NoDrain]
    BY <1>1 DEF Dispatch
  <2> QED BY <2>1, NoDrainType DEF DrainTypes
<1>2. CASE drain[w].batch # {e}
  <2>1. PICK d \in {[drain[w] EXCEPT !.batch = drain[w].batch \ {e}]} : drain' = [drain EXCEPT ![w] = d]
    BY <1>2 DEF Dispatch, DrainTypes
  <2>2. drain[w] \in DrainState
    BY DEF DrainTypes
  <2>3. /\ d \in DrainState /\ d.stage = drain[w].stage /\ d.listed = drain[w].listed
        /\ d.batch = drain[w].batch \ {e} /\ d.handed = drain[w].handed
    BY <2>1, <2>2 DEF DrainState
  <2> QED BY <2>1, <2>3 DEF DrainTypes
<1> QED BY <1>1, <1>2

(* A run of a delivery changes its own job.                                 *)
LEMMA StageType ==
  ASSUME JobTypes, NEW d \in Wants, NEW s \in {"none", "waiting"} \cup Running, Stage(d, s),
         attempts' \in [Wants -> Nat], \A c \in Wants : attempts'[c] >= attempts[c],
         s \in Running => attempts'[d] > 0
  PROVE  JobTypes' /\ \A c \in Wants \ {d} : job'[c] = job[c]
<1>1. job' \in [Wants -> {"none", "waiting"} \cup Running]
  BY DEF JobTypes, Stage
<1>2. job'[d] = s /\ \A c \in Wants \ {d} : job'[c] = job[c]
  BY DEF JobTypes, Stage
<1>3. ASSUME NEW c \in Wants, job'[c] \in Running PROVE attempts'[c] > 0
  <2>1. CASE c = d
    BY <1>2, <1>3, <2>1
  <2>2. CASE c # d
    <3>1. attempts[c] > 0 /\ attempts[c] \in Nat /\ attempts'[c] \in Nat /\ attempts'[c] >= attempts[c]
      BY <1>2, <1>3, <2>2 DEF JobTypes
    <3> QED BY <3>1
  <2> QED BY <2>1, <2>2
<1> QED BY <1>1, <1>2, <1>3 DEF JobTypes

LEMMA FailureCounted ==
  ASSUME EndpointTypes, RecordTypes, NEW d \in Wants, CountFailure(d, d[2])
  PROVE  /\ EndpointTypes' /\ steady' \in [Events -> SUBSET Endpoints]
         /\ counted' = [counted EXCEPT ![d] = counted[d] + 1] /\ counted' \in [Wants -> Nat]
         /\ \A e \in Events : steady'[e] \subseteq steady[e]
<1>1. d[2] \in Endpoints
  BY Pairs
<1>2. failures[d[2]] + 1 \in Nat /\ counted[d] + 1 \in Nat
  BY <1>1 DEF EndpointTypes, RecordTypes
<1>3. counted' = [counted EXCEPT ![d] = counted[d] + 1] /\ counted' \in [Wants -> Nat]
  BY <1>2 DEF CountFailure, RecordTypes
<1>4. EndpointTypes'
  BY <1>1, <1>2 DEF CountFailure, EndpointTypes, admin
<1>5. steady' \in [Events -> SUBSET Endpoints] /\ \A e \in Events : steady'[e] \subseteq steady[e]
  BY DEF CountFailure, RecordTypes
<1> QED BY <1>3, <1>4, <1>5

LEMMA Administered ==
  ASSUME EndpointTypes, RecordTypes, BoundTypes, NEW p \in Endpoints, Administer(p)
  PROVE  /\ EndpointTypes' /\ steady' \in [Events -> SUBSET Endpoints] /\ changes' \in Nat
         /\ \A e \in Events : steady'[e] \subseteq steady[e]
         /\ UNCHANGED <<outbox, queue, drain, deliveryHistory, faults>>
<1>1. CASE Register(p)
  BY <1>1 DEF Register, EndpointTypes, RecordTypes, BoundTypes, outbox, queue, deliveryHistory
<1>2. CASE PatchEvents(p)
  BY <1>2 DEF PatchEvents, Disturb, AdminRequest, EndpointTypes, RecordTypes, BoundTypes, outbox, queue,
              deliveryHistory
<1>3. CASE Remove(p)
  BY <1>3 DEF Remove, Disturb, AdminRequest, EndpointTypes, RecordTypes, BoundTypes, outbox, queue,
              deliveryHistory
<1>4. ASSUME NEW s \in {"active", "disabled"}, PatchStatus(p, s)
      PROVE  /\ EndpointTypes' /\ steady' \in [Events -> SUBSET Endpoints] /\ changes' \in Nat
             /\ \A e \in Events : steady'[e] \subseteq steady[e]
             /\ UNCHANGED <<outbox, queue, drain, deliveryHistory, faults>>
  BY <1>4 DEF PatchStatus, Reset, Disturb, AdminRequest, EndpointTypes, RecordTypes, BoundTypes, outbox,
              queue, deliveryHistory
<1> QED BY <1>1, <1>2, <1>3, <1>4 DEF Administer

(* The types of the outbox, the endpoints and the deliveries, after every   *)
(* overlapping drain, death, late count and admin request.                  *)
THEOREM WebhooksTypeCorrect == WebhooksSpec => []WebhooksTypeOK
<1>1. WebhooksInit => WebhooksTypeOK
  <2> SUFFICES ASSUME WebhooksInit PROVE WebhooksTypeOK
    OBVIOUS
  <2>1. OutboxTypes /\ DrainTypes /\ BoundTypes
    BY NoDrainType DEF WebhooksInit, OutboxTypes, DrainTypes, BoundTypes
  <2>2. EndpointTypes
    <3>1. Threshold \in Nat
      BY WebhooksAssumption
    <3>2. 0..(Threshold - 1) \subseteq Nat
      BY <3>1
    <3> QED BY <3>2 DEF WebhooksInit, EndpointTypes
  <2>3. JobTypes
    BY DEF WebhooksInit, JobTypes, Running
  <2>4. RecordTypes
    <3>1. got \in [Wants -> BOOLEAN] /\ buried \subseteq Wants /\ steady \in [Events -> SUBSET Endpoints]
      BY DEF WebhooksInit
    <3> QED BY <3>1 DEF WebhooksInit, RecordTypes
  <2> QED BY <2>1, <2>2, <2>3, <2>4, WebhookTypeParts
<1>2. WebhooksTypeOK /\ [WebhooksNext]_webhookVars => WebhooksTypeOK'
  <2> SUFFICES ASSUME WebhooksTypeOK, [WebhooksNext]_webhookVars PROVE WebhooksTypeOK'
    OBVIOUS
  <2>0. OutboxTypes /\ EndpointTypes /\ JobTypes /\ DrainTypes /\ RecordTypes /\ BoundTypes
    BY WebhookTypeParts
  <2>a. /\ UNCHANGED outbox => OutboxTypes'
        /\ UNCHANGED admin => EndpointTypes'
        /\ UNCHANGED queue => JobTypes'
        /\ UNCHANGED drain => DrainTypes'
        /\ UNCHANGED <<steady, deliveryHistory>> => RecordTypes'
        /\ UNCHANGED <<changes, faults>> => BoundTypes'
    BY <2>0 DEF outbox, admin, queue, deliveryHistory, OutboxTypes, EndpointTypes, JobTypes, DrainTypes,
                RecordTypes, BoundTypes
  <2>b. UNCHANGED changes /\ (Fault \/ UNCHANGED faults) => BoundTypes'
    BY <2>0 DEF BoundTypes, Fault
  <2>1. ASSUME NEW e \in Events, Emit(e) PROVE WebhooksTypeOK'
    <3>1. OutboxTypes'
      BY <2>0, <2>1 DEF Emit, OutboxTypes
    <3>2. Matching \in SUBSET Endpoints
      BY DEF Matching
    <3>3. RecordTypes'
      BY <2>0, <2>1, <3>2 DEF Emit, RecordTypes, deliveryHistory
    <3> QED BY <2>a, <2>1, <3>1, <3>3, WebhookTypePartsPrimed DEF Emit
  <2>2. ASSUME NEW e \in Events, LeaseLapses(e) PROVE WebhooksTypeOK'
    <3>1. OutboxTypes'
      BY <2>0, <2>2 DEF LeaseLapses, OutboxTypes
    <3>2. UNCHANGED changes /\ (Fault \/ UNCHANGED faults)
      BY <2>2 DEF LeaseLapses
    <3> QED BY <2>a, <2>b, <2>2, <3>1, <3>2, WebhookTypePartsPrimed DEF LeaseLapses
  <2>3. ASSUME NEW w \in Drains, Claim(w) PROVE WebhooksTypeOK'
    <3>1. OutboxTypes' /\ DrainTypes'
      BY <2>0, <2>3, ClaimsBatch DEF Claim, OutboxTypes
    <3> QED BY <2>a, <2>3, <3>1, WebhookTypePartsPrimed DEF Claim
  <2>4. ASSUME NEW w \in Drains, ListEndpoints(w) PROVE WebhooksTypeOK'
    BY <2>0, <2>a, <2>4, ListsEndpoints, WebhookTypePartsPrimed DEF ListEndpoints
  <2>5. ASSUME NEW w \in Drains, NEW e \in Events, NEW d \in Wants, Enqueue(w, e, d) PROVE WebhooksTypeOK'
    <3>1. JobTypes'
      BY <2>0, <2>5 DEF Enqueue, JobTypes, Running, queue
    <3>2. UNCHANGED enqueued \/ enqueued' = [enqueued EXCEPT ![d] = enqueued[d] + 1]
      BY <2>5 DEF Enqueue
    <3>3. enqueued' \in [Wants -> Nat]
      BY <2>0, <3>2 DEF RecordTypes
    <3>4. RecordTypes'
      BY <2>0, <2>5, <3>3 DEF Enqueue, RecordTypes
    <3> QED BY <2>0, <2>a, <2>5, <3>1, <3>4, HandsOver, WebhookTypePartsPrimed DEF Enqueue
  <2>6. ASSUME NEW w \in Drains, NEW e \in Events, Dispatch(w, e) PROVE WebhooksTypeOK'
    <3>1. OutboxTypes'
      BY <2>0, <2>6 DEF Dispatch, OutboxTypes
    <3> QED BY <2>0, <2>a, <2>6, <3>1, Dispatches, WebhookTypePartsPrimed DEF Dispatch
  <2>7. ASSUME NEW w \in Drains, DrainDies(w) PROVE WebhooksTypeOK'
    <3>1. DrainTypes'
      BY <2>0, <2>7, NoDrainType DEF DrainDies, DrainTypes
    <3> QED BY <2>a, <2>b, <2>7, <3>1, WebhookTypePartsPrimed DEF DrainDies
  <2>8. ASSUME NEW d \in Wants, NEW s \in {"none", "waiting"} \cup Running, Stage(d, s),
               UNCHANGED <<outbox, drain, changes>>, Fault \/ UNCHANGED faults,
               UNCHANGED attempts, s \in Running => attempts[d] > 0,
               EndpointTypes', RecordTypes'
        PROVE  WebhooksTypeOK'
    <3>1. attempts' \in [Wants -> Nat] /\ \A c \in Wants : attempts'[c] >= attempts[c]
      BY <2>0, <2>8 DEF JobTypes
    <3>2. JobTypes'
      BY <2>0, <2>8, <3>1, StageType
    <3> QED BY <2>a, <2>b, <2>8, <3>2, WebhookTypePartsPrimed
  <2>9. ASSUME NEW d \in Wants, Deliver(d) PROVE WebhooksTypeOK'
    <3>1. PICK s \in {"none", "posting"} : Stage(d, s)
      BY <2>9 DEF Deliver, Bury
    <3>2. attempts' = [attempts EXCEPT ![d] = attempts[d] + 1] /\ attempts[d] \in Nat
      BY <2>0, <2>9 DEF Deliver, ClaimedAttempts, JobTypes
    <3>3. attempts' \in [Wants -> Nat] /\ attempts'[d] > 0 /\ \A c \in Wants : attempts'[c] >= attempts[c]
      BY <2>0, <3>2 DEF JobTypes
    <3>4. s \in {"none", "waiting"} \cup Running
      BY DEF Running
    <3>5. JobTypes'
      BY <2>0, <3>1, <3>3, <3>4, StageType
    <3>6. buried' \subseteq Wants
      BY <2>0, <2>9 DEF Deliver, Bury, RecordTypes
    <3>7. RecordTypes'
      BY <2>0, <2>9, <3>6 DEF Deliver, RecordTypes
    <3> QED BY <2>a, <2>9, <3>5, <3>7, WebhookTypePartsPrimed DEF Deliver
  <2>10. ASSUME NEW d \in Wants, Post(d) PROVE WebhooksTypeOK'
    <3>1. PICK s \in {"none", "succeeded", "failed", "refused"} : Stage(d, s)
      BY <2>10 DEF Post, Bury
    <3>2. s \in {"none", "waiting"} \cup Running /\ attempts[d] > 0
      BY <2>0, <2>10 DEF Post, JobTypes, Running
    <3>3. buried' \subseteq Wants
      BY <2>0, <2>10 DEF Post, Bury, RecordTypes
    <3>4. got' \in [Wants -> BOOLEAN]
      <4>1. UNCHANGED got \/ \E b \in BOOLEAN : got' = [got EXCEPT ![d] = b]
        BY <2>0, <2>10 DEF Post, RecordTypes
      <4> QED BY <2>0, <4>1 DEF RecordTypes
    <3>5. RecordTypes' /\ EndpointTypes'
      BY <2>0, <2>a, <2>10, <3>3, <3>4 DEF Post, RecordTypes
    <3>6. UNCHANGED <<outbox, drain, changes, attempts>> /\ (Fault \/ UNCHANGED faults)
      BY <2>10 DEF Post
    <3> QED BY <2>8, <3>1, <3>2, <3>5, <3>6
  <2>11. ASSUME NEW d \in Wants, RecordSuccess(d) PROVE WebhooksTypeOK'
    <3>1. PICK s \in {"acking", "failed"} : Stage(d, s)
      BY <2>11 DEF RecordSuccess
    <3>2. s \in {"none", "waiting"} \cup Running /\ attempts[d] > 0
      BY <2>0, <2>11 DEF RecordSuccess, JobTypes, Running
    <3>3. EndpointTypes'
      BY <2>0, <2>11 DEF RecordSuccess, EndpointTypes
    <3>4. /\ UNCHANGED <<outbox, drain, changes, attempts, steady, deliveryHistory>>
          /\ Fault \/ UNCHANGED faults
      BY <2>11 DEF RecordSuccess
    <3> QED BY <2>a, <2>8, <3>1, <3>2, <3>3, <3>4
  <2>12. ASSUME NEW d \in Wants, RecordFailure(d) \/ RecordThrows(d) PROVE WebhooksTypeOK'
    <3>1. PICK s \in {"waiting", "burying"} : Stage(d, s)
      BY <2>12 DEF RecordFailure, RecordThrows
    <3>2. s \in {"none", "waiting"} \cup Running /\ attempts[d] > 0
      BY <2>0, <2>12 DEF RecordFailure, RecordThrows, JobTypes, Running
    <3>3. CountFailure(d, d[2]) \/ UNCHANGED <<admin, steady, counted>>
      BY <2>12 DEF RecordFailure, RecordThrows
    <3>4. EndpointTypes' /\ steady' \in [Events -> SUBSET Endpoints] /\ counted' \in [Wants -> Nat]
      BY <2>0, <2>a, <3>3, FailureCounted DEF RecordTypes
    <3>5. UNCHANGED deaths \/ deaths' = [deaths EXCEPT ![d] = deaths[d] + 1]
      BY <2>12 DEF RecordFailure, RecordThrows
    <3>6. deaths' \in [Wants -> Nat]
      BY <2>0, <3>5 DEF RecordTypes
    <3>7. RecordTypes'
      BY <2>0, <2>12, <3>4, <3>6 DEF RecordFailure, RecordThrows, RecordTypes
    <3>8. UNCHANGED <<outbox, drain, changes, attempts>> /\ (Fault \/ UNCHANGED faults)
      BY <2>12 DEF RecordFailure, RecordThrows
    <3> QED BY <2>8, <3>1, <3>2, <3>4, <3>7, <3>8
  <2>13. ASSUME NEW d \in Wants, Finish(d) \/ DeliveryDies(d) PROVE WebhooksTypeOK'
    <3>1. PICK s \in {"none", "waiting"} : Stage(d, s)
      BY <2>13 DEF Finish, DeliveryDies, Bury
    <3>2. s \in {"none", "waiting"} \cup Running /\ s \notin Running
      BY DEF Running
    <3>3. UNCHANGED deaths \/ deaths' = [deaths EXCEPT ![d] = deaths[d] + 1]
      BY <2>13 DEF Finish, DeliveryDies
    <3>4. deaths' \in [Wants -> Nat] /\ buried' \subseteq Wants
      BY <2>0, <2>13, <3>3 DEF Finish, DeliveryDies, Bury, RecordTypes
    <3>5. RecordTypes' /\ EndpointTypes'
      BY <2>0, <2>a, <2>13, <3>4 DEF Finish, DeliveryDies, RecordTypes
    <3>6. UNCHANGED <<outbox, drain, changes, attempts>> /\ (Fault \/ UNCHANGED faults)
      BY <2>13 DEF Finish, DeliveryDies
    <3> QED BY <2>8, <3>1, <3>2, <3>5, <3>6
  <2>14. ASSUME NEW p \in Endpoints, Administer(p) PROVE WebhooksTypeOK'
    <3>1. /\ EndpointTypes' /\ steady' \in [Events -> SUBSET Endpoints] /\ changes' \in Nat
          /\ UNCHANGED <<outbox, queue, drain, deliveryHistory, faults>>
      BY <2>0, <2>14, Administered
    <3>2. RecordTypes' /\ BoundTypes'
      BY <2>0, <3>1 DEF RecordTypes, BoundTypes, deliveryHistory
    <3> QED BY <2>a, <3>1, <3>2, WebhookTypePartsPrimed
  <2>15. CASE UNCHANGED webhookVars
    BY <2>a, <2>15, WebhookTypePartsPrimed DEF webhookVars
  <2> QED BY <2>1, <2>2, <2>3, <2>4, <2>5, <2>6, <2>7, <2>9, <2>10, <2>11, <2>12, <2>13, <2>14, <2>15
          DEF WebhooksNext, DrainStep, DeliveryStep
<1> QED BY <1>1, <1>2, PTL DEF WebhooksSpec

-----------------------------------------------------------------------------
(* NoEventDropped.  An event has been written before a drain takes it, ...  *)
Batched == \A w \in Drains : \A e \in drain[w].batch : event[e] # "none"

(* ... what has wanted it without a break would be listed now, ...          *)
Wanting == \A e \in Events : event[e] # "none" =>
    \A p \in steady[e] : endpoint[p] = "active" /\ p \notin narrowed

(* ... and was listed by each drain that is fanning it out, ...             *)
Listings == \A w \in Drains : drain[w].stage = "fanning" =>
    \A e \in drain[w].batch : steady[e] \subseteq drain[w].listed

(* ... what a drain has handed over was queued, and what has a job too.     *)
Handovers == \A w \in Drains : \A d \in drain[w].handed : enqueued[d] > 0
Queued == \A d \in Wants : job[d] # "none" => enqueued[d] > 0

Delivered == \A d \in Wants :
    event[d[1]] = "dispatched" /\ d[2] \in steady[d[1]] => enqueued[d] > 0

Kept == Batched /\ Wanting /\ Listings /\ Handovers /\ Queued /\ Delivered

(* Steps that write no event, hand nothing over and queue nothing.          *)
LEMMA KeptWithout ==
  ASSUME WebhooksTypeOK, Kept, UNCHANGED <<event, drain, enqueued>>, Wanting',
         \A e \in Events : steady'[e] \subseteq steady[e],
         \A d \in Wants : job'[d] # "none" => job[d] # "none"
  PROVE  Kept'
<1>1. \A w \in Drains : drain[w].batch \subseteq Events
  BY WebhookTypeParts DEF DrainTypes, DrainState
<1>2. Batched' /\ Handovers' /\ Queued'
  BY DEF Kept, Batched, Handovers, Queued
<1>3. Listings'
  BY <1>1 DEF Kept, Listings
<1>4. Delivered'
  BY Pairs DEF Kept, Delivered
<1> QED BY <1>2, <1>3, <1>4 DEF Kept

LEMMA WantingKept ==
  ASSUME Kept, UNCHANGED <<event, endpoint, narrowed, steady>>
  PROVE  Wanting' /\ \A e \in Events : steady'[e] \subseteq steady[e]
BY DEF Kept, Wanting

(* The count disables an endpoint, and an admin's request changes one, only *)
(* by breaking its steadiness.                                              *)
LEMMA CountDisturbs ==
  ASSUME WebhooksTypeOK, Kept, NEW d \in Wants, CountFailure(d, d[2]), UNCHANGED event
  PROVE  Wanting' /\ \A e \in Events : steady'[e] \subseteq steady[e]
<1>1. d[2] \in Endpoints /\ endpoint \in [Endpoints -> {"new", "active", "disabled", "auto_disabled", "absent"}]
      /\ \A e \in Events : steady[e] \subseteq Endpoints
  BY Pairs, WebhookTypeParts DEF EndpointTypes, RecordTypes
<1>2. CASE UNCHANGED <<endpoint, narrowed, steady>>
  BY <1>2, WantingKept
<1>3. CASE ~UNCHANGED <<endpoint, narrowed, steady>>
  <2>1. /\ endpoint' = [endpoint EXCEPT ![d[2]] = "auto_disabled"] /\ UNCHANGED narrowed
        /\ steady' = [e \in Events |-> steady[e] \ {d[2]}]
    BY <1>3 DEF CountFailure, admin
  <2> QED BY <1>1, <2>1 DEF Kept, Wanting
<1> QED BY <1>2, <1>3

LEMMA AdminDisturbs ==
  ASSUME WebhooksTypeOK, Kept, NEW p \in Endpoints, Administer(p)
  PROVE  Wanting' /\ \A e \in Events : steady'[e] \subseteq steady[e]
<1>0. /\ EndpointTypes /\ RecordTypes /\ BoundTypes
      /\ endpoint \in [Endpoints -> {"new", "active", "disabled", "auto_disabled", "absent"}]
      /\ \A e \in Events : steady[e] \subseteq Endpoints
  BY WebhookTypeParts DEF EndpointTypes, RecordTypes
<1>1. event' = event /\ \A e \in Events : steady'[e] \subseteq steady[e]
  BY <1>0, Administered DEF outbox
<1>2. CASE Register(p)
  BY <1>0, <1>1, <1>2 DEF Register, Kept, Wanting
<1>3. CASE PatchEvents(p)
  BY <1>0, <1>1, <1>3 DEF PatchEvents, Disturb, Kept, Wanting
<1>4. CASE Remove(p)
  BY <1>0, <1>1, <1>4 DEF Remove, Disturb, Kept, Wanting
<1>5. ASSUME NEW s \in {"active", "disabled"}, PatchStatus(p, s) PROVE Wanting'
  <2>1. CASE endpoint[p] = s
    BY <1>0, <1>1, <1>5, <2>1 DEF PatchStatus, Kept, Wanting
  <2>2. CASE endpoint[p] # s
    BY <1>0, <1>1, <1>5, <2>2 DEF PatchStatus, Disturb, Kept, Wanting
  <2> QED BY <2>1, <2>2
<1> QED BY <1>1, <1>2, <1>3, <1>4, <1>5 DEF Administer

(* No committed change silently drops its event: what is dispatched has a   *)
(* delivery for every endpoint that wants it and stayed active, whatever    *)
(* drains died, overlapped or overran their leases (drainEventOutbox,       *)
(* fanOutEvent, markDispatched).                                            *)
THEOREM EventsAreKept == WebhooksSpec => []NoEventDropped
<1>1. WebhooksInit => Kept
  <2> SUFFICES ASSUME WebhooksInit PROVE Kept
    OBVIOUS
  <2>1. Batched /\ Listings /\ Handovers
    BY NoDrainType DEF WebhooksInit, Batched, Listings, Handovers
  <2>2. Wanting /\ Queued /\ Delivered
    BY Pairs DEF WebhooksInit, Wanting, Queued, Delivered
  <2> QED BY <2>1, <2>2 DEF Kept
<1>2. WebhooksTypeOK /\ Kept /\ [WebhooksNext]_webhookVars => Kept'
  <2> SUFFICES ASSUME WebhooksTypeOK, Kept, [WebhooksNext]_webhookVars PROVE Kept'
    OBVIOUS
  <2>0. /\ OutboxTypes /\ EndpointTypes /\ JobTypes /\ DrainTypes /\ RecordTypes
        /\ \A w \in Drains : drain[w].batch \subseteq Events /\ drain[w].handed \subseteq Wants
        /\ \A e \in Events : steady[e] \subseteq Endpoints
    BY WebhookTypeParts DEF DrainTypes, DrainState, RecordTypes
  <2>1. ASSUME NEW e \in Events, Emit(e) PROVE Kept'
    <3>0. /\ event[e] = "none" /\ UNCHANGED <<admin, drain, enqueued, job>>
          /\ event'[e] = "pending" /\ \A f \in Events \ {e} : event'[f] = event[f]
          /\ steady'[e] = Matching /\ \A f \in Events \ {e} : steady'[f] = steady[f]
      BY <2>0, <2>1 DEF Emit, OutboxTypes, RecordTypes, deliveryHistory, queue
    <3>1. \A w \in Drains : e \notin drain[w].batch
      BY <3>0 DEF Kept, Batched
    <3>2. Batched' /\ Listings' /\ Handovers' /\ Queued'
      BY <2>0, <3>0, <3>1 DEF Kept, Batched, Listings, Handovers, Queued
    <3>3. Wanting'
      BY <3>0 DEF Kept, Wanting, Matching, admin
    <3>4. Delivered'
      BY <3>0, Pairs DEF Kept, Delivered
    <3> QED BY <3>2, <3>3, <3>4 DEF Kept
  <2>2. ASSUME NEW e \in Events, LeaseLapses(e) PROVE Kept'
    <3>1. UNCHANGED <<event, admin, queue, drain, steady, deliveryHistory>>
      BY <2>2 DEF LeaseLapses
    <3> QED BY <3>1, WantingKept, KeptWithout DEF admin, queue, deliveryHistory
  <2>3. ASSUME NEW w \in Drains, Claim(w) PROVE Kept'
    <3>0. UNCHANGED <<event, admin, queue, steady, deliveryHistory>>
      BY <2>3 DEF Claim
    <3>1. Batched' /\ Listings' /\ Handovers'
      BY <2>0, <2>3, <3>0, ClaimsBatch DEF Kept, Batched, Listings, Handovers, deliveryHistory
    <3>2. Wanting' /\ Queued' /\ Delivered'
      BY <3>0 DEF Kept, Wanting, Queued, Delivered, admin, queue, deliveryHistory
    <3> QED BY <3>1, <3>2 DEF Kept
  <2>4. ASSUME NEW w \in Drains, ListEndpoints(w) PROVE Kept'
    <3>0. UNCHANGED <<event, admin, queue, steady, deliveryHistory>>
      BY <2>4 DEF ListEndpoints, outbox
    <3>1. Batched' /\ Handovers'
      BY <2>0, <2>4, <3>0, ListsEndpoints DEF Kept, Batched, Handovers, deliveryHistory
    <3>2. \A e \in drain[w].batch : steady[e] \subseteq Matching
      BY <2>0 DEF Kept, Batched, Wanting, Matching
    <3>3. Listings'
      BY <2>0, <2>4, <3>0, <3>2, ListsEndpoints DEF Kept, Listings
    <3>4. Wanting' /\ Queued' /\ Delivered'
      BY <3>0 DEF Kept, Wanting, Queued, Delivered, admin, queue, deliveryHistory
    <3> QED BY <3>1, <3>3, <3>4 DEF Kept
  <2>5. ASSUME NEW w \in Drains, NEW e \in Events, NEW d \in Wants, Enqueue(w, e, d) PROVE Kept'
    <3>0. UNCHANGED <<event, endpoint, narrowed, steady>>
      BY <2>5 DEF Enqueue, outbox, admin
    <3>1. \/ job[d] # "none" /\ enqueued' = enqueued /\ job' = job
          \/ enqueued' = [enqueued EXCEPT ![d] = enqueued[d] + 1] /\ job' = [job EXCEPT ![d] = "waiting"]
      BY <2>5 DEF Enqueue, queue
    <3>2. enqueued'[d] > 0 /\ \A c \in Wants : enqueued[c] > 0 => enqueued'[c] > 0
      BY <2>0, <3>1 DEF Kept, Queued, RecordTypes
    <3>a. /\ \A v \in Drains \ {w} : drain'[v] = drain[v]
          /\ drain[w].stage = "fanning" /\ drain'[w].listed = drain[w].listed
          /\ drain'[w].batch = drain[w].batch /\ drain'[w].handed = drain[w].handed \cup {d}
      BY <2>0, <2>5, HandsOver DEF Enqueue
    <3>b. Batched' /\ Listings'
      BY <3>0, <3>a DEF Kept, Batched, Listings
    <3>3. Handovers'
      BY <2>0, <3>2, <3>a DEF Kept, Handovers
    <3>4. Queued'
      BY <2>0, <3>1, <3>2 DEF Kept, Queued, JobTypes
    <3>5. Wanting' /\ Delivered'
      BY <3>0, <3>2 DEF Kept, Wanting, Delivered
    <3> QED BY <3>b, <3>3, <3>4, <3>5 DEF Kept
  <2>6. ASSUME NEW w \in Drains, NEW e \in Events, Dispatch(w, e) PROVE Kept'
    <3>0. /\ UNCHANGED <<admin, queue, steady, deliveryHistory>>
          /\ event'[e] = "dispatched" /\ \A f \in Events \ {e} : event'[f] = event[f]
          /\ drain[w].stage = "fanning" /\ e \in drain[w].batch /\ ToHandOver(w, e) = {}
      BY <2>0, <2>6 DEF Dispatch, HandedOver, OutboxTypes
    <3>1. Batched' /\ Listings' /\ Handovers'
      BY <2>0, <2>6, <3>0, Dispatches, NoDrainType DEF Kept, Batched, Listings, Handovers, deliveryHistory
    <3>2. Wanting' /\ Queued'
      BY <3>0 DEF Kept, Batched, Wanting, Queued, admin, queue, deliveryHistory
    <3>3. \A d \in Wants : d[1] = e /\ d[2] \in steady[e] => enqueued[d] > 0
      BY <3>0 DEF Kept, Listings, Handovers, ToHandOver
    <3>4. Delivered'
      BY <3>0, <3>3, Pairs DEF Kept, Delivered, deliveryHistory
    <3> QED BY <3>1, <3>2, <3>4 DEF Kept
  <2>7. ASSUME NEW w \in Drains, DrainDies(w) PROVE Kept'
    <3>0. UNCHANGED <<event, admin, queue, steady, deliveryHistory>> /\ drain' = [drain EXCEPT ![w] = NoDrain]
      BY <2>7 DEF DrainDies, outbox
    <3>a. drain'[w] = NoDrain /\ \A v \in Drains \ {w} : drain'[v] = drain[v]
      BY <2>0, <3>0 DEF DrainTypes
    <3>1. Batched' /\ Listings' /\ Handovers'
      BY <3>0, <3>a, NoDrainType DEF Kept, Batched, Listings, Handovers, deliveryHistory
    <3>2. Wanting' /\ Queued' /\ Delivered'
      BY <3>0 DEF Kept, Wanting, Queued, Delivered, admin, queue, deliveryHistory
    <3> QED BY <3>1, <3>2 DEF Kept
  <2>8. ASSUME NEW d \in Wants, NEW s, job[d] # "none", Stage(d, s), UNCHANGED <<event, drain, enqueued>>,
               Wanting', \A e \in Events : steady'[e] \subseteq steady[e]
        PROVE  Kept'
    <3>1. \A c \in Wants : job'[c] # "none" => job[c] # "none"
      BY <2>0, <2>8 DEF Stage, JobTypes
    <3> QED BY <2>8, <3>1, KeptWithout
  <2>9. ASSUME NEW d \in Wants, Deliver(d) \/ Post(d) \/ RecordSuccess(d) \/ Finish(d) \/ DeliveryDies(d)
        PROVE  Kept'
    <3>1. \E s \in {"none", "waiting"} \cup Running : Stage(d, s)
      BY <2>9 DEF Deliver, Post, RecordSuccess, Finish, DeliveryDies, Bury, Running
    <3>2. job[d] # "none"
      BY <2>9 DEF Deliver, Post, RecordSuccess, Finish, DeliveryDies, Running
    <3>3. UNCHANGED <<event, endpoint, narrowed, steady, drain, enqueued>>
      BY <2>9 DEF Deliver, Post, RecordSuccess, Finish, DeliveryDies, outbox, admin, deliveryHistory
    <3> QED BY <2>8, <3>1, <3>2, <3>3, WantingKept
  <2>10. ASSUME NEW d \in Wants, RecordFailure(d) \/ RecordThrows(d) PROVE Kept'
    <3>1. \E s \in {"waiting", "burying"} : Stage(d, s)
      BY <2>10 DEF RecordFailure, RecordThrows
    <3>2. job[d] # "none"
      BY <2>10 DEF RecordFailure, RecordThrows
    <3>3. UNCHANGED <<event, drain, enqueued>>
      BY <2>10 DEF RecordFailure, RecordThrows, outbox
    <3>4. CountFailure(d, d[2]) \/ UNCHANGED <<admin, steady, counted>>
      BY <2>10 DEF RecordFailure, RecordThrows
    <3>5. Wanting' /\ \A e \in Events : steady'[e] \subseteq steady[e]
      BY <3>3, <3>4, CountDisturbs, WantingKept DEF admin
    <3> QED BY <2>8, <3>1, <3>2, <3>3, <3>5
  <2>11. ASSUME NEW p \in Endpoints, Administer(p) PROVE Kept'
    <3>1. UNCHANGED <<event, job, drain, enqueued>>
      BY <2>0, <2>11, Administered, WebhookTypeParts DEF outbox, queue, deliveryHistory
    <3> QED BY <2>11, <3>1, AdminDisturbs, KeptWithout
  <2>12. CASE UNCHANGED webhookVars
    BY <2>12, WantingKept, KeptWithout DEF webhookVars, outbox, admin, queue, deliveryHistory
  <2> QED BY <2>1, <2>2, <2>3, <2>4, <2>5, <2>6, <2>7, <2>9, <2>10, <2>11, <2>12
          DEF WebhooksNext, DrainStep, DeliveryStep
<1>3. WebhooksTypeOK /\ Kept => NoEventDropped
  BY DEF Kept, Delivered, NoEventDropped
<1> QED BY <1>1, <1>2, <1>3, WebhooksTypeCorrect, PTL DEF WebhooksSpec

-----------------------------------------------------------------------------
(* BrakeHolds.  An endpoint that is not there yet has been listed by no     *)
(* drain and has no delivery; ...                                           *)
Unregistered ==
    /\ \A w \in Drains : \A p \in drain[w].listed : endpoint[p] # "new"
    /\ \A d \in Wants : job[d] # "none" => endpoint[d[2]] # "new"

(* ... one that is active is below the threshold; ...                       *)
BelowThreshold == \A p \in Endpoints : endpoint[p] \in {"new", "active"} => failures[p] < Threshold

(* ... and a job that has yet to be counted was queued, or died, once more  *)
(* often than its pair was counted.                                         *)
Tally == \A d \in Wants :
    /\ counted[d] <= enqueued[d] + deaths[d]
    /\ job[d] \notin {"none", "burying"} => counted[d] < enqueued[d] + deaths[d]

(* An endpoint is registered once and for all.                              *)
LEMMA OnceRegistered ==
  ASSUME WebhooksTypeOK, [WebhooksNext]_webhookVars, NEW p \in Endpoints, endpoint[p] # "new"
  PROVE  endpoint'[p] # "new"
<1>0. endpoint \in [Endpoints -> {"new", "active", "disabled", "auto_disabled", "absent"}]
  BY WebhookTypeParts DEF EndpointTypes
<1>1. CASE UNCHANGED endpoint
  BY <1>1
<1>2. ASSUME NEW d \in Wants, RecordFailure(d) \/ RecordThrows(d) PROVE endpoint'[p] # "new"
  <2>1. UNCHANGED endpoint \/ endpoint' = [endpoint EXCEPT ![d[2]] = "auto_disabled"]
    BY <1>2 DEF RecordFailure, RecordThrows, CountFailure, admin
  <2> QED BY <1>0, <2>1
<1>3. ASSUME NEW q \in Endpoints, Administer(q) PROVE endpoint'[p] # "new"
  <2>1. UNCHANGED endpoint \/ \E s \in {"active", "disabled", "absent"} : endpoint' = [endpoint EXCEPT ![q] = s]
    BY <1>3 DEF Administer, Register, PatchEvents, Remove, PatchStatus
  <2> QED BY <1>0, <2>1
<1>4. ASSUME \/ \E e \in Events : Emit(e) \/ LeaseLapses(e)
             \/ \E w \in Drains : DrainStep(w) \/ DrainDies(w)
      PROVE  UNCHANGED endpoint
  BY <1>4 DEF Emit, LeaseLapses, DrainStep, DrainDies, Claim, ListEndpoints, Dispatch, Enqueue, admin
<1>5. ASSUME NEW d \in Wants, Deliver(d) \/ Post(d) \/ RecordSuccess(d) \/ Finish(d) \/ DeliveryDies(d)
      PROVE  UNCHANGED endpoint
  BY <1>5 DEF Deliver, Post, RecordSuccess, Finish, DeliveryDies, admin
<1>6. CASE UNCHANGED webhookVars
  BY <1>6 DEF webhookVars, admin
<1> QED BY <1>1, <1>2, <1>3, <1>4, <1>5, <1>6 DEF WebhooksNext, DeliveryStep

LEMMA UnregisteredHolds == WebhooksSpec => []Unregistered
<1>1. WebhooksInit => Unregistered
  BY NoDrainType DEF WebhooksInit, Unregistered
<1>2. WebhooksTypeOK /\ Unregistered /\ [WebhooksNext]_webhookVars => Unregistered'
  <2> SUFFICES ASSUME WebhooksTypeOK, Unregistered, [WebhooksNext]_webhookVars PROVE Unregistered'
    OBVIOUS
  <2>0. /\ DrainTypes /\ JobTypes /\ EndpointTypes
        /\ \A w \in Drains : drain[w].listed \subseteq Endpoints
        /\ \A p \in Endpoints : endpoint[p] # "new" => endpoint'[p] # "new"
    BY WebhookTypeParts, OnceRegistered DEF DrainTypes, DrainState
  <2>1. ASSUME \A w \in Drains : drain'[w].listed \subseteq drain[w].listed,
               \A d \in Wants : job'[d] # "none" => job[d] # "none"
        PROVE  Unregistered'
    BY <2>0, <2>1, Pairs DEF Unregistered
  <2>2. ASSUME NEW w \in Drains, ListEndpoints(w) PROVE Unregistered'
    <3>1. /\ \A v \in Drains \ {w} : drain'[v] = drain[v]
          /\ drain'[w].listed = Matching /\ UNCHANGED <<endpoint, job>>
      BY <2>0, <2>2, ListsEndpoints DEF ListEndpoints, admin, queue
    <3> QED BY <3>1 DEF Unregistered, Matching
  <2>3. ASSUME NEW w \in Drains, NEW e \in Events, NEW d \in Wants, Enqueue(w, e, d) PROVE Unregistered'
    <3>1. \A v \in Drains : drain'[v].listed = drain[v].listed
      BY <2>0, <2>3, HandsOver
    <3>2. endpoint[d[2]] # "new"
      BY <2>3 DEF Enqueue, ToHandOver, Unregistered
    <3>3. UNCHANGED job \/ job' = [job EXCEPT ![d] = "waiting"]
      BY <2>3 DEF Enqueue, queue
    <3>4. UNCHANGED endpoint
      BY <2>3 DEF Enqueue, admin
    <3> QED BY <2>0, <3>1, <3>2, <3>3, <3>4 DEF Unregistered, JobTypes
  <2>4. ASSUME NEW w \in Drains, Claim(w) \/ DrainDies(w) \/ \E e \in Events : Dispatch(w, e) PROVE Unregistered'
    <3>1. \A v \in Drains : drain'[v].listed \subseteq drain[v].listed
      <4>1. CASE Claim(w)
        BY <2>0, <4>1, ClaimsBatch
      <4>2. ASSUME NEW e \in Events, Dispatch(w, e) PROVE \A v \in Drains : drain'[v].listed \subseteq drain[v].listed
        BY <2>0, <4>2, Dispatches, NoDrainType
      <4>3. CASE DrainDies(w)
        BY <2>0, <4>3, NoDrainType DEF DrainDies, DrainTypes
      <4> QED BY <2>4, <4>1, <4>2, <4>3
    <3>2. UNCHANGED job
      BY <2>4 DEF Claim, DrainDies, Dispatch, queue
    <3> QED BY <2>1, <3>1, <3>2
  <2>5. ASSUME NEW d \in Wants, DeliveryStep(d) \/ DeliveryDies(d) PROVE Unregistered'
    <3>1. job[d] # "none" /\ UNCHANGED drain /\ \E s : Stage(d, s)
      BY <2>5 DEF DeliveryStep, DeliveryDies, Deliver, Post, RecordSuccess, RecordFailure, RecordThrows,
                  Finish, Bury, Running
    <3>2. \A c \in Wants : job'[c] # "none" => job[c] # "none"
      BY <2>0, <3>1 DEF Stage, JobTypes
    <3> QED BY <2>1, <3>1, <3>2
  <2>6. ASSUME NEW p \in Endpoints, Administer(p) PROVE Unregistered'
    <3>1. UNCHANGED <<queue, drain>>
      BY <2>0, <2>6, Administered, WebhookTypeParts
    <3> QED BY <2>1, <3>1 DEF queue
  <2>7. ASSUME (\E e \in Events : Emit(e) \/ LeaseLapses(e)) \/ UNCHANGED webhookVars PROVE Unregistered'
    <3>1. UNCHANGED <<queue, drain>>
      BY <2>7 DEF Emit, LeaseLapses, webhookVars
    <3> QED BY <2>1, <3>1 DEF queue
  <2> QED BY <2>2, <2>3, <2>4, <2>5, <2>6, <2>7 DEF WebhooksNext, DrainStep
<1> QED BY <1>1, <1>2, WebhooksTypeCorrect, PTL DEF WebhooksSpec

LEMMA BelowThresholdHolds == WebhooksSpec => []BelowThreshold
<1>0. Threshold \in Nat /\ Threshold > 0
  <2>1. Threshold \in Nat \ {0}
    BY WebhooksAssumption
  <2> QED BY <2>1
<1>1. WebhooksInit => BelowThreshold
  <2> SUFFICES ASSUME WebhooksInit, NEW p \in Endpoints PROVE failures[p] < Threshold
    BY DEF BelowThreshold
  <2>1. failures[p] \in 0..(Threshold - 1)
    BY DEF WebhooksInit
  <2> QED BY <1>0, <2>1
<1>2. WebhooksTypeOK /\ Unregistered /\ BelowThreshold /\ [WebhooksNext]_webhookVars => BelowThreshold'
  <2> SUFFICES ASSUME WebhooksTypeOK, Unregistered, BelowThreshold, [WebhooksNext]_webhookVars
               PROVE  BelowThreshold'
    OBVIOUS
  <2>0. /\ endpoint \in [Endpoints -> {"new", "active", "disabled", "auto_disabled", "absent"}]
        /\ failures \in [Endpoints -> Nat]
    BY WebhookTypeParts DEF EndpointTypes
  <2>1. CASE UNCHANGED <<endpoint, failures>>
    BY <2>1 DEF BelowThreshold
  <2>2. ASSUME NEW d \in Wants, RecordSuccess(d) PROVE BelowThreshold'
    <3>1. UNCHANGED endpoint /\ (UNCHANGED failures \/ failures' = [failures EXCEPT ![d[2]] = 0])
      BY <2>2 DEF RecordSuccess
    <3> QED BY <1>0, <2>0, <3>1 DEF BelowThreshold
  <2>3. ASSUME NEW d \in Wants, RecordFailure(d) \/ RecordThrows(d) PROVE BelowThreshold'
    <3>1. d[2] \in Endpoints /\ endpoint[d[2]] # "new"
      BY <2>3, Pairs DEF RecordFailure, RecordThrows, Unregistered
    <3>2. CASE UNCHANGED <<endpoint, failures>>
      BY <2>1, <3>2
    <3>3. CASE ~UNCHANGED <<endpoint, failures>>
      <4>1. /\ failures' = [failures EXCEPT ![d[2]] = failures[d[2]] + 1]
            /\ IF Disables(d[2]) THEN endpoint' = [endpoint EXCEPT ![d[2]] = "auto_disabled"]
               ELSE UNCHANGED endpoint
        BY <2>3, <3>3 DEF RecordFailure, RecordThrows, CountFailure, admin
      <4>2. CASE Disables(d[2])
        BY <2>0, <3>1, <4>1, <4>2 DEF BelowThreshold
      <4>3. CASE ~Disables(d[2])
        BY <1>0, <2>0, <3>1, <4>1, <4>3 DEF BelowThreshold, Disables
      <4> QED BY <4>2, <4>3
    <3> QED BY <3>2, <3>3
  <2>4. ASSUME NEW p \in Endpoints, Administer(p) PROVE BelowThreshold'
    <3>1. CASE Register(p)
      BY <2>0, <3>1 DEF Register, BelowThreshold
    <3>2. CASE PatchEvents(p)
      BY <2>1, <3>2 DEF PatchEvents
    <3>3. CASE Remove(p)
      BY <2>0, <3>3 DEF Remove, BelowThreshold
    <3>4. ASSUME NEW s \in {"active", "disabled"}, PatchStatus(p, s) PROVE BelowThreshold'
      BY <1>0, <2>0, <3>4 DEF PatchStatus, Reset, BelowThreshold
    <3> QED BY <2>4, <3>1, <3>2, <3>3, <3>4 DEF Administer
  <2>5. ASSUME \/ \E e \in Events : Emit(e) \/ LeaseLapses(e)
               \/ \E w \in Drains : DrainStep(w) \/ DrainDies(w)
        PROVE  UNCHANGED <<endpoint, failures>>
    BY <2>5 DEF Emit, LeaseLapses, DrainStep, DrainDies, Claim, ListEndpoints, Dispatch, Enqueue, admin
  <2>6. ASSUME NEW d \in Wants, Deliver(d) \/ Post(d) \/ Finish(d) \/ DeliveryDies(d)
        PROVE  UNCHANGED <<endpoint, failures>>
    BY <2>6 DEF Deliver, Post, Finish, DeliveryDies, admin
  <2>7. UNCHANGED webhookVars => UNCHANGED <<endpoint, failures>>
    BY DEF webhookVars, admin
  <2> QED BY <2>1, <2>2, <2>3, <2>4, <2>5, <2>6, <2>7 DEF WebhooksNext, DeliveryStep
<1> QED BY <1>1, <1>2, WebhooksTypeCorrect, UnregisteredHolds, PTL DEF WebhooksSpec

LEMMA TallyHolds == WebhooksSpec => []Tally
<1>1. WebhooksInit => Tally
  BY DEF WebhooksInit, Tally
<1>2. WebhooksTypeOK /\ Tally /\ [WebhooksNext]_webhookVars => Tally'
  <2> SUFFICES ASSUME WebhooksTypeOK, Tally, [WebhooksNext]_webhookVars PROVE Tally'
    OBVIOUS
  <2>0. /\ enqueued \in [Wants -> Nat] /\ counted \in [Wants -> Nat] /\ deaths \in [Wants -> Nat]
        /\ job \in [Wants -> {"none", "waiting"} \cup Running]
    BY WebhookTypeParts DEF RecordTypes, JobTypes
  <2>1. CASE UNCHANGED <<job, counted, enqueued, deaths>>
    BY <2>1 DEF Tally
  <2>2. ASSUME NEW w \in Drains, NEW e \in Events, NEW d \in Wants, Enqueue(w, e, d) PROVE Tally'
    <3>1. CASE job[d] = "none"
      <4>1. /\ job' = [job EXCEPT ![d] = "waiting"] /\ enqueued' = [enqueued EXCEPT ![d] = enqueued[d] + 1]
            /\ UNCHANGED <<counted, deaths>>
        BY <2>2, <3>1 DEF Enqueue
      <4> QED BY <2>0, <4>1 DEF Tally
    <3>2. CASE job[d] # "none"
      BY <2>1, <2>2, <3>2 DEF Enqueue, queue
    <3> QED BY <3>1, <3>2
  <2>3. ASSUME NEW d \in Wants, NEW s, Stage(d, s), UNCHANGED <<counted, enqueued, deaths>>,
               s \in {"none", "burying"} \/ job[d] \notin {"none", "burying"}
        PROVE  Tally'
    BY <2>0, <2>3 DEF Tally, Stage
  <2>4. ASSUME NEW d \in Wants, NEW s, Stage(d, s), UNCHANGED enqueued,
               deaths' = [deaths EXCEPT ![d] = deaths[d] + 1],
               \/ UNCHANGED counted
               \/ job[d] \notin {"none", "burying"} /\ counted' = [counted EXCEPT ![d] = counted[d] + 1]
        PROVE  Tally'
    BY <2>0, <2>4 DEF Tally, Stage
  <2>5. ASSUME NEW d \in Wants, Deliver(d) \/ Post(d) \/ RecordSuccess(d) \/ Finish(d) PROVE Tally'
    <3>1. /\ UNCHANGED <<counted, enqueued, deaths>>
          /\ \E s \in {"none", "waiting"} \cup Running :
                Stage(d, s) /\ (s \in {"none", "burying"} \/ job[d] \notin {"none", "burying"})
      BY <2>5 DEF Deliver, Post, RecordSuccess, Finish, Bury, Running, deliveryHistory
    <3> QED BY <2>3, <3>1
  <2>6. ASSUME NEW d \in Wants, RecordFailure(d) PROVE Tally'
    <3>1. CASE Final(d)
      <4>1. /\ job' = [job EXCEPT ![d] = "burying"] /\ counted' = [counted EXCEPT ![d] = counted[d] + 1]
            /\ UNCHANGED <<enqueued, deaths>> /\ job[d] \notin {"none", "burying"}
        BY <2>6, <3>1 DEF RecordFailure, CountFailure, Stage
      <4> QED BY <2>0, <4>1 DEF Tally
    <3>2. CASE ~Final(d)
      <4>1. Stage(d, "waiting") /\ UNCHANGED <<counted, enqueued, deaths>> /\ job[d] \notin {"none", "burying"}
        BY <2>6, <3>2 DEF RecordFailure
      <4> QED BY <2>3, <4>1
    <3> QED BY <3>1, <3>2
  <2>7. ASSUME NEW d \in Wants, RecordThrows(d) \/ DeliveryDies(d) PROVE Tally'
    <3>1. /\ \E s : Stage(d, s)
          /\ UNCHANGED enqueued /\ deaths' = [deaths EXCEPT ![d] = deaths[d] + 1]
          /\ \/ UNCHANGED counted
             \/ job[d] \notin {"none", "burying"} /\ counted' = [counted EXCEPT ![d] = counted[d] + 1]
      BY <2>7 DEF RecordThrows, DeliveryDies, CountFailure
    <3> QED BY <2>4, <3>1
  <2>8. ASSUME NEW p \in Endpoints, Administer(p) PROVE UNCHANGED <<job, counted, enqueued, deaths>>
    BY <2>8, Administered, WebhookTypeParts DEF queue, deliveryHistory
  <2>9. ASSUME \/ \E e \in Events : Emit(e) \/ LeaseLapses(e)
               \/ \E w \in Drains : \/ Claim(w) \/ ListEndpoints(w) \/ DrainDies(w)
                                    \/ \E e \in Events : Dispatch(w, e)
               \/ UNCHANGED webhookVars
        PROVE  UNCHANGED <<job, counted, enqueued, deaths>>
    BY <2>9 DEF Emit, LeaseLapses, Claim, ListEndpoints, DrainDies, Dispatch, webhookVars, queue, deliveryHistory
  <2> QED BY <2>1, <2>2, <2>5, <2>6, <2>7, <2>8, <2>9 DEF WebhooksNext, DrainStep, DeliveryStep
<1> QED BY <1>1, <1>2, WebhooksTypeCorrect, PTL DEF WebhooksSpec

(* The auto-disable brake works for every threshold: an active endpoint is  *)
(* below it, and a delivery is counted no more often than it was queued or  *)
(* died (recordDeliveryFailure, failOrRetry).                               *)
THEOREM EndpointsAreBraked == WebhooksSpec => []BrakeHolds
<1>1. BelowThreshold /\ Tally => BrakeHolds
  BY DEF BelowThreshold, Tally, BrakeHolds
<1> QED BY <1>1, BelowThresholdHolds, TallyHolds, PTL
=============================================================================
