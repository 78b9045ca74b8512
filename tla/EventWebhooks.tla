---------------------------- MODULE EventWebhooks ----------------------------
(***************************************************************************)
(* Domain events on their way to webhook endpoints: the transactional      *)
(* outbox (src/store/event-outbox.ts), the drain that fans an event out    *)
(* into one queued delivery per endpoint (src/webhooks/outbox-drain.ts),   *)
(* the delivery handler (src/webhooks/delivery.ts) and the failure count   *)
(* that disables an endpoint (src/store/webhook-endpoints.ts).             *)
(*                                                                         *)
(* Admins register, patch and delete endpoints (src/api/webhooks.ts).     *)
(*                                                                         *)
(* A delivery is the pair of an event and an endpoint, which is also its   *)
(* dedupe key in the queue.  Drains and deliveries die between any two     *)
(* steps and their leases lapse.                                           *)
(***************************************************************************)
EXTENDS Naturals

CONSTANTS
    Events, Endpoints,
    Wants,        \* the pairs whose endpoint's filter matches the event
    Existing,     \* the endpoints that are there from the start
    Drains,       \* concurrent runs of the outbox drain
    MaxAttempts,  \* WEBHOOK_DELIVERY_MAX_ATTEMPTS
    Threshold,    \* WEBHOOK_AUTO_DISABLE_THRESHOLD
    FaultBound,   \* model bound: deaths, failed posts and counts, overruns
    AdminBound    \* model bound: patches and deletions of endpoints

ASSUME WebhooksAssumption ==
    /\ Wants \subseteq Events \X Endpoints /\ Existing \subseteq Endpoints
    /\ {MaxAttempts, Threshold} \subseteq Nat \ {0}
    /\ {FaultBound, AdminBound} \subseteq Nat

VARIABLES
    event,      \* the outbox row: none, pending, dispatched
    lease,      \* its locked_until: free, held, lapsed
    endpoint,   \* webhook_endpoints.status; new before, absent after it exists
    failures,   \* its consecutive_failures
    narrowed,   \* endpoints whose events filter was patched to exclude the events
    job,        \* each delivery's queue row, and how far a run of it is
    attempts,   \* how often that row was claimed
    drain,      \* each drain: the events it leased, the endpoints it listed,
                \* and the pairs it has enqueued so far
    steady,     \* the endpoints active without a break since the event
    enqueued,   \* how often a pair's job was created
    got,        \* has the endpoint received the event?
    buried,     \* deliveries that were dead-lettered
    counted,    \* how often a pair was counted as a failure
    deaths,     \* how often a run of its delivery died, or its count threw
    changes, faults

outbox == <<event, lease>>
admin == <<endpoint, failures, narrowed>>
queue == <<job, attempts>>
deliveryHistory == <<enqueued, got, buried, counted, deaths>>
webhookVars == <<outbox, admin, queue, drain, steady, deliveryHistory, changes, faults>>

NoDrain == [stage |-> "idle", batch |-> {}, listed |-> {}, handed |-> {}]

Running == {"posting", "succeeded", "failed", "refused", "acking", "burying"}

(* The types of the state; a job that runs was claimed.                     *)
WebhooksTypeOK ==
    /\ event \in [Events -> {"none", "pending", "dispatched"}]
    /\ lease \in [Events -> {"free", "held", "lapsed"}]
    /\ endpoint \in [Endpoints -> {"new", "active", "disabled", "auto_disabled", "absent"}]
    /\ failures \in [Endpoints -> Nat] /\ narrowed \subseteq Endpoints
    /\ job \in [Wants -> {"none", "waiting"} \cup Running]
    /\ attempts \in [Wants -> Nat]
    /\ drain \in [Drains -> [stage : {"idle", "listing", "fanning"}, batch : SUBSET Events,
                             listed : SUBSET Endpoints, handed : SUBSET Wants]]
    /\ steady \in [Events -> SUBSET Endpoints]
    /\ enqueued \in [Wants -> Nat] /\ counted \in [Wants -> Nat]
    /\ deaths \in [Wants -> Nat]
    /\ got \in [Wants -> BOOLEAN] /\ buried \subseteq Wants
    /\ changes \in Nat /\ faults \in Nat
    /\ \A d \in Wants : job[d] \in Running => attempts[d] > 0

WebhooksInit ==
    /\ event = [e \in Events |-> "none"]
    /\ lease = [e \in Events |-> "free"]
    /\ endpoint = [p \in Endpoints |-> IF p \in Existing THEN "active" ELSE "new"]
    /\ failures \in [Endpoints -> 0..(Threshold - 1)]
    /\ \A p \in Endpoints : endpoint[p] = "new" => failures[p] = 0
    /\ narrowed = {}
    /\ job = [d \in Wants |-> "none"]
    /\ attempts = [d \in Wants |-> 0]
    /\ drain = [w \in Drains |-> NoDrain]
    /\ steady = [e \in Events |-> {}]
    /\ enqueued = [d \in Wants |-> 0] /\ counted = [d \in Wants |-> 0]
    /\ deaths = [d \in Wants |-> 0]
    /\ got = [d \in Wants |-> FALSE] /\ buried = {}
    /\ changes = 0 /\ faults = 0

Fault == faults < FaultBound /\ faults' = faults + 1

(* The endpoints that are to get an event, as of now.                       *)
Matching == {p \in Endpoints \ narrowed : endpoint[p] = "active"}

-----------------------------------------------------------------------------
(* A state change commits together with its event.                          *)
Emit(e) ==
    /\ event[e] = "none"
    /\ event' = [event EXCEPT ![e] = "pending"]
    /\ steady' = [steady EXCEPT ![e] = Matching]
    /\ UNCHANGED <<lease, admin, queue, drain, deliveryHistory, changes, faults>>

(* claimBatch: every undispatched row that nobody has leased.               *)
Claim(w) ==
    LET batch == {e \in Events : event[e] = "pending" /\ lease[e] # "held"} IN
    /\ drain[w].stage = "idle" /\ batch # {}
    /\ lease' = [e \in Events |-> IF e \in batch THEN "held" ELSE lease[e]]
    /\ drain' = [drain EXCEPT ![w] = [NoDrain EXCEPT !.stage = "listing", !.batch = batch]]
    /\ UNCHANGED <<event, admin, queue, steady, deliveryHistory, changes, faults>>

ListEndpoints(w) ==
    /\ drain[w].stage = "listing"
    /\ drain' = [drain EXCEPT ![w].stage = "fanning", ![w].listed = Matching]
    /\ UNCHANGED <<outbox, admin, queue, steady, deliveryHistory, changes, faults>>

ToHandOver(w, e) == {d \in Wants : d[1] = e /\ d[2] \in drain[w].listed} \ drain[w].handed

(* fanOutEvent, one enqueue: a no-op while the pair has a live job row.     *)
Enqueue(w, e, d) ==
    /\ drain[w].stage = "fanning" /\ e \in drain[w].batch /\ d \in ToHandOver(w, e)
    /\ drain' = [drain EXCEPT ![w].handed = @ \cup {d}]
    /\ IF job[d] = "none"
       THEN /\ job' = [job EXCEPT ![d] = "waiting"]
            /\ attempts' = [attempts EXCEPT ![d] = 0]
            /\ enqueued' = [enqueued EXCEPT ![d] = @ + 1]
       ELSE UNCHANGED <<queue, enqueued>>
    /\ UNCHANGED <<outbox, admin, steady, got, buried, counted, deaths, changes, faults>>

(* Mutant of HandedOver: marked once the event's first job is queued.       *)
HandedOverOnce(w, e) ==
    ToHandOver(w, e) = {} \/ \E d \in drain[w].handed : d[1] = e

HandedOver(w, e) == ToHandOver(w, e) = {}

(* markDispatched; an event that nobody wants is dispatched as well.        *)
Dispatch(w, e) ==
    /\ drain[w].stage = "fanning" /\ e \in drain[w].batch /\ HandedOver(w, e)
    /\ event' = [event EXCEPT ![e] = "dispatched"]
    /\ lease' = IF event[e] = "dispatched" THEN lease ELSE [lease EXCEPT ![e] = "free"]
    /\ drain' = [drain EXCEPT ![w] =
            IF drain[w].batch = {e} THEN NoDrain ELSE [drain[w] EXCEPT !.batch = @ \ {e}]]
    /\ UNCHANGED <<admin, queue, steady, deliveryHistory, changes, faults>>

(* A drain dies, or a call in it throws: the rest of its batch stays leased.*)
DrainDies(w) ==
    /\ drain[w].stage # "idle" /\ Fault
    /\ drain' = [drain EXCEPT ![w] = NoDrain]
    /\ UNCHANGED <<outbox, admin, queue, steady, deliveryHistory, changes>>

(* The lease ends, under a drain that overruns it only as a fault.          *)
LeaseLapses(e) ==
    /\ lease[e] = "held"
    /\ lease' = [lease EXCEPT ![e] = "lapsed"]
    /\ IF \E w \in Drains : e \in drain[w].batch THEN Fault ELSE UNCHANGED faults
    /\ UNCHANGED <<event, admin, queue, drain, steady, deliveryHistory, changes>>

-----------------------------------------------------------------------------
(* The delivery handler, as the queue runs it.                              *)

Stage(d, s) == job' = [job EXCEPT ![d] = s]

Bury(d) == Stage(d, "none") /\ buried' = buried \cup {d}

ClaimedAttempts(d) == attempts[d] + 1

(* The queue claims the job; an endpoint that is gone ends it, and one that *)
(* is not active drops it.                                                  *)
Deliver(d) ==
    /\ job[d] = "waiting"
    /\ attempts' = [attempts EXCEPT ![d] = ClaimedAttempts(d)]
    /\ CASE endpoint[d[2]] = "absent" -> Bury(d)
         [] endpoint[d[2]] = "active" -> Stage(d, "posting") /\ UNCHANGED buried
         [] OTHER -> Stage(d, "none") /\ UNCHANGED buried
    /\ UNCHANGED <<outbox, admin, drain, steady, enqueued, got, counted, deaths, changes, faults>>

(* The post: a 2xx answer; none or another one, whether or not the endpoint *)
(* got the event; or a refusal, for the address the URL resolves to.        *)
Post(d) ==
    /\ job[d] = "posting"
    /\ IF endpoint[d[2]] = "absent"
       THEN Bury(d) /\ UNCHANGED <<got, faults>>
       ELSE /\ UNCHANGED buried
            /\ \/ Stage(d, "succeeded") /\ got' = [got EXCEPT ![d] = TRUE] /\ UNCHANGED faults
               \/ /\ Fault /\ Stage(d, "failed")
                  /\ \E reached \in BOOLEAN : got' = [got EXCEPT ![d] = @ \/ reached]
               \/ Fault /\ Stage(d, "refused") /\ UNCHANGED got
    /\ UNCHANGED <<outbox, admin, attempts, drain, steady, enqueued, counted, deaths, changes>>

(* recordDeliverySuccess: the count restarts, the status stays.  When it    *)
(* throws, the delivery is taken for a failed one.                          *)
RecordSuccess(d) ==
    /\ job[d] = "succeeded"
    /\ \/ /\ failures' = [failures EXCEPT ![d[2]] = 0]
          /\ Stage(d, "acking") /\ UNCHANGED faults
       \/ Fault /\ Stage(d, "failed") /\ UNCHANGED failures
    /\ UNCHANGED <<outbox, endpoint, narrowed, attempts, drain, steady, deliveryHistory, changes>>

Final(d) == job[d] = "refused" \/ attempts[d] >= MaxAttempts

(* Mutant of Disables: the count is compared before it is raised.           *)
DisablesLate(p) == endpoint[p] = "active" /\ failures[p] >= Threshold

Disables(p) == endpoint[p] = "active" /\ failures[p] + 1 >= Threshold

(* recordDeliveryFailure. *)
CountFailure(d, p) ==
    /\ counted' = [counted EXCEPT ![d] = @ + 1]
    /\ IF endpoint[p] = "absent"
       THEN UNCHANGED <<admin, steady>>
       ELSE /\ UNCHANGED narrowed
            /\ failures' = [failures EXCEPT ![p] = @ + 1]
            /\ IF Disables(p)
               THEN /\ endpoint' = [endpoint EXCEPT ![p] = "auto_disabled"]
                    /\ steady' = [e \in Events |-> steady[e] \ {p}]
               ELSE UNCHANGED <<endpoint, steady>>

(* failOrRetry: only the last failed attempt counts as a failure; a refusal *)
(* is final on any attempt.                                                 *)
RecordFailure(d) ==
    /\ job[d] \in {"failed", "refused"}
    /\ IF Final(d)
       THEN Stage(d, "burying") /\ CountFailure(d, d[2])
       ELSE Stage(d, "waiting") /\ UNCHANGED <<admin, steady, counted>>
    /\ UNCHANGED <<outbox, attempts, drain, enqueued, got, buried, deaths, changes, faults>>

(* The count throws, committed or not, and so the handler: the queue tries  *)
(* again below its ceiling.                                                 *)
RecordThrows(d) ==
    /\ job[d] \in {"failed", "refused"} /\ Final(d) /\ Fault
    /\ Stage(d, IF attempts[d] >= MaxAttempts THEN "burying" ELSE "waiting")
    /\ CountFailure(d, d[2]) \/ UNCHANGED <<admin, steady, counted>>
    /\ deaths' = [deaths EXCEPT ![d] = @ + 1]
    /\ UNCHANGED <<outbox, attempts, drain, enqueued, got, buried, changes>>

Finish(d) ==
    /\ \/ job[d] = "acking" /\ Stage(d, "none") /\ UNCHANGED buried
       \/ job[d] = "burying" /\ Bury(d)
    /\ UNCHANGED <<outbox, admin, attempts, drain, steady, enqueued, got, counted, deaths, changes, faults>>

(* The run dies and its lease on the job lapses: it is claimed again.       *)
DeliveryDies(d) ==
    /\ job[d] \in Running /\ Fault
    /\ Stage(d, "waiting")
    /\ deaths' = [deaths EXCEPT ![d] = @ + 1]
    /\ UNCHANGED <<outbox, admin, attempts, drain, steady, enqueued, got, buried, counted, changes>>

-----------------------------------------------------------------------------
(* The admin's requests.                                                    *)
AdminRequest == changes < AdminBound /\ changes' = changes + 1

Disturb(p) == steady' = [e \in Events |-> steady[e] \ {p}]

(* handleCreateWebhook. *)
Register(p) ==
    /\ endpoint[p] = "new"
    /\ endpoint' = [endpoint EXCEPT ![p] = "active"]
    /\ UNCHANGED <<outbox, failures, narrowed, queue, drain, steady, deliveryHistory, changes, faults>>

(* A reactivated endpoint starts with no failures counted.                  *)
Reset(p, s) == IF s = "active" THEN 0 ELSE failures[p]

(* handlePatchWebhook of the status, also of one that it has already, ...   *)
PatchStatus(p, s) ==
    /\ endpoint[p] \notin {"new", "absent"} /\ AdminRequest
    /\ endpoint' = [endpoint EXCEPT ![p] = s]
    /\ failures' = [failures EXCEPT ![p] = Reset(p, s)]
    /\ IF endpoint[p] = s THEN UNCHANGED steady ELSE Disturb(p)
    /\ UNCHANGED <<outbox, narrowed, queue, drain, deliveryHistory, faults>>

(* ... and of the filter, which drains look at when they list.              *)
PatchEvents(p) ==
    /\ endpoint[p] \notin {"new", "absent"} /\ AdminRequest
    /\ narrowed' = IF p \in narrowed THEN narrowed \ {p} ELSE narrowed \cup {p}
    /\ Disturb(p)
    /\ UNCHANGED <<outbox, endpoint, failures, queue, drain, deliveryHistory, faults>>

(* handleDeleteWebhook. *)
Remove(p) ==
    /\ endpoint[p] \notin {"new", "absent"} /\ AdminRequest
    /\ endpoint' = [endpoint EXCEPT ![p] = "absent"]
    /\ Disturb(p)
    /\ UNCHANGED <<outbox, failures, narrowed, queue, drain, deliveryHistory, faults>>

Administer(p) ==
    \/ Register(p) \/ PatchEvents(p) \/ Remove(p)
    \/ \E s \in {"active", "disabled"} : PatchStatus(p, s)

DrainStep(w) ==
    \/ Claim(w) \/ ListEndpoints(w)
    \/ \E e \in Events : Dispatch(w, e) \/ \E d \in Wants : Enqueue(w, e, d)

DeliveryStep(d) ==
    \/ Deliver(d) \/ Post(d) \/ RecordSuccess(d)
    \/ RecordFailure(d) \/ RecordThrows(d) \/ Finish(d)

WebhooksNext ==
    \/ \E e \in Events : Emit(e) \/ LeaseLapses(e)
    \/ \E w \in Drains : DrainStep(w) \/ DrainDies(w)
    \/ \E d \in Wants : DeliveryStep(d) \/ DeliveryDies(d)
    \/ \E p \in Endpoints : Administer(p)

WebhooksSpec == WebhooksInit /\ [][WebhooksNext]_webhookVars

(* The drain and the queue run every minute, and dead drains' leases lapse. *)
FairWebhooksSpec ==
    /\ WebhooksSpec
    /\ \A w \in Drains : WF_webhookVars(DrainStep(w))
    /\ \A d \in Wants : WF_webhookVars(DeliveryStep(d))
    /\ \A e \in Events : WF_webhookVars(LeaseLapses(e) /\ UNCHANGED faults)

-----------------------------------------------------------------------------
(* No committed change silently drops its event: once it is dispatched, a   *)
(* delivery was queued for every endpoint that wants it and has been active *)
(* ever since, whatever drains died or overlapped.                          *)
NoEventDropped ==
    /\ WebhooksTypeOK
    /\ \A d \in Wants :
        event[d[1]] = "dispatched" /\ d[2] \in steady[d[1]] => enqueued[d] > 0

(* The auto-disable brake works: an endpoint that has reached the threshold *)
(* of failed deliveries is not active, whichever deliveries, successes and  *)
(* admin changes came between; and a job counts at most once against its    *)
(* endpoint, however many attempts it takes, unless a run died on its last. *)
BrakeHolds ==
    /\ \A p \in Endpoints : endpoint[p] = "active" => failures[p] < Threshold
    /\ \A d \in Wants : counted[d] <= enqueued[d] + deaths[d]

(* An endpoint that stays active gets the event, or its delivery is there   *)
(* to be seen among the dead letters.                                       *)
EventReaches == \A d \in Wants :
    event[d[1]] = "pending" /\ d[2] \in steady[d[1]]
        ~> got[d] \/ d \in buried \/ d[2] \notin steady[d[1]]

-----------------------------------------------------------------------------
(* What the documents say and the code does not keep (README, Divergences). *)

(* What src/store/event-outbox.ts says of a crash between claim and mark:   *)
(* the row is enqueued again into a dedupe no-op.                           *)
ReclaimIsNoOp == \A d \in Wants : enqueued[d] <= 1
=============================================================================
