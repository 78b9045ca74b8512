-------------------------- MODULE OutboundDelivery --------------------------
(***************************************************************************)
(* Delivery of outbound threads: sendReply (src/mail/send.ts), approveDraft *)
(* (src/mail/approve-draft.ts), the sweep of src/mail/delivery-worker.ts,  *)
(* and the lease they share in src/store/conversations.ts.  Persist, then  *)
(* send, then mark.                                                        *)
(*                                                                         *)
(* The provider may take the message and still answer with an error; a     *)
(* call may die, or its mark fail, between any two steps.  The assertion   *)
(* maxSendMs < lease keeps a lease from lapsing during a send; nothing     *)
(* but the platform's kill keeps it from lapsing between send and mark.    *)
(***************************************************************************)
EXTENDS Naturals

CONSTANTS
    Threads,         \* outbound threads of one conversation
    Keyless,         \* those sent without an idempotency key
    Drafts,          \* those an assistant drafted, sent on approval
    Callers,         \* concurrent sendReply calls and sweeps
    NoThread,
    FaultBound       \* model bound: crashes, lost marks, false errors, overruns

ASSUME DeliveryAssumption ==
    /\ Keyless \subseteq Threads /\ Drafts \subseteq Threads \ Keyless
    /\ NoThread \notin Threads
    /\ FaultBound \in Nat

VARIABLES
    delivery,   \* threads.delivery_status; none before the row exists
    lease,      \* threads.claimed_until: NULL (free), ahead (held) or past (lapsed)
    stale,      \* is the row older than staleAfterMs?
    deleted,    \* is the conversation soft-deleted?
    told,       \* how many reply_sent events the thread has had
    mails,      \* how many copies the provider accepted
    thread,     \* thread[w]: the row that call w works on
    leased,     \* leased[w]: did it claim that row's lease?
    stage,      \* stage[w]: how far it got
    faults,
    overrun     \* history: rows whose time ran out under a call still working

rowVars == <<delivery, lease, stale>>
callVars == <<thread, leased, stage>>
ghostVars == <<faults, overrun>>
vars == <<rowVars, deleted, told, mails, callVars, ghostVars>>

(* The types of the state; a row being sent exists.                         *)
TypeOK ==
    /\ delivery \in [Threads -> {"none", "pending", "failed", "sent"}]
    /\ lease \in [Threads -> {"free", "held", "lapsed"}]
    /\ stale \in [Threads -> BOOLEAN]
    /\ deleted \in BOOLEAN
    /\ told \in [Threads -> Nat]
    /\ mails \in [Threads -> Nat]
    /\ thread \in [Callers -> Threads \cup {NoThread}]
    /\ leased \in [Callers -> BOOLEAN]
    /\ stage \in [Callers -> {"idle", "candidate", "sending", "accepted", "threw"}]
    /\ faults \in Nat
    /\ overrun \subseteq Threads
    /\ \A w \in Callers : stage[w] # "idle" =>
            thread[w] # NoThread /\ delivery[thread[w]] # "none"

Init ==
    /\ delivery = [t \in Threads |-> "none"]
    /\ lease = [t \in Threads |-> "free"]
    /\ stale = [t \in Threads |-> FALSE]
    /\ deleted = FALSE
    /\ told = [t \in Threads |-> 0]
    /\ mails = [t \in Threads |-> 0]
    /\ thread = [w \in Callers |-> NoThread]
    /\ leased = [w \in Callers |-> FALSE]
    /\ stage = [w \in Callers |-> "idle"]
    /\ faults = 0
    /\ overrun = {}

-----------------------------------------------------------------------------
Take(w, t, s) ==
    /\ stage[w] = "idle"
    /\ thread' = [thread EXCEPT ![w] = t]
    /\ stage' = [stage EXCEPT ![w] = s]
    /\ UNCHANGED leased

Return(w) ==
    /\ thread' = [thread EXCEPT ![w] = NoThread]
    /\ leased' = [leased EXCEPT ![w] = FALSE]
    /\ stage' = [stage EXCEPT ![w] = "idle"]

Fault == faults < FaultBound /\ faults' = faults + 1

(* sendReply: the row is persisted as pending.  Only a keyed send goes on   *)
(* to claim its lease.                                                      *)
Persist(w, t) ==
    /\ ~deleted /\ t \notin Drafts /\ delivery[t] = "none"
    /\ delivery' = [delivery EXCEPT ![t] = "pending"]
    /\ Take(w, t, IF t \in Keyless THEN "sending" ELSE "candidate")
    /\ UNCHANGED <<lease, stale, deleted, told, mails, ghostVars>>

(* The same key again: an unsent row is tried again, a sent one replayed.   *)
Replay(w, t) ==
    /\ ~deleted /\ t \notin Keyless \cup Drafts
    /\ delivery[t] \in {"pending", "failed"}
    /\ Take(w, t, "candidate")
    /\ UNCHANGED <<rowVars, deleted, told, mails, ghostVars>>

(* Mutant of Awaiting: an approval looks only at its own, older read.       *)
AwaitingAsRead(t) == t \in Drafts

(* resolveDraft's guard: a draft has no delivery status until it is         *)
(* approved, and is approved once.                                          *)
Awaiting(t) == t \in Drafts /\ delivery[t] = "none"

(* approveDraft: resolved, the draft is a pending thread to claim and send  *)
(* (Conversations has the other statuses that refuse it).                   *)
Approve(w, t) ==
    /\ ~deleted /\ Awaiting(t)
    /\ delivery' = [delivery EXCEPT ![t] = "pending"]
    /\ Take(w, t, "candidate")
    /\ UNCHANGED <<lease, stale, deleted, told, mails, ghostVars>>

(* listDeliverableThreads: a candidate of the sweep, as of this read.       *)
Deliverable(t) ==
    /\ delivery[t] = "failed" \/ (delivery[t] = "pending" /\ stale[t])
    /\ lease[t] # "held"

Sweep(w, t) ==
    /\ Deliverable(t)
    /\ Take(w, t, "candidate")
    /\ UNCHANGED <<rowVars, deleted, told, mails, ghostVars>>

(* Mutant of Claimable: the lease is not checked.                           *)
ClaimableAnyLease(t) == delivery[t] \in {"pending", "failed"}

(* claimThreadForDelivery. *)
Claimable(t) == delivery[t] \in {"pending", "failed"} /\ lease[t] # "held"

Claim(w) ==
    /\ stage[w] = "candidate"
    /\ IF Claimable(thread[w])
       THEN /\ lease' = [lease EXCEPT ![thread[w]] = "held"]
            /\ leased' = [leased EXCEPT ![w] = TRUE]
            /\ stage' = [stage EXCEPT ![w] = "sending"]
            /\ UNCHANGED thread
       ELSE Return(w) /\ UNCHANGED lease
    /\ UNCHANGED <<delivery, stale, deleted, told, mails, ghostVars>>

(* EmailSender.send answers, or throws with or without having taken it; a   *)
(* sender that cannot be resolved is a throw that took nothing.             *)
Send(w) ==
    /\ stage[w] = "sending"
    /\ \E taken, threw \in BOOLEAN :
        /\ taken \/ threw
        /\ IF taken /\ threw THEN Fault ELSE UNCHANGED faults
        /\ mails' = IF taken THEN [mails EXCEPT ![thread[w]] = @ + 1] ELSE mails
        /\ stage' = [stage EXCEPT ![w] = IF threw THEN "threw" ELSE "accepted"]
    /\ UNCHANGED <<rowVars, deleted, told, thread, leased, overrun>>

(* Mutant of Outcome: the mark does not depend on the send.                 *)
OutcomeAlwaysSent(w) == "sent"

Outcome(w) == IF stage[w] = "accepted" THEN "sent" ELSE "failed"

(* Mutant of MarkLeased: the event goes with every mark.                    *)
MarkLeasedTellsAll(w) ==
    LET t == thread[w] IN
    /\ delivery' = [delivery EXCEPT ![t] = Outcome(w)]
    /\ lease' = [lease EXCEPT ![t] = "free"]
    /\ told' = IF ~deleted THEN [told EXCEPT ![t] = @ + 1] ELSE told

(* releaseThreadLease: outcome, lease and event in one transaction, by row  *)
(* id alone, whoever holds the lease now.                                   *)
MarkLeased(w) ==
    LET t == thread[w] IN
    /\ delivery' = [delivery EXCEPT ![t] = Outcome(w)]
    /\ lease' = [lease EXCEPT ![t] = "free"]
    /\ told' = IF Outcome(w) = "sent" /\ ~deleted THEN [told EXCEPT ![t] = @ + 1] ELSE told

(* setThreadDeliveryStatus: what a send that claimed no lease is marked by; *)
(* no event.                                                                *)
MarkFresh(w) ==
    /\ delivery' = [delivery EXCEPT ![thread[w]] = Outcome(w)]
    /\ UNCHANGED <<lease, told>>

Mark(w) ==
    /\ stage[w] \in {"accepted", "threw"}
    /\ IF leased[w] THEN MarkLeased(w) ELSE MarkFresh(w)
    /\ Return(w)
    /\ UNCHANGED <<stale, deleted, mails, ghostVars>>

(* The process dies, or the mark fails and the call returns regardless.     *)
Crash(w) ==
    /\ stage[w] # "idle"
    /\ Fault
    /\ Return(w)
    /\ UNCHANGED <<rowVars, deleted, told, mails, overrun>>

Working(w, t) == thread[w] = t /\ stage[w] \in {"sending", "accepted", "threw"}

(* The time a call has: its lease, or staleAfterMs for a send without one.  *)
(* The time limit of a send is within it, but not the lookups before and    *)
(* the mark after: nothing but the platform's kill keeps it from running    *)
(* out then, an overrun.                                                    *)
TimeRunsOut(t, theirs) ==
    /\ \A w \in theirs : stage[w] # "sending"
    /\ IF theirs = {} THEN UNCHANGED ghostVars
       ELSE Fault /\ overrun' = overrun \cup {t}

LeaseLapses(t) ==
    /\ lease[t] = "held"
    /\ TimeRunsOut(t, {w \in Callers : Working(w, t) /\ leased[w]})
    /\ lease' = [lease EXCEPT ![t] = "lapsed"]
    /\ UNCHANGED <<delivery, stale, deleted, told, mails, callVars>>

BecomesStale(t) ==
    /\ delivery[t] = "pending" /\ ~stale[t]
    /\ TimeRunsOut(t, {w \in Callers : Working(w, t) /\ ~leased[w]})
    /\ stale' = [stale EXCEPT ![t] = TRUE]
    /\ UNCHANGED <<delivery, lease, deleted, told, mails, callVars>>

Delete ==
    /\ ~deleted
    /\ deleted' = TRUE
    /\ UNCHANGED <<rowVars, told, mails, callVars, ghostVars>>

-----------------------------------------------------------------------------
Next ==
    \/ \E w \in Callers :
        \/ \E t \in Threads : Persist(w, t) \/ Replay(w, t) \/ Approve(w, t) \/ Sweep(w, t)
        \/ Claim(w) \/ Send(w) \/ Mark(w) \/ Crash(w)
    \/ \E t \in Threads : LeaseLapses(t) \/ BecomesStale(t)
    \/ Delete

Spec == Init /\ [][Next]_vars

-----------------------------------------------------------------------------
(* At most one attempt is sending a given thread, unless a call was still   *)
(* working on it when its time ran out: the lease and its assertion keep    *)
(* replays and sweeps from a concurrent double send.                        *)
OneSenderAtATime ==
    \A v, w \in Callers :
        (v # w /\ stage[v] = "sending" /\ stage[w] = "sending" /\ thread[v] = thread[w]) =>
            thread[v] \in overrun

(* The record is truthful: sent means that the provider took it, however    *)
(* marks of several attempts, late ones too, interleave.                    *)
NeverFalseSent ==
    /\ TypeOK
    /\ \A t \in Threads : delivery[t] = "sent" => mails[t] > 0

(* Every copy beyond the first is owed to a fault of its own (a crash, a    *)
(* lost mark, a false error of the provider, an overrun): replays and       *)
(* sweeps alone never duplicate a mail.                                     *)
NoSpuriousCopy == \A t \in Threads : mails[t] <= 1 + faults

(* Unless a call outlived its time on it, a thread that was sent stays      *)
(* sent, so that nothing claims it again: no late or replayed attempt       *)
(* writes over the outcome.  Its reply_sent is fired when it becomes sent   *)
(* and at no other time.                                                    *)
SentIsFinal ==
    [][\A t \in Threads \ overrun' :
          /\ delivery[t] = "sent" => delivery'[t] = "sent"
          /\ told'[t] # told[t] => delivery[t] # "sent" /\ delivery'[t] = "sent"]_vars
=============================================================================
