---------------------------- MODULE InboundIngest ----------------------------
(***************************************************************************)
(* Ingest of one provider message (src/mail/ingest.ts) over the delivery   *)
(* ledger (src/store/inbound-deliveries.ts): claim under a lease, parse,   *)
(* loop guard, threading decision, attachment blobs, and the transaction   *)
(* that stores the thread together with the ledger's outcome.              *)
(*                                                                         *)
(* A call is killed or slow between any two of its awaits; its lease may   *)
(* then lapse and another call reclaim the row one generation up.  A blob  *)
(* put cannot be rolled back; a commit may succeed without the caller      *)
(* learning of it.  Meanwhile agents close and delete conversations.       *)
(***************************************************************************)
EXTENDS Naturals, FiniteSets, Sequences

CONSTANTS
    Messages,       \* provider message ids of one mailbox
    OwnMessages,    \* those the desk sent whose Message-ID is still its own token
    Echoes,         \* those that may be copies of what the desk sent, which Gmail
                    \* gives another Message-ID: known by the provider's id only
    Poison,         \* those parseInboundEmail always throws on
    Conversations,  \* conversations that exist before
    NoConversation,
    Ids,            \* message ids that a header can hold
    InReplyTo,      \* [Messages -> Seq(Ids)], in the order of the header
    References,     \* [Messages -> Seq(Ids)], oldest first
    SignedFor,      \* the conversation an id is a verified reply token of;
                    \* NoConversation: not of ours, or its signature is not
    Parts,          \* [Messages -> set of attachments]
    Workers,        \* concurrent ingestInboundMessage calls
    NoMessage,
    MaxAttempts,    \* MAX_INGEST_ATTEMPTS
    FaultBound      \* model bound: crashes, storage faults and overrun leases

ASSUME IngestAssumption ==
    /\ OwnMessages \cup Echoes \cup Poison \subseteq Messages
    /\ {InReplyTo, References} \subseteq [Messages -> Seq(Ids)]
    /\ SignedFor \in [Ids -> Conversations \cup {NoConversation}]
    /\ NoConversation \notin Conversations /\ NoMessage \notin Messages
    /\ MaxAttempts \in Nat \ {0} /\ FaultBound \in Nat

VARIABLES
    status,     \* ledger row: none (no row), received, failed or settled
    attempts,   \* ledger row: attempts, the claim generation
    lease,      \* ledger row: is claimed_until ahead (held) or past (lapsed)
    threads,    \* inbound threads: [msg, gen, conv, refs]
    blobs,      \* attachment objects: <<msg, gen, part>>
    conv,       \* status of each existing conversation
    msg,        \* msg[w]: the delivery that call w claimed
    gen,        \* gen[w]: the attempts value it claimed
    stage,      \* stage[w]: how far it got
    faults

rowVars == <<status, attempts, lease>>
callVars == <<msg, gen, stage>>
vars == <<rowVars, threads, blobs, conv, callVars, faults>>

(* The statuses of a conversation, a snooze being a pending with a time:    *)
(* customer mail leaves those that are open as they are and reopens others. *)
Open == {"active", "pending"}
Reopened == {"closed", "spam", "snoozed"}

Settled == {"stored", "suppressed", "dead-letter"}
Stages == {"idle", "claimed", "own", "decided", "uploaded", "failing"}

(* A thread that founds a conversation of its own has conv NoConversation.  *)
Thread == [msg : Messages, gen : Nat, conv : Conversations \cup {NoConversation},
           refs : SUBSET (UNION {Parts[m] : m \in Messages})]

(* The types of the state; a call in progress has claimed a row, at a       *)
(* generation that the row has reached.                                     *)
TypeOK ==
    /\ status \in [Messages -> {"none", "received", "failed"} \cup Settled]
    /\ attempts \in [Messages -> Nat]
    /\ lease \in [Messages -> {"held", "lapsed"}]
    /\ threads \subseteq Thread
    /\ blobs \subseteq Messages \X Nat \X UNION {Parts[m] : m \in Messages}
    /\ conv \in [Conversations -> Open \cup Reopened \cup {"deleted"}]
    /\ msg \in [Workers -> Messages \cup {NoMessage}]
    /\ gen \in [Workers -> Nat]
    /\ stage \in [Workers -> Stages]
    /\ faults \in Nat
    /\ \A w \in Workers :
        stage[w] # "idle" =>
            msg[w] # NoMessage /\ status[msg[w]] # "none" /\ gen[w] <= attempts[msg[w]]

Init ==
    /\ status = [m \in Messages |-> "none"]
    /\ attempts = [m \in Messages |-> 0]
    /\ lease = [m \in Messages |-> "lapsed"]
    /\ threads = {}
    /\ blobs = {}
    /\ conv \in [Conversations -> Open \cup Reopened]
    /\ msg = [w \in Workers |-> NoMessage]
    /\ gen = [w \in Workers |-> 0]
    /\ stage = [w \in Workers |-> "idle"]
    /\ faults = 0

-----------------------------------------------------------------------------
Goto(w, s) == stage' = [stage EXCEPT ![w] = s]

Return(w) ==
    /\ msg' = [msg EXCEPT ![w] = NoMessage]
    /\ gen' = [gen EXCEPT ![w] = 0]
    /\ Goto(w, "idle")

Fault == faults < FaultBound /\ faults' = faults + 1

(* Mutants of Reclaimable: a row abandoned in received stays so for ever;   *)
(* any row but a stored one is taken again.                                 *)
ReclaimableNever(m) == FALSE
ReclaimableUnlessStored(m) ==
    status[m] \in {"received", "suppressed", "dead-letter"} /\ lease[m] = "lapsed"

(* InboundDeliveryStore.claim, one transaction.  A row that is settled, or  *)
(* received under a lease still held, is not claimed: nothing changes.      *)
Reclaimable(m) == status[m] = "received" /\ lease[m] = "lapsed"

Claim(w, m) ==
    /\ stage[w] = "idle"
    /\ \/ /\ status[m] \in {"none", "failed"} /\ UNCHANGED attempts
       \/ /\ Reclaimable(m)
          /\ attempts' = [attempts EXCEPT ![m] = @ + 1]
    /\ status' = [status EXCEPT ![m] = "received"]
    /\ lease' = [lease EXCEPT ![m] = "held"]
    /\ msg' = [msg EXCEPT ![w] = m]
    /\ gen' = [gen EXCEPT ![w] = attempts'[m]]
    /\ Goto(w, "claimed")
    /\ UNCHANGED <<threads, blobs, conv, faults>>

(* Mutant of Owns: without the attempts fence.                              *)
OwnsByStatus(w) == status[msg[w]] = "received"

(* WHERE id = $1 AND status = 'received' AND attempts = <claimed>.          *)
Owns(w) == status[msg[w]] = "received" /\ attempts[msg[w]] = gen[w]

(* A fenced ledger write by call w, and the return that follows it: when    *)
(* the fence matches no row, LeaseLostError makes the call in-progress.     *)
WriteOutcome(w, outcome, used) ==
    /\ IF Owns(w)
       THEN /\ status' = [status EXCEPT ![msg[w]] = outcome]
            /\ attempts' = [attempts EXCEPT ![msg[w]] = @ + used]
       ELSE UNCHANGED <<status, attempts>>
    /\ Return(w)
    /\ UNCHANGED <<lease, threads, blobs, conv, faults>>

BudgetSpent(w) == gen[w] >= MaxAttempts

GiveUp(w) ==
    /\ stage[w] = "claimed" /\ BudgetSpent(w)
    /\ WriteOutcome(w, "dead-letter", 1)

(* The one parse, then the loop guard and the threading decision.  The      *)
(* bytes may be unreadable this time, or unparseable every time.            *)
Parse(w) ==
    /\ stage[w] = "claimed" /\ ~BudgetSpent(w)
    /\ \/ /\ msg[w] \in Poison
          /\ Goto(w, "failing") /\ UNCHANGED faults
       \/ /\ msg[w] \notin Poison
          /\ Goto(w, IF msg[w] \in OwnMessages THEN "own" ELSE "decided")
          /\ UNCHANGED faults
       \/ Fault /\ Goto(w, "failing")
    /\ UNCHANGED <<rowVars, threads, blobs, conv, msg, gen>>

Suppress(w) == stage[w] = "own" /\ WriteOutcome(w, "suppressed", 0)

(* Mutant of AllPut: a put that throws is logged and skipped.               *)
AllPutOrSkipped(w, done) == done \subseteq Parts[msg[w]]

AllPut(w, done) == done = Parts[msg[w]]

(* writeAttachmentBlobs: puts under fresh keys, and a put that throws       *)
(* leaves the earlier ones behind.                                          *)
WriteBlobs(w) ==
    /\ stage[w] = "decided"
    /\ \E done \in SUBSET Parts[msg[w]] :
        /\ blobs' = blobs \cup {<<msg[w], gen[w], p>> : p \in done}
        /\ \/ AllPut(w, done) /\ Goto(w, "uploaded") /\ UNCHANGED faults
           \/ Fault /\ Goto(w, "failing")
    /\ UNCHANGED <<rowVars, threads, conv, msg, gen>>

(* buildCandidates: what is replied to, then the references newest first.   *)
NewestFirst(s) == [i \in 1..Len(s) |-> s[Len(s) + 1 - i]]
Candidates(m) == InReplyTo[m] \o NewestFirst(References[m])

(* decideThreading: the first candidate whose signature verifies, whatever  *)
(* stands before it and whatever has become of what it names.               *)
Verifies(id) == SignedFor[id] # NoConversation
FirstVerified(m, i) ==
    Verifies(Candidates(m)[i]) /\ \A j \in 1..(i - 1) : ~Verifies(Candidates(m)[j])
Decision(m) ==
    LET positions == 1..Len(Candidates(m)) IN
    IF \E i \in positions : FirstVerified(m, i)
    THEN SignedFor[Candidates(m)[CHOOSE i \in positions : FirstVerified(m, i)]]
    ELSE NoConversation

(* Mutant of Home: the decision taken before the transaction is final.      *)
HomeAsDecided(m) == Decision(m)

(* Where writeParsedEmail puts the message: the conversation its token      *)
(* names, read FOR UPDATE inside the transaction, else a new one.           *)
Home(m) ==
    IF Decision(m) # NoConversation /\ conv[Decision(m)] # "deleted"
    THEN Decision(m) ELSE NoConversation

(* storeAndMarkDelivered's transaction: thread, attachment references,      *)
(* ledger outcome and the reopening of the conversation, or nothing.        *)
Commit(w) ==
    LET m == msg[w] IN
    /\ Owns(w)
    /\ threads' = threads \cup
         {[msg |-> m, gen |-> gen[w], conv |-> Home(m), refs |-> Parts[m]]}
    /\ conv' = [c \in Conversations |->
                  IF c = Home(m) /\ conv[c] \in Reopened THEN "active" ELSE conv[c]]
    /\ status' = [status EXCEPT ![m] = "stored"]
    /\ UNCHANGED <<attempts, lease, blobs>>

Rollback == UNCHANGED <<rowVars, threads, blobs, conv>>

Store(w) ==
    /\ stage[w] = "uploaded"
    /\ Commit(w) \/ (~Owns(w) /\ Rollback)
    /\ Return(w)
    /\ UNCHANGED faults

(* The transaction fails, or commits without the caller learning of it.     *)
StoreThrows(w) ==
    /\ stage[w] = "uploaded"
    /\ Fault
    /\ Commit(w) \/ Rollback
    /\ Goto(w, "failing")
    /\ UNCHANGED <<msg, gen>>

(* Mutant of LastAttempt: off by one. *)
LastAttemptEarly(w) == gen[w] + 2 >= MaxAttempts

LastAttempt(w) == gen[w] + 1 >= MaxAttempts

RecordFailure(w) ==
    /\ stage[w] = "failing"
    /\ WriteOutcome(w, IF LastAttempt(w) THEN "dead-letter" ELSE "failed", 1)

(* preSuppressOwnSend: the sender records the provider's id of its message  *)
(* as suppressed unless ingest already has a row for it.                    *)
PreSuppress(m) ==
    /\ m \in OwnMessages \cup Echoes
    /\ status[m] = "none"
    /\ status' = [status EXCEPT ![m] = "suppressed"]
    /\ UNCHANGED <<attempts, lease, threads, blobs, conv, callVars, faults>>

(* The process dies, or a ledger write throws out of the call.              *)
Crash(w) ==
    /\ stage[w] # "idle"
    /\ Fault
    /\ Return(w)
    /\ UNCHANGED <<rowVars, threads, blobs, conv>>

(* now() passes claimed_until, of a lease whose call died ...               *)
Abandoned(m) == \A w \in Workers : msg[w] # m \/ gen[w] # attempts[m]

Lapse(m) ==
    /\ status[m] = "received" /\ lease[m] = "held"
    /\ lease' = [lease EXCEPT ![m] = "lapsed"]
    /\ UNCHANGED <<status, attempts, threads, blobs, conv, callVars>>

LeaseLapses(m) == Abandoned(m) /\ Lapse(m) /\ UNCHANGED faults

(* ... or, a fault of its own, under a call that is still running.          *)
LeaseOverrun(m) == ~Abandoned(m) /\ Lapse(m) /\ Fault

(* Agents file conversations, snoozes end; a deletion is final.             *)
AgentSets(c, s) ==
    /\ conv[c] # "deleted" /\ conv[c] # s
    /\ conv' = [conv EXCEPT ![c] = s]
    /\ UNCHANGED <<rowVars, threads, blobs, callVars, faults>>

-----------------------------------------------------------------------------
Step(w) == \/ GiveUp(w) \/ Parse(w) \/ Suppress(w) \/ WriteBlobs(w)
           \/ Store(w) \/ StoreThrows(w) \/ RecordFailure(w)

Next ==
    \/ \E w \in Workers : Step(w) \/ Crash(w) \/ \E m \in Messages : Claim(w, m)
    \/ \E m \in Messages : PreSuppress(m) \/ LeaseLapses(m) \/ LeaseOverrun(m)
    \/ \E c \in Conversations, s \in Open \cup Reopened \cup {"deleted"} : AgentSets(c, s)

Spec == Init /\ [][Next]_vars

(* Calls run on, a dead call's lease lapses, and the provider side          *)
(* redelivers a message until ingest reports it settled (a reconcile does   *)
(* not move its cursor past it before).                                     *)
Fairness ==
    /\ \A w \in Workers : WF_vars(Step(w))
    /\ \A m \in Messages : /\ WF_vars(LeaseLapses(m))
                           /\ WF_vars(\E w \in Workers : Claim(w, m))

FairSpec == Spec /\ Fairness

-----------------------------------------------------------------------------
(* A message is in the desk exactly once when its row says stored, and not  *)
(* at all otherwise: stale calls, retries and unseen commits included.  And *)
(* it is there whole: no served thread refers to an attachment that was     *)
(* never written, though attempts that failed half-way leave orphans.       *)
OneThreadPerMessage ==
    /\ TypeOK
    /\ \A m \in Messages :
        Cardinality({t \in threads : t.msg = m}) = IF status[m] = "stored" THEN 1 ELSE 0
    /\ \A t \in threads : \A p \in t.refs : <<t.msg, t.gen, p>> \in blobs

(* While a call's lease has not lapsed its claim is its own: no other call  *)
(* settles, fails, parks or reclaims the row under it.                      *)
OwnerUndisturbed ==
    [][\A w \in Workers :
          (stage[w] # "idle" /\ Owns(w) /\ lease[msg[w]] = "held") =>
              stage'[w] # stage[w] \/ Owns(w)']_vars

(* A message is parked only after the whole budget was used, whether the    *)
(* attempts failed or died, and never processed beyond it.                  *)
BudgetExact ==
    /\ \A m \in Messages : status[m] = "dead-letter" => attempts[m] >= MaxAttempts
    /\ \A w \in Workers : stage[w] \notin {"idle", "claimed"} => gen[w] < MaxAttempts

(* A reply is never filed where nobody will see it: the step that stores it *)
(* finds or makes its conversation open, whatever was decided before it.    *)
FiledInOpenConversation ==
    [][\A t \in threads' \ threads :
          t.conv # NoConversation => conv[t.conv] # "deleted" /\ conv'[t.conv] \in Open]_vars

Fate(s) == CASE s = "none" -> "unseen"
             [] s \in {"received", "failed"} -> "open"
             [] OTHER -> s

Copies(m) == Cardinality({t \in threads : t.msg = m})

Ledger == INSTANCE InboundLedger WITH
    fate <- [m \in Messages |-> Fate(status[m])],
    copies <- [m \in Messages |-> Copies(m)]

(* The ledger and the threads implement one fate per message.               *)
ImplementsLedger == Ledger!LedgerSpec

(* Every delivered message is settled: poison and crashing ones are parked. *)
EveryMessageSettled == Ledger!LedgerLive
=============================================================================
