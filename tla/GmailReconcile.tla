--------------------------- MODULE GmailReconcile ---------------------------
(***************************************************************************)
(* Reconciling one Gmail mailbox with its history: the job handler of      *)
(* src/mail/gmail-reconcile.ts, the cursor and the lease it keeps in       *)
(* src/store/gmail-watch-state.ts, and everything that may move them       *)
(* meanwhile: connect, disconnect, the renewal of the watch, other jobs.   *)
(*                                                                         *)
(* A run reads the cursor, lists the history behind it, hands each message *)
(* to ingest and then writes the new cursor without looking at the old     *)
(* one.  Of ingest only this is kept: a message it settles (stored,         *)
(* suppressed, dead-letter) stays settled, as InboundIngest is checked to   *)
(* do; any other outcome is failed or in progress.                         *)
(***************************************************************************)
EXTENDS Naturals, Sequences

CONSTANTS
    Jobs,            \* dedupe keys of the mailbox's jobs: one sweep, some pushes
    HistoryBound,    \* model bound: entries of the Gmail history
    ForgetBound,     \* model bound: entries that Gmail's retention forgets
    OperatorBound,   \* model bound: connects, disconnects and renewals
    FaultBound       \* model bound: failed calls, killed runs, lapsed leases

ASSUME ReconcileAssumption ==
    /\ "sweep" \in Jobs
    /\ {HistoryBound, ForgetBound, OperatorBound, FaultBound} \subseteq Nat

Positions == 1..HistoryBound
Watermarks == 0..HistoryBound
Free == "free"
NoRow == [exists |-> FALSE, cursor |-> 0, seeded |-> FALSE, lease |-> Free, live |-> FALSE]

VARIABLES
    status,     \* mailboxes.status
    row,        \* gmail_watch_state: is it there, its cursor (seeded: not NULL),
                \* whose lease it bears and whether that is still ahead of now
    armed,      \* armed[w]: how many connects have the watermark w from watch()
                \* and are yet to write it; nothing keeps one from another
    renewing,   \* is a watch renewal between its two writes?
    baseline,   \* history: the highest watermark a connect has made the cursor
    history,    \* Gmail: what each entry added: "mail", or "skipped" for mail of
                \* its own, a draft, or a message deleted since
    forgotten,  \* Gmail: how many entries retention has dropped
    settled,    \* entries whose message is settled in the ingest ledger
    job,        \* job[j]: is it queued, and is a run at it?
    run,        \* run[j]: the run's local state
    operations, faults

mailbox == <<status, row, armed, renewing, baseline, operations>>
gmail == <<history, forgotten>>
vars == <<mailbox, gmail, settled, job, run, faults>>

(* A run between jobs; at: the last entry dealt with, upto: the watermark   *)
(* that the listing returned.                                               *)
Idle == [stage |-> "idle", at |-> 0, upto |-> 0, blocked |-> FALSE, result |-> "ack"]

LeasedStages == {"list", "expired", "fetch", "release"}
Stages == {"idle", "token", "refused", "cursor", "claim"} \cup LeasedStages

(* The types of the state; a run is active exactly when its job is running. *)
TypeOK ==
    /\ status \in {"active", "paused", "needs_reconnect", "disconnected"}
    /\ row \in [exists : BOOLEAN, cursor : 0..HistoryBound, seeded : BOOLEAN,
                lease : Jobs \cup {Free}, live : BOOLEAN]
    /\ armed \in [Watermarks -> Nat] /\ baseline \in Watermarks
    /\ renewing \in BOOLEAN
    /\ history \in Seq({"mail", "skipped"}) /\ Len(history) <= HistoryBound
    /\ forgotten \in 0..Len(history) /\ settled \subseteq 1..Len(history)
    /\ job \in [Jobs -> {"none", "waiting", "running"}]
    /\ run \in [Jobs -> [stage : Stages, at : 0..HistoryBound, upto : 0..HistoryBound,
                         blocked : BOOLEAN, result : {"ack", "retry"}]]
    /\ \A j \in Jobs : (run[j].stage = "idle") = (job[j] # "running")
    /\ \A j \in Jobs : run[j].upto <= Len(history)
    /\ operations \in 0..OperatorBound /\ faults \in 0..FaultBound

Init ==
    /\ status = "active"
    /\ row = [NoRow EXCEPT !.exists = TRUE, !.seeded = TRUE]
    /\ armed = [w \in Watermarks |-> 0] /\ renewing = FALSE /\ baseline = 0
    /\ history = <<>> /\ forgotten = 0 /\ settled = {}
    /\ job = [j \in Jobs |-> "none"]
    /\ run = [j \in Jobs |-> Idle]
    /\ operations = 0 /\ faults = 0

Fault == faults < FaultBound /\ faults' = faults + 1

-----------------------------------------------------------------------------
(* Triggers: the sweep looks for an active mailbox with a cursor, a push    *)
(* for an active mailbox; a job whose key is queued already is not added.   *)

Enqueue(j) ==
    /\ job[j] = "none" /\ status = "active"
    /\ j = "sweep" => row.exists /\ row.seeded
    /\ job' = [job EXCEPT ![j] = "waiting"]
    /\ UNCHANGED <<mailbox, gmail, settled, run, faults>>

(* The handler returns: an acked job is done; one that asks for a retry     *)
(* waits again, or is dead-lettered when its attempts are used up.          *)
Return(j, result) ==
    /\ run' = [run EXCEPT ![j] = Idle]
    /\ \E next \in IF result = "ack" THEN {"none"} ELSE {"waiting", "none"} :
            job' = [job EXCEPT ![j] = next]

Go(j, stage) == run' = [run EXCEPT ![j].stage = stage]

Finish(j, result) ==
    run' = [run EXCEPT ![j] = [Idle EXCEPT !.stage = "release", !.result = result]]

-----------------------------------------------------------------------------
(* reconcileOneMailbox, a step for each call it awaits. *)

(* A run starts by reading the mailbox's current status.                    *)
Start(j) ==
    /\ job[j] = "waiting"
    /\ IF status = "active"
       THEN /\ job' = [job EXCEPT ![j] = "running"]
            /\ run' = [run EXCEPT ![j] = [Idle EXCEPT !.stage = "token"]]
       ELSE Return(j, "ack")
    /\ UNCHANGED <<mailbox, gmail, settled, faults>>

(* getAccessToken: a token; a dead grant, recorded unless disconnected; or  *)
(* a transient failure, which a disconnected mailbox always meets.          *)
AcquireToken(j) ==
    /\ run[j].stage = "token"
    /\ \/ /\ status # "disconnected"
          /\ Go(j, "cursor") /\ UNCHANGED <<status, faults>>
       \/ /\ Fault
          /\ status' = IF status = "disconnected" THEN status ELSE "needs_reconnect"
          /\ Go(j, "refused")
       \/ Fault /\ Go(j, "refused") /\ UNCHANGED status
       \/ status = "disconnected" /\ Go(j, "refused") /\ UNCHANGED <<status, faults>>
    /\ UNCHANGED <<row, armed, renewing, baseline, operations, gmail, settled, job>>

Refused(j) ==
    /\ run[j].stage = "refused"
    /\ Return(j, IF status = "needs_reconnect" THEN "ack" ELSE "retry")
    /\ UNCHANGED <<mailbox, gmail, settled, faults>>

(* The cursor is read before the lease is claimed.                          *)
ReadCursor(j) ==
    /\ run[j].stage = "cursor"
    /\ IF row.exists /\ row.seeded
       THEN /\ run' = [run EXCEPT ![j].stage = "claim", ![j].at = row.cursor]
            /\ UNCHANGED job
       ELSE Return(j, "ack")
    /\ UNCHANGED <<mailbox, gmail, settled, faults>>

ClaimLease(j) ==
    /\ run[j].stage = "claim"
    /\ IF row.exists /\ ~row.live
       THEN /\ row' = [row EXCEPT !.lease = j, !.live = TRUE]
            /\ Go(j, "list")
            /\ UNCHANGED job
       ELSE Return(j, "retry") /\ UNCHANGED row
    /\ UNCHANGED <<status, armed, renewing, baseline, operations, gmail, settled, faults>>

List(j) ==
    /\ run[j].stage = "list"
    /\ IF run[j].at < forgotten
       THEN Go(j, "expired")
       ELSE run' = [run EXCEPT ![j].stage = "fetch", ![j].upto = Len(history)]
    /\ UNCHANGED <<mailbox, gmail, settled, job, faults>>

Pause(j) ==
    /\ run[j].stage = "expired"
    /\ status' = IF status = "disconnected" THEN status ELSE "paused"
    /\ Finish(j, "ack")
    /\ UNCHANGED <<row, armed, renewing, baseline, operations, gmail, settled, job, faults>>

(* The entries in order.  The mailbox's own mail and drafts, and messages   *)
(* deleted since the listing, are skipped; every other one goes to ingest,  *)
(* which settles it, now or before, or blocks the batch.                    *)
Fetch(j) ==
    LET m == run[j].at + 1 IN
    /\ run[j].stage = "fetch"
    /\ run[j].at < run[j].upto
    /\ \/ /\ settled' = IF history[m] = "mail" THEN settled \cup {m} ELSE settled
          /\ run' = [run EXCEPT ![j].at = m]
          /\ UNCHANGED faults
       \/ /\ history[m] = "mail" /\ m \notin settled /\ Fault
          /\ run' = [run EXCEPT ![j].at = m, ![j].blocked = TRUE]
          /\ UNCHANGED settled
    /\ UNCHANGED <<mailbox, gmail, job>>

(* Any of these calls may throw: the lease is released, the job retried.    *)
Throw(j) ==
    /\ run[j].stage \in {"list", "expired", "fetch"}
    /\ Fault
    /\ Finish(j, "retry")
    /\ UNCHANGED <<mailbox, gmail, settled, job>>

(* Mutant of MayAdvance: a blocked batch advances the cursor all the same.  *)
MayAdvanceAlways(j) == TRUE

MayAdvance(j) == ~run[j].blocked

NewCursor(j) == run[j].upto

(* setCursor is an upsert: nothing asks where the row came from.            *)
Advance(j) ==
    /\ run[j].stage = "fetch" /\ run[j].at >= run[j].upto
    /\ IF MayAdvance(j)
       THEN /\ row' = [row EXCEPT !.exists = TRUE, !.seeded = TRUE, !.cursor = NewCursor(j)]
            /\ Finish(j, "ack")
       ELSE Finish(j, "retry") /\ UNCHANGED row
    /\ UNCHANGED <<status, armed, renewing, baseline, operations,
                   gmail, settled, job, faults>>

(* Mutant of Releases: whatever lease the row bears is cleared.             *)
ReleasesAny(j) == row.exists

(* releaseReconcileLease compares the token it was granted.                 *)
Releases(j) == row.exists /\ row.lease = j

(* A release that fails is logged; the outcome of the run stands.           *)
Release(j) ==
    /\ run[j].stage = "release"
    /\ \/ /\ row' = IF Releases(j) THEN [row EXCEPT !.lease = Free, !.live = FALSE] ELSE row
          /\ UNCHANGED faults
       \/ Fault /\ UNCHANGED row
    /\ Return(j, run[j].result)
    /\ UNCHANGED <<status, armed, renewing, baseline, operations, gmail, settled>>

(* The platform kills the run; the queue's lease on the job lapses and it   *)
(* is delivered again.  The reconcile lease stays behind.                   *)
Kill(j) ==
    /\ run[j].stage # "idle" /\ Fault
    /\ run' = [run EXCEPT ![j] = Idle]
    /\ job' = [job EXCEPT ![j] = "waiting"]
    /\ UNCHANGED <<mailbox, gmail, settled>>

(* The lease's time is up: for nothing if its holder is gone, as a fault if *)
(* the holder overruns it.                                                  *)
LeaseLapses ==
    /\ row.live
    /\ IF run[row.lease].stage \in LeasedStages
       THEN row' = [row EXCEPT !.live = FALSE] /\ Fault
       ELSE row' = [row EXCEPT !.live = FALSE, !.lease = Free] /\ UNCHANGED faults
    /\ UNCHANGED <<status, armed, renewing, baseline, operations,
                   gmail, settled, job, run>>

-----------------------------------------------------------------------------
(* The mailbox: connect and disconnect, and the daily renewal of the watch. *)

Operate == operations < OperatorBound /\ operations' = operations + 1

(* completeConnect: watch() answers with Gmail's watermark, ...             *)
ConnectArms ==
    /\ Operate
    /\ armed' = [armed EXCEPT ![Len(history)] = @ + 1]
    /\ UNCHANGED <<status, row, renewing, baseline, gmail, settled, job, run, faults>>

(* Mutant of Seeded: the watch is recorded, as a renewal does, no cursor.   *)
SeededBare(w) == [row EXCEPT !.exists = TRUE]

(* seedBaseline: an upsert, which leaves a lease on the row.                *)
Seeded(w) == [row EXCEPT !.exists = TRUE, !.seeded = TRUE, !.cursor = w]

(* ... which one transaction makes the cursor, whatever another connect has *)
(* seeded since.  A connect may die before that.                            *)
ConnectPersists(w) ==
    /\ armed[w] > 0
    /\ armed' = [armed EXCEPT ![w] = @ - 1]
    /\ status' = "active"
    /\ row' = Seeded(w)
    /\ baseline' = IF w > baseline THEN w ELSE baseline
    /\ UNCHANGED <<renewing, operations, gmail, settled, job, run, faults>>

Disconnect ==
    /\ Operate
    /\ status' = "disconnected"
    /\ row' = NoRow
    /\ UNCHANGED <<armed, renewing, baseline, gmail, settled, job, run, faults>>

RenewBegins ==
    /\ status = "active" /\ ~renewing /\ Operate
    /\ renewing' = TRUE
    /\ UNCHANGED <<status, row, armed, baseline, gmail, settled, job, run, faults>>

(* maintainOneMailbox: setWatchExpiration leaves the cursor, or inserts a   *)
(* row without one; a watch() that fails is only counted.                   *)
RenewEnds ==
    /\ renewing
    /\ renewing' = FALSE
    /\ row' \in {row, [row EXCEPT !.exists = TRUE]}
    /\ UNCHANGED <<status, armed, baseline, operations,
                   gmail, settled, job, run, faults>>

(* Gmail: mail arrives or is sent, is deleted (which of a settled message   *)
(* makes no difference here), and its history is dropped.                   *)
Gmail ==
    /\ \/ /\ Len(history) < HistoryBound
          /\ \E kind \in {"mail", "skipped"} : history' = Append(history, kind)
          /\ UNCHANGED forgotten
       \/ /\ \E m \in 1..Len(history) \ settled :
                history[m] = "mail" /\ history' = [history EXCEPT ![m] = "skipped"]
          /\ UNCHANGED forgotten
       \/ /\ forgotten < ForgetBound /\ forgotten < Len(history)
          /\ forgotten' = forgotten + 1
          /\ UNCHANGED history
    /\ UNCHANGED <<mailbox, settled, job, run, faults>>

RunStep(j) ==
    \/ Start(j) \/ AcquireToken(j) \/ Refused(j)
    \/ ReadCursor(j) \/ ClaimLease(j) \/ List(j) \/ Pause(j) \/ Fetch(j)
    \/ Advance(j) \/ Release(j)

Next ==
    \/ \E j \in Jobs : Enqueue(j) \/ RunStep(j) \/ Throw(j) \/ Kill(j)
    \/ LeaseLapses
    \/ ConnectArms \/ (\E w \in Watermarks : ConnectPersists(w)) \/ Disconnect
    \/ RenewBegins \/ RenewEnds
    \/ Gmail

Spec == Init /\ [][Next]_vars

(* The sweep comes every minute, the queue is drained, a call that is not   *)
(* killed goes on, and time passes.  Failures are limited by FaultBound.    *)
FairSpec ==
    /\ Spec
    /\ WF_vars(Enqueue("sweep"))
    /\ \A j \in Jobs : WF_vars(RunStep(j))
    /\ WF_vars(LeaseLapses /\ UNCHANGED faults)

-----------------------------------------------------------------------------
HasCursor == row.exists /\ row.seeded

(* Mail after every watermark a connect has seeded, that Gmail still has    *)
(* and ingest has not settled.                                              *)
Owed(m) ==
    /\ m <= Len(history) /\ history[m] = "mail"
    /\ m > baseline /\ m \notin settled

(* No message is dropped: whatever jobs overlap, die or outlive a reconnect,*)
(* mail after every watermark seeded that lies behind the stored cursor,    *)
(* where no listing will show it again, is settled in the ledger.           *)
NeverDrop ==
    /\ TypeOK
    /\ \A m \in Positions : HasCursor /\ m <= row.cursor => ~Owed(m)

(* While a run is at work under a live lease, nobody else takes that lease  *)
(* from it but a disconnect, or the clock when the run overruns it: the run *)
(* it replaced releases by its own token only.                              *)
LeaseKept == [][\A j \in Jobs :
    row.live /\ row.lease = j /\ run[j].stage \in LeasedStages /\ run'[j] = run[j]
        => (row'.live /\ row'.lease = j) \/ ~row'.exists \/ faults' > faults]_vars

(* All mail owed is settled in the end, push or no push, unless the mailbox *)
(* is stopped (paused, disconnected, its grant dead) or reconnected.        *)
MailSettles ==
    status = "active" /\ (\E m \in Positions : Owed(m))
        ~> (\A m \in Positions : ~Owed(m)) \/ status # "active"

-----------------------------------------------------------------------------
(* What the documents say and the code does not keep (README, Divergences). *)

(* What src/specs/mail/gmail-connect.md says of a reconnect: history before *)
(* it is not back-filled, so the cursor never falls behind the baseline.    *)
NoBackfill == status = "active" => row.cursor >= baseline

(* What src/store/gmail-watch-state.ts says of a disconnect: no cursor and  *)
(* no watch expiration lingers.                                             *)
NothingLingers == status = "disconnected" => ~row.exists

(* What src/store/mailboxes.ts says of markPaused: it answers an expired    *)
(* cursor, so the mailbox's cursor is expired when it is paused.            *)
PausedWhenExpired == [][status # "paused" /\ status' = "paused" =>
    HasCursor /\ row.cursor < forgotten]_vars
=============================================================================
