---------------------------- MODULE PostgresQueue ----------------------------
(***************************************************************************)
(* The durable queue on queue_jobs                                         *)
(* (src/providers/adapters/postgres-queue/index.ts): enqueue, and any      *)
(* number of concurrent drainOnce calls that lease a batch of rows, run    *)
(* the handler of each, and write its outcome fenced by the attempts value *)
(* they claimed.                                                           *)
(*                                                                         *)
(* Time is kept as what the SQL compares it for: whether run_after has     *)
(* passed (due) and whether locked_until is NULL, in the future or in the  *)
(* past (lease).  One SQL statement is one step; the handler's await, and  *)
(* the gap between its return and the outcome write, are where others run. *)
(***************************************************************************)
EXTENDS Naturals, FiniteSets

CONSTANTS Jobs, Slots, NoSlot,
          Drainers,       \* concurrent drainOnce calls
          NoJob,
          BatchSize,      \* LIMIT of the claim
          MaxAttempts,    \* the retry ceiling of a drain pass
          FaultBound      \* model bound: invocations that die or overrun a lease

ASSUME QueueAssumption ==
    /\ NoSlot \notin Slots /\ NoJob \notin Jobs
    /\ BatchSize \in Nat /\ MaxAttempts \in Nat
    /\ FaultBound \in Nat

VARIABLES
    state,      \* row: unused, live, dead (dead_lettered_at set), gone (deleted)
    slot,       \* row: (topic, dedupe_key)
    attempts,   \* row: attempts, also the claim generation
    due,        \* row: run_after <= now()
    lease,      \* row: locked_until is NULL (none), ahead (held), past (lapsed)
    claim,      \* claim[d][j]: the attempts value drainer d claimed j at, or 0
    running,    \* running[d]: the claimed row whose handler was started
    result,     \* result[d]: what that handler returned, not yet written
    faults,     \* how many invocations died or overran a lease
    overrun     \* history: rows whose lease lapsed under a running invocation

rowVars == <<state, slot, attempts, due, lease>>
callVars == <<claim, running, result>>
ghostVars == <<faults, overrun>>
vars == <<rowVars, callVars, ghostVars>>

Results == {"ack", "retry", "deadLetter"}

(* The row columns and each drain's local variables ...                     *)
Columns ==
    /\ state \in [Jobs -> {"unused", "live", "dead", "gone"}]
    /\ slot \in [Jobs -> Slots \cup {NoSlot}]
    /\ attempts \in [Jobs -> Nat]
    /\ due \in [Jobs -> BOOLEAN]
    /\ lease \in [Jobs -> {"none", "held", "lapsed"}]
    /\ claim \in [Drainers -> [Jobs -> Nat]]
    /\ running \in [Drainers -> Jobs \cup {NoJob}]
    /\ result \in [Drainers -> Results \cup {"none"}]
    /\ faults \in Nat
    /\ overrun \subseteq Jobs

(* ... where a handler is awaited only for a row still to be settled.       *)
LoopLocals == \A d \in Drainers :
    /\ running[d] # NoJob => claim[d][running[d]] # 0
    /\ result[d] # "none" => running[d] # NoJob

(* The types of the state: columns and locals as drainOnce keeps them.      *)
TypeOK == Columns /\ LoopLocals

Init ==
    /\ state = [j \in Jobs |-> "unused"]
    /\ slot = [j \in Jobs |-> NoSlot]
    /\ attempts = [j \in Jobs |-> 0]
    /\ due = [j \in Jobs |-> FALSE]
    /\ lease = [j \in Jobs |-> "none"]
    /\ claim = [d \in Drainers |-> [j \in Jobs |-> 0]]
    /\ running = [d \in Drainers |-> NoJob]
    /\ result = [d \in Drainers |-> "none"]
    /\ faults = 0
    /\ overrun = {}

-----------------------------------------------------------------------------
Fault == faults < FaultBound /\ faults' = faults + 1

(* Mutant of SlotTaken: the index forgets rows that are leased. *)
SlotTakenIfUnleased(s) ==
    s # NoSlot /\ \E k \in Jobs : state[k] = "live" /\ slot[k] = s /\ lease[k] # "held"

(* The partial unique index: a live row of the slot suppresses the insert.  *)
SlotTaken(s) == s # NoSlot /\ \E k \in Jobs : state[k] = "live" /\ slot[k] = s

(* INSERT ... ON CONFLICT DO NOTHING, delayed or not.  A suppressed insert  *)
(* changes nothing.                                                         *)
Enqueue(j, s) ==
    /\ state[j] = "unused"
    /\ ~SlotTaken(s)
    /\ state' = [state EXCEPT ![j] = "live"]
    /\ slot' = [slot EXCEPT ![j] = s]
    /\ \E now \in BOOLEAN : due' = [due EXCEPT ![j] = now]
    /\ UNCHANGED <<attempts, lease, callVars, ghostVars>>

(* Mutants of Claimable: the lease is not consulted; a lapsed one still blocks. *)
ClaimableAnyLease(j) == state[j] = "live" /\ due[j]
ClaimableUnleased(j) == state[j] = "live" /\ due[j] /\ lease[j] = "none"

Claimable(j) ==
    /\ state[j] = "live"
    /\ due[j]
    /\ lease[j] # "held"

(* claimBatch: one UPDATE leases up to BatchSize ready rows and bumps their *)
(* attempts; SKIP LOCKED lets the batch be any part of what is ready.       *)
Claim(d) ==
    /\ claim[d] = [j \in Jobs |-> 0]
    /\ \E S \in SUBSET {j \in Jobs : Claimable(j)} :
        /\ S # {} /\ Cardinality(S) <= BatchSize
        /\ attempts' = [j \in Jobs |-> IF j \in S THEN attempts[j] + 1 ELSE attempts[j]]
        /\ lease' = [j \in Jobs |-> IF j \in S THEN "held" ELSE lease[j]]
        /\ claim' = [claim EXCEPT ![d] = [j \in Jobs |-> IF j \in S THEN attempts[j] + 1 ELSE 0]]
    /\ UNCHANGED <<state, slot, due, running, result, ghostVars>>

(* The loop body takes the next claimed row and awaits its handler.         *)
StartHandler(d) ==
    /\ running[d] = NoJob
    /\ \E j \in Jobs : /\ claim[d][j] # 0
                       /\ running' = [running EXCEPT ![d] = j]
    /\ UNCHANGED <<rowVars, claim, result, ghostVars>>

(* The handler returns; a throw is a retry.                                 *)
HandlerReturns(d) ==
    /\ running[d] # NoJob /\ result[d] = "none"
    /\ \E r \in Results : result' = [result EXCEPT ![d] = r]
    /\ UNCHANGED <<rowVars, claim, running, ghostVars>>

(* Mutant of FenceMatches: WHERE id = $1 alone. *)
FenceById(d) == state[running[d]] \in {"live", "dead"}

(* WHERE id = $1 AND attempts = <claimed>: the row is still this claim's.   *)
FenceMatches(d) ==
    LET j == running[d] IN state[j] \in {"live", "dead"} /\ attempts[j] = claim[d][j]

RowDone(d) ==
    /\ claim' = [claim EXCEPT ![d][running[d]] = 0]
    /\ running' = [running EXCEPT ![d] = NoJob]
    /\ result' = [result EXCEPT ![d] = "none"]

(* The outcome writes.  A fence that matches no row is a stale skip.        *)
Ack(d) ==
    /\ result[d] = "ack" /\ FenceMatches(d)
    /\ state' = [state EXCEPT ![running[d]] = "gone"]
    /\ lease' = [lease EXCEPT ![running[d]] = "none"]
    /\ RowDone(d)
    /\ UNCHANGED <<slot, attempts, due, ghostVars>>

AtCeiling(d) == claim[d][running[d]] >= MaxAttempts

DeadLetter(d) ==
    /\ \/ result[d] = "deadLetter"
       \/ result[d] = "retry" /\ AtCeiling(d)
    /\ FenceMatches(d)
    /\ state' = [state EXCEPT ![running[d]] = "dead"]
    /\ lease' = [lease EXCEPT ![running[d]] = "none"]
    /\ RowDone(d)
    /\ UNCHANGED <<slot, attempts, due, ghostVars>>

Reschedule(d) ==
    /\ result[d] = "retry" /\ ~AtCeiling(d) /\ FenceMatches(d)
    /\ lease' = [lease EXCEPT ![running[d]] = "none"]
    /\ due' = [due EXCEPT ![running[d]] = FALSE]
    /\ RowDone(d)
    /\ UNCHANGED <<state, slot, attempts, ghostVars>>

StaleSkip(d) ==
    /\ result[d] # "none" /\ ~FenceMatches(d)
    /\ RowDone(d)
    /\ UNCHANGED <<rowVars, ghostVars>>

(* The invocation dies: crash, kill at maxDuration, or a failed query that  *)
(* throws out of drainOnce.  Its rows keep their leases.                    *)
Abort(d) ==
    /\ claim[d] # [j \in Jobs |-> 0]
    /\ Fault
    /\ claim' = [claim EXCEPT ![d] = [j \in Jobs |-> 0]]
    /\ running' = [running EXCEPT ![d] = NoJob]
    /\ result' = [result EXCEPT ![d] = "none"]
    /\ UNCHANGED <<rowVars, overrun>>

(* now() passes locked_until, of a lease whose invocation is gone ...       *)
Abandoned(j) == \A d \in Drainers : claim[d][j] # attempts[j]

Lapse(j) ==
    /\ lease[j] = "held"
    /\ lease' = [lease EXCEPT ![j] = "lapsed"]
    /\ UNCHANGED <<state, slot, attempts, due, callVars>>

LeaseLapses(j) == Abandoned(j) /\ Lapse(j) /\ UNCHANGED ghostVars

(* ... or, where the deployment does not kill an invocation in time, of one *)
(* that still runs.                                                         *)
LeaseOverrun(j) ==
    /\ ~Abandoned(j) /\ Lapse(j)
    /\ Fault
    /\ overrun' = overrun \cup {j}

(* now() passes run_after. *)
BecomesDue(j) ==
    /\ state[j] = "live" /\ ~due[j]
    /\ due' = [due EXCEPT ![j] = TRUE]
    /\ UNCHANGED <<state, slot, attempts, lease, callVars, ghostVars>>

-----------------------------------------------------------------------------
Outcome(d) == Ack(d) \/ DeadLetter(d) \/ Reschedule(d) \/ StaleSkip(d)

DrainStep(d) == Claim(d) \/ StartHandler(d) \/ HandlerReturns(d) \/ Outcome(d)

Next ==
    \/ \E j \in Jobs : \/ \E s \in Slots \cup {NoSlot} : Enqueue(j, s)
                       \/ LeaseLapses(j)
                       \/ LeaseOverrun(j)
                       \/ BecomesDue(j)
    \/ \E d \in Drainers : DrainStep(d) \/ Abort(d)

Spec == Init /\ [][Next]_vars

(* The cron keeps invoking drainOnce, a live invocation keeps running, and  *)
(* time passes, which ends the lease of a dead one.  Nothing is assumed of  *)
(* enqueues, results or crashes.                                            *)
Fairness ==
    /\ \A d \in Drainers : WF_vars(DrainStep(d))
    /\ \A j \in Jobs : WF_vars(LeaseLapses(j)) /\ WF_vars(BecomesDue(j))

FairSpec == Spec /\ Fairness

-----------------------------------------------------------------------------
OwnClaim ==
    \A d \in Drainers, j \in Jobs :
        (claim[d][j] # 0 /\ claim[d][j] = attempts[j]) =>
            /\ state[j] = "live"
            /\ lease[j] # "none"
            /\ \A e \in Drainers \ {d} : claim[e][j] # attempts[j]

(* The drain that claimed a row's current generation is alone in holding   *)
(* it, and until it writes its own outcome nobody else deletes, parks or   *)
(* reschedules the row: the stale-outcome fence at work after leases lapse. *)
CurrentClaimIntact == TypeOK /\ OwnClaim

(* Two drains run the handler of one job at the same time only if an        *)
(* invocation outlived its lease on it; a deployment that kills invocations *)
(* in time (maxDuration 50 s, lease 60 s) runs every handler alone.         *)
ExclusiveHandling ==
    \A d, e \in Drainers :
        (d # e /\ running[d] # NoJob /\ running[d] \notin overrun) =>
            running[d] # running[e]

(* No handler is started for an attempt beyond the retry ceiling.  The code *)
(* does not keep this: README, Divergences.                                 *)
HandlerRunsWithinCeiling ==
    \A d \in Drainers : running[d] # NoJob => claim[d][running[d]] <= MaxAttempts

(* The rows implement the queue the callers are promised.                   *)
RowPlace == [unused |-> "absent", live |-> "waiting", dead |-> "parked", gone |-> "finished"]

WQ == INSTANCE WorkQueue WITH
        pool <- [j \in Jobs |-> RowPlace[state[j]]],
        owner <- slot

ImplementsWorkQueue == WQ!WQSpec

(* Every enqueued job is eventually acked or dead-lettered.                 *)
EveryJobResolved == WQ!WQLive
=============================================================================
