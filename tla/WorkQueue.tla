------------------------------ MODULE WorkQueue ------------------------------
(***************************************************************************)
(* What the queue seam promises its callers (src/providers/queue.ts): a    *)
(* job that was accepted stays waiting until a handler run finishes it or  *)
(* it is parked for manual review; it is never dropped, a parked job is    *)
(* never revived, and a keyed enqueue is suppressed only while a job of    *)
(* the same slot is still waiting.  Claims, leases, attempts and crashes   *)
(* are the implementation's business and do not appear here.               *)
(***************************************************************************)
CONSTANTS Jobs,     \* identities of queue rows; an identity is never reused
          Slots,    \* (topic, dedupeKey) pairs
          NoSlot    \* an enqueue without a dedupeKey

VARIABLES pool,     \* where each job is
          owner     \* the slot each job occupies

wqVars == <<pool, owner>>

Waiting(s) == {j \in Jobs : pool[j] = "waiting" /\ owner[j] = s}

WQInit == /\ pool = [j \in Jobs |-> "absent"]
          /\ owner = [j \in Jobs |-> NoSlot]

Accept(j, s) == /\ pool[j] = "absent"
                /\ s = NoSlot \/ Waiting(s) = {}
                /\ pool' = [pool EXCEPT ![j] = "waiting"]
                /\ owner' = [owner EXCEPT ![j] = s]

Finish(j) == /\ pool[j] = "waiting"
             /\ pool' = [pool EXCEPT ![j] = "finished"]
             /\ UNCHANGED owner

Park(j) == /\ pool[j] = "waiting"
           /\ pool' = [pool EXCEPT ![j] = "parked"]
           /\ UNCHANGED owner

WQNext == \E j \in Jobs : \/ \E s \in Slots \cup {NoSlot} : Accept(j, s)
                          \/ Finish(j)
                          \/ Park(j)

WQSpec == WQInit /\ [][WQNext]_wqVars

(* Every accepted job is eventually finished or parked. *)
WQLive == \A j \in Jobs : pool[j] = "waiting" ~> pool[j] \in {"finished", "parked"}
=============================================================================
