---------------------------- MODULE InboundLedger ----------------------------
(***************************************************************************)
(* What ingest promises of a provider message (specs of                    *)
(* src/store/inbound-deliveries.ts): once delivered it gets exactly one    *)
(* fate and keeps it.  It is filed as exactly one thread, or suppressed as *)
(* the desk's own mail, or parked for manual review.  However often the    *)
(* provider redelivers it, nothing more happens.                           *)
(***************************************************************************)
CONSTANT Messages

VARIABLES fate,   \* fate[m]
          copies  \* how many threads hold message m

ledgerVars == <<fate, copies>>

LedgerInit == /\ fate = [m \in Messages |-> "unseen"]
              /\ copies = [m \in Messages |-> 0]

Deliver(m) == /\ fate[m] = "unseen"
              /\ fate' = [fate EXCEPT ![m] = "open"]
              /\ UNCHANGED copies

File(m) == /\ fate[m] = "open"
           /\ fate' = [fate EXCEPT ![m] = "stored"]
           /\ copies' = [copies EXCEPT ![m] = 1]

SuppressOwn(m) == /\ fate[m] \in {"unseen", "open"}
                  /\ fate' = [fate EXCEPT ![m] = "suppressed"]
                  /\ UNCHANGED copies

Park(m) == /\ fate[m] = "open"
           /\ fate' = [fate EXCEPT ![m] = "dead-letter"]
           /\ UNCHANGED copies

LedgerNext == \E m \in Messages : \/ Deliver(m)
                                  \/ File(m)
                                  \/ SuppressOwn(m)
                                  \/ Park(m)

LedgerSpec == LedgerInit /\ [][LedgerNext]_ledgerVars

Settled == {"stored", "suppressed", "dead-letter"}

(* Every delivered message meets its fate. *)
LedgerLive == \A m \in Messages : fate[m] = "open" ~> fate[m] \in Settled
=============================================================================
