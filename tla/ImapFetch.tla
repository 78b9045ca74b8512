------------------------------ MODULE ImapFetch ------------------------------
(***************************************************************************)
(* The scheduled fetch of one IMAP mailbox (src/mail/imap-fetch.ts), the   *)
(* cursor and the lease it keeps (src/store/imap-watch-state.ts), the      *)
(* connects that seed the cursor (src/mail/imap-connect.ts), and the       *)
(* server, which may number its messages afresh.                           *)
(*                                                                         *)
(* A message is the same message however often the server renumbers it, but *)
(* the ledger knows it only by its epoch (UIDVALIDITY) and UID.  As in      *)
(* GmailReconcile, what ingest has settled under an identity stays settled.*)
(***************************************************************************)
EXTENDS Naturals, FiniteSets

CONSTANTS
    Runs,              \* concurrent invocations of the fetch cron
    Connects,          \* requests to connect the mailbox, each made once
    Free,              \* no lease
    MaxPerInvocation,  \* messages fetched at a time
    MailBound,         \* model bound: messages that ever reach the INBOX
    EpochBound,        \* model bound: UIDVALIDITY epochs
    FaultBound         \* model bound: failed calls, killed runs, overruns

ASSUME ImapAssumption ==
    /\ Free \notin Runs
    /\ {MaxPerInvocation, MailBound, EpochBound, FaultBound} \subseteq Nat
    /\ EpochBound > 0

Mail == 1..MailBound        \* numbered as they arrive

VARIABLES
    status,      \* mailboxes.status; absent before the first connect
    row,         \* imap_watch_state: cursor, whose lease_token, is it ahead of now?
    connecting,  \* connecting[c]: what connect c saw of the server
    since,       \* history: the messages that had arrived when the cursor was seeded
    epoch,       \* server: UIDVALIDITY
    uid,         \* server: the UID of each message, 0 when it is not in the INBOX
    uidNext,     \* server: the UID of the next message
    arrived,     \* server: how many messages have come
    settled,     \* ledger: the identities with a terminal outcome
    run,         \* run[r]: the local state of invocation r
    faults

server == <<epoch, uid, uidNext, arrived>>
mailbox == <<status, row, connecting, since>>
vars == <<mailbox, server, settled, run, faults>>

Cursor == [epoch : Nat, uid : Nat]
Identity == [mail : Mail, epoch : Nat, uid : Nat]

NoCursor == [epoch |-> 0, uid |-> 0]
Idle == [stage |-> "idle", at |-> NoCursor, batch |-> {}, blocked |-> FALSE]
LeasedStages == {"read", "fetch", "reset", "ingest", "release"}

(* The types of the state.                                                  *)
TypeOK ==
    /\ status \in {"absent", "active", "paused", "disconnected"}
    /\ row \in [cursor : Cursor, lease : Runs \cup {Free}, live : BOOLEAN]
    /\ connecting \in [Connects -> [stage : {"new", "probed", "done"}, cursor : Cursor, seen : Nat]]
    /\ since \in Nat /\ epoch \in Nat /\ uidNext \in Nat \ {0} /\ arrived \in Nat
    /\ uid \in [Mail -> Nat]
    /\ settled \subseteq Identity
    /\ run \in [Runs -> [stage : {"idle", "claim"} \cup LeasedStages, at : Cursor,
                         batch : SUBSET Identity, blocked : BOOLEAN]]
    /\ faults \in Nat

Init ==
    /\ status = "absent"
    /\ row = [cursor |-> NoCursor, lease |-> Free, live |-> FALSE]
    /\ connecting = [c \in Connects |-> [stage |-> "new", cursor |-> NoCursor, seen |-> 0]]
    /\ since = 0
    /\ epoch = 1 /\ uid = [m \in Mail |-> 0] /\ uidNext = 1 /\ arrived = 0
    /\ settled = {}
    /\ run = [r \in Runs |-> Idle]
    /\ faults = 0

Fault == faults < FaultBound /\ faults' = faults + 1

-----------------------------------------------------------------------------
(* The server: mail arrives, is expunged, and now and then the UIDs are     *)
(* given out anew under a new UIDVALIDITY.                                  *)

Present == {m \in Mail : uid[m] # 0}

Arrive ==
    /\ arrived < MailBound
    /\ arrived' = arrived + 1
    /\ uid' = [uid EXCEPT ![arrived + 1] = uidNext]
    /\ uidNext' = uidNext + 1
    /\ UNCHANGED <<mailbox, epoch, settled, run, faults>>

Expunge(m) ==
    /\ m \in Present
    /\ uid' = [uid EXCEPT ![m] = 0]
    /\ UNCHANGED <<mailbox, epoch, uidNext, arrived, settled, run, faults>>

Renumber ==
    /\ epoch < EpochBound
    /\ epoch' = epoch + 1
    /\ uid' = [m \in Mail |-> Cardinality({k \in Present : m \in Present /\ uid[k] <= uid[m]})]
    /\ uidNext' = Cardinality(Present) + 1
    /\ UNCHANGED <<mailbox, arrived, settled, run, faults>>

-----------------------------------------------------------------------------
(* connect: the IMAP leg notes UIDVALIDITY and UIDNEXT, the SMTP leg is     *)
(* verified, and one transaction persists.                                  *)

Probe(c) ==
    /\ connecting[c].stage = "new"
    /\ connecting' = [connecting EXCEPT ![c] =
            [stage |-> "probed", cursor |-> [epoch |-> epoch, uid |-> uidNext - 1], seen |-> arrived]]
    /\ UNCHANGED <<status, row, since, server, settled, run, faults>>

Done == [stage |-> "done", cursor |-> NoCursor, seen |-> 0]

(* A leg fails, or the address belongs to another transport.                *)
ConnectFails(c) ==
    /\ connecting[c].stage = "probed"
    /\ connecting' = [connecting EXCEPT ![c] = Done]
    /\ UNCHANGED <<status, row, since, server, settled, run, faults>>

(* Mutant of Seeds: a reconnect starts from now, as the first connect does. *)
SeedsAlways == TRUE

(* seedBaselineIfAbsent: a reconnect keeps the cursor there is.             *)
Seeds == status = "absent"

ConnectPersists(c) ==
    /\ connecting[c].stage = "probed"
    /\ connecting' = [connecting EXCEPT ![c] = Done]
    /\ status' = "active"
    /\ IF Seeds
       THEN /\ row' = [row EXCEPT !.cursor = connecting[c].cursor]
            /\ since' = connecting[c].seen
       ELSE UNCHANGED <<row, since>>
    /\ UNCHANGED <<server, settled, run, faults>>

(* The disconnect service asks for no transport: it takes this mailbox too, *)
(* and leaves its cursor.                                                   *)
Disconnect ==
    /\ status \in {"active", "paused"}
    /\ status' = "disconnected"
    /\ UNCHANGED <<row, connecting, since, server, settled, run, faults>>

-----------------------------------------------------------------------------
(* fetchOneMailbox, a step for each call it awaits. *)

Go(r, stage) == run' = [run EXCEPT ![r] = [Idle EXCEPT !.stage = stage]]

(* runImapFetch lists the active mailboxes; nothing asks again later.       *)
Tick(r) ==
    /\ run[r].stage = "idle" /\ status = "active"
    /\ Go(r, "claim")
    /\ UNCHANGED <<mailbox, server, settled, faults>>

ClaimLease(r) ==
    /\ run[r].stage = "claim"
    /\ IF row.live
       THEN run' = [run EXCEPT ![r] = Idle] /\ UNCHANGED row
       ELSE /\ row' = [row EXCEPT !.lease = r, !.live = TRUE]
            /\ Go(r, "read")
    /\ UNCHANGED <<status, connecting, since, server, settled, faults>>

ReadCursor(r) ==
    /\ run[r].stage = "read"
    /\ run' = [run EXCEPT ![r].stage = "fetch", ![r].at = row.cursor]
    /\ UNCHANGED <<mailbox, server, settled, faults>>

IsReset(cursor) == cursor.epoch # epoch

(* Mutant of Batch: the search starts one UID too far.                      *)
BatchFromNext(from) ==
    {[mail |-> m, epoch |-> epoch, uid |-> uid[m]] :
        m \in {k \in Present : uid[k] > from + 1
                 /\ Cardinality({l \in Present : from + 1 < uid[l] /\ uid[l] < uid[k]}) < MaxPerInvocation}}

(* uidFetchRawSince: the lowest MaxPerInvocation UIDs above the cursor.     *)
Batch(from) ==
    LET above == {m \in Present : uid[m] > from}
        chosen == {m \in above :
                    Cardinality({k \in above : uid[k] < uid[m]}) < MaxPerInvocation}
    IN  {[mail |-> m, epoch |-> epoch, uid |-> uid[m]] : m \in chosen}

(* A cursor of another epoch says nothing of these UIDs.                    *)
SinceUid(cursor) == IF cursor.epoch = epoch THEN cursor.uid ELSE 0

(* One session: SELECT, search, fetch.                                      *)
FetchBatch(r) ==
    LET cursor == run[r].at IN
    /\ run[r].stage = "fetch"
    /\ run' = IF IsReset(cursor)
              THEN [run EXCEPT ![r] = [Idle EXCEPT !.stage = "reset"]]
              ELSE [run EXCEPT ![r] = [Idle EXCEPT !.stage = "ingest",
                        !.at = [epoch |-> epoch, uid |-> SinceUid(cursor)],
                        !.batch = Batch(SinceUid(cursor))]]
    /\ UNCHANGED <<mailbox, server, settled, faults>>

(* Nothing is ingested and the cursor stays.                                *)
Pause(r) ==
    /\ run[r].stage = "reset"
    /\ status' = IF status = "disconnected" THEN status ELSE "paused"
    /\ Go(r, "release")
    /\ UNCHANGED <<row, connecting, since, server, settled, faults>>

(* The batch in the order of its UIDs.                                      *)
Taken(r, i, blocked) ==
    [run EXCEPT ![r] = [stage |-> "ingest", at |-> [epoch |-> @.at.epoch, uid |-> i.uid],
                        batch |-> @.batch \ {i}, blocked |-> blocked]]

(* Ingest settles a message, now or before, or its outcome (failed, in      *)
(* progress) blocks the batch.                                              *)
Ingest(r) ==
    /\ run[r].stage = "ingest"
    /\ \E i \in run[r].batch :
        /\ \A k \in run[r].batch : i.uid <= k.uid
        /\ \/ /\ settled' = settled \cup {i}
              /\ run' = Taken(r, i, run[r].blocked)
              /\ UNCHANGED faults
           \/ /\ i \notin settled /\ Fault
              /\ run' = Taken(r, i, TRUE)
              /\ UNCHANGED settled
    /\ UNCHANGED <<mailbox, server>>

(* Mutant of MayAdvance: a blocked batch advances the cursor all the same.  *)
MayAdvanceAlways(r) == row.lease = r

(* Mutant of MayAdvance: setCursor without the fence.                       *)
MayAdvanceUnfenced(r) == ~run[r].blocked

(* Every outcome is terminal, and setCursor finds this run's token.         *)
MayAdvance(r) == ~run[r].blocked /\ row.lease = r

Advance(r) ==
    /\ run[r].stage = "ingest" /\ run[r].batch = {}
    /\ row' = IF MayAdvance(r) THEN [row EXCEPT !.cursor = run[r].at] ELSE row
    /\ Go(r, "release")
    /\ UNCHANGED <<status, connecting, since, server, settled, faults>>

(* releaseFetchLease compares the token; a release that fails is logged.    *)
Release(r) ==
    /\ run[r].stage = "release"
    /\ \/ /\ row' = IF row.lease = r THEN [row EXCEPT !.lease = Free, !.live = FALSE] ELSE row
          /\ UNCHANGED faults
       \/ Fault /\ UNCHANGED row
    /\ run' = [run EXCEPT ![r] = Idle]
    /\ UNCHANGED <<status, connecting, since, server, settled>>

(* Any of these calls may throw; the lease is released on the way out.      *)
Throw(r) ==
    /\ run[r].stage \in LeasedStages \ {"release"}
    /\ Fault
    /\ Go(r, "release")
    /\ UNCHANGED <<mailbox, server, settled>>

(* The platform kills the invocation; its lease stays behind.               *)
Kill(r) ==
    /\ run[r].stage # "idle"
    /\ Fault
    /\ run' = [run EXCEPT ![r] = Idle]
    /\ UNCHANGED <<mailbox, server, settled>>

(* claimed_until passes: for nothing when the holder is gone, as a fault    *)
(* when it overruns its lease.                                              *)
LeaseLapses ==
    /\ row.live
    /\ IF row.lease \in Runs /\ run[row.lease].stage \in LeasedStages
       THEN Fault /\ row' = [row EXCEPT !.live = FALSE]
       ELSE UNCHANGED faults /\ row' = [row EXCEPT !.live = FALSE, !.lease = Free]
    /\ UNCHANGED <<status, connecting, since, server, settled, run>>

RunStep(r) ==
    \/ ClaimLease(r) \/ ReadCursor(r) \/ FetchBatch(r) \/ Pause(r)
    \/ Ingest(r) \/ Advance(r) \/ Release(r)

Next ==
    \/ Arrive \/ Renumber \/ \E m \in Mail : Expunge(m)
    \/ \E c \in Connects : Probe(c) \/ ConnectFails(c) \/ ConnectPersists(c)
    \/ Disconnect
    \/ \E r \in Runs : Tick(r) \/ RunStep(r) \/ Throw(r) \/ Kill(r)
    \/ LeaseLapses

Spec == Init /\ [][Next]_vars

(* The cron comes every two minutes, an invocation that is not killed goes  *)
(* on, and time passes.                                                     *)
FairSpec ==
    /\ Spec
    /\ \A r \in Runs : WF_vars(Tick(r)) /\ WF_vars(RunStep(r))
    /\ WF_vars(LeaseLapses /\ UNCHANGED faults)

-----------------------------------------------------------------------------
(* Mail that came since the mailbox was connected, is in the INBOX, and has *)
(* no fate yet under any identity.                                          *)
Owed(m) == m \in Present /\ m > since /\ \A i \in settled : i.mail # m

(* No message is skipped: in the epoch of the cursor, mail that came since  *)
(* the mailbox was connected and lies at or below the cursor, where no      *)
(* fetch looks again, has its fate, whatever runs overlapped, overran or    *)
(* died and however often the mailbox was reconnected.  And none is filed   *)
(* twice: a renumbering gives the desk's mail new identities that the       *)
(* ledger cannot recognise, so none of them is used.                        *)
EachMailOnce ==
    /\ TypeOK
    /\ status # "absent" /\ row.cursor.epoch = epoch =>
            \A m \in Mail : Owed(m) => uid[m] > row.cursor.uid
    /\ \A i, k \in settled : i.mail = k.mail => i = k

(* Once seeded the cursor only moves up, in its epoch: a run that lost its  *)
(* lease does not write over what its successor, or a reset, left there.    *)
CursorNeverBack == [][status # "absent" =>
    /\ row'.cursor.epoch = row.cursor.epoch
    /\ row'.cursor.uid >= row.cursor.uid]_vars

(* Every message owed is fetched and settled, or the mailbox is visibly     *)
(* stopped (by a reset or a disconnect), although lost leases, failures and *)
(* kills intervene.                                                         *)
MailFetched == \A m \in Mail :
    status = "active" /\ Owed(m) ~> ~Owed(m) \/ status # "active"

-----------------------------------------------------------------------------
(* What the documents say and the code does not keep (README, Divergences). *)

(* What src/specs/mail/mailbox-connection.md says of a reset: the mailbox   *)
(* is paused until a human rebaselines it.  No operation does: a reconnect  *)
(* makes it active with the cursor that the next fetch pauses it for.       *)
PausedUntilRebaselined ==
    [][status = "paused" /\ status' = "active" => row'.cursor.epoch = epoch]_vars
=============================================================================
