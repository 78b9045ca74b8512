# Helpthread, specified

TLA+ specifications of the Helpthread help desk (`src/`, TypeScript on PostgreSQL, deployed as
short serverless invocations driven by HTTP and a cron), the TLC configurations that
model-check them, and TLAPS proofs. `PROJECT.json` lists the components, the runs, the
hazards each property is for, the theorems, and for each definition the lines it translates.
Paths below are relative to `src/`.

Helpthread keeps all its state in PostgreSQL and runs its code in invocations that overlap, are
killed at 50 s, and are repeated by a queue that promises at-least-once delivery. The hard
questions are therefore about what several invocations do to the same rows between the
statements of one of them, and these modules are about that.

## Components

| Component | State it keeps | Operations | What makes it hard | Module |
|---|---|---|---|---|
| Job queue (`providers/queue.ts`, `adapters/postgres-queue`) | `queue_jobs` rows: attempts, lease, run_after, dedupe key, dead letter | enqueue, drainOnce | overlapping drains, kills in the middle of a batch, outcomes that come after the lease | `WorkQueue`, `PostgresQueue` |
| Inbound ingestion and threading (`mail/ingest.ts`, `mail/threading.ts`, `store/inbound-deliveries.ts`) | delivery ledger, threads, attachment blobs | ingestInboundMessage, preSuppressOwnSend, decideThreading | redelivery, stale calls, commits whose answer is lost, blobs that no transaction covers, a decision made before the row is locked | `InboundLedger`, `InboundIngest` |
| Conversations and drafts (`store/conversations.ts`, `api/conversations.ts`, `api/customer-conversations.ts`, `api/drafts.ts`, `mail/snooze-wake.ts`) | conversation status and snooze, threads, drafts, outbox rows | creation by mail and by the customer portal, append, reply, note, tags, assignee, PATCH, delete, draft, approve, discard, wake, portal read | reads before the transaction that acts on them | `Conversations` |
| Outbound delivery (`mail/send.ts`, `mail/delivery-worker.ts`) | thread's delivery status and lease | sendReply, replay by idempotency key, approve a draft, sweep | send and mark are apart; providers accept and then fail | `OutboundDelivery` |
| Reply composer (`web/src/components/ConversationScreen.tsx`, `web/src/lib`) | editor, saved draft, idempotency key | open, type, debounced save, submit, its answers, leave | the draft outlives the key it was sent under | `ReplyComposer` |
| Gmail reconcile (`mail/gmail-reconcile*.ts`, `store/gmail-watch-state.ts`) | history cursor, watch, reconcile lease, mailbox status | reconcile job, sweep, push, connect, disconnect, watch renewal | the cursor is read before the lease and written blindly; Gmail forgets history | `GmailReconcile` |
| IMAP mailboxes (`mail/imap-fetch.ts`, `mail/imap-connect.ts`, `store/imap-watch-state.ts`) | UIDVALIDITY and UID cursor, fetch lease, mailbox status | fetch cron, connect, disconnect | the server renumbers; a cursor write is fenced but a connect seeds it from an older look at the server | `ImapFetch` |
| Gmail grant (`mail/gmail-oauth.ts`, `gmail-connect.ts`, `gmail-disconnect.ts`) | mailbox status, stored tokens | token refresh, connect, disconnect | each talks to Google between its read and its write | `GmailMailbox` |
| Event outbox and webhooks (`store/event-outbox.ts`, `webhooks/*.ts`, `store/webhook-endpoints.ts`, `api/webhooks.ts`) | outbox rows and leases, endpoints, their event filters and failure counts, delivery jobs | drain and fan-out, delivery, auto-disable, registration, patches, removal | drains and deliveries die between steps; counts across concurrent deliveries | `EventWebhooks` |
| Module installer (`modules/install/installer.ts`) | install row: state, lease token, escrow; Assistant; endpoint | install job, build poll, cleanup | a state machine driven by redelivered jobs, any of which dies or outlives its lease | `ModuleInstall` |
| Agent accounts (`store/agents.ts`, `api/agents.ts`) | agents, identities | setup, create, accept, patch, delete, set password | checks outside the transaction, counts under READ COMMITTED | `AgentAccounts` |
| Mailbox grants (`store/agents.ts`) | `agent_mailbox_access` | granted at creation, PUT, deleted with the agent | a PUT of several statements against other PUTs and a deletion | `MailboxGrants` |
| Passkeys (`store/webauthn.ts`, `auth/webauthn-ceremony.ts`, `api/webauthn.ts`) | challenges, step-up tokens, credentials with their counters | options, login, step-up, registration, deletion | nonces presented twice, counters compared across a lookup without a lock, agents deleted meanwhile | `Passkeys` |
| MIME parsing, target screening, tokens, sender resolution | none | functions of one input | | inputs of the modules that use them |
| Database, composition root, HTTP shell, sessions, assistants and saved replies, adapters, artifacts, CLI, other screens, dev tools | none of their own, or one independent row a statement | | I/O, wiring, conversion | not modelled; reasons in `PROJECT.json` |

How they interact. The push webhook and the minute sweep *enqueue* reconcile jobs; the queue
drain *calls* the reconcile handler, which takes a token from the *grant*, lists history and
calls *ingest* for each message, as the IMAP cron does; ingest writes *conversations* and, in the
same transaction, the *event outbox*; the outbox drain enqueues one *delivery* per endpoint, which the queue drain
runs. Agents act on conversations over HTTP, and a reply (from the *composer*) or an approved draft becomes an
outbound thread that is *sent* at once or swept. The installer runs as a queue job and creates
the Assistant and the endpoint of a module. `ReplyComposer` extends `OutboundDelivery`, and
`MailboxGrants` extends `AgentAccounts`: each runs its own steps between all those of the module
below. `GmailReconcile` and `ImapFetch` keep of ingest what
`InboundIngest` is proved to promise (what is settled stays settled), and `EventWebhooks`,
`GmailReconcile` and `ModuleInstall` keep of the queue what `PostgresQueue` is proved to promise
(`WorkQueue`: an accepted job waits until it is finished or parked). `Passkeys` relies on
`PasswordWhenJoined` of `AgentAccounts`.

## Conventions of the models

- **Steps.** One SQL statement, or one transaction that holds the row it decides on locked, is
  one step. Everything the code awaits (another service, a blob put, a second transaction)
  splits a call in stages, and other calls run between them. Local variables of a call that
  outlive an await are state.
- **Time** is only what the SQL compares: whether `run_after` has passed, whether a lease is
  free, held or lapsed. `ModuleInstall` alone counts minutes, because there a backoff races a
  lease.
- **Faults** (a killed invocation, a call that throws, an answer that is lost, a lease that ends
  under a call still at work) each spend one of `FaultBound`. Leases that end after their
  holder is gone cost nothing.
- **Overruns.** `overrun` (queue, ingest, outbound, install) is history: the rows whose lease ended under
  a running call. The schedule excludes it (invocations are killed at 50 s, `vercel.json`; the
  leases are 60 s for the queue, 120 s for ingest and send, 5 min for reconcile and install) but
  the code does not, so it is modelled, and the properties that depend on it say so.
- **Data** are model values; a message is what the code distinguishes of it (the ids it refers
  to, own mail or not, parseable or not).
- **Mutants.** An operator that is commented "Mutant of X" stands before X and is X with a
  plausible bug; no specification uses it. `PROJECT.json` pairs each property with one that breaks it.

## Modules

**`WorkQueue`** is the promise of `providers/queue.ts`: accepted jobs wait until they are
finished or parked, a parked job is not revived, and a keyed job is suppressed only while another
of the slot is waiting.

**`PostgresQueue`** (`adapters/postgres-queue/index.ts`): `Enqueue` is the insert with its partial
unique index; `Claim` the batch UPDATE that leases and bumps `attempts`; `StartHandler` and
`HandlerReturns` the awaited handler; `Ack`, `DeadLetter`, `Reschedule`, `StaleSkip` the outcome
writes, fenced by the `attempts` claimed; `Abort` a killed invocation or a failed query;
`LeaseLapses`, `LeaseOverrun`, `BecomesDue` the clock. Its rows refine `WorkQueue`.

**`InboundLedger`** is the promise of the ledger: a message gets one fate (filed as one thread,
suppressed, parked) and keeps it.

**`InboundIngest`** (`mail/ingest.ts`): `Claim` the ledger transaction; `GiveUp`, `Parse`,
`Suppress`, `WriteBlobs`, `Store`, `RecordFailure` the stages between awaits; `StoreThrows` a
transaction that fails, or that commits unseen; `AgentSets` what agents do to conversations
meanwhile. `Candidates`, `FirstVerified` and `Decision` are `decideThreading`: the ids of
In-Reply-To, then of References from the newest, of which the first whose token verifies decides.
`PreSuppress` is the sender's entry for what it has sent, known by the provider's id, as Gmail gives it another
Message-ID. `Open` and `Reopened` are what customer mail does to the statuses. It refines `InboundLedger`.

**`Conversations`**: one action per writing store method, each one transaction under the conversation's
row lock; `AskApproval` and `AskDiscard`, then `Approve`, `RefuseApproval` or `Discard`, are the two
halves of a draft request, `WakeList` then `Wake` those of the snooze pass, and `PortalFinds`,
`PortalReads`, `PortalAnswers` the three statements of a customer's read, each with a snapshot of
its own. `emitted` is the outbox rows of the last step, `shown` the status it told the customer.

**`OutboundDelivery`**: `Persist`, `Replay`, `Approve` and `Sweep` are the four ways to work on a thread,
`Claim`, `Send`, `Mark` the rest of all of them. A send without an idempotency key takes no lease. The code bounds the
send itself by the lease (`maxSendMs < leaseMs`), not the two lookups before it (`mail/delivery-worker.ts:151-195`) or the
mark after it, and relates `staleAfterMs`, the time of a keyless send, to nothing: time that runs out there is an overrun.
`mails` counts what the provider accepted, `told` the `reply_sent` events.

**`ReplyComposer`** extends it by the browser: a request of the composer is a call of
`OutboundDelivery` under the key the screen holds, and either its request or its answer can be lost.
`Open` mints a key and loads the saved draft; `SaveDraft` is the debounce.

**`GmailReconcile`**: a run is `Start`, `AcquireToken`, `ReadCursor`, `ClaimLease`, `List`,
`Fetch` for each entry, `Advance`, `Release`, as `reconcileOneMailbox` awaits them, with `Throw` and `Kill`
between. The history is a sequence of entries, of which retention forgets a prefix.
Connect is `ConnectArms` then `ConnectPersists`; any number may be between the two, as nothing serialises
`completeConnect`, and may die there (`armed` counts them by watermark). `baseline`, history, is the
highest watermark seeded: earlier mail is not owed. A renewal is `RenewBegins` then `RenewEnds`.

**`ImapFetch`**: a fetch is `Tick`, `ClaimLease`, `ReadCursor`, `Fetch` (one listing of at most
`MaxPerInvocation` messages), `Ingest` for each, `Advance`, `Release`, or `Pause` where UIDVALIDITY
has changed; a connect `Probe` then `ConnectPersists`. A message keeps its number when the server
gives it a new UID (`Renumber`), so that filing it twice is visible. `Disconnect` is the service of the
Gmail mailboxes, which takes an IMAP mailbox too and leaves its cursor.

**`GmailMailbox`**: refresh is `Ask`, `Answer`, then `Persist` or `MarkDead`; connect `Exchange`,
`StoreGrant` (connects may overlap); disconnect `BeginDisconnect`, `ReadGrant`, `Revoke`, `Deactivate`. `RefreshEnds` is the end of any refresh. Grants are numbered
in the order Google issues them.

**`EventWebhooks`**: the drain is `Claim`, `ListEndpoints`, `Enqueue` for each pair, `Dispatch`; a
delivery is `Deliver`, `Post`, `RecordSuccess` or `RecordFailure`, `Finish`. A delivery is the pair of event and
endpoint, as its dedupe key is. `Register`,
`PatchStatus`, `PatchEvents` and `Remove` are the admins' requests. `steady` is history: the endpoints active without a break since the event.

**`ModuleInstall`**: one action per await of each `step...` function; `Move` is the compare-and-swap by
state and lease token, `RenewThen` the lease renewal, `Fail` the fenced way into
`cleanup_pending`; `Claim` and `Settle` are the queue's side of a job. A call works on the message it
was handed (`Handed`: attempts, polls), not on the row, which may have been handed out again; its late outcome
still counts until the row is. `Prepare` looks at the connection at every step, where the code reads it once per call
(`installer.ts:1447-1461`): a call that goes on after a revocation is one before a later revocation. `GreenMeansLive` is
about the installer: the brake on deliveries and what admins do to an active module are not part of it.

**`AgentAccounts`**: a request is its handler's checks (`Begin...`), then the statements of its
transaction: `Lock`, `ReadRow`, `CountAdmins`, `Change`; `Lock`, `FindAgents`,
`CreateFirstAdmin`; or one step without the lock.

**`MailboxGrants`** extends it: a PUT is `BeginPut`, which has found the agent and deleted the
rows it saw that are not asked for, and `InsertGrants` or `AbortPut`; `ChangeAgents` is any step of
`AgentAccounts`, with the grants that a creation inserts or a deletion takes along.

**`Passkeys`**: a nonce is a signed token and its row. A request is `Begin...`, `Consume`, then
`MintRegistration`, or `InsertCredential`, or `Verify`, `LockKey`, `ReadStatus`, `Admit`,
`MintToken`. `Sign` is an authenticator, whose answers may come late, twice or out of order. The check of an
answer's `userHandle` against the passkey's owner (`auth/webauthn-ceremony.ts:249-253`) is left out: more is let through.

## Runs

Each run is `tlc -config <cfg> <module>`; all finish within about three minutes on two workers.

| Run (cfg) | What it shows | Bounds, and why they are enough |
|---|---|---|
| `queue` (`MCPostgresQueue`) | `CurrentClaimIntact`: no stale outcome touches a row claimed again. `ExclusiveHandling`: a job's handler runs alone unless a lease was overrun. `ImplementsWorkQueue`: refinement. `EveryJobResolved`: no job waits for ever | 2 drains, 2 jobs in one slot, batches of 2, ceiling 2, 2 faults: a stale drain, its successor, and a row left over in a batch. The safety part is proved for all values |
| `ingest` (`MCInboundIngest`) | `OneThreadPerMessage`: filed once, and with all its attachments. `ImplementsLedger`: exactly one fate. `BudgetExact`: parked neither early nor late. `OwnerUndisturbed`: the claim is exclusive while its lease holds. `FiledInOpenConversation`: whatever was decided before the lock. `EveryMessageSettled` | 2 calls, a reply with two attachments whose first id is forged (and which may be an echo that Gmail renamed), an own echo and a poison message, a conversation of any status, budget 2, 2 faults: a call overtaken while another stores, then an unseen commit. The safety part is proved for all values |
| `conversation` (`MCConversations`) | `ResolvedOnce`: one resolution, one event. `MessagesSurface`: customer mail never stays out of sight. `ApprovalRespectsStatus`: whatever the preflight read. `SpamUndisclosed`: a portal read that overlaps an operator's verdict does not tell it. `SnoozeEnds` | 2 requests on 2 drafts, one reply, 3 messages: every pair of races on one conversation. The safety part is proved for all values |
| `outbound` (`MCOutboundDelivery`) | `OneSenderAtATime`; `NeverFalseSent`; `NoSpuriousCopy`: each extra copy is owed to a fault; `SentIsFinal`: one outcome, one event | 2 callers, a keyed and a keyless thread and an approved draft, 2 faults: a lost mark, then a crash of the retry. Proved for all values |
| `reconcile` (`MCGmailReconcile`) | `NeverDrop`: no mail after every watermark seeded lies behind the cursor unsettled. `LeaseKept`: a lease is not released by the run it replaced. `MailSettles`: every message owed is settled, or the mailbox is visibly stopped | a push and a sweep, 2 history entries, one forgotten, any two of connects, disconnects and renewals (two connects overlap; a disconnect is followed by a reconnect), a fault. The safety part is proved for all values |
| `imap` (`MCImapFetch`) | `EachMailOnce`: nothing skipped behind the cursor, nothing filed twice. `CursorNeverBack`. `MailFetched`: what is owed is fetched, or the mailbox is visibly stopped | 2 fetches, 2 connects, 2 messages one at a time, 2 epochs, a fault: a stale fetch or connect, its successor, and a renumbering between them. The safety part is proved for all values |
| `mailbox` (`MCGmailMailbox`) | `TokensMatchStatus`: no token survives a disconnect, none is missing otherwise. `DeadGrantNoticed` | 2 refreshes, 2 disconnects, 3 grants (two reconnects, which may overlap), a fault. The safety part is proved for all values |
| `webhook` (`MCEventWebhooks`) | `NoEventDropped`; `BrakeHolds`: disabled at the threshold, a delivery counted once; `EventReaches` | 2 drains, 1 event, an endpoint and one yet to be registered, any count below the threshold of 2, 2 attempts, 2 faults, an admin change. The safety part is proved for all values |
| `install` (`MCModuleInstall`) | `GreenMeansLive`: active means live, and no event before that; `CredentialsWhileNeeded`: escrowed while a step needs them, worthless after a failure unless a lease was overrun; `NeverStranded` by one fault | 2 calls, 2 jobs, the code's ceiling of 5, leases of 2 min instead of 5, 2 polls, 4 faults. With `LeaseMinutes` 5 and 2 faults the same properties hold. The first two are proved for all values, the third for a ceiling of at least 4 and leases of at least 2 min |
| `accounts` (`MCAgentAccounts`) | `AdminRemains`, `PasswordWhenJoined`, `GrantsOfExisting`, `ChangesOnlyAsAsked` | 2 agents, 2 requests, 2 PUTs of one mailbox; proved for all values |
| `passkeys` (`MCPasskeys`) | `ProvenByStepUp`: one step-up, one passkey. `AdmittedRightly`: who is admitted exists when it commits, and counters rise. `SpentByOwner`: nobody spends another's nonce | 2 agents, one counting passkey that either may own, 2 requests, 3 nonces, 2 signatures: a replay, an overtaking and a deletion in the middle. Proved for all values |
| `composer` (`MCReplyComposer`) | refutes `RetryKeepsKey` | see Divergences |

Each module's `TypeOK` is checked as the first conjunct of an invariant of its run (of `AdminRemains`,
`CurrentClaimIntact`, and so on). Deadlock is not checked: every one of these models ends when its faults,
messages and requests are used up, and a desk with nothing to do is no error; what must not
stop is stated as a leads-to.

Symmetry is used in `outbound`, `install`, `accounts` and `passkeys`, which check no liveness.

**Fairness.** Only what `vercel.json` and the platform give: the queue drain, the outbox drain, the
snooze pass, the IMAP fetch and the reconcile sweep are invoked every minute or few; an invocation that is not killed
goes on; time passes. Each is weak fairness of the steps of one call, so that a call that dies for
ever is possible only through `FaultBound`. No fairness is assumed of producers, agents,
operators, customers, IMAP servers, faults, or of results (a handler may always ask for a retry).
`EveryMessageSettled` assumes
redelivery until settled, which is what `GmailReconcile` and `ImapFetch` do (their cursors do not move
past a message that is not). Nothing schedules `runDeliveryWorker` (`mail/delivery-worker.ts:130`), so
that nothing promises that a failed send is tried again, and there is no liveness
property of failed sends.

## Proofs

All are checked by TLAPS for arbitrary values of the constants, under the ASSUMEs of the modules
(typing of bounds, the special values lie outside their sets) and, for accounts, that `Agents`
is finite. Each of the modules proved about has a theorem that its types hold, or proves them along with the
first invariant. A proof module may be about two components: it extends both, which is why the
initial states, the next-state relations and the types of `GmailMailbox`, `EventWebhooks`, `ModuleInstall` and
`MailboxGrants` carry the component in their names (`MailboxSpec`, `WebhooksSpec`, `InstallSpec`, `GrantsSpec`).
The modules keep the same plan: types, then what each action does to the state it may disturb (the `...Effect`
lemmas), then one step of the invariant per action.

**`PostgresQueue_proofs`.** `ClaimIntact` (`CurrentClaimIntact`) says that the fence
works. It is not inductive: a state in which a drain carries a generation that the row has yet to
reach satisfies it, and the next claim breaks it. `FenceInv` therefore adds `ClaimsAreOfThePast`
(no drain's claim exceeds the row's `attempts`). Lemmas `OutcomeEffect` and `ClaimEffect` say
what an outcome and a claim do to a row whatever their kind. `HandlersExclusive`
(`ExclusiveHandling`) rests on `ClaimsHeld`: on a row that was never overrun, a claim that a drain still
holds is the current generation and its lease is held; two drains at one row would hold the same
generation, which `CurrentClaimIntact` excludes. `ImplementsSeam` is the refinement to `WorkQueue`: every step of
the rows is a step of the promise or a stutter; an outcome is one because the row it
is fenced to is live.

**`InboundIngest_proofs`.** `FiledOnceAndWhole` (`OneThreadPerMessage`) needs that a message with a
thread reads stored and the reverse (`OneThread`), and that a call about to store has put
every part it will refer to (`BlobsThere`). `OwnersAreUndisturbed` rests on `GenerationsApart`: no
two calls hold the same generation of a row, so that one that owns the current generation shares
it with nobody. `BudgetIsExact`, `FiledWhereSeen` and the refinement `LedgerIsImplemented` follow from
the types and what each stage of a call may hold.

**`OutboundDelivery_proofs`.** `SendersAreApart` (`OneSenderAtATime`) is not inductive, and what keeps
senders apart differs: a call with the lease is covered by it until its time runs out
(`LeaseCovers`); one without is covered only by its row's being young, pending and keyless,
which nothing else picks up (`AloneOnYoungRow`). `SentStaysSent` follows from the same, and
`RecordIsTruthful` is the account of what the provider has taken. `CopiesAreOwedToFaults` (`NoSpuriousCopy`)
counts: the mails of a row, the attempts in flight or failed on it, and one more if the row is open to be picked
up by somebody else, are at most one and the number of faults (`Paid`). A row at which a call with the lease, or
the author of a young keyless row, is at work is not open to anyone (`Guarded`), so that only a fault makes a second
copy due.

**`GmailReconcile_proofs`.** `NothingIsDropped` (`NeverDrop`) has to hold of stale runs, which write
their cursor whatever has happened since. So it is a promise of every run that has read the
cursor, holder of the lease or not: unless it is blocked, all it has been through is settled
(`Passed`). A connect takes nothing of that back, since the baseline is the highest watermark that any
connect has seeded: one that persists late seeds a lower one, which only lists more. Mail that comes now
comes after all of it (`Ends`). `LeasesAreKept` is the token comparison of the release.

**`ImapFetch_proofs`.** `EachMailIsFiledOnce` (`EachMailOnce`) needs what the numbering is good for: in one
epoch a UID names one message for ever (`Numbered`, `Identified`), nothing is ingested under another epoch
than the cursor's (`Batches`), a connect has seen no more than it seeds (`Probes`), and the run that holds the lease has, below
where it is, left nothing out (`Holder`, `Sweeps`). `CursorOnlyMovesUp` is the fence of `setCursor`.

**`AccountsAndMailboxes_proofs`.** `AdminRemains` is not inductive, for a change that has counted two admins
may be about to write. `IInv` says what each request may rely on at its stage: one request is
in the critical section (`OneLocker`), what it has read is still so (`ReadsHold`), a count that let a
change go on left another admin (`AnotherAdmin`), the checks made without a lock cannot become
false (`ChecksHold`), and a set-up deployment stays one (`Founding`). From it follow
`AdminAlwaysRemains`, `PasswordsFollowStatus` and `ChangesAreAsAsked`.

`GrantsAreOfExisting` (`GrantsOfExisting`): the foreign key is what stops a PUT
that began before a deletion, and the cascade takes the rest. `DisconnectKeepsNoToken` (`TokensMatchStatus`) is inductive
with the types of the grant: the predicate that rides on a refresh's write is what carries it.

**`ConversationEvents_proofs`.** `DraftsResolvedOnce` (`ResolvedOnce`) is inductive with the types: the status is
compared in the statement that resolves. `MessagesAreSeen`, `ApprovalsAreRechecked` and `VerdictsAreKept` are what
a transaction decides on the row it holds; the second needs that nobody has asked for anything before the conversation exists (`Unasked`).
`EventsAreKept` (`NoEventDropped`) is not inductive, for a drain may be about to mark an event of which it has
listed too few endpoints. `Kept` says what a drain owes while it fans out: all the endpoints that have wanted its events
without a break are among those it listed (`Listings`), because they would be listed now (`Wanting`), and what it has handed over was
queued (`Handovers`). `EndpointsAreBraked` (`BrakeHolds`) is
a tally per delivery: counted at most as often as it was queued or its run died, less the one that is still to be
counted (`Tally`); and an endpoint that does not exist yet has none (`Unregistered`).

**`PasskeysAndInstalls_proofs`.** `PasskeysAreProven` (`ProvenByStepUp`) counts too: a step-up is spent in four
stations (the token, the request that consumed it, the registration challenge that this bought, the request
that consumed that), and what an agent has in all of them plus the passkeys it added never exceeds its step-ups
(`Afforded`). It rests on each request's having been begun with a nonce of its kind and agent (`Requests`), as
`SpendersAreOwners` does. `AdmissionsAreRight` (`AdmittedRightly`) is the row lock: what a request saw of the
passkey it holds is still so (`Locks`). `GreenIsLive` (`GreenMeansLive`) has to survive calls whose lease is long
lost, for two actions (creating the Assistant, promoting the endpoint) are not fenced. So what holds of a call at its stage
(`Reached`) is only what nobody can take back: a state once verified is verified or active for ever, a cleanup once begun
ends in failure. `CredentialsFitState` (`CredentialsWhileNeeded`) is the compare-and-swap for the escrow; that the
Assistant of a failed install stays revoked holds only while leases do, and then because whoever works holds the
lease and knows the state (`Unlapsed`).

`NeverLeftBehind` (`NeverStranded`) needs numbers, and says which: `RetriesOutlastLease` asks for a ceiling of at least 4
attempts and leases of at least 2 minutes, where the code has 5 and 5. (With leases of 1 minute one slow call
loses its lease: TLC still finds the property true, but the argument would be another.) With a ceiling of 3 TLC finds an install that one death leaves
behind: the first delivery dies, and two are refused by the lease that it left. The invariant (`Recovering`) is an account of how few attempts
can have been used up. Before the fault (`Calm`) one queue row exists at a time, it is in the hands of whoever works, and no
delivery is ever refused. After it (`Resumable`) a refusal needs a lease: either its call is at work, and handles
its own row or can be interrupted by few refusals (`Slack`); or it is dead, and then a row refused twice is
put off for longer than what is left of the lease (`Refusable`). So some row is never about to be removed
(`Carried`). What a call does is summed up in `AdvanceHandles`: one in charge goes on, ends in a final state, or breaks
off with a retry, and only a fault makes it break off.

**Only model-checked.** Liveness and what depends on ENABLED are out of the prover's reach; so
would be what a recursive definition computes for every input (the modules declare none). Of the safety
properties of the runs one has no theorem: `RetryKeepsKey`, which the code does not keep.

## Divergences

Where the code does not do what its documents say. The first is the run `composer`, and a finding of
`PROJECT.json`. The others are kept as properties at the end of the modules where they can be stated;
TLC refutes each with the constants of the module's run, under the specification without fairness (`Spec`, `MailboxSpec`, `WebhooksSpec`), unless the table says
otherwise. Lines are of the code; the words are quoted at the lines in brackets.

| Code | What happens | What is said | Refuted by |
|---|---|---|---|
| `web/src/components/ConversationScreen.tsx:717` | a visit that restores the draft of a reply whose answer was lost has a key of its own, and sending it again is a second mail | one key per logical send, reused on every retry (`ConversationScreen.tsx:12-14`, `web/src/lib/actions.ts:68-70`) | `RetryKeepsKey`: run `composer` |
| `src/mail/gmail-oauth.ts:350` | a refresh in flight across a reconnect stores the old refresh token over the new | a reconnect replaces the stored tokens (`specs/mail/gmail-connect.md:185-189`) | `LatestGrantStored` |
| `src/store/conversations.ts:2116` | an approval that finds its draft resolved has already reopened the conversation, and commits that | it returns null: no such row in the state required (`store/conversations.ts:901-905`) | `LostApprovalChangesNothing` |
| `src/store/conversations.ts:2056` | a discard after its preflight emits `draft.resolved` for a deleted conversation | no event of any type fires for one (`specs/modules/substrate-v1.md:170-171`) | `NothingAfterDeletion` |
| `src/mail/snooze-wake.ts:70` | a stale list wakes a conversation that an agent has since put on plain pending | plain pending stays until an agent changes it (`specs/api/agent-inbox-v1.md:120-121`) | `PlainPendingStays` |
| `src/store/conversations.ts:1773` | a late release frees the lease, and writes over the outcome, of the attempt that replaced it | the lease keeps a second attempt out (`store/conversations.ts:65-67`) | the `overrun` conditions of `OutboundDelivery` are needed |
| `src/store/gmail-watch-state.ts:231` | a run in flight across a reconnect, or a connect that persists after a later one (`mail/gmail-connect.ts:618`), writes its cursor over the new baseline, so earlier history is listed after all | history before the reconnect is not back-filled (`specs/mail/gmail-connect.md:191-193`) | `NoBackfill` |
| `src/store/gmail-watch-state.ts:255` | a run or a renewal in flight inserts the watch row again after a disconnect | nothing lingers (`store/gmail-watch-state.ts:200-202`) | `NothingLingers` |
| `src/store/mailboxes.ts:304` | a run in flight pauses a mailbox that was just reconnected with a good cursor | paused means the cursor expired (`store/mailboxes.ts:26-29`) | `PausedWhenExpired` |
| `src/store/mailboxes.ts:293` | an `invalid_grant` of the old grant marks a reconnected mailbox `needs_reconnect` | needs_reconnect means the grant is dead (`store/mailboxes.ts:19-22`) | `NeedsReconnectMeansDead` |
| `src/mail/gmail-disconnect.ts:230` | a grant stored between a disconnect's read and its transaction is deleted without a revoke | tokens found later are ones it tried to revoke (`mail/gmail-disconnect.ts:226-229`) | `NoOrphanGrant` |
| `src/mail/imap-connect.ts:392` | a mailbox paused by a reset becomes active by a reconnect, which keeps the cursor of the old epoch, and the next fetch pauses it again: `seedBaseline` with a new epoch has no caller | it is paused until a human rebaselines it (`specs/mail/mailbox-connection.md:24-26`) | `PausedUntilRebaselined` |
| `src/webhooks/outbox-drain.ts:140` | an event claimed again after its first delivery was acked is delivered again | the dedupe key makes it a no-op (`store/event-outbox.ts:32-34`) | `ReclaimIsNoOp` |
| `src/providers/adapters/postgres-queue/index.ts:425` | a job whose runs are killed is claimed beyond the ceiling, which is compared after a handler returned | jobs beyond it are dead-lettered (`postgres-queue/index.ts:34-36`) | `HandlerRunsWithinCeiling` |
| `src/modules/install/installer.ts:1440` | deliveries refused by a held lease use up the ceiling, and two deaths leave the install unfinished without a job | the retry outlasts the lease (`installer.ts:1434-1438`) | `NeverStranded` without `faults <= 1` |
| `src/modules/install/installer.ts:1440` | a claim refused by a held lease is retried | a refused claim `ack`s immediately (`installer.ts:37-38`, older than the code) | `NeverStranded` when the refusal is acked (`WhenHeldDone`, its mutant) |
| `src/modules/install/installer.ts:806` | a call that outlived its lease makes the Assistant active after its successor revoked it | cleanup leaves none (`db/migrate.ts:2159-2161`) | the last conjunct of `CredentialsWhileNeeded` without `~overrun` |
| `src/store/agents.ts:644` | two concurrent PUTs of an agent's grants leave their union | a PUT replaces the set (`store/agents.ts:254-256`) | `PutReplaces` with two mailboxes |
| `src/auth/webauthn-ceremony.ts:290` | two honest signatures of one authenticator that overtake each other mark its passkey | a regression is a genuine clone signal (`specs/auth/passkeys.md:547`, `:720-723`) | `MarkMeansCopy` |

## Plan

Done, in the order of importance: the queue (everything runs on it), ingest, conversations,
outbound, reconcile, grant, webhooks, install, accounts; then IMAP, passkeys, grants of mailboxes,
the composer over the delivery, the threading decision, the customer portal and the admins' webhook
requests; and the proofs of every safety property of the runs but one (above).

Next, in this order:

1. A composition of `PostgresQueue`, `GmailReconcile` and `InboundIngest`: from push to thread, with
   one clock for the three leases. Today each keeps of the other what is proved of it.
2. An abstract *mailbox source* (arrived, owed, settled) that `GmailReconcile` and `ImapFetch` both
   implement: `NeverDrop` and `EachMailOnce` state its promise once for each.
3. Pure operators over bounded inputs against a reference definition: backoff, target screening,
   recognition of own sends.

## What is not modelled

Message contents, headers other than In-Reply-To and References, and MIME; subjects, and of tags,
assignees and notes all but their events;
signatures, secrets and token encryption; scopes and the signed state of the consent screen; open
tracking; pagination and listings (a listing of the history, paged in the code, is one step);
batch order and lengths of backoffs outside the installer; the answers of other services beyond
success, failure, and success that looks like failure. Each is either one statement that
no other state depends on, or a pure function. Components left out altogether have no interleaving to
get wrong: assistants, saved replies and settings are single statements on rows of their own; migrations run
in one transaction under an advisory lock; the HTTP shell, the views of the web client, adapters, the catalog
client, artifact checks and the command line tool convert, validate or do I/O. PostgreSQL is trusted to run transactions and
row locks as documented: a transaction that holds its row is one step, and those of `AgentAccounts`,
`MailboxGrants` and `Passkeys`, which read or count other rows, are split by statement at READ COMMITTED.
