---------------------------- MODULE ModuleInstall ----------------------------
(***************************************************************************)
(* The queued installer of a module (src/modules/install/installer.ts): a  *)
(* handler that drives one module_installs row through its lifecycle       *)
(* (src/store/module-installs.ts), creating on the way the Assistant, the  *)
(* hosting project, its deployment and the webhook endpoint of the module. *)
(*                                                                         *)
(* Every run claims the row's lease first and moves its state only by a    *)
(* compare-and-swap on the state and the fence token, which each claim and *)
(* each move mint anew; "owner" is the run that holds the current token.   *)
(* Runs are handler calls for jobs of the queue; they throw, die between   *)
(* any two steps, and outlive a minute and in the end their leases.  Time  *)
(* passes in minutes, the period of the queue's cron.                      *)
(***************************************************************************)
EXTENDS Naturals

CONSTANTS
    Runs,          \* concurrent handler calls
    Jobs,          \* model bound: queue rows that can exist at a time
    MaxAttempts,   \* the queue's ceiling, and INSTALL_MAX_ATTEMPTS
    MaxPolls,      \* BUILD_POLL_MAX_ATTEMPTS
    LeaseMinutes,  \* INSTALL_CLAIM_TTL_SECONDS
    FaultBound     \* model bound: calls that die, that outlive a minute, and
                   \* requests to the database or to others that fail

ASSUME InstallAssumption ==
    /\ {MaxAttempts, MaxPolls, LeaseMinutes} \subseteq Nat \ {0}
    /\ FaultBound \in Nat
    /\ "none" \notin Runs \cup Jobs

None == "none"

VARIABLES
    state,      \* module_installs.state
    target,     \* the failure state recorded for the cleanup
    owner,      \* the run that holds lease_token, or None
    lease,      \* minutes until lease_expires_at; 0: free
    escrow,     \* is the credential ciphertext in escrow?
    assistant,  \* the module's Assistant: none, active, disabled
    endpoint,   \* the webhook endpoint at its URL: none, disabled, active,
                \* or foreign: registered there by somebody else
    connected,  \* is the operator's hosting connection alive?
    project,    \* was the hosting project created?
    proved,     \* has the deployment answered the possession challenge?
    job,        \* each queue row
    run,        \* each handler call
    faults,
    overrun     \* history: has a lease lapsed under the call that held it?

row == <<state, target, owner, lease, escrow>>
module == <<assistant, endpoint>>
remote == <<connected, project, proved>>
ghost == <<faults, overrun>>
installVars == <<row, module, remote, job, run, ghost>>

Path == {"planned", "credentials_issued", "project_created", "artifact_uploaded",
         "deployment_created", "build_pending", "bootstrap_pending", "endpoint_verified"}
Failed == {"build_failed", "verification_failed", "cleanup_required"}
States == Path \cup {"cleanup_pending", "active"} \cup Failed

Stages == {"idle", "work", "loaded", "ensured", "created", "prepared", "deployed", "polled",
           "proved", "registered", "promoted", "cleaning", "revoked", "reporting"}

NoJob == [stage |-> "gone", attempts |-> 0, due |-> 0, polls |-> 0, run |-> None]
NewJob(polls, due) == [NoJob EXCEPT !.stage = "waiting", !.polls = polls, !.due = due]

NoRun == [stage |-> "idle", state |-> "planned", job |-> None, attempts |-> 0, polls |-> 0,
          outcome |-> "ack", delay |-> 0]

(* A call works on the message it was handed, not on the queue row.         *)
Handed(j) == [NoRun EXCEPT !.job = j, !.attempts = job[j].attempts + 1, !.polls = job[j].polls]

(* The types of the state; a call has a message, a build is polled less than *)
(* MaxPolls times after its first poll, and a cleanup knows where it leads. *)
InstallTypeOK ==
    /\ state \in States /\ target \in Failed \cup {None}
    /\ owner \in Runs \cup {None} /\ lease \in 0..LeaseMinutes
    /\ {escrow, connected, project, proved} \subseteq BOOLEAN
    /\ assistant \in {None, "active", "disabled"}
    /\ endpoint \in {None, "disabled", "active", "foreign"}
    /\ job \in [Jobs -> [stage : {"gone", "waiting", "running"}, attempts : Nat,
                         due : 0..LeaseMinutes, polls : 0..(MaxPolls - 1), run : Runs \cup {None}]]
    /\ run \in [Runs -> [stage : Stages, state : States, job : Jobs \cup {None},
                         attempts : Nat, polls : 0..(MaxPolls - 1),
                         outcome : {"ack", "retry", "deadLetter"}, delay : 0..LeaseMinutes]]
    /\ \A r \in Runs : run[r].stage # "idle" => run[r].job \in Jobs
    /\ \A r \in Runs : run[r].stage = "polled" => run[r].polls + 1 < MaxPolls
    /\ faults \in Nat /\ overrun \in BOOLEAN
    /\ state = "cleanup_pending" => target # None

InstallInit ==
    /\ state = "planned" /\ target = None /\ owner = None /\ lease = 0 /\ escrow = FALSE
    /\ assistant = None /\ endpoint \in {None, "foreign"}
    /\ connected = TRUE /\ project = FALSE /\ proved = FALSE
    /\ \E first \in Jobs : job = [j \in Jobs |-> IF j = first THEN NewJob(0, 0) ELSE NoJob]
    /\ run = [r \in Runs |-> NoRun]
    /\ faults = 0 /\ overrun = FALSE

Fault == faults < FaultBound /\ faults' = faults + 1

At(r, s, stage) == run[r].stage = stage /\ run[r].state = s
Enter(r, stage) == run' = [run EXCEPT ![r].stage = stage]

-----------------------------------------------------------------------------
(* Ends of a handler call.                                                  *)

(* Minutes until a retry: the handler's doubling hint, doubled again by the *)
(* queue; and 10 s doubling for a throw.  Later than any lease is all one.  *)
Capped(n) == IF n > LeaseMinutes THEN LeaseMinutes ELSE n
Backoff(k) == Capped(IF k = 1 THEN 1 ELSE IF k = 2 THEN 2 ELSE LeaseMinutes)
ThrowBackoff(k) == Capped(IF k < 4 THEN 1 ELSE 2)

Attempts(r) == run[r].attempts

Report(r, outcome, delay) ==
    run' = [run EXCEPT ![r].stage = "reporting", ![r].outcome = outcome, ![r].delay = delay]

(* The finally: released with the token of the record the loop holds, which *)
(* a failInstall on the way has replaced.                                   *)
Release(r) == lease' = IF owner = r THEN 0 ELSE lease
FinallyReleases(r) ==
    IF run[r].stage \in {"cleaning", "revoked"} /\ run[r].state # "cleanup_pending"
    THEN UNCHANGED lease ELSE Release(r)

Leave(r, outcome, delay) ==
    /\ Report(r, outcome, delay) /\ Release(r)
    /\ UNCHANGED <<state, target, owner, escrow>>

(* Mutant of Fenced: the state is compared, the token is not.               *)
FencedByState(r) == state = run[r].state

(* The compare-and-swap of transition: the state and the token of the row   *)
(* are the ones this call read last.                                        *)
Fenced(r) == owner = r /\ state = run[r].state

(* failInstall: fenced into cleanup_pending first; a loser only reports.    *)
Fail(r, to) ==
    IF Fenced(r)
    THEN /\ state' = "cleanup_pending" /\ target' = to
         /\ Enter(r, "cleaning")
         /\ UNCHANGED <<owner, lease, escrow>>
    ELSE Leave(r, "deadLetter", 0)

RetryOrFail(r, to) ==
    IF Attempts(r) >= MaxAttempts THEN Fail(r, to) ELSE Leave(r, "retry", Backoff(Attempts(r)))

(* tryTransition: one move of the row, which only the current token can     *)
(* make; a loser acks.                                                      *)
Move(r, to, inEscrow) ==
    IF Fenced(r)
    THEN /\ state' = to /\ escrow' = inEscrow
         /\ owner' = r
         /\ run' = [run EXCEPT ![r].stage = "work", ![r].state = to]
         /\ UNCHANGED <<target, lease>>
    ELSE Leave(r, "ack", 0)

(* renewLeaseOrAbort *)
Renewed(r) == owner = r
RenewThen(r, step) ==
    IF Renewed(r) THEN lease' = LeaseMinutes /\ step ELSE Leave(r, "ack", 0)

-----------------------------------------------------------------------------
(* Mutant of WhenHeld: a held lease is taken for a call at work.            *)
WhenHeldDone == "ack"

WhenHeld == "retry"

(* The queue hands a job to a call, which claims the install or is refused. *)
Claim(r, j) ==
    /\ run[r].stage = "idle" /\ job[j].stage = "waiting" /\ job[j].due = 0
    /\ job' = [job EXCEPT ![j].stage = "running", ![j].run = r, ![j].attempts = @ + 1]
    /\ IF lease > 0
       THEN /\ run' = [run EXCEPT ![r] = [Handed(j) EXCEPT !.stage = "reporting",
                          !.outcome = WhenHeld, !.delay = Backoff(job[j].attempts + 1)]]
            /\ UNCHANGED <<owner, lease>>
       ELSE /\ run' = [run EXCEPT ![r] = [Handed(j) EXCEPT !.stage = "work", !.state = state]]
            /\ owner' = r /\ lease' = LeaseMinutes
    /\ UNCHANGED <<state, target, escrow, module, remote, ghost>>

(* The queue applies the outcome, unless the row was claimed again since.   *)
Settle(r) ==
    LET j == run[r].job IN
    /\ run[r].stage = "reporting"
    /\ run' = [run EXCEPT ![r] = NoRun]
    /\ owner' = IF owner = r THEN None ELSE owner
    /\ job' = IF job[j].run # r THEN job
              ELSE IF run[r].outcome = "retry" /\ job[j].attempts < MaxAttempts
                   THEN [job EXCEPT ![j].stage = "waiting", ![j].run = None, ![j].due = run[r].delay]
                   ELSE [job EXCEPT ![j] = NoJob]
    /\ UNCHANGED <<state, target, lease, escrow, module, remote, ghost>>

(* stepCredentialsIssued: minted in memory, escrowed by the winning move.   *)
IssueCredentials(r) ==
    /\ At(r, "planned", "work")
    /\ Move(r, "credentials_issued", TRUE)
    /\ UNCHANGED <<module, remote, job, ghost>>

(* loadIssuedCredentials, which throws when the escrow is gone.             *)
LoadCredentials(r) ==
    /\ At(r, "credentials_issued", "work")
    /\ IF escrow THEN Enter(r, "loaded") /\ UNCHANGED row
       ELSE Leave(r, "retry", ThrowBackoff(Attempts(r)))
    /\ UNCHANGED <<module, remote, job, ghost>>

(* ensureAssistantMatchesCredentials *)
EnsureAssistant(r) ==
    /\ At(r, "credentials_issued", "loaded")
    /\ assistant' = "active" /\ Enter(r, "ensured")
    /\ UNCHANGED <<row, endpoint, remote, job, ghost>>

(* stepProjectCreated: the second create of the install's one name fails.   *)
CreateProject(r) ==
    /\ At(r, "credentials_issued", "ensured")
    /\ \/ ~connected /\ Fail(r, "build_failed") /\ UNCHANGED <<project, faults>>
       \/ connected /\ project /\ Fail(r, "cleanup_required") /\ UNCHANGED <<project, faults>>
       \/ /\ connected /\ ~project /\ project' = TRUE
          /\ Enter(r, "created") /\ UNCHANGED <<row, faults>>
       \/ /\ connected /\ ~project /\ Fault /\ project' \in BOOLEAN
          /\ RetryOrFail(r, "build_failed")
    /\ UNCHANGED <<module, connected, proved, job, overrun>>

RecordProject(r) ==
    /\ At(r, "credentials_issued", "created")
    /\ Move(r, "project_created", escrow)
    /\ UNCHANGED <<module, remote, job, ghost>>

(* stepArtifactUploaded up to its upload: download, verify, extract, config.*)
(* Upload is the rest, with a second renewal of the lease.                  *)
Prepare(r) ==
    /\ At(r, "project_created", "work")
    /\ \/ ~connected /\ Fail(r, "build_failed") /\ UNCHANGED faults
       \/ /\ connected /\ UNCHANGED faults
          /\ RenewThen(r, Enter(r, "prepared") /\ UNCHANGED <<state, target, owner, escrow>>)
       \/ connected /\ Renewed(r) /\ Fault /\ Fail(r, "build_failed")
       \/ connected /\ Renewed(r) /\ Fault /\ RetryOrFail(r, "build_failed")
    /\ UNCHANGED <<module, remote, job, overrun>>

Upload(r) ==
    /\ At(r, "project_created", "prepared")
    /\ \/ Move(r, "artifact_uploaded", escrow) /\ UNCHANGED faults
       \/ Renewed(r) /\ Fault /\ RetryOrFail(r, "build_failed")
    /\ UNCHANGED <<module, remote, job, overrun>>

(* stepDeploymentCreated; a deployment whose call died is left unreferenced.*)
CreateDeployment(r) ==
    /\ At(r, "artifact_uploaded", "work")
    /\ \/ ~connected /\ Fail(r, "build_failed") /\ UNCHANGED faults
       \/ /\ connected /\ UNCHANGED faults
          /\ RenewThen(r, Enter(r, "deployed") /\ UNCHANGED <<state, target, owner, escrow>>)
       \/ connected /\ Renewed(r) /\ Fault /\ RetryOrFail(r, "build_failed")
    /\ UNCHANGED <<module, remote, job, overrun>>

RecordDeployment(r) ==
    /\ At(r, "artifact_uploaded", "deployed")
    /\ Move(r, "deployment_created", escrow)
    /\ UNCHANGED <<module, remote, job, ghost>>

AwaitBuild(r) ==
    /\ At(r, "deployment_created", "work")
    /\ Move(r, "build_pending", escrow)
    /\ UNCHANGED <<module, remote, job, ghost>>

PollsLeft(r) == run[r].polls + 1 < MaxPolls

(* stepPollBuild: ready, broken, or to be polled again by a new job.        *)
PollBuild(r) ==
    /\ At(r, "build_pending", "work")
    /\ \/ ~connected /\ Fail(r, "build_failed")
       \/ connected /\ Renewed(r) /\ Move(r, "bootstrap_pending", escrow)
       \/ connected /\ Renewed(r) /\ Fail(r, "build_failed")
       \/ /\ connected
          /\ RenewThen(r,
                /\ PollsLeft(r)
                /\ Enter(r, "polled") /\ UNCHANGED <<state, target, owner, escrow>>)
    /\ UNCHANGED <<module, remote, job, ghost>>

EnqueuePoll(r, j) ==
    /\ At(r, "build_pending", "polled") /\ job[j].stage = "gone"
    /\ job' = [job EXCEPT ![j] = NewJob(run[r].polls + 1, 1)]
    /\ Leave(r, "ack", 0)
    /\ UNCHANGED <<module, remote, ghost>>

(* stepBootstrapPending: the challenge, then the endpoint, disabled.        *)
Challenge(r) ==
    /\ At(r, "bootstrap_pending", "work")
    /\ IF ~escrow THEN Leave(r, "retry", ThrowBackoff(Attempts(r))) /\ UNCHANGED proved
       ELSE \/ proved' = TRUE /\ Enter(r, "proved") /\ UNCHANGED row
            \/ Fail(r, "verification_failed") /\ UNCHANGED proved
    /\ UNCHANGED <<module, connected, project, job, ghost>>

CreateEndpoint(r) ==
    /\ At(r, "bootstrap_pending", "proved")
    /\ endpoint' = IF endpoint = None THEN "disabled" ELSE endpoint
    /\ IF endpoint = "foreign" THEN Fail(r, "cleanup_required")
       ELSE Enter(r, "registered") /\ UNCHANGED row
    /\ UNCHANGED <<assistant, remote, job, ghost>>

RecordEndpoint(r) ==
    /\ At(r, "bootstrap_pending", "registered")
    /\ Move(r, "endpoint_verified", escrow)
    /\ UNCHANGED <<module, remote, job, ghost>>

(* Mutant of Promoted: left for later.                                      *)
PromotedLater == endpoint

Promoted == "active"

(* ensureEndpointActive, before the move to active.                         *)
Promote(r) ==
    /\ At(r, "endpoint_verified", "work")
    /\ endpoint' = Promoted /\ Enter(r, "promoted")
    /\ UNCHANGED <<row, assistant, remote, job, ghost>>

Activate(r) ==
    /\ At(r, "endpoint_verified", "promoted")
    /\ Move(r, "active", FALSE)
    /\ UNCHANGED <<module, remote, job, ghost>>

(* Nothing is left to do in a final state.                                  *)
Done(r) ==
    /\ run[r].stage = "work" /\ run[r].state \in {"active"} \cup Failed
    /\ Leave(r, "ack", 0)
    /\ UNCHANGED <<module, remote, job, ghost>>

(* finalizeCleanup, on the way of a failure or resumed by a later call; no  *)
(* install fails once its endpoint is recorded, so none is to be disabled.  *)
ResumeCleanup(r) ==
    /\ At(r, "cleanup_pending", "work")
    /\ Enter(r, "cleaning")
    /\ UNCHANGED <<row, module, remote, job, ghost>>

(* Mutant of Revoked: the status stays.                                     *)
RevokedNever == assistant

Revoked == IF assistant = "active" THEN "disabled" ELSE assistant

Revoke(r) ==
    /\ run[r].stage = "cleaning"
    /\ \/ assistant' = Revoked /\ Enter(r, "revoked") /\ UNCHANGED <<row, faults>>
       \/ Fault /\ Leave(r, "retry", LeaseMinutes) /\ UNCHANGED assistant
    /\ UNCHANGED <<endpoint, remote, job, overrun>>

FinishCleanup(r) ==
    /\ run[r].stage = "revoked"
    /\ IF owner = r /\ state = "cleanup_pending"
       THEN state' = target /\ escrow' = FALSE ELSE UNCHANGED <<state, escrow>>
    /\ Report(r, "deadLetter", 0) /\ Release(r)
    /\ UNCHANGED <<target, owner, module, remote, job, ghost>>

-----------------------------------------------------------------------------
(* A call that the handler does not catch throws: the queue retries.        *)
Throw(r) ==
    /\ run[r].stage \notin {"idle", "reporting"} /\ Fault
    /\ Report(r, "retry", ThrowBackoff(Attempts(r))) /\ FinallyReleases(r)
    /\ UNCHANGED <<state, target, owner, escrow, module, remote, job, overrun>>

(* The invocation is killed: the leases of the row and of the job stay.     *)
Kill(r) ==
    /\ run[r].stage # "idle" /\ Fault
    /\ run' = [run EXCEPT ![r] = NoRun]
    /\ owner' = IF owner = r THEN None ELSE owner
    /\ LET j == run[r].job IN
       job' = IF job[j].run # r THEN job
              ELSE [job EXCEPT ![j].stage = "waiting", ![j].run = None,
                               ![j].due = IF job[j].stage = "running" THEN 1 ELSE @]
    /\ UNCHANGED <<state, target, lease, escrow, module, remote, overrun>>

Quiet == \A r \in Runs : run[r].stage = "idle"

(* A minute passes; a job whose call is not over is due again.              *)
Minute ==
    /\ lease > 0 \/ \E j \in Jobs : job[j].due > 0
    /\ IF Quiet THEN UNCHANGED faults ELSE Fault
    /\ overrun' = (overrun \/ (lease = 1 /\ owner # None))
    /\ lease' = IF lease = 0 THEN 0 ELSE lease - 1
    /\ job' = [j \in Jobs |->
          IF job[j].stage = "running" THEN [job[j] EXCEPT !.stage = "waiting"]
          ELSE [job[j] EXCEPT !.due = IF @ = 0 THEN 0 ELSE @ - 1]]
    /\ UNCHANGED <<state, target, owner, escrow, module, remote, run>>

(* The operator disconnects the hosting account.                            *)
Disconnect ==
    /\ connected /\ connected' = FALSE
    /\ UNCHANGED <<row, module, project, proved, job, run, ghost>>

RunStep(r) ==
    \/ \E j \in Jobs : Claim(r, j) \/ EnqueuePoll(r, j)
    \/ IssueCredentials(r) \/ LoadCredentials(r) \/ EnsureAssistant(r)
    \/ CreateProject(r) \/ RecordProject(r) \/ Prepare(r) \/ Upload(r)
    \/ CreateDeployment(r) \/ RecordDeployment(r) \/ AwaitBuild(r) \/ PollBuild(r)
    \/ Challenge(r) \/ CreateEndpoint(r) \/ RecordEndpoint(r) \/ Promote(r) \/ Activate(r)
    \/ Done(r) \/ ResumeCleanup(r) \/ Revoke(r) \/ FinishCleanup(r) \/ Settle(r)

InstallNext ==
    \/ \E r \in Runs : RunStep(r) \/ Throw(r) \/ Kill(r)
    \/ Minute \/ Disconnect

InstallSpec == InstallInit /\ [][InstallNext]_installVars

-----------------------------------------------------------------------------
(* An install never reads active over a dead module: its Assistant can      *)
(* authenticate, and its proven endpoint receives events.  And no event     *)
(* reaches a candidate before its install won the endpoint's move: a failed *)
(* or unfinished install has no live endpoint.                              *)
GreenMeansLive ==
    /\ state = "active" => assistant = "active" /\ endpoint = "active"
    /\ endpoint = "active" => proved /\ state \in {"endpoint_verified", "active"}

(* The credentials are in escrow exactly while a later step may need them,  *)
(* and no longer; and those of a failed install are worth nothing: its      *)
(* Assistant cannot authenticate, unless a call outlived its lease.         *)
CredentialsWhileNeeded ==
    /\ InstallTypeOK
    /\ state \in {"planned", "active"} \cup Failed => ~escrow
    /\ state \in Path \ {"planned"} => escrow
    /\ state \in Failed /\ ~overrun => assistant # "active"

(* An install hit by one fault at most is never left unfinished without a   *)
(* job to move it, whatever step the fault hits and whichever deliveries    *)
(* are refused meanwhile.                                                   *)
NeverStranded ==
    faults <= 1 /\ (\A j \in Jobs : job[j].stage = "gone") =>
        state \in {"active"} \cup Failed
=============================================================================
