---------------------------- MODULE AgentAccounts ----------------------------
(***************************************************************************)
(* The agents of a deployment (src/store/agents.ts behind the handlers of  *)
(* src/api/agents.ts): first-run setup, creation, invitations, changes of  *)
(* role and status, deletion and passwords, as concurrent requests.        *)
(*                                                                         *)
(* A request reads what its handler checks first, outside any transaction. *)
(* The transactions run at READ COMMITTED, one statement a step; those     *)
(* that can take an admin away hold one advisory lock, and the row they    *)
(* change FOR UPDATE, until they commit.  A lock is held by whoever stands *)
(* at a stage where it is held.                                            *)
(***************************************************************************)
EXTENDS FiniteSets, Naturals

CONSTANTS
    Agents,     \* the rows that can ever exist; ids are never used again
    Requests    \* concurrent requests to the API

ASSUME AgentsAssumption == IsFiniteSet(Agents)

Roles == {"admin", "agent"}
Keep == "keep"
Nobody == "nobody"

VARIABLES
    role,       \* agents.role of each row
    status,     \* agents.status, or absent before and deleted after
    password,   \* does the agent have a password identity?
    call,       \* each request and what its transaction has read
    founded     \* history: how often a setup created the first admin

table == <<role, status, password>>
vars == <<table, call, founded>>

Kinds == {"setup", "create", "change", "password"}
Critical == {"locked", "read", "counted"}
Stages == {"idle", "checked"} \cup Critical

Exists(a) == status[a] \in {"invited", "active", "disabled"}
ActiveAdmins == {a \in Agents : status[a] = "active" /\ role[a] = "admin"}

Idle == [kind |-> "setup", stage |-> "idle", agent |-> Nobody, role |-> Keep, status |-> Keep,
         oldRole |-> "agent", oldStatus |-> "absent"]

(* The types of the state; a request's agent is the row it changes.         *)
TypeOK ==
    /\ role \in [Agents -> Roles]
    /\ status \in [Agents -> {"absent", "invited", "active", "disabled", "deleted"}]
    /\ password \in [Agents -> BOOLEAN]
    /\ call \in [Requests -> [kind : Kinds, stage : Stages, agent : Agents \cup {Nobody},
                              role : Roles \cup {Keep},
                              status : {Keep, "invited", "active", "disabled", "deleted"},
                              oldRole : Roles,
                              oldStatus : {"absent", "invited", "active", "disabled"}]]
    /\ founded \in Nat

(* A deployment before its setup.                                           *)
Init ==
    /\ role = [a \in Agents |-> "agent"]
    /\ status = [a \in Agents |-> "absent"]
    /\ password = [a \in Agents |-> FALSE]
    /\ call = [r \in Requests |-> Idle]
    /\ founded = 0

-----------------------------------------------------------------------------
(* The locks of PostgreSQL.                                                 *)

(* Mutant of LockFree: the advisory lock is not taken.                      *)
LockFreeAlways == TRUE

LockFree == \A r \in Requests : call[r].stage \notin Critical

(* Mutant of RowFree: the row is read without FOR UPDATE.                   *)
RowFreeAlways(a) == TRUE

RowFree(a) == \A r \in Requests :
    call[r].kind = "change" /\ call[r].agent = a => call[r].stage \notin {"read", "counted"}

Goto(r, stage) == call' = [call EXCEPT ![r].stage = stage]
Return(r) == call' = [call EXCEPT ![r] = Idle]

-----------------------------------------------------------------------------
(* The handlers up to their transaction: the acting agent is an active      *)
(* admin now, and the row is looked at.                                     *)
Begin(r, kind, a, newRole, newStatus) ==
    /\ call[r].stage = "idle"
    /\ call' = [call EXCEPT ![r] = [Idle EXCEPT !.kind = kind, !.stage = "checked",
                                       !.agent = a, !.role = newRole, !.status = newStatus]]
    /\ UNCHANGED <<table, founded>>

BeginSetup(r) == Begin(r, "setup", Nobody, Keep, Keep)

(* With a password or with an invitation.                                   *)
BeginCreate(r) ==
    /\ ActiveAdmins # {}
    /\ \E newRole \in Roles, newStatus \in {"invited", "active"} :
          Begin(r, "create", Nobody, newRole, newStatus)

(* Mutant of MayChangeStatus: only a missing agent is refused.              *)
MayChangeStatusAlways(a) == Exists(a)

(* An invitation ends by its acceptance, not by a PATCH ...                 *)
MayChangeStatus(a) == Exists(a) /\ status[a] # "invited"

BeginPatch(r, a) ==
    /\ ActiveAdmins # {}
    /\ \E newRole \in Roles \cup {Keep}, newStatus \in {Keep, "active", "disabled"} :
          /\ newRole # Keep \/ newStatus # Keep
          /\ newStatus # Keep => MayChangeStatus(a)
          /\ Begin(r, "change", a, newRole, newStatus)

BeginDelete(r, a) == ActiveAdmins # {} /\ Begin(r, "change", a, Keep, "deleted")

(* ... nor by a password set for the invited agent.                         *)
MaySetPassword(a) == Exists(a) /\ status[a] # "invited"

BeginSetPassword(r, a) ==
    /\ ActiveAdmins # {} \/ status[a] = "active"
    /\ MaySetPassword(a)
    /\ Begin(r, "password", a, Keep, Keep)

-----------------------------------------------------------------------------
(* createAgent: one transaction without the lock.                           *)
Create(r, a) ==
    /\ call[r].kind = "create" /\ call[r].stage = "checked" /\ status[a] = "absent"
    /\ role' = [role EXCEPT ![a] = call[r].role]
    /\ status' = [status EXCEPT ![a] = call[r].status]
    /\ password' = [password EXCEPT ![a] = call[r].status = "active"]
    /\ Return(r)
    /\ UNCHANGED founded

(* setPassword replaces the hash without touching the agent's row, and      *)
(* throws for an agent deleted meanwhile.                                   *)
SetPassword(r) ==
    LET a == call[r].agent IN
    /\ call[r].kind = "password" /\ call[r].stage = "checked"
    /\ password' = [password EXCEPT ![a] = @ \/ Exists(a)]
    /\ Return(r)
    /\ UNCHANGED <<role, status, founded>>

(* acceptInvite: status and password in one transaction, once.              *)
AcceptInvite(a) ==
    /\ status[a] = "invited" /\ RowFree(a)
    /\ status' = [status EXCEPT ![a] = "active"]
    /\ password' = [password EXCEPT ![a] = TRUE]
    /\ UNCHANGED <<role, call, founded>>

(* createFirstAdmin, updateAgent and deleteAgent take the lock first ...    *)
Lock(r) ==
    /\ call[r].kind \in {"setup", "change"} /\ call[r].stage = "checked" /\ LockFree
    /\ Goto(r, "locked")
    /\ UNCHANGED <<table, founded>>

(* ... a setup then looks for any agent ...                                 *)
FindAgents(r) ==
    /\ call[r].kind = "setup" /\ call[r].stage = "locked"
    /\ IF \E a \in Agents : Exists(a) THEN Return(r) ELSE Goto(r, "counted")
    /\ UNCHANGED <<table, founded>>

CreateFirstAdmin(r, a) ==
    /\ call[r].kind = "setup" /\ call[r].stage = "counted" /\ status[a] = "absent"
    /\ role' = [role EXCEPT ![a] = "admin"]
    /\ status' = [status EXCEPT ![a] = "active"]
    /\ password' = [password EXCEPT ![a] = TRUE]
    /\ founded' = founded + 1
    /\ Return(r)

(* ... and a change reads its row FOR UPDATE, ...                           *)
ReadRow(r) ==
    LET a == call[r].agent IN
    /\ call[r].kind = "change" /\ call[r].stage = "locked" /\ RowFree(a)
    /\ IF Exists(a)
       THEN call' = [call EXCEPT ![r].stage = "read", ![r].oldRole = role[a],
                                 ![r].oldStatus = status[a]]
       ELSE Return(r)
    /\ UNCHANGED <<table, founded>>

NewRole(r) == IF call[r].role = Keep THEN call[r].oldRole ELSE call[r].role
NewStatus(r) == IF call[r].status = Keep THEN call[r].oldStatus ELSE call[r].status

TakesAdminAway(r) ==
    /\ call[r].oldRole = "admin" /\ call[r].oldStatus = "active"
    /\ ~(NewRole(r) = "admin" /\ NewStatus(r) = "active")

(* ... counts the active admins if it would take one away, ...              *)
CountAdmins(r) ==
    /\ call[r].kind = "change" /\ call[r].stage = "read"
    /\ IF TakesAdminAway(r) /\ Cardinality(ActiveAdmins) <= 1 THEN Return(r)
       ELSE Goto(r, "counted")
    /\ UNCHANGED <<table, founded>>

(* ... and writes both columns.  A deletion takes the identities along.     *)
Change(r) ==
    LET a == call[r].agent IN
    /\ call[r].kind = "change" /\ call[r].stage = "counted"
    /\ role' = [role EXCEPT ![a] = NewRole(r)]
    /\ status' = [status EXCEPT ![a] = NewStatus(r)]
    /\ password' = [password EXCEPT ![a] = @ /\ NewStatus(r) # "deleted"]
    /\ Return(r)
    /\ UNCHANGED founded

(* The connection is lost: the transaction is rolled back.                  *)
Abort(r) ==
    /\ call[r].stage # "idle" /\ Return(r)
    /\ UNCHANGED <<table, founded>>

Next ==
    \/ \E r \in Requests, a \in Agents :
          \/ BeginPatch(r, a) \/ BeginDelete(r, a) \/ BeginSetPassword(r, a)
          \/ Create(r, a) \/ CreateFirstAdmin(r, a)
    \/ \E r \in Requests :
          \/ BeginSetup(r) \/ BeginCreate(r) \/ SetPassword(r) \/ Lock(r) \/ FindAgents(r)
          \/ ReadRow(r) \/ CountAdmins(r) \/ Change(r) \/ Abort(r)
    \/ \E a \in Agents : AcceptInvite(a)

Spec == Init /\ [][Next]_vars

-----------------------------------------------------------------------------
SomeAdmin == founded > 0 => ActiveAdmins # {}

FoundedOnce == founded <= 1

(* The last-admin invariant: a deployment is set up once, however many      *)
(* setups run and agents are deleted, and from then on always has an active *)
(* admin, whichever demotions, disablings and deletions race.               *)
AdminRemains == TypeOK /\ FoundedOnce /\ SomeAdmin

(* Whoever could sign in, now or when enabled again, has a password, and an *)
(* invited agent has none before the invitation is accepted.                *)
PasswordWhenJoined == \A a \in Agents : Exists(a) => (password[a] <=> status[a] # "invited")

(* A change writes back both columns of its row, and loses nothing that     *)
(* committed since it read them: what was not asked for stays.              *)
ChangesOnlyAsAsked == [][\A r \in Requests, a \in Agents :
    Change(r) /\ a = call[r].agent =>
        /\ call[r].role = Keep => role'[a] = role[a]
        /\ call[r].status = Keep => status'[a] = status[a]]_vars
=============================================================================
