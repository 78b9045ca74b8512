---------------------------- MODULE MailboxGrants ----------------------------
(***************************************************************************)
(* Which agent may see which mailbox: agent_mailbox_access, over           *)
(* AgentAccounts.  A new agent is granted every mailbox in the transaction *)
(* that creates it, a deleted one loses its rows by the foreign key's      *)
(* cascade, and a PUT replaces them all (replaceAgentMailboxAccess).       *)
(*                                                                         *)
(* The statements of a PUT run at READ COMMITTED: its DELETE removes the   *)
(* rows it can see, and rows that others commit later stay.  The INSERT    *)
(* and the commit are one step; it is rolled back when a row is there      *)
(* already, and when the agent is not there any more.                      *)
(***************************************************************************)
EXTENDS AgentAccounts

CONSTANTS
    Mailboxes,  \* mailboxes are never deleted
    Puts        \* concurrent PUT /api/v1/agents/{id}/mailboxes

VARIABLES
    grants,     \* agent_mailbox_access
    put         \* each PUT: the agent, the ids asked for and the rows removed

allVars == <<vars, grants, put>>

NoPut == [agent |-> Nobody, ids |-> {}, removed |-> {}]

(* The types of the state beyond those of AgentAccounts.                    *)
GrantsTypeOK ==
    /\ grants \in [Agents -> SUBSET Mailboxes]
    /\ put \in [Puts -> [agent : Agents \cup {Nobody}, ids : SUBSET Mailboxes,
                         removed : SUBSET Mailboxes]]

GrantsInit ==
    /\ Init
    /\ grants = [a \in Agents |-> {}]
    /\ put = [p \in Puts |-> NoPut]

-----------------------------------------------------------------------------
(* grantAllMailboxes, and ON DELETE CASCADE.                                *)
Cascade(a) == IF Exists(a)' THEN grants[a] ELSE {}

Granted(a) ==
    IF ~Exists(a) /\ Exists(a)' THEN Mailboxes
    ELSE IF Exists(a) THEN Cascade(a)
    ELSE grants[a]

(* A step of AgentAccounts takes the grants along.                          *)
ChangeAgents ==
    /\ Next
    /\ grants' = [a \in Agents |-> Granted(a)]
    /\ UNCHANGED put

-----------------------------------------------------------------------------
(* handlePutAgentMailboxes: an active admin asks, the agent is there, and   *)
(* its rows are deleted, which is all that no ids ask for, ...              *)
BeginPut(p, a, ids) ==
    /\ put[p].agent = Nobody
    /\ ActiveAdmins # {} /\ Exists(a)
    /\ put' = [put EXCEPT ![p] = [agent |-> a, ids |-> ids, removed |-> grants[a]]]
    /\ UNCHANGED <<vars, grants>>

(* Mutant of AgentThere: the agent was looked up before.                    *)
AgentThereBefore(a) == TRUE

(* The foreign key of agent_mailbox_access.agent_id.                        *)
AgentThere(a) == Exists(a)

(* ... and those asked for are inserted.  Rows that this PUT deleted are    *)
(* nothing to delete for another, and those it inserts are not seen there.  *)
InsertGrants(p) ==
    LET a == put[p].agent
        kept == grants[a] \ put[p].removed
        Committed(q) == IF q = p THEN NoPut
                        ELSE IF put[q].agent # a THEN put[q]
                        ELSE [put[q] EXCEPT !.removed = @ \ put[p].removed]
    IN  /\ a # Nobody
        /\ put[p].ids # {} => AgentThere(a) /\ kept \cap put[p].ids = {}
        /\ grants' = [grants EXCEPT ![a] = kept \cup put[p].ids]
        /\ put' = [q \in Puts |-> Committed(q)]
        /\ UNCHANGED vars

(* A row that is there already, an agent that is not, an id that names no   *)
(* mailbox or a lost connection: rolled back.                               *)
AbortPut(p) ==
    /\ put[p].agent # Nobody
    /\ put' = [put EXCEPT ![p] = NoPut]
    /\ UNCHANGED <<vars, grants>>

GrantsNext ==
    \/ ChangeAgents
    \/ \E p \in Puts :
          \/ \E a \in Agents, ids \in SUBSET Mailboxes : BeginPut(p, a, ids)
          \/ InsertGrants(p) \/ AbortPut(p)

GrantsSpec == GrantsInit /\ [][GrantsNext]_allVars

-----------------------------------------------------------------------------
(* A grant is an existing agent's, even if the agent was deleted after a    *)
(* PUT had looked it up and removed its rows.                               *)
GrantsOfExisting ==
    /\ GrantsTypeOK
    /\ \A a \in Agents : grants[a] # {} => Exists(a)

(* PUT replaces the grants with exactly the ids asked for.  It does not     *)
(* hold: two PUTs that overlap leave the union of both.                     *)
PutReplaces == [][\A p \in Puts, a \in Agents :
    InsertGrants(p) /\ put[p].agent = a /\ grants'[a] # grants[a] =>
        grants'[a] = put[p].ids]_allVars
=============================================================================
