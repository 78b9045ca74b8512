------------------------------ MODULE Passkeys ------------------------------
(***************************************************************************)
(* Passkeys: the endpoints of src/api/webauthn.ts and the login provider,  *)
(* the ceremony they share (src/auth/webauthn-ceremony.ts) and the tables  *)
(* of src/store/webauthn.ts.                                               *)
(*                                                                         *)
(* A nonce stands for a signed token and for its row, written together: a  *)
(* challenge of one of the three ceremonies, or a step-up token.  What an  *)
(* authenticator signed may reach the server late, twice or in another     *)
(* order.  A ceremony awaits between consuming its nonce, looking its      *)
(* passkey up without a lock, and the transaction that compares counters   *)
(* under FOR UPDATE; meanwhile agents are disabled and deleted.            *)
(***************************************************************************)
EXTENDS Naturals, FiniteSets

CONSTANTS
    Agents,
    Keys,          \* the passkeys that authenticators can ever hold
    Counting,      \* those of Keys whose authenticator counts its signatures
    Held,          \* [Keys -> an agent, or Nobody]: who has registered it before
    Nobody,
    Calls,         \* concurrent requests
    NonceBound,    \* model bound: challenges and step-up tokens ever minted
    SignatureBound \* model bound: signatures that authenticators make

ASSUME PasskeysAssumption ==
    /\ Counting \subseteq Keys
    /\ Nobody \notin Agents /\ Held \in [Keys -> Agents \cup {Nobody}]
    /\ NonceBound \in Nat /\ SignatureBound \in Nat

Nonces == 1..NonceBound

VARIABLES
    status,    \* agents.status
    passkey,   \* webauthn_credentials: whose, sign_count, was a regression seen?
    nonce,     \* webauthn_challenges and webauthn_stepup_tokens
    device,    \* authenticators: how often each has signed
    signed,    \* authenticators: the assertions they made
    call,      \* call[c]: the local state of request c
    proofs,    \* history: how often each agent has stepped up
    added      \* history: how many passkeys each agent has added

table == <<status, passkey, nonce>>
authenticators == <<device, signed>>
history == <<proofs, added>>
vars == <<table, authenticators, call, history>>

(* What a request consumes: the first four are its challenges or tokens.    *)
Uses == [login |-> "authentication", stepUp |-> "step-up",
         options |-> "token", register |-> "registration"]

Purposes == {Uses[k] : k \in DOMAIN Uses}

Unminted == [for |-> "none", agent |-> Nobody, spent |-> FALSE]

(* A row that is never found again: expired, deleted, or a challenge that   *)
(* was consumed.  The token of a consumed step-up row is looked at again.   *)
Gone == [for |-> "gone", agent |-> Nobody, spent |-> TRUE]
NoRow == [owner |-> Nobody, count |-> 0, flagged |-> FALSE]
Idle == [kind |-> "login", stage |-> "idle", agent |-> Nobody, nonce |-> 0, key |-> Nobody,
         counter |-> 0]

Registered(k) == passkey[k].owner # Nobody
Exists(a) == status[a] # "deleted"
InTransaction == {"locked", "admitted"}

(* The types of the state; a passkey belongs to an agent that exists.       *)
TypeOK ==
    /\ status \in [Agents -> {"active", "disabled", "deleted"}]
    /\ passkey \in [Keys -> [owner : Agents \cup {Nobody}, count : Nat, flagged : BOOLEAN]]
    /\ nonce \in [Nonces -> [for : Purposes \cup {"none", "gone"},
                             agent : Agents \cup {Nobody}, spent : BOOLEAN]]
    /\ device \in [Keys -> Nat]
    /\ signed \subseteq [nonce : Nonces, key : Keys, counter : Nat]
    /\ call \in [Calls -> [kind : DOMAIN Uses, agent : Agents \cup {Nobody},
                           stage : {"idle", "begun", "consumed", "verified", "proven"} \cup InTransaction,
                           nonce : Nonces \cup {0}, key : Keys \cup {Nobody}, counter : Nat]]
    /\ proofs \in [Agents -> Nat] /\ added \in [Agents -> Nat]
    /\ \A k \in Keys : Registered(k) => Exists(passkey[k].owner)

Init ==
    /\ status = [a \in Agents |-> "active"]
    /\ passkey = [k \in Keys |-> [NoRow EXCEPT !.owner = Held[k]]]
    /\ nonce = [n \in Nonces |-> Unminted]
    /\ device = [k \in Keys |-> 0] /\ signed = {}
    /\ call = [c \in Calls |-> Idle]
    /\ proofs = [a \in Agents |-> 0] /\ added = [a \in Agents |-> 0]

-----------------------------------------------------------------------------
(* Nonces.                                                                  *)

(* Mutant of SpentNow: consumed_at is not asked for, so a row serves until  *)
(* it expires.                                                              *)
SpentNowAnyway(n) == nonce[n].for \in Purposes

(* consumeChallenge and consumeStepUpToken update the row if it is neither  *)
(* consumed nor expired.                                                    *)
SpentNow(n) == nonce[n].for \in Purposes /\ ~nonce[n].spent

Mint(purpose, a) ==
    \E n \in Nonces :
        /\ nonce[n] = Unminted /\ \A m \in Nonces : m < n => nonce[m] # Unminted
        /\ nonce' = [nonce EXCEPT ![n] = [for |-> purpose, agent |-> a, spent |-> FALSE]]

(* expires_at passes; the next mint deletes the row.                        *)
Expire(n) ==
    /\ nonce[n].for \in Purposes
    /\ nonce' = [nonce EXCEPT ![n] = Gone]
    /\ UNCHANGED <<status, passkey, authenticators, call, history>>

(* Mutant of MintedFor: the challenge's agent is compared nowhere.          *)
MintedForAnyone(n, kind, a) == nonce[n].for = Uses[kind]

(* Its token and its row name the ceremony and the acting agent; a login    *)
(* has no agent yet.                                                        *)
MintedFor(n, kind, a) == nonce[n].for = Uses[kind] /\ nonce[n].agent = a

-----------------------------------------------------------------------------
(* Authenticators and agents.                                               *)

(* The authenticator of a passkey signs a challenge that is still fresh.    *)
Sign(k, n) ==
    /\ Registered(k)
    /\ nonce[n].for \in {"authentication", "step-up"}
    /\ Cardinality(signed) < SignatureBound
    /\ device' = [device EXCEPT ![k] = IF k \in Counting THEN @ + 1 ELSE @]
    /\ signed' = signed \cup {[nonce |-> n, key |-> k, counter |-> device'[k]]}
    /\ UNCHANGED <<table, call, history>>

(* Nobody holds the row FOR UPDATE.                                         *)
KeyFree(k) == \A c \in Calls : call[c].key = k => call[c].stage \notin InTransaction

SetStatus(a, s) ==
    /\ Exists(a) /\ status[a] # s
    /\ status' = [status EXCEPT ![a] = s]
    /\ UNCHANGED <<passkey, nonce, authenticators, call, history>>

(* The rows of a deleted agent go with it, once nobody holds them.          *)
DeleteAgent(a) ==
    /\ Exists(a)
    /\ \A k \in Keys : passkey[k].owner = a => KeyFree(k)
    /\ status' = [status EXCEPT ![a] = "deleted"]
    /\ passkey' = [k \in Keys |-> IF passkey[k].owner = a THEN NoRow ELSE passkey[k]]
    /\ nonce' = [n \in Nonces |-> IF nonce[n].agent = a THEN Gone ELSE nonce[n]]
    /\ UNCHANGED <<authenticators, call, history>>

(* deleteCredential holds every row of the agent.  Every agent who could    *)
(* sign in has a password (AgentAccounts, PasswordWhenJoined), so that the  *)
(* guard of the last passkey never refuses.                                 *)
DeleteCredential(a, k) ==
    /\ passkey[k].owner = a
    /\ \A l \in Keys : passkey[l].owner = a => KeyFree(l)
    /\ passkey' = [passkey EXCEPT ![k] = NoRow]
    /\ UNCHANGED <<status, nonce, authenticators, call, history>>

-----------------------------------------------------------------------------
(* Endpoints that end with their first write.                               *)

AuthenticationOptions ==
    /\ Mint("authentication", Nobody)
    /\ UNCHANGED <<status, passkey, authenticators, call, history>>

StepUpOptions(a) ==
    /\ status[a] = "active" /\ Mint("step-up", a)
    /\ UNCHANGED <<status, passkey, authenticators, call, history>>

StepUpPassword(a) ==
    /\ status[a] = "active" /\ Mint("token", a)
    /\ proofs' = [proofs EXCEPT ![a] = @ + 1]
    /\ UNCHANGED <<status, passkey, authenticators, call, added>>

-----------------------------------------------------------------------------
(* Ceremonies.  Where one is refused, the request returns.                  *)

Goto(c, stage) == call' = [call EXCEPT ![c].stage = stage]
Return(c) == call' = [call EXCEPT ![c] = Idle]
Owner(c) == passkey[call[c].key].owner

Begin(c, kind, a, n, k, counter) ==
    /\ call[c].stage = "idle"
    /\ a \in Agents => status[a] = "active"
    /\ MintedFor(n, kind, a)
    /\ call' = [call EXCEPT ![c] = [kind |-> kind, stage |-> "begun", agent |-> a,
                                    nonce |-> n, key |-> k, counter |-> counter]]
    /\ UNCHANGED <<table, authenticators, history>>

BeginLogin(c) ==
    \E s \in signed : Begin(c, "login", Nobody, s.nonce, s.key, s.counter)

BeginStepUp(c, a) ==
    \E s \in signed : Begin(c, "stepUp", a, s.nonce, s.key, s.counter)

BeginRegistrationOptions(c, a) ==
    \E n \in Nonces : Begin(c, "options", a, n, Nobody, 0)

(* The step-up token is looked at again, by its signature and age alone;    *)
(* any authenticator may have answered the challenge.                       *)
BeginRegister(c, a) ==
    /\ \E t \in Nonces : nonce[t].for = "token" /\ nonce[t].agent = a
    /\ \E n \in Nonces, k \in Keys : Begin(c, "register", a, n, k, device[k])

Consume(c) ==
    LET n == call[c].nonce IN
    /\ call[c].stage = "begun"
    /\ IF SpentNow(n)
       THEN /\ nonce' = [nonce EXCEPT ![n] = IF @.for = "token" THEN [@ EXCEPT !.spent = TRUE]
                                              ELSE Gone]
            /\ Goto(c, "consumed")
       ELSE Return(c) /\ UNCHANGED nonce
    /\ UNCHANGED <<status, passkey, authenticators, history>>

MintRegistration(c) ==
    /\ call[c].kind = "options" /\ call[c].stage = "consumed"
    /\ Exists(call[c].agent) /\ Mint("registration", call[c].agent)
    /\ Return(c)
    /\ UNCHANGED <<status, passkey, authenticators, history>>

(* insertCredential: refused for a deleted agent by the foreign key, for a  *)
(* known passkey by the unique index.                                       *)
InsertCredential(c) ==
    LET k == call[c].key
        a == call[c].agent IN
    /\ call[c].kind = "register" /\ call[c].stage = "consumed"
    /\ IF Exists(a) /\ ~Registered(k)
       THEN /\ passkey' = [passkey EXCEPT ![k] = [NoRow EXCEPT !.owner = a, !.count = call[c].counter]]
            /\ added' = [added EXCEPT ![a] = @ + 1]
       ELSE UNCHANGED <<passkey, added>>
    /\ Return(c)
    /\ UNCHANGED <<status, nonce, authenticators, proofs>>

(* The unlocked lookup, and the signature, which holds; that a user handle  *)
(* in the answer names the owner is not asked for, so more is let through.  *)
Verify(c) ==
    /\ call[c].kind \in {"login", "stepUp"} /\ call[c].stage = "consumed"
    /\ IF Registered(call[c].key) /\ (call[c].kind = "stepUp" => Owner(c) = call[c].agent)
       THEN Goto(c, "verified") ELSE Return(c)
    /\ UNCHANGED <<table, authenticators, history>>

(* Mutant of Regressed: equal counters pass.                                *)
RegressedStrictly(c) ==
    LET stored == passkey[call[c].key].count IN stored > 0 /\ call[c].counter < stored

Regressed(c) ==
    LET stored == passkey[call[c].key].count IN stored > 0 /\ call[c].counter <= stored

(* The transaction: the row is read again FOR UPDATE, and a regression is   *)
(* marked and committed, ...                                                *)
LockKey(c) ==
    LET k == call[c].key IN
    /\ call[c].stage = "verified" /\ KeyFree(k)
    /\ IF Registered(k) /\ ~Regressed(c) THEN Goto(c, "locked") ELSE Return(c)
    /\ passkey' = IF Registered(k) /\ Regressed(c) THEN [passkey EXCEPT ![k].flagged = TRUE]
                  ELSE passkey
    /\ UNCHANGED <<status, nonce, authenticators, history>>

(* ... the agent must be active, ...                                        *)
ReadStatus(c) ==
    /\ call[c].stage = "locked"
    /\ IF Registered(call[c].key) /\ status[Owner(c)] = "active" THEN Goto(c, "admitted") ELSE Return(c)
    /\ UNCHANGED <<table, authenticators, history>>

(* ... the counter is stored, and a login is done.                          *)
Admit(c) ==
    LET k == call[c].key IN
    /\ call[c].stage = "admitted"
    /\ passkey' = IF Registered(k) THEN [passkey EXCEPT ![k].count = call[c].counter] ELSE passkey
    /\ IF call[c].kind = "login" THEN Return(c) ELSE Goto(c, "proven")
    /\ UNCHANGED <<status, nonce, authenticators, history>>

(* A step-up ends with its token.                                           *)
MintToken(c) ==
    LET a == call[c].agent IN
    /\ call[c].stage = "proven" /\ Exists(a)
    /\ Mint("token", a)
    /\ proofs' = [proofs EXCEPT ![a] = @ + 1]
    /\ Return(c)
    /\ UNCHANGED <<status, passkey, authenticators, added>>

(* The request dies, its transaction with it.                               *)
Abort(c) ==
    /\ call[c].stage # "idle" /\ Return(c)
    /\ UNCHANGED <<table, authenticators, history>>

Next ==
    \/ \E k \in Keys, n \in Nonces : Sign(k, n)
    \/ \E n \in Nonces : Expire(n)
    \/ AuthenticationOptions
    \/ \E a \in Agents :
          \/ \E s \in {"active", "disabled"} : SetStatus(a, s)
          \/ DeleteAgent(a) \/ \E k \in Keys : DeleteCredential(a, k)
          \/ StepUpOptions(a) \/ StepUpPassword(a)
          \/ \E c \in Calls : \/ BeginStepUp(c, a) \/ BeginRegistrationOptions(c, a)
                              \/ BeginRegister(c, a)
    \/ \E c \in Calls :
          \/ BeginLogin(c) \/ Consume(c) \/ MintRegistration(c) \/ InsertCredential(c)
          \/ Verify(c) \/ LockKey(c) \/ ReadStatus(c) \/ Admit(c) \/ MintToken(c) \/ Abort(c)

Spec == Init /\ [][Next]_vars

-----------------------------------------------------------------------------
(* An agent adds no more passkeys than it has stepped up: the step-up token *)
(* and the challenge it buys are each good once, whoever presents them,     *)
(* twice or at the same time, and a step-up of one agent adds no passkey    *)
(* for another.                                                             *)
ProvenByStepUp ==
    /\ TypeOK
    /\ \A a \in Agents : added[a] <= proofs[a]

(* Whoever is admitted has an account and this passkey at the moment the    *)
(* admission commits, even if they are deleted while it is being decided;   *)
(* and the counters of a counting authenticator are accepted in rising      *)
(* order, each once: a signature made twice, or overtaken by a later one,   *)
(* is refused when it commits.                                              *)
AdmittedRightly == [][\A c \in Calls : Admit(c) =>
    LET stored == passkey[call[c].key].count IN
    /\ Registered(call[c].key) /\ Exists(Owner(c))
    /\ stored > 0 => call[c].counter > stored]_vars

(* A challenge or token of an agent is used up by that agent's own requests *)
(* alone: nobody else's request spends it first.                            *)
SpentByOwner == [][\A c \in Calls : LET n == nonce[call[c].nonce] IN
    Consume(c) /\ SpentNow(call[c].nonce) => n.agent = call[c].agent]_vars

-----------------------------------------------------------------------------
(* What the documents say and the code does not keep (README, Divergences). *)

(* What src/specs/auth/passkeys.md says of a mark: no copy of an            *)
(* authenticator exists here, and one is marked all the same when two of    *)
(* its signatures overtake each other.                                      *)
MarkMeansCopy == \A k \in Keys : ~passkey[k].flagged
=============================================================================
