--------------------- MODULE PasskeysAndInstalls_proofs ---------------------
(***************************************************************************)
(* Proofs about Passkeys, for any agents, passkeys, requests and nonces,   *)
(* and about ModuleInstall, for any calls, jobs, faults and limits.        *)
(*                                                                         *)
(* ProvenByStepUp counts: a step-up is spent in four stations, the token   *)
(* it minted, the request that consumed it, the registration challenge     *)
(* that this bought, and the request that consumed that.  What an agent    *)
(* has in all of them, and the passkeys it added, are never more than its  *)
(* step-ups (Afforded).  AdmittedRightly rests on the row lock: what a     *)
(* request saw of the row it holds is still so (Locks).                    *)
(*                                                                         *)
(* GreenMeansLive has to survive calls that have lost their leases: what   *)
(* holds of a call at its stage (Reached) is therefore only what no other  *)
(* can take back.  CredentialsWhileNeeded is the compare-and-swap for the  *)
(* escrow (Escrowed), and for the Assistant the lease (Unlapsed).          *)
(***************************************************************************)
EXTENDS Passkeys, ModuleInstall, FiniteSetTheorems, TLAPS

-----------------------------------------------------------------------------
(* The types of the passkeys.                                               *)
PasskeyRow == [owner : Agents \cup {Nobody}, count : Nat, flagged : BOOLEAN]
NonceRow == [for : Purposes \cup {"none", "gone"}, agent : Agents \cup {Nobody}, spent : BOOLEAN]
Assertion == [nonce : Nonces, key : Keys, counter : Nat]
CallStages == {"idle", "begun", "consumed", "verified", "proven", "locked", "admitted"}
CallState == [kind : DOMAIN Uses, agent : Agents \cup {Nobody}, stage : CallStages,
              nonce : Nonces \cup {0}, key : Keys \cup {Nobody}, counter : Nat]

Tables == /\ status \in [Agents -> {"active", "disabled", "deleted"}]
          /\ passkey \in [Keys -> PasskeyRow]
          /\ nonce \in [Nonces -> NonceRow]
Devices == device \in [Keys -> Nat] /\ signed \subseteq Assertion
Counts == proofs \in [Agents -> Nat] /\ added \in [Agents -> Nat]
Owned == \A k \in Keys : Registered(k) => Exists(passkey[k].owner)

LEMMA TypeParts ==
  TypeOK <=> Tables /\ Devices /\ Counts /\ call \in [Calls -> CallState] /\ Owned
BY DEF TypeOK, Tables, Devices, Counts, Owned, PasskeyRow, NonceRow, Assertion, CallState,
       CallStages, InTransaction

LEMMA TypePartsPrimed ==
  Tables' /\ Devices' /\ Counts' /\ call' \in [Calls -> CallState] /\ Owned' => TypeOK'
BY DEF TypeOK, Tables, Devices, Counts, Owned, PasskeyRow, NonceRow, Assertion, CallState,
       CallStages, InTransaction

LEMMA UsesAre ==
  /\ DOMAIN Uses = {"login", "stepUp", "options", "register"}
  /\ Purposes = {"authentication", "step-up", "token", "registration"}
  /\ Uses["login"] = "authentication" /\ Uses["stepUp"] = "step-up"
  /\ Uses["options"] = "token" /\ Uses["register"] = "registration"
<1>1. /\ DOMAIN Uses = {"login", "stepUp", "options", "register"}
      /\ Uses["login"] = "authentication" /\ Uses["stepUp"] = "step-up"
      /\ Uses["options"] = "token" /\ Uses["register"] = "registration"
  BY DEF Uses
<1>2. Purposes = {"authentication", "step-up", "token", "registration"}
  BY <1>1 DEF Purposes
<1> QED BY <1>1, <1>2

LEMMA Rows == NoRow \in PasskeyRow /\ Unminted \in NonceRow /\ Gone \in NonceRow /\ Idle \in CallState
BY UsesAre DEF NoRow, PasskeyRow, Unminted, Gone, NonceRow, Idle, CallState, CallStages

LEMMA NonceType ==
  \A p \in Purposes \cup {"none", "gone"} : \A b \in Agents \cup {Nobody} : \A s \in BOOLEAN :
     [for |-> p, agent |-> b, spent |-> s] \in NonceRow
BY DEF NonceRow

LEMMA PasskeyType ==
  \A b \in Agents \cup {Nobody} : \A m \in Nat : \A f \in BOOLEAN :
     [owner |-> b, count |-> m, flagged |-> f] \in PasskeyRow
BY DEF PasskeyRow

-----------------------------------------------------------------------------
(* What the steps of a request do to its local state, ...                   *)
LEMMA GotoEffect ==
  ASSUME call \in [Calls -> CallState], NEW c \in Calls, NEW s \in CallStages, Goto(c, s)
  PROVE  /\ call' \in [Calls -> CallState]
         /\ \A d \in Calls \ {c} : call'[d] = call[d]
         /\ call'[c].stage = s /\ call'[c].kind = call[c].kind /\ call'[c].agent = call[c].agent
         /\ call'[c].nonce = call[c].nonce /\ call'[c].key = call[c].key
         /\ call'[c].counter = call[c].counter
<1>1. call[c] \in CallState
  OBVIOUS
<1>2. PICK moved \in {[call[c] EXCEPT !.stage = s]} : TRUE
  OBVIOUS
<1>3. /\ moved \in CallState /\ moved.stage = s /\ moved.kind = call[c].kind
      /\ moved.agent = call[c].agent /\ moved.nonce = call[c].nonce /\ moved.key = call[c].key
      /\ moved.counter = call[c].counter
  BY <1>1, <1>2 DEF CallState
<1>4. call' = [call EXCEPT ![c] = moved]
  BY <1>2 DEF Goto
<1> QED BY <1>3, <1>4

LEMMA ReturnEffect ==
  ASSUME call \in [Calls -> CallState], NEW c \in Calls, Return(c)
  PROVE  /\ call' \in [Calls -> CallState]
         /\ \A d \in Calls \ {c} : call'[d] = call[d]
         /\ call'[c].stage = "idle"
<1>1. call' = [call EXCEPT ![c] = Idle]
  BY DEF Return
<1>2. Idle.stage = "idle"
  BY DEF Idle
<1> QED BY <1>1, <1>2, Rows

LEMMA BeginEffect ==
  ASSUME call \in [Calls -> CallState], NEW c \in Calls, NEW kind \in DOMAIN Uses,
         NEW a \in Agents \cup {Nobody}, NEW n \in Nonces, NEW k \in Keys \cup {Nobody},
         NEW counter \in Nat, Begin(c, kind, a, n, k, counter)
  PROVE  /\ call' \in [Calls -> CallState]
         /\ \A d \in Calls \ {c} : call'[d] = call[d]
         /\ call'[c].stage = "begun" /\ call'[c].kind = kind /\ call'[c].agent = a
         /\ call'[c].nonce = n /\ call'[c].key = k /\ call'[c].counter = counter
<1>1. PICK begun \in {[kind |-> kind, stage |-> "begun", agent |-> a,
                       nonce |-> n, key |-> k, counter |-> counter]} : TRUE
  OBVIOUS
<1>2. /\ begun \in CallState /\ begun.stage = "begun" /\ begun.kind = kind /\ begun.agent = a
      /\ begun.nonce = n /\ begun.key = k /\ begun.counter = counter
  BY <1>1 DEF CallState, CallStages
<1>3. call' = [call EXCEPT ![c] = begun]
  BY <1>1 DEF Begin
<1> QED BY <1>2, <1>3

(* ... and what a mint does to the nonces.                                  *)
LEMMA MintEffect ==
  ASSUME nonce \in [Nonces -> NonceRow], NEW purpose \in Purposes, NEW a \in Agents \cup {Nobody},
         Mint(purpose, a)
  PROVE  /\ nonce' \in [Nonces -> NonceRow]
         /\ \E n \in Nonces : /\ nonce[n].for = "none"
                              /\ nonce'[n].for = purpose /\ nonce'[n].agent = a /\ ~nonce'[n].spent
                              /\ \A m \in Nonces \ {n} : nonce'[m] = nonce[m]
<1>1. PICK n \in Nonces :
         /\ nonce[n] = Unminted
         /\ nonce' = [nonce EXCEPT ![n] = [for |-> purpose, agent |-> a, spent |-> FALSE]]
  BY DEF Mint
<1>2. PICK minted \in {[for |-> purpose, agent |-> a, spent |-> FALSE]} : TRUE
  OBVIOUS
<1>3. minted.for = purpose /\ minted.agent = a /\ ~minted.spent
  BY <1>2
<1>4. minted \in NonceRow
  <2>1. [for |-> purpose, agent |-> a, spent |-> FALSE] \in NonceRow
    BY NonceType, Zenon
  <2> QED BY <1>2, <2>1
<1>5. nonce' = [nonce EXCEPT ![n] = minted]
  BY <1>1, <1>2
<1>6. nonce[n].for = "none"
  BY <1>1 DEF Unminted
<1> QED BY <1>3, <1>4, <1>5, <1>6

(* What a consumed nonce becomes: gone, or a spent token.                   *)
LEMMA ConsumeEffect ==
  ASSUME TypeOK, NEW c \in Calls, Consume(c)
  PROVE  /\ call' \in [Calls -> CallState] /\ nonce' \in [Nonces -> NonceRow]
         /\ \A d \in Calls \ {c} : call'[d] = call[d]
         /\ \/ call'[c].stage = "idle" /\ nonce' = nonce
            \/ /\ SpentNow(call[c].nonce)
               /\ call'[c].stage = "consumed" /\ call'[c].kind = call[c].kind
               /\ call'[c].agent = call[c].agent /\ call'[c].nonce = call[c].nonce
               /\ call'[c].key = call[c].key
               /\ \A m \in Nonces \ {call[c].nonce} : nonce'[m] = nonce[m]
               /\ call[c].nonce \in Nonces =>
                     LET was == nonce[call[c].nonce] is == nonce'[call[c].nonce] IN
                     /\ is.spent
                     /\ is.for = "gone" \/ (is.for = was.for /\ is.agent = was.agent)
<1> DEFINE n == call[c].nonce
<1>0. /\ call \in [Calls -> CallState] /\ nonce \in [Nonces -> NonceRow] /\ "consumed" \in CallStages
      /\ call[c] \in CallState
  BY TypeParts DEF Tables, CallStages
<1>1. CASE SpentNow(n)
  <2>1. Goto(c, "consumed")
    BY <1>1 DEF Consume
  <2>2. PICK entry \in {IF nonce[n].for = "token" THEN [nonce[n] EXCEPT !.spent = TRUE] ELSE Gone} :
           nonce' = [nonce EXCEPT ![n] = entry]
    BY <1>1 DEF Consume
  <2>3. ASSUME n \in Nonces
        PROVE  /\ entry \in NonceRow /\ entry.spent
               /\ entry.for = "gone" \/ (entry.for = nonce[n].for /\ entry.agent = nonce[n].agent)
    <3>1. CASE nonce[n].for = "token"
      <4>1. nonce[n] \in NonceRow
        BY <1>0, <2>3
      <4>2. [nonce[n] EXCEPT !.spent = TRUE] \in NonceRow
        BY <4>1 DEF NonceRow
      <4>3. entry = [nonce[n] EXCEPT !.spent = TRUE]
        BY <2>2, <3>1
      <4>4. entry.spent /\ entry.for = nonce[n].for /\ entry.agent = nonce[n].agent
        BY <4>1, <4>3 DEF NonceRow
      <4> QED BY <4>2, <4>3, <4>4, Zenon
    <3>2. CASE nonce[n].for # "token"
      <4>1. entry = Gone
        BY <2>2, <3>2
      <4>2. Gone.for = "gone" /\ Gone.spent
        BY DEF Gone
      <4> QED BY <4>1, <4>2, Rows, Zenon
    <3> QED BY <3>1, <3>2
  <2>4. nonce' \in [Nonces -> NonceRow] /\ \A m \in Nonces \ {n} : nonce'[m] = nonce[m]
    BY <1>0, <2>2, <2>3
  <2>5. n \in Nonces => nonce'[n] = entry
    BY <1>0, <2>2
  <2>6. /\ call' \in [Calls -> CallState] /\ \A d \in Calls \ {c} : call'[d] = call[d]
        /\ call'[c].stage = "consumed" /\ call'[c].kind = call[c].kind /\ call'[c].agent = call[c].agent
        /\ call'[c].nonce = call[c].nonce /\ call'[c].key = call[c].key
    BY <1>0, <2>1, GotoEffect
  <2> QED BY <1>1, <2>3, <2>4, <2>5, <2>6, Zenon
<1>2. CASE ~SpentNow(n)
  <2>1. Return(c) /\ nonce' = nonce
    BY <1>2 DEF Consume
  <2> QED BY <1>0, <2>1, ReturnEffect
<1> QED BY <1>1, <1>2

-----------------------------------------------------------------------------
(* What the transaction of an admission and the insertion of a passkey may  *)
(* write to a row.                                                          *)
LEMMA InsertEffect ==
  ASSUME TypeOK, NEW c \in Calls, InsertCredential(c), passkey' # passkey
  PROVE  /\ Exists(call[c].agent) /\ ~Registered(call[c].key)
         /\ passkey' \in [Keys -> PasskeyRow]
         /\ \A k \in Keys \ {call[c].key} : passkey'[k] = passkey[k]
         /\ call[c].key \in Keys => passkey'[call[c].key].owner = call[c].agent
         /\ added' = [added EXCEPT ![call[c].agent] = @ + 1]
<1> DEFINE k == call[c].key  a == call[c].agent
<1>0. passkey \in [Keys -> PasskeyRow] /\ a \in Agents \cup {Nobody} /\ call[c].counter \in Nat
  BY TypeParts DEF Tables, CallState
<1>1. PICK entry \in {[NoRow EXCEPT !.owner = a, !.count = call[c].counter]} :
         passkey' = [passkey EXCEPT ![k] = entry]
  BY DEF InsertCredential
<1>2. entry = [owner |-> a, count |-> call[c].counter, flagged |-> FALSE]
  BY <1>1 DEF NoRow
<1>3. entry \in PasskeyRow
  BY <1>0, <1>2, PasskeyType, Zenon
<1>4. entry.owner = a
  BY <1>2
<1> QED BY <1>0, <1>1, <1>3, <1>4 DEF InsertCredential

LEMMA FlagEffect ==
  ASSUME TypeOK, NEW c \in Calls, LockKey(c)
  PROVE  /\ passkey' \in [Keys -> PasskeyRow]
         /\ \A k \in Keys : \/ passkey'[k] = passkey[k]
                            \/ /\ k = call[c].key /\ Registered(k) /\ Regressed(c)
                               /\ passkey'[k].owner = passkey[k].owner
<1> DEFINE k == call[c].key
<1>0. passkey \in [Keys -> PasskeyRow]
  BY TypeParts DEF Tables
<1>1. CASE Registered(k) /\ Regressed(c)
  <2>1. PICK entry \in {[passkey[k] EXCEPT !.flagged = TRUE]} : passkey' = [passkey EXCEPT ![k] = entry]
    BY <1>1 DEF LockKey
  <2>2. ASSUME k \in Keys PROVE entry \in PasskeyRow /\ entry.owner = passkey[k].owner
    <3>1. passkey[k] \in PasskeyRow
      BY <1>0, <2>2
    <3> QED BY <2>1, <3>1 DEF PasskeyRow
  <2> QED BY <1>0, <1>1, <2>1, <2>2
<1>2. CASE ~(Registered(k) /\ Regressed(c))
  BY <1>0, <1>2 DEF LockKey
<1> QED BY <1>1, <1>2

LEMMA AdmitEffect ==
  ASSUME TypeOK, NEW c \in Calls, Admit(c)
  PROVE  /\ passkey' \in [Keys -> PasskeyRow]
         /\ \A k \in Keys : /\ passkey'[k].owner = passkey[k].owner
                            /\ k # call[c].key => passkey'[k] = passkey[k]
<1> DEFINE k == call[c].key
<1>0. passkey \in [Keys -> PasskeyRow] /\ call[c].counter \in Nat
  BY TypeParts DEF Tables, CallState
<1>1. CASE Registered(k)
  <2>1. PICK entry \in {[passkey[k] EXCEPT !.count = call[c].counter]} :
           passkey' = [passkey EXCEPT ![k] = entry]
    BY <1>1 DEF Admit
  <2>2. ASSUME k \in Keys PROVE entry \in PasskeyRow /\ entry.owner = passkey[k].owner
    <3>1. passkey[k] \in PasskeyRow
      BY <1>0, <2>2
    <3> QED BY <1>0, <2>1, <3>1 DEF PasskeyRow
  <2> QED BY <1>0, <1>1, <2>1, <2>2
<1>2. CASE ~Registered(k)
  BY <1>0, <1>2 DEF Admit
<1> QED BY <1>1, <1>2

(* A passkey's owner stays an agent that exists when rows keep their owners *)
(* or lose them, and no agent goes whose passkeys stay.                     *)
LEMMA OwnersStay ==
  ASSUME Owned,
         \A k \in Keys : \/ passkey'[k].owner = passkey[k].owner
                         \/ passkey'[k].owner = Nobody,
         \A a \in Agents \cup {Nobody} : Exists(a) =>
            \/ Exists(a)'
            \/ \A k \in Keys : passkey'[k].owner # a,
         \A k \in Keys : passkey[k].owner \in Agents \cup {Nobody}
  PROVE  Owned'
BY DEF Owned, Registered

LEMMA BeginType ==
  ASSUME TypeOK, NEW c \in Calls, NEW a \in Agents \cup {Nobody},
         \/ BeginLogin(c)
         \/ a \in Agents /\ (BeginStepUp(c, a) \/ BeginRegistrationOptions(c, a) \/ BeginRegister(c, a))
  PROVE  /\ UNCHANGED <<table, authenticators, history>>
         /\ call' \in [Calls -> CallState]
         /\ \A d \in Calls \ {c} : call'[d] = call[d]
         /\ call'[c].stage = "begun" /\ call'[c].nonce \in Nonces
         /\ MintedFor(call'[c].nonce, call'[c].kind, call'[c].agent)
         /\ call'[c].kind # "options" => call'[c].key \in Keys
         /\ call'[c].kind # "login" => call'[c].agent \in Agents
<1>0. call \in [Calls -> CallState] /\ signed \subseteq Assertion /\ device \in [Keys -> Nat]
  BY TypeParts DEF Devices
<1>1. \E kind \in DOMAIN Uses : \E b \in Agents \cup {Nobody} : \E n \in Nonces :
         \E k \in Keys \cup {Nobody} : \E counter \in Nat :
            /\ Begin(c, kind, b, n, k, counter)
            /\ kind # "options" => k \in Keys
            /\ kind # "login" => b \in Agents
  <2>1. CASE BeginLogin(c)
    <3>1. PICK s \in signed : Begin(c, "login", Nobody, s.nonce, s.key, s.counter)
      BY <2>1 DEF BeginLogin
    <3>2. s.nonce \in Nonces /\ s.key \in Keys /\ s.counter \in Nat
      BY <1>0 DEF Assertion
    <3> QED BY <3>1, <3>2, UsesAre
  <2>2. CASE a \in Agents /\ BeginStepUp(c, a)
    <3>1. PICK s \in signed : Begin(c, "stepUp", a, s.nonce, s.key, s.counter)
      BY <2>2 DEF BeginStepUp
    <3>2. s.nonce \in Nonces /\ s.key \in Keys /\ s.counter \in Nat
      BY <1>0 DEF Assertion
    <3> QED BY <2>2, <3>1, <3>2, UsesAre
  <2>3. CASE a \in Agents /\ BeginRegistrationOptions(c, a)
    <3>1. PICK n \in Nonces : Begin(c, "options", a, n, Nobody, 0)
      BY <2>3 DEF BeginRegistrationOptions
    <3> QED BY <2>3, <3>1, UsesAre
  <2>4. CASE a \in Agents /\ BeginRegister(c, a)
    <3>1. PICK n \in Nonces, k \in Keys : Begin(c, "register", a, n, k, device[k])
      BY <2>4 DEF BeginRegister
    <3>2. device[k] \in Nat
      BY <1>0
    <3> QED BY <2>4, <3>1, <3>2, UsesAre
  <2> QED BY <2>1, <2>2, <2>3, <2>4
<1>2. PICK kind \in DOMAIN Uses, b \in Agents \cup {Nobody}, n \in Nonces,
           k \in Keys \cup {Nobody}, counter \in Nat :
         /\ Begin(c, kind, b, n, k, counter)
         /\ kind # "options" => k \in Keys
         /\ kind # "login" => b \in Agents
  BY <1>1, Zenon
<1>3. MintedFor(n, kind, b) /\ UNCHANGED <<table, authenticators, history>>
  BY <1>2 DEF Begin
<1> QED BY <1>0, <1>2, <1>3, BeginEffect

(* A deletion of an agent or of a passkey empties rows.                     *)
LEMMA DeleteEffect ==
  ASSUME TypeOK, NEW a \in Agents, DeleteAgent(a) \/ \E k \in Keys : DeleteCredential(a, k)
  PROVE  /\ passkey' \in [Keys -> PasskeyRow]
         /\ \A k \in Keys : \/ passkey'[k] = passkey[k]
                            \/ passkey'[k].owner = Nobody /\ passkey[k].owner = a
         /\ \A k \in Keys : passkey'[k] # passkey[k] => KeyFree(k)
         /\ UNCHANGED <<authenticators, call, history>>
<1>0. passkey \in [Keys -> PasskeyRow] /\ NoRow.owner = Nobody
  BY TypeParts DEF Tables, NoRow
<1>1. CASE DeleteAgent(a)
  BY <1>0, <1>1, Rows DEF DeleteAgent
<1>2. CASE \E k \in Keys : DeleteCredential(a, k)
  BY <1>0, <1>2, Rows DEF DeleteCredential
<1> QED BY <1>1, <1>2

(* The state keeps its types, and every passkey belongs to an agent that    *)
(* exists, whatever deletions and registrations cross.                      *)
THEOREM TypeCorrect == Spec => []TypeOK
<1>1. Init => TypeOK
  <2> SUFFICES ASSUME Init PROVE TypeOK
    OBVIOUS
  <2>2. \A k \in Keys : /\ [NoRow EXCEPT !.owner = Held[k]] \in PasskeyRow
                        /\ [NoRow EXCEPT !.owner = Held[k]].owner = Held[k]
    <3> SUFFICES ASSUME NEW k \in Keys
                 PROVE  /\ [NoRow EXCEPT !.owner = Held[k]] \in PasskeyRow
                        /\ [NoRow EXCEPT !.owner = Held[k]].owner = Held[k]
      OBVIOUS
    <3>1. Held[k] \in Agents \cup {Nobody} /\ 0 \in Nat /\ FALSE \in BOOLEAN
      BY PasskeysAssumption
    <3>2. [owner |-> Held[k], count |-> 0, flagged |-> FALSE] \in PasskeyRow
      BY <3>1, PasskeyType, Zenon
    <3>3. PICK entry \in {[NoRow EXCEPT !.owner = Held[k]]} : TRUE
      OBVIOUS
    <3>4. entry = [owner |-> Held[k], count |-> 0, flagged |-> FALSE]
      BY <3>3 DEF NoRow
    <3>5. entry.owner = Held[k]
      BY <3>4
    <3> QED BY <3>2, <3>3, <3>4, <3>5, Zenon
  <2>3. Tables
    BY <2>2, Rows DEF Init, Tables
  <2>4. Devices /\ Counts /\ call \in [Calls -> CallState]
    BY Rows DEF Init, Devices, Counts
  <2>5. Owned
    BY <2>2, PasskeysAssumption DEF Init, Owned, Registered, Exists
  <2> QED BY <2>3, <2>4, <2>5, TypeParts
<1>2. TypeOK /\ [Next]_vars => TypeOK'
  <2> SUFFICES ASSUME TypeOK, [Next]_vars PROVE TypeOK'
    OBVIOUS
  <2>0. /\ Tables /\ Devices /\ Counts /\ call \in [Calls -> CallState] /\ Owned
        /\ \A k \in Keys : passkey[k].owner \in Agents \cup {Nobody}
    BY TypeParts DEF Tables, PasskeyRow
  <2>a. /\ UNCHANGED table => Tables' /\ Owned'
        /\ UNCHANGED authenticators => Devices'
        /\ UNCHANGED history => Counts'
        /\ UNCHANGED <<status, passkey>> => Owned'
    BY <2>0 DEF table, authenticators, history, Tables, Devices, Counts, Owned, Registered, Exists
  <2>1. ASSUME NEW k \in Keys, NEW n \in Nonces, Sign(k, n) PROVE TypeOK'
    <3>1. device' \in [Keys -> Nat]
      BY <2>0, <2>1 DEF Sign, Devices
    <3>2. [nonce |-> n, key |-> k, counter |-> device'[k]] \in Assertion
      BY <3>1 DEF Assertion
    <3>3. Devices'
      BY <2>0, <2>1, <3>1, <3>2 DEF Sign, Devices
    <3> QED BY <2>0, <2>a, <2>1, <3>3, TypePartsPrimed DEF Sign
  <2>2. ASSUME NEW n \in Nonces, Expire(n) PROVE TypeOK'
    BY <2>0, <2>a, <2>2, Rows, TypePartsPrimed DEF Expire, Tables
  <2>3. ASSUME NEW a \in Agents \cup {Nobody}, NEW purpose \in Purposes, Mint(purpose, a),
               UNCHANGED <<status, passkey, authenticators>>, call' \in [Calls -> CallState], Counts'
        PROVE  TypeOK'
    <3>1. Tables'
      BY <2>0, <2>3, MintEffect DEF Tables
    <3> QED BY <2>0, <2>a, <2>3, <3>1, TypePartsPrimed
  <2>4. CASE AuthenticationOptions
    BY <2>0, <2>a, <2>3, <2>4, UsesAre DEF AuthenticationOptions
  <2>5. ASSUME NEW a \in Agents, StepUpOptions(a) \/ StepUpPassword(a) PROVE TypeOK'
    <3>1. CASE StepUpOptions(a)
      BY <2>0, <2>a, <2>3, <3>1, UsesAre DEF StepUpOptions
    <3>2. CASE StepUpPassword(a)
      <4>1. Counts'
        BY <2>0, <3>2 DEF StepUpPassword, Counts
      <4> QED BY <2>0, <2>3, <3>2, <4>1, UsesAre DEF StepUpPassword
    <3> QED BY <2>5, <3>1, <3>2
  <2>6. ASSUME NEW a \in Agents, NEW s \in {"active", "disabled"}, SetStatus(a, s) PROVE TypeOK'
    <3>1. Tables' /\ Owned'
      BY <2>0, <2>6 DEF SetStatus, Tables, Owned, Registered, Exists
    <3> QED BY <2>0, <2>a, <2>6, <3>1, TypePartsPrimed DEF SetStatus
  <2>7. ASSUME NEW a \in Agents, DeleteAgent(a) \/ \E k \in Keys : DeleteCredential(a, k) PROVE TypeOK'
    <3>1. Tables'
      BY <2>0, <2>7, Rows, DeleteEffect DEF DeleteAgent, DeleteCredential, Tables
    <3>2. Owned'
      <4>1. CASE DeleteAgent(a)
        <5>1. \A k \in Keys : passkey'[k].owner # a
          BY <2>0, <4>1, PasskeysAssumption DEF DeleteAgent, Tables, NoRow
        <5>2. \A b \in Agents \cup {Nobody} : b # a => status'[b] = status[b]
          BY <2>0, <4>1, PasskeysAssumption DEF DeleteAgent, Tables
        <5> QED BY <2>0, <2>7, <5>1, <5>2, DeleteEffect, OwnersStay DEF Exists
      <4>2. CASE \E k \in Keys : DeleteCredential(a, k)
        <5>1. status' = status
          BY <4>2 DEF DeleteCredential
        <5> QED BY <2>0, <2>7, <5>1, DeleteEffect, OwnersStay DEF Exists
      <4> QED BY <2>7, <4>1, <4>2
    <3> QED BY <2>0, <2>a, <2>7, <3>1, <3>2, DeleteEffect, TypePartsPrimed
  <2>8. ASSUME NEW c \in Calls, NEW a \in Agents \cup {Nobody},
               \/ BeginLogin(c)
               \/ a \in Agents /\ (BeginStepUp(c, a) \/ BeginRegistrationOptions(c, a) \/ BeginRegister(c, a))
        PROVE  TypeOK'
    BY <2>a, <2>8, BeginType, TypePartsPrimed
  <2>9. ASSUME NEW c \in Calls, Consume(c) PROVE TypeOK'
    <3>1. Tables'
      BY <2>0, <2>9, ConsumeEffect DEF Consume, Tables
    <3> QED BY <2>a, <2>9, <3>1, ConsumeEffect, TypePartsPrimed DEF Consume
  <2>10. ASSUME NEW c \in Calls, Verify(c) \/ ReadStatus(c) \/ Abort(c) PROVE TypeOK'
    <3>1. Return(c) \/ Goto(c, "verified") \/ Goto(c, "admitted")
      BY <2>10 DEF Verify, ReadStatus, Abort
    <3>2. call' \in [Calls -> CallState]
      BY <2>0, <3>1, ReturnEffect, GotoEffect DEF CallStages
    <3> QED BY <2>a, <2>10, <3>2, TypePartsPrimed DEF Verify, ReadStatus, Abort
  <2>11. ASSUME NEW c \in Calls, MintRegistration(c) \/ MintToken(c) PROVE TypeOK'
    <3>0. call[c].agent \in Agents \cup {Nobody}
      BY <2>0 DEF CallState
    <3>1. call' \in [Calls -> CallState] /\ Counts'
      BY <2>0, <2>a, <2>11, ReturnEffect DEF MintRegistration, MintToken, Counts
    <3> QED BY <2>3, <2>11, <3>0, <3>1, UsesAre DEF MintRegistration, MintToken
  <2>12. ASSUME NEW c \in Calls, InsertCredential(c) PROVE TypeOK'
    <3>0. call' \in [Calls -> CallState] /\ call[c].agent \in Agents \cup {Nobody}
      BY <2>0, <2>12, ReturnEffect DEF InsertCredential, CallState
    <3>1. CASE passkey' = passkey
      <4>1. Counts'
        BY <2>0, <2>12 DEF InsertCredential, Counts
      <4>2. Tables' /\ Owned'
        BY <2>0, <2>a, <2>12, <3>1 DEF InsertCredential, Tables
      <4> QED BY <2>a, <2>12, <3>0, <4>1, <4>2, TypePartsPrimed DEF InsertCredential
    <3>2. CASE passkey' # passkey
      <4>1. Tables' /\ Counts'
        <5>1. Tables'
          BY <2>0, <2>12, <3>2, InsertEffect DEF InsertCredential, Tables
        <5>2. added' = [added EXCEPT ![call[c].agent] = @ + 1] /\ proofs' = proofs
          BY <2>12, <3>2, InsertEffect DEF InsertCredential
        <5>3. \A a \in Agents : added'[a] \in Nat
          BY <2>0, <5>2 DEF Counts
        <5>4. added' \in [Agents -> Nat]
          BY <2>0, <5>2, <5>3 DEF Counts
        <5>5. Counts'
          BY <2>0, <5>2, <5>4 DEF Counts
        <5> QED BY <5>1, <5>5
      <4>2. Owned'
        BY <2>0, <2>12, <3>0, <3>2, InsertEffect DEF InsertCredential, Owned, Registered, Exists
      <4> QED BY <2>a, <2>12, <3>0, <4>1, <4>2, TypePartsPrimed DEF InsertCredential
    <3> QED BY <3>1, <3>2
  <2>13. ASSUME NEW c \in Calls, LockKey(c) \/ Admit(c) PROVE TypeOK'
    <3>0. Return(c) \/ Goto(c, "locked") \/ Goto(c, "proven")
      BY <2>13 DEF LockKey, Admit
    <3>1. call' \in [Calls -> CallState]
      BY <2>0, <3>0, ReturnEffect, GotoEffect DEF CallStages
    <3>2. /\ passkey' \in [Keys -> PasskeyRow] /\ status' = status
          /\ \A k \in Keys : passkey'[k].owner = passkey[k].owner
      BY <2>13, FlagEffect, AdmitEffect DEF LockKey, Admit
    <3>3. Tables' /\ Owned'
      BY <2>0, <2>13, <3>2, OwnersStay DEF LockKey, Admit, Tables, Exists
    <3> QED BY <2>a, <2>13, <3>1, <3>3, TypePartsPrimed DEF LockKey, Admit
  <2>14. CASE UNCHANGED vars
    BY <2>0, <2>a, <2>14, TypePartsPrimed DEF vars
  <2> QED BY <2>1, <2>2, <2>4, <2>5, <2>6, <2>7, <2>8, <2>9, <2>10, <2>11, <2>12, <2>13, <2>14 DEF Next
<1> QED BY <1>1, <1>2, PTL DEF Spec

-----------------------------------------------------------------------------
(* A nonce, once minted, is what it is until it is gone.                    *)
LEMMA NoncesAge ==
  ASSUME TypeOK, [Next]_vars, NEW n \in Nonces, nonce[n].for # "none"
  PROVE  nonce'[n].for = "gone" \/ (nonce'[n].for = nonce[n].for /\ nonce'[n].agent = nonce[n].agent)
<1>0. nonce \in [Nonces -> NonceRow] /\ call \in [Calls -> CallState]
  BY TypeParts DEF Tables
<1>1. CASE nonce' = nonce
  BY <1>1
<1>2. ASSUME NEW m \in Nonces, Expire(m) PROVE nonce'[n].for = "gone" \/ nonce'[n] = nonce[n]
  BY <1>0, <1>2 DEF Expire, Gone
<1>3. ASSUME NEW a \in Agents \cup {Nobody}, NEW purpose \in Purposes, Mint(purpose, a)
      PROVE  nonce'[n] = nonce[n]
  BY <1>0, <1>3, MintEffect
<1>4. ASSUME NEW a \in Agents, DeleteAgent(a) PROVE nonce'[n].for = "gone" \/ nonce'[n] = nonce[n]
  BY <1>0, <1>4 DEF DeleteAgent, Gone
<1>5. ASSUME NEW c \in Calls, Consume(c)
      PROVE  nonce'[n].for = "gone" \/ (nonce'[n].for = nonce[n].for /\ nonce'[n].agent = nonce[n].agent)
  BY <1>5, ConsumeEffect
<1>6. CASE AuthenticationOptions
  BY <1>3, <1>6, UsesAre DEF AuthenticationOptions
<1>7. ASSUME NEW a \in Agents, StepUpOptions(a) \/ StepUpPassword(a) PROVE nonce'[n] = nonce[n]
  BY <1>3, <1>7, UsesAre DEF StepUpOptions, StepUpPassword
<1>8. ASSUME NEW c \in Calls, MintRegistration(c) \/ MintToken(c) PROVE nonce'[n] = nonce[n]
  <2>1. call[c].agent \in Agents \cup {Nobody}
    BY <1>0 DEF CallState
  <2> QED BY <1>3, <1>8, <2>1, UsesAre DEF MintRegistration, MintToken
<1>9. ASSUME NEW c \in Calls, NEW a \in Agents \cup {Nobody},
             \/ BeginLogin(c)
             \/ a \in Agents /\ (BeginStepUp(c, a) \/ BeginRegistrationOptions(c, a) \/ BeginRegister(c, a))
      PROVE  nonce' = nonce
  BY <1>9, BeginType DEF table
<1>10. ASSUME NEW c \in Calls,
              \/ InsertCredential(c) \/ Verify(c) \/ LockKey(c)
              \/ ReadStatus(c) \/ Admit(c) \/ Abort(c)
       PROVE  nonce' = nonce
  BY <1>10 DEF InsertCredential, Verify, LockKey, ReadStatus, Admit, Abort, table
<1>11. ASSUME \/ \E k \in Keys, m \in Nonces : Sign(k, m)
              \/ \E a \in Agents : \/ \E s \in {"active", "disabled"} : SetStatus(a, s)
                                   \/ \E k \in Keys : DeleteCredential(a, k)
              \/ UNCHANGED vars
       PROVE  nonce' = nonce
  BY <1>11 DEF Sign, SetStatus, DeleteCredential, vars, table
<1> QED BY <1>1, <1>2, <1>4, <1>5, <1>6, <1>7, <1>8, <1>9, <1>10, <1>11 DEF Next

(* A step of a request: it returns, begins or goes on with what it has.     *)
Onward(c) ==
    /\ call' \in [Calls -> CallState] /\ \A d \in Calls \ {c} : call'[d] = call[d]
    /\ \/ call'[c].stage = "idle"
       \/ /\ call'[c].stage = "begun" /\ call'[c].nonce \in Nonces
          /\ MintedFor(call'[c].nonce, call'[c].kind, call'[c].agent)
          /\ call'[c].kind # "options" => call'[c].key \in Keys
          /\ call'[c].kind # "login" => call'[c].agent \in Agents
          /\ UNCHANGED <<table, authenticators, history>>
       \/ /\ call[c].stage # "idle" /\ call'[c].stage # "begun"
          /\ call'[c].kind = call[c].kind /\ call'[c].agent = call[c].agent
          /\ call'[c].nonce = call[c].nonce /\ call'[c].key = call[c].key
          /\ \/ call'[c].stage = "consumed"
             \/ call[c].kind \in {"login", "stepUp"}
             \/ call[c].stage \notin {"begun", "consumed"}
          /\ call'[c].stage = "proven" => call[c].kind # "login"

LEMMA RequestsMove ==
  ASSUME TypeOK, [Next]_vars
  PROVE  UNCHANGED call \/ \E c \in Calls : Onward(c)
<1>0. call \in [Calls -> CallState]
  BY TypeParts
<1>1. ASSUME NEW c \in Calls, Return(c) PROVE Onward(c)
  BY <1>0, <1>1, ReturnEffect DEF Onward
<1>2. ASSUME NEW c \in Calls, NEW a \in Agents \cup {Nobody},
             \/ BeginLogin(c)
             \/ a \in Agents /\ (BeginStepUp(c, a) \/ BeginRegistrationOptions(c, a) \/ BeginRegister(c, a))
      PROVE  Onward(c)
  BY <1>2, BeginType DEF Onward
<1>3. ASSUME NEW c \in Calls, Consume(c) PROVE Onward(c)
  <2>1. call[c].stage # "idle"
    BY <1>3 DEF Consume
  <2> QED BY <1>3, <2>1, ConsumeEffect DEF Onward
<1>4. ASSUME NEW c \in Calls, NEW s \in {"verified", "locked", "admitted", "proven"}, Goto(c, s),
             call[c].stage # "idle",
             call[c].kind \in {"login", "stepUp"} \/ call[c].stage \notin {"begun", "consumed"},
             s = "proven" => call[c].kind # "login"
      PROVE  Onward(c)
  <2>1. s \in CallStages
    BY DEF CallStages
  <2> QED BY <1>0, <1>4, <2>1, GotoEffect DEF Onward
<1>5. ASSUME NEW c \in Calls, Verify(c) \/ LockKey(c) \/ ReadStatus(c) \/ Admit(c) PROVE Onward(c)
  <2>1. CASE Verify(c)
    BY <1>1, <1>4, <2>1 DEF Verify
  <2>2. CASE LockKey(c)
    BY <1>1, <1>4, <2>2 DEF LockKey
  <2>3. CASE ReadStatus(c)
    BY <1>1, <1>4, <2>3 DEF ReadStatus
  <2>4. CASE Admit(c)
    BY <1>1, <1>4, <2>4 DEF Admit
  <2> QED BY <1>5, <2>1, <2>2, <2>3, <2>4
<1>6. ASSUME NEW c \in Calls, MintRegistration(c) \/ InsertCredential(c) \/ MintToken(c) \/ Abort(c)
      PROVE  Onward(c)
  BY <1>1, <1>6 DEF MintRegistration, InsertCredential, MintToken, Abort
<1>7. ASSUME NEW a \in Agents,
             \/ \E s \in {"active", "disabled"} : SetStatus(a, s)
             \/ DeleteAgent(a) \/ \E k \in Keys : DeleteCredential(a, k)
             \/ StepUpOptions(a) \/ StepUpPassword(a)
      PROVE  UNCHANGED call
  BY <1>7 DEF SetStatus, DeleteAgent, DeleteCredential, StepUpOptions, StepUpPassword
<1>8. ASSUME \/ \E k \in Keys, n \in Nonces : Sign(k, n)
             \/ \E n \in Nonces : Expire(n)
             \/ AuthenticationOptions \/ UNCHANGED vars
      PROVE  UNCHANGED call
  BY <1>8 DEF Sign, Expire, AuthenticationOptions, vars
<1> QED BY <1>2, <1>3, <1>5, <1>6, <1>7, <1>8 DEF Next

-----------------------------------------------------------------------------
(* What a request holds is what its kind needs at its stage, ...            *)
Fits(c) == call[c].stage # "idle" =>
    /\ call[c].nonce \in Nonces
    /\ call[c].kind # "options" => call[c].key \in Keys
    /\ call[c].kind # "login" => call[c].agent \in Agents
    /\ call[c].stage \notin {"begun", "consumed"} => call[c].kind \in {"login", "stepUp"}
    /\ call[c].stage = "proven" => call[c].kind # "login"

(* ... and the nonce it is about to consume is its own, unless it is gone.  *)
BegunFor(c) == call[c].stage = "begun" =>
    nonce[call[c].nonce].for = "gone" \/ MintedFor(call[c].nonce, call[c].kind, call[c].agent)

Requests == \A c \in Calls : Fits(c) /\ BegunFor(c)

LEMMA RequestsHold == Spec => []Requests
<1>1. Init => Requests
  BY DEF Init, Idle, Requests, Fits, BegunFor
<1>2. TypeOK /\ Requests /\ [Next]_vars => Requests'
  <2> SUFFICES ASSUME TypeOK, Requests, [Next]_vars, NEW d \in Calls PROVE Fits(d)' /\ BegunFor(d)'
    BY DEF Requests
  <2>0. /\ Fits(d) /\ BegunFor(d) /\ nonce \in [Nonces -> NonceRow] /\ call[d].kind \in DOMAIN Uses
    BY TypeParts DEF Requests, Tables, CallState
  <2>1. CASE call'[d] = call[d]
    <3>1. Fits(d)'
      BY <2>0, <2>1 DEF Fits
    <3>2. BegunFor(d)'
      <4> SUFFICES ASSUME call[d].stage = "begun"
                   PROVE  \/ nonce'[call[d].nonce].for = "gone"
                          \/ /\ nonce'[call[d].nonce].for = Uses[call[d].kind]
                             /\ nonce'[call[d].nonce].agent = call[d].agent
        BY <2>1 DEF BegunFor, MintedFor
      <4>1. \/ nonce[call[d].nonce].for = "gone"
            \/ MintedFor(call[d].nonce, call[d].kind, call[d].agent)
        BY <2>0 DEF BegunFor
      <4>2. call[d].nonce \in Nonces
        BY <2>0 DEF Fits
      <4>3. nonce[call[d].nonce].for # "none"
        BY <2>0, <4>1, UsesAre DEF MintedFor
      <4> QED BY <4>1, <4>2, <4>3, NoncesAge DEF MintedFor
    <3> QED BY <3>1, <3>2
  <2>2. CASE Onward(d)
    <3>1. Fits(d)'
      BY <2>0, <2>2, UsesAre DEF Fits, Onward
    <3>2. BegunFor(d)'
      BY <2>2 DEF BegunFor, MintedFor, Onward, table
    <3> QED BY <3>1, <3>2
  <2> QED BY <2>1, <2>2, RequestsMove DEF Onward
<1> QED BY <1>1, <1>2, TypeCorrect, PTL DEF Spec

(* A challenge or token of an agent is used up by that agent's own requests *)
(* alone, whatever other requests consumed, minted or let expire between    *)
(* the look at it and its consumption (consumeChallenge, consumeStepUpToken *)
(* and the ceremony that calls them).                                       *)
THEOREM SpendersAreOwners == Spec => SpentByOwner
<1>1. Requests => \A c \in Calls : Consume(c) /\ SpentNow(call[c].nonce) =>
                     nonce[call[c].nonce].agent = call[c].agent
  <2> SUFFICES ASSUME Requests, NEW c \in Calls, Consume(c), SpentNow(call[c].nonce)
               PROVE  nonce[call[c].nonce].agent = call[c].agent
    OBVIOUS
  <2>1. BegunFor(c) /\ call[c].stage = "begun"
    BY DEF Requests, Consume
  <2>2. nonce[call[c].nonce].for # "gone"
    BY UsesAre DEF SpentNow
  <2> QED BY <2>1, <2>2 DEF BegunFor, MintedFor
<1> QED BY <1>1, RequestsHold, PTL DEF SpentByOwner

-----------------------------------------------------------------------------
(* What a request saw of the row it locked is still so, and it holds the    *)
(* row alone.                                                               *)
Holds(c) == call[c].stage \in InTransaction =>
    /\ Registered(call[c].key) /\ ~Regressed(c)
    /\ \A d \in Calls \ {c} : call[d].key = call[c].key => call[d].stage \notin InTransaction

Locks == \A c \in Calls : Holds(c)

(* Nobody new holds a row, and no row changes that is still held.           *)
LEMMA LocksKept ==
  ASSUME TypeOK, Requests, Locks,
         \A d \in Calls : call'[d].stage \in InTransaction =>
            /\ call[d].stage \in InTransaction
            /\ call'[d].key = call[d].key /\ call'[d].counter = call[d].counter
            /\ passkey'[call[d].key] = passkey[call[d].key]
  PROVE  Locks'
BY DEF Locks, Holds, Registered, Regressed, InTransaction

LEMMA LocksHold == Spec => []Locks
<1>1. Init => Locks
  BY DEF Init, Idle, Locks, Holds, InTransaction
<1>2. TypeOK /\ Requests /\ Locks /\ [Next]_vars => Locks'
  <2> SUFFICES ASSUME TypeOK, Requests, Locks, [Next]_vars PROVE Locks'
    OBVIOUS
  <2>0. /\ call \in [Calls -> CallState]
        /\ \A c \in Calls : call[c].stage \in InTransaction => call[c].key \in Keys
    BY TypeParts DEF Requests, Fits, InTransaction
  <2>1. ASSUME passkey' = passkey, UNCHANGED call PROVE Locks'
    BY <2>1, LocksKept
  <2>2. ASSUME NEW c \in Calls, Return(c), passkey' = passkey PROVE Locks'
    BY <2>0, <2>2, ReturnEffect, LocksKept DEF InTransaction
  <2>3. ASSUME NEW c \in Calls, NEW s \in CallStages \ InTransaction, Goto(c, s), passkey' = passkey
        PROVE  Locks'
    BY <2>0, <2>3, GotoEffect, LocksKept
  <2>4. ASSUME NEW c \in Calls, NEW a \in Agents \cup {Nobody},
               \/ BeginLogin(c)
               \/ a \in Agents /\ (BeginStepUp(c, a) \/ BeginRegistrationOptions(c, a) \/ BeginRegister(c, a))
        PROVE  Locks'
    BY <2>4, BeginType, LocksKept DEF InTransaction, table
  <2>5. ASSUME NEW c \in Calls, Consume(c) PROVE Locks'
    <3>1. \A d \in Calls : call'[d].stage \in InTransaction => d # c
      BY <2>5, ConsumeEffect DEF InTransaction
    <3>2. passkey' = passkey
      BY <2>5 DEF Consume
    <3> QED BY <2>5, <3>1, <3>2, ConsumeEffect, LocksKept
  <2>6. ASSUME NEW c \in Calls, Verify(c) \/ MintRegistration(c) \/ MintToken(c) \/ Abort(c) PROVE Locks'
    <3>1. "verified" \in CallStages \ InTransaction
      BY DEF CallStages, InTransaction
    <3> QED BY <2>2, <2>3, <2>6, <3>1 DEF Verify, MintRegistration, MintToken, Abort, table
  <2>7. ASSUME NEW c \in Calls, InsertCredential(c) PROVE Locks'
    <3>1. Return(c)
      BY <2>7 DEF InsertCredential
    <3>2. CASE passkey' # passkey
      <4>1. ~Registered(call[c].key) /\ \A k \in Keys \ {call[c].key} : passkey'[k] = passkey[k]
        BY <2>7, <3>2, InsertEffect
      <4>2. \A d \in Calls : call[d].stage \in InTransaction => passkey'[call[d].key] = passkey[call[d].key]
        BY <2>0, <4>1 DEF Locks, Holds
      <4> QED BY <2>0, <3>1, <4>2, ReturnEffect, LocksKept DEF InTransaction
    <3> QED BY <2>2, <3>1, <3>2
  <2>8. ASSUME NEW c \in Calls, LockKey(c) PROVE Locks'
    <3> DEFINE k == call[c].key
    <3>1. KeyFree(k)
      BY <2>8 DEF LockKey
    <3>2. CASE Registered(k) /\ ~Regressed(c)
      <4>1. Goto(c, "locked") /\ passkey' = passkey
        BY <2>8, <3>2 DEF LockKey
      <4>2. "locked" \in CallStages
        BY DEF CallStages
      <4>3. /\ \A d \in Calls \ {c} : call'[d] = call[d]
            /\ call'[c].key = k /\ call'[c].counter = call[c].counter
        BY <2>0, <4>1, <4>2, GotoEffect
      <4>4. Holds(c)'
        BY <3>1, <3>2, <4>1, <4>3 DEF Holds, Registered, Regressed, KeyFree
      <4>5. ASSUME NEW d \in Calls \ {c} PROVE Holds(d)'
        BY <3>1, <4>1, <4>3 DEF Locks, Holds, Registered, Regressed, KeyFree
      <4> QED BY <4>4, <4>5 DEF Locks
    <3>3. CASE ~(Registered(k) /\ ~Regressed(c))
      <4>1. Return(c)
        BY <2>8, <3>3 DEF LockKey
      <4>2. \A d \in Calls : call[d].stage \in InTransaction => passkey'[call[d].key] = passkey[call[d].key]
        BY <2>0, <2>8, <3>1, FlagEffect DEF KeyFree
      <4> QED BY <2>0, <4>1, <4>2, ReturnEffect, LocksKept DEF InTransaction
    <3> QED BY <3>2, <3>3
  <2>9. ASSUME NEW c \in Calls, ReadStatus(c) PROVE Locks'
    <3>1. passkey' = passkey /\ call[c].stage = "locked" /\ (Return(c) \/ Goto(c, "admitted"))
      BY <2>9 DEF ReadStatus, table
    <3>2. CASE Goto(c, "admitted")
      <4>1. "admitted" \in CallStages
        BY DEF CallStages
      <4> QED BY <2>0, <3>1, <3>2, <4>1, GotoEffect, LocksKept DEF InTransaction
    <3> QED BY <2>2, <3>1, <3>2
  <2>10. ASSUME NEW c \in Calls, Admit(c) PROVE Locks'
    <3>1. call[c].stage \in InTransaction /\ (Return(c) \/ Goto(c, "proven"))
      BY <2>10 DEF Admit, InTransaction
    <3>2. /\ \A d \in Calls \ {c} : call'[d] = call[d]
          /\ call'[c].stage \notin InTransaction
      BY <2>0, <3>1, ReturnEffect, GotoEffect DEF InTransaction, CallStages
    <3>3. \A d \in Calls \ {c} : call[d].stage \in InTransaction => passkey'[call[d].key] = passkey[call[d].key]
      BY <2>0, <2>10, <3>1, AdmitEffect DEF Locks, Holds
    <3> QED BY <3>2, <3>3, LocksKept
  <2>11. ASSUME NEW a \in Agents, DeleteAgent(a) \/ \E k \in Keys : DeleteCredential(a, k) PROVE Locks'
    <3>1. UNCHANGED call
      BY <2>11 DEF DeleteAgent, DeleteCredential
    <3>2. \A d \in Calls : call[d].stage \in InTransaction => passkey'[call[d].key] = passkey[call[d].key]
      BY <2>0, <2>11, DeleteEffect DEF KeyFree
    <3> QED BY <3>1, <3>2, LocksKept
  <2>12. ASSUME NEW a \in Agents, \/ \E s \in {"active", "disabled"} : SetStatus(a, s)
                                  \/ StepUpOptions(a) \/ StepUpPassword(a)
         PROVE  Locks'
    BY <2>1, <2>12 DEF SetStatus, StepUpOptions, StepUpPassword
  <2>13. ASSUME \/ \E k \in Keys, n \in Nonces : Sign(k, n)
                \/ \E n \in Nonces : Expire(n)
                \/ AuthenticationOptions \/ UNCHANGED vars
         PROVE  Locks'
    BY <2>1, <2>13 DEF Sign, Expire, AuthenticationOptions, vars, table
  <2> QED BY <2>4, <2>5, <2>6, <2>7, <2>8, <2>9, <2>10, <2>11, <2>12, <2>13 DEF Next
<1> QED BY <1>1, <1>2, TypeCorrect, RequestsHold, PTL DEF Spec

(* Whoever is admitted has an account and this passkey when the admission   *)
(* commits, and counters are accepted in rising order: deletions, disabled  *)
(* agents and other ceremonies cross a ceremony at every await, and the     *)
(* transaction of authenticateCredential decides on the row it holds.       *)
THEOREM AdmissionsAreRight == Spec => AdmittedRightly
<1>1. TypeOK /\ Requests /\ Locks => \A c \in Calls : Admit(c) =>
         LET stored == passkey[call[c].key].count IN
         /\ Registered(call[c].key) /\ Exists(Owner(c))
         /\ stored > 0 => call[c].counter > stored
  <2> SUFFICES ASSUME TypeOK, Requests, Locks, NEW c \in Calls, Admit(c)
               PROVE  LET stored == passkey[call[c].key].count IN
                      /\ Registered(call[c].key) /\ Exists(Owner(c))
                      /\ stored > 0 => call[c].counter > stored
    OBVIOUS
  <2>1. Holds(c) /\ call[c].stage = "admitted" /\ Fits(c)
    BY DEF Locks, Admit, Requests
  <2>2. Registered(call[c].key) /\ ~Regressed(c) /\ call[c].key \in Keys
    BY <2>1 DEF Holds, Fits, InTransaction
  <2>3. Exists(Owner(c))
    BY <2>2, TypeParts DEF Owned, Owner
  <2>4. passkey[call[c].key].count \in Nat /\ call[c].counter \in Nat
    BY <2>2, TypeParts DEF Tables, PasskeyRow, CallState
  <2> QED BY <2>2, <2>3, <2>4 DEF Regressed
<1> QED BY <1>1, TypeCorrect, RequestsHold, LocksHold, PTL DEF AdmittedRightly

-----------------------------------------------------------------------------
(* The stations of a step-up: what an agent has fresh, token or             *)
(* registration challenge, and the requests that have consumed one and have *)
(* yet to use it.                                                           *)
Fresh(a) == {n \in Nonces : /\ nonce[n].for \in {"token", "registration"}
                            /\ nonce[n].agent = a /\ ~nonce[n].spent}

Spending(a) == {c \in Calls : /\ call[c].kind \in {"options", "register"}
                              /\ call[c].stage = "consumed" /\ call[c].agent = a}

(* An agent has stepped up for all of them and for each passkey it added.   *)
Afforded(a) ==
    /\ IsFiniteSet(Spending(a))
    /\ added[a] + Cardinality(Fresh(a)) + Cardinality(Spending(a)) <= proofs[a]

LEMMA FreshIsFinite == \A a : IsFiniteSet(Fresh(a)) /\ IsFiniteSet(Fresh(a)')
<1>1. IsFiniteSet(Nonces)
  BY PasskeysAssumption, FS_Interval DEF Nonces
<1>2. \A a : Fresh(a) \subseteq Nonces /\ Fresh(a)' \subseteq Nonces
  BY DEF Fresh
<1> QED BY <1>1, <1>2, FS_Subset

LEMMA AtMostAsMany ==
  ASSUME NEW S, IsFiniteSet(S), NEW T, T \subseteq S
  PROVE  /\ IsFiniteSet(T) /\ Cardinality(T) \in Nat /\ Cardinality(S) \in Nat
         /\ Cardinality(T) <= Cardinality(S)
BY FS_Subset, FS_CardinalityType

LEMMA AtMostOneMore ==
  ASSUME NEW S, IsFiniteSet(S), NEW x, NEW T, T \subseteq S \cup {x}
  PROVE  /\ IsFiniteSet(T) /\ Cardinality(T) \in Nat /\ Cardinality(S) \in Nat
         /\ Cardinality(T) <= Cardinality(S) + 1
<1>1. /\ IsFiniteSet(S \cup {x}) /\ Cardinality(S) \in Nat
      /\ Cardinality(S \cup {x}) \in {Cardinality(S), Cardinality(S) + 1}
  BY FS_AddElement, FS_CardinalityType
<1>2. /\ IsFiniteSet(T) /\ Cardinality(T) \in Nat /\ Cardinality(T) <= Cardinality(S \cup {x})
  BY <1>1, AtMostAsMany
<1> QED BY <1>1, <1>2

LEMMA AtLeastOneLess ==
  ASSUME NEW S, IsFiniteSet(S), NEW x \in S, NEW T, T \subseteq S \ {x}
  PROVE  /\ IsFiniteSet(T) /\ Cardinality(T) \in Nat /\ Cardinality(S) \in Nat
         /\ Cardinality(T) + 1 <= Cardinality(S)
<1>1. /\ IsFiniteSet(S \ {x}) /\ Cardinality(S) \in Nat /\ Cardinality(S \ {x}) \in Nat
      /\ Cardinality(S \ {x}) = Cardinality(S) - 1
  BY FS_RemoveElement, FS_CardinalityType
<1>2. IsFiniteSet(T) /\ Cardinality(T) \in Nat /\ Cardinality(T) <= Cardinality(S \ {x})
  BY <1>1, AtMostAsMany
<1> QED BY <1>1, <1>2

(* Nothing new at any station, ...                                          *)
LEMMA NothingNew ==
  ASSUME TypeOK, TypeOK', NEW a \in Agents, Afforded(a),
         Fresh(a)' \subseteq Fresh(a), Spending(a)' \subseteq Spending(a),
         added'[a] = added[a], proofs'[a] >= proofs[a]
  PROVE  Afforded(a)'
<1>1. /\ added[a] \in Nat /\ proofs[a] \in Nat /\ proofs'[a] \in Nat
  BY DEF TypeOK
<1>2. /\ Cardinality(Fresh(a)) \in Nat /\ Cardinality(Fresh(a)') \in Nat
      /\ Cardinality(Fresh(a)') <= Cardinality(Fresh(a))
  BY AtMostAsMany, FreshIsFinite
<1>3. /\ IsFiniteSet(Spending(a)')
      /\ Cardinality(Spending(a)) \in Nat /\ Cardinality(Spending(a)') \in Nat
      /\ Cardinality(Spending(a)') <= Cardinality(Spending(a))
  BY AtMostAsMany DEF Afforded
<1> QED BY <1>1, <1>2, <1>3 DEF Afforded

(* ... a step-up that mints a token, ...                                    *)
LEMMA SteppedUp ==
  ASSUME TypeOK, TypeOK', NEW a \in Agents, NEW n, Afforded(a),
         Fresh(a)' \subseteq Fresh(a) \cup {n}, Spending(a)' \subseteq Spending(a),
         added'[a] = added[a], proofs'[a] = proofs[a] + 1
  PROVE  Afforded(a)'
<1>1. /\ added[a] \in Nat /\ proofs[a] \in Nat /\ proofs'[a] \in Nat
  BY DEF TypeOK
<1>2. /\ Cardinality(Fresh(a)) \in Nat /\ Cardinality(Fresh(a)') \in Nat
      /\ Cardinality(Fresh(a)') <= Cardinality(Fresh(a)) + 1
  BY AtMostOneMore, FreshIsFinite
<1>3. /\ IsFiniteSet(Spending(a)')
      /\ Cardinality(Spending(a)) \in Nat /\ Cardinality(Spending(a)') \in Nat
      /\ Cardinality(Spending(a)') <= Cardinality(Spending(a))
  BY AtMostAsMany DEF Afforded
<1> QED BY <1>1, <1>2, <1>3 DEF Afforded

(* ... a request that consumes what is fresh, ...                           *)
LEMMA ConsumedOne ==
  ASSUME TypeOK, TypeOK', NEW a \in Agents, NEW n \in Fresh(a), NEW c, Afforded(a),
         Fresh(a)' \subseteq Fresh(a) \ {n}, Spending(a)' \subseteq Spending(a) \cup {c},
         added'[a] = added[a], proofs'[a] = proofs[a]
  PROVE  Afforded(a)'
<1>1. /\ added[a] \in Nat /\ proofs[a] \in Nat
  BY DEF TypeOK
<1>2. /\ Cardinality(Fresh(a)) \in Nat /\ Cardinality(Fresh(a)') \in Nat
      /\ Cardinality(Fresh(a)') + 1 <= Cardinality(Fresh(a))
  BY AtLeastOneLess, FreshIsFinite
<1>3. /\ IsFiniteSet(Spending(a)')
      /\ Cardinality(Spending(a)) \in Nat /\ Cardinality(Spending(a)') \in Nat
      /\ Cardinality(Spending(a)') <= Cardinality(Spending(a)) + 1
  BY AtMostOneMore DEF Afforded
<1> QED BY <1>1, <1>2, <1>3 DEF Afforded

(* ... and a request that uses what it consumed, for a challenge or for a   *)
(* passkey.                                                                 *)
LEMMA UsedOne ==
  ASSUME TypeOK, TypeOK', NEW a \in Agents, NEW c \in Spending(a), NEW n, Afforded(a),
         Spending(a)' \subseteq Spending(a) \ {c}, proofs'[a] = proofs[a],
         \/ added'[a] = added[a] + 1 /\ Fresh(a)' \subseteq Fresh(a)
         \/ added'[a] = added[a] /\ Fresh(a)' \subseteq Fresh(a) \cup {n}
  PROVE  Afforded(a)'
<1>1. /\ added[a] \in Nat /\ proofs[a] \in Nat
  BY DEF TypeOK
<1>2. /\ Cardinality(Fresh(a)) \in Nat /\ Cardinality(Fresh(a)') \in Nat
      /\ \/ added'[a] = added[a] + 1 /\ Cardinality(Fresh(a)') <= Cardinality(Fresh(a))
         \/ added'[a] = added[a] /\ Cardinality(Fresh(a)') <= Cardinality(Fresh(a)) + 1
  BY AtMostAsMany, AtMostOneMore, FreshIsFinite
<1>3. /\ IsFiniteSet(Spending(a)')
      /\ Cardinality(Spending(a)) \in Nat /\ Cardinality(Spending(a)') \in Nat
      /\ Cardinality(Spending(a)') + 1 <= Cardinality(Spending(a))
  BY AtLeastOneLess DEF Afforded
<1> QED BY <1>1, <1>2, <1>3 DEF Afforded

(* What is fresh grows by a mint alone, ...                                 *)
LEMMA MintedOne ==
  ASSUME TypeOK, NEW b \in Agents \cup {Nobody}, NEW purpose \in Purposes, Mint(purpose, b),
         NEW a \in Agents
  PROVE  /\ purpose \in {"authentication", "step-up"} \/ a # b => Fresh(a)' \subseteq Fresh(a)
         /\ \E n \in Nonces : Fresh(a)' \subseteq Fresh(a) \cup {n}
<1>1. PICK n \in Nonces : /\ nonce'[n].for = purpose /\ nonce'[n].agent = b
                          /\ \A m \in Nonces \ {n} : nonce'[m] = nonce[m]
  BY MintEffect, TypeParts DEF Tables
<1>2. Fresh(a)' \subseteq Fresh(a) \cup {n}
  BY <1>1 DEF Fresh
<1>3. purpose \in {"authentication", "step-up"} \/ a # b => n \notin Fresh(a)'
  BY <1>1 DEF Fresh
<1> QED BY <1>2, <1>3

(* ... and what is being spent by a consumption alone.                      *)
LEMMA SpendersReturn ==
  ASSUME TypeOK, NEW a \in Agents
  PROVE  /\ UNCHANGED call => Spending(a)' \subseteq Spending(a)
         /\ \A c \in Calls : Return(c) => Spending(a)' \subseteq Spending(a) \ {c}
         /\ \A c \in Calls : Onward(c) /\ call'[c].stage # "consumed" => Spending(a)' \subseteq Spending(a)
<1>1. UNCHANGED call => Spending(a)' \subseteq Spending(a)
  BY DEF Spending
<1>2. ASSUME NEW c \in Calls, Return(c) PROVE Spending(a)' \subseteq Spending(a) \ {c}
  BY <1>2, TypeParts, ReturnEffect DEF Spending
<1>3. ASSUME NEW c \in Calls, Onward(c), call'[c].stage # "consumed" PROVE Spending(a)' \subseteq Spending(a)
  BY <1>3 DEF Spending, Onward
<1> QED BY <1>1, <1>2, <1>3

Affordable == \A a \in Agents : Afforded(a)

LEMMA AffordableHolds == Spec => []Affordable
<1>1. Init => Affordable
  <2> SUFFICES ASSUME Init, NEW a \in Agents PROVE Afforded(a)
    BY DEF Affordable
  <2>1. Fresh(a) = {} /\ Spending(a) = {}
    BY DEF Init, Fresh, Spending, Unminted, Idle
  <2>2. added[a] = 0 /\ proofs[a] = 0
    BY DEF Init
  <2> QED BY <2>1, <2>2, FS_EmptySet DEF Afforded
<1>2. TypeOK /\ TypeOK' /\ Requests /\ Affordable /\ [Next]_vars => Affordable'
  <2> SUFFICES ASSUME TypeOK, TypeOK', Requests, Affordable, [Next]_vars, NEW a \in Agents
               PROVE  Afforded(a)'
    BY DEF Affordable
  <2>0. /\ Afforded(a) /\ nonce \in [Nonces -> NonceRow] /\ call \in [Calls -> CallState]
        /\ added \in [Agents -> Nat] /\ proofs \in [Agents -> Nat]
    BY TypeParts DEF Affordable, Tables, Counts
  <2>1. ASSUME UNCHANGED history, Fresh(a)' \subseteq Fresh(a), Spending(a)' \subseteq Spending(a)
        PROVE  Afforded(a)'
    <3>1. added'[a] = added[a] /\ proofs'[a] = proofs[a] /\ proofs[a] \in Nat
      BY <2>0, <2>1 DEF history
    <3>2. proofs'[a] >= proofs[a]
      BY <3>1
    <3> QED BY <2>0, <2>1, <3>1, <3>2, NothingNew
  <2>2. ASSUME UNCHANGED <<nonce, history>>, UNCHANGED call \/ \E c \in Calls : Return(c) PROVE Afforded(a)'
    <3>1. Fresh(a)' \subseteq Fresh(a) /\ Spending(a)' \subseteq Spending(a)
      BY <2>2, SpendersReturn DEF Fresh
    <3> QED BY <2>1, <2>2, <3>1
  <2>3. ASSUME NEW n \in Nonces, Expire(n) PROVE Afforded(a)'
    <3>1. Fresh(a)' \subseteq Fresh(a)
      BY <2>0, <2>3 DEF Expire, Fresh, Gone
    <3>2. UNCHANGED <<call, history>>
      BY <2>3 DEF Expire
    <3> QED BY <2>1, <3>1, <3>2, SpendersReturn
  <2>4. ASSUME NEW b \in Agents, DeleteAgent(b) PROVE Afforded(a)'
    <3>1. Fresh(a)' \subseteq Fresh(a)
      BY <2>0, <2>4 DEF DeleteAgent, Fresh, Gone
    <3>2. UNCHANGED <<call, history>>
      BY <2>4 DEF DeleteAgent
    <3> QED BY <2>1, <3>1, <3>2, SpendersReturn
  <2>5. CASE AuthenticationOptions
    <3>1. Fresh(a)' \subseteq Fresh(a)
      BY <2>5, UsesAre, MintedOne DEF AuthenticationOptions
    <3> QED BY <2>1, <2>5, <3>1, SpendersReturn DEF AuthenticationOptions
  <2>6. ASSUME NEW b \in Agents, StepUpOptions(b) PROVE Afforded(a)'
    <3>1. Fresh(a)' \subseteq Fresh(a)
      BY <2>6, UsesAre, MintedOne DEF StepUpOptions
    <3> QED BY <2>1, <2>6, <3>1, SpendersReturn DEF StepUpOptions
  <2>7. ASSUME NEW b \in Agents, Mint("token", b), Spending(a)' \subseteq Spending(a),
               proofs' = [proofs EXCEPT ![b] = @ + 1], added' = added
        PROVE  Afforded(a)'
    <3>1. CASE a = b
      <4>1. PICK n \in Nonces : Fresh(a)' \subseteq Fresh(a) \cup {n}
        BY <2>7, UsesAre, MintedOne
      <4>2. proofs'[a] = proofs[a] + 1 /\ added'[a] = added[a]
        BY <2>0, <2>7, <3>1
      <4> QED BY <2>0, <2>7, <4>1, <4>2, SteppedUp
    <3>2. CASE a # b
      <4>1. Fresh(a)' \subseteq Fresh(a)
        BY <2>7, <3>2, UsesAre, MintedOne
      <4>2. proofs'[a] = proofs[a] /\ added'[a] = added[a] /\ proofs[a] \in Nat
        BY <2>0, <2>7, <3>2
      <4>3. proofs'[a] >= proofs[a]
        BY <4>2
      <4> QED BY <2>0, <2>7, <4>1, <4>2, <4>3, NothingNew
    <3> QED BY <3>1, <3>2
  <2>8. ASSUME NEW b \in Agents, StepUpPassword(b) PROVE Afforded(a)'
    BY <2>7, <2>8, SpendersReturn DEF StepUpPassword
  <2>9. ASSUME NEW c \in Calls, MintToken(c) PROVE Afforded(a)'
    <3>1. call[c].agent \in Agents
      BY <2>9 DEF MintToken, Requests, Fits
    <3>2. Spending(a)' \subseteq Spending(a)
      BY <2>9, SpendersReturn DEF MintToken
    <3> QED BY <2>7, <2>9, <3>1, <3>2 DEF MintToken
  <2>10. ASSUME NEW c \in Calls, NEW b \in Agents \cup {Nobody},
                \/ BeginLogin(c)
                \/ b \in Agents /\ (BeginStepUp(c, b) \/ BeginRegistrationOptions(c, b) \/ BeginRegister(c, b))
         PROVE  Afforded(a)'
    <3>1. UNCHANGED <<nonce, history>>
      BY <2>10, BeginType DEF table
    <3>2. Spending(a)' \subseteq Spending(a)
      BY <2>10, BeginType DEF Spending
    <3>3. Fresh(a)' \subseteq Fresh(a)
      BY <3>1 DEF Fresh
    <3> QED BY <2>1, <3>1, <3>2, <3>3
  <2>11. ASSUME NEW c \in Calls, Consume(c) PROVE Afforded(a)'
    <3> DEFINE n == call[c].nonce
    <3>0. UNCHANGED history
      BY <2>11 DEF Consume
    <3>1. CASE call'[c].stage = "idle" /\ nonce' = nonce
      <4>1. Spending(a)' \subseteq Spending(a) /\ Fresh(a)' \subseteq Fresh(a)
        BY <2>11, <3>1, ConsumeEffect DEF Spending, Fresh
      <4> QED BY <2>1, <3>0, <4>1
    <3>2. CASE SpentNow(n) /\ call'[c].stage = "consumed"
      <4>0. BegunFor(c) /\ Fits(c) /\ call[c].stage = "begun"
        BY <2>11 DEF Requests, Consume
      <4>1. n \in Nonces /\ nonce[n].for = Uses[call[c].kind] /\ nonce[n].agent = call[c].agent /\ ~nonce[n].spent
        BY <3>2, <4>0, UsesAre DEF SpentNow, BegunFor, Fits, MintedFor
      <4>2. /\ call'[c].kind = call[c].kind /\ call'[c].agent = call[c].agent
            /\ \A d \in Calls \ {c} : call'[d] = call[d]
        BY <2>11, <3>2, ConsumeEffect
      <4>3. /\ \A m \in Nonces \ {n} : nonce'[m] = nonce[m]
            /\ nonce'[n].spent
        BY <2>11, <3>2, <4>1, ConsumeEffect
      <4>4. Fresh(a)' \subseteq Fresh(a) \ {n}
        BY <4>3 DEF Fresh
      <4>5. CASE call[c].kind \in {"options", "register"} /\ call[c].agent = a
        <5>1. n \in Fresh(a)
          BY <4>1, <4>5, UsesAre DEF Fresh
        <5>2. Spending(a)' \subseteq Spending(a) \cup {c}
          BY <4>2 DEF Spending
        <5>3. added'[a] = added[a] /\ proofs'[a] = proofs[a]
          BY <3>0 DEF history
        <5> QED BY <2>0, <4>4, <5>1, <5>2, <5>3, ConsumedOne
      <4>6. CASE ~(call[c].kind \in {"options", "register"} /\ call[c].agent = a)
        <5>1. Spending(a)' \subseteq Spending(a)
          BY <4>2, <4>6 DEF Spending
        <5> QED BY <2>1, <3>0, <4>4, <5>1
      <4> QED BY <4>5, <4>6
    <3> QED BY <2>11, <3>1, <3>2, ConsumeEffect
  <2>12. ASSUME NEW c \in Calls, MintRegistration(c) PROVE Afforded(a)'
    <3>0. /\ call[c].kind = "options" /\ call[c].stage = "consumed" /\ call[c].agent \in Agents
          /\ Mint("registration", call[c].agent) /\ Return(c) /\ UNCHANGED history
      BY <2>12 DEF MintRegistration, Requests, Fits
    <3>1. Spending(a)' \subseteq Spending(a) \ {c}
      BY <3>0, SpendersReturn
    <3>2. CASE call[c].agent = a
      <4>1. PICK n \in Nonces : Fresh(a)' \subseteq Fresh(a) \cup {n}
        BY <3>0, UsesAre, MintedOne
      <4>2. c \in Spending(a)
        BY <3>0, <3>2 DEF Spending
      <4>3. added'[a] = added[a] /\ proofs'[a] = proofs[a]
        BY <3>0 DEF history
      <4> QED BY <2>0, <3>1, <4>1, <4>2, <4>3, UsedOne
    <3>3. CASE call[c].agent # a
      <4>1. Fresh(a)' \subseteq Fresh(a)
        BY <3>0, <3>3, UsesAre, MintedOne
      <4> QED BY <2>1, <3>0, <3>1, <4>1
    <3> QED BY <3>2, <3>3
  <2>13. ASSUME NEW c \in Calls, InsertCredential(c) PROVE Afforded(a)'
    <3>0. /\ call[c].kind = "register" /\ call[c].stage = "consumed" /\ call[c].agent \in Agents
          /\ Return(c) /\ UNCHANGED <<nonce, proofs>>
      BY <2>13 DEF InsertCredential, Requests, Fits
    <3>1. Spending(a)' \subseteq Spending(a) \ {c} /\ Fresh(a)' \subseteq Fresh(a)
      BY <3>0, SpendersReturn DEF Fresh
    <3>2. CASE added' = added
      BY <2>1, <3>0, <3>1, <3>2 DEF history
    <3>3. CASE added' # added
      <4>1. added' = [added EXCEPT ![call[c].agent] = @ + 1]
        BY <2>13, <3>3 DEF InsertCredential
      <4>2. CASE call[c].agent = a
        <5>1. c \in Spending(a)
          BY <3>0, <4>2 DEF Spending
        <5>2. added'[a] = added[a] + 1 /\ proofs'[a] = proofs[a]
          BY <2>0, <3>0, <4>1, <4>2
        <5> QED BY <2>0, <3>1, <5>1, <5>2, UsedOne
      <4>3. CASE call[c].agent # a
        <5>1. added'[a] = added[a] /\ proofs'[a] = proofs[a] /\ proofs[a] \in Nat
          BY <2>0, <3>0, <4>1, <4>3
        <5>2. proofs'[a] >= proofs[a]
          BY <5>1
        <5> QED BY <2>0, <3>1, <5>1, <5>2, NothingNew
      <4> QED BY <4>2, <4>3
    <3> QED BY <3>2, <3>3
  <2>14. ASSUME NEW c \in Calls, Verify(c) \/ LockKey(c) \/ ReadStatus(c) \/ Admit(c) PROVE Afforded(a)'
    <3>1. PICK s \in {"verified", "locked", "admitted", "proven"} : Return(c) \/ Goto(c, s)
      BY <2>14 DEF Verify, LockKey, ReadStatus, Admit
    <3>2. s \in CallStages
      BY DEF CallStages
    <3>3. Spending(a)' \subseteq Spending(a)
      BY <2>0, <3>1, <3>2, SpendersReturn, GotoEffect DEF Spending
    <3>4. UNCHANGED <<nonce, history>>
      BY <2>14 DEF Verify, LockKey, ReadStatus, Admit, table
    <3>5. Fresh(a)' \subseteq Fresh(a)
      BY <3>4 DEF Fresh
    <3> QED BY <2>1, <3>3, <3>4, <3>5
  <2>15. ASSUME NEW c \in Calls, Abort(c) PROVE Afforded(a)'
    BY <2>2, <2>15 DEF Abort, table
  <2>16. ASSUME NEW b \in Agents, \/ \E s \in {"active", "disabled"} : SetStatus(b, s)
                                  \/ \E k \in Keys : DeleteCredential(b, k)
         PROVE  Afforded(a)'
    BY <2>2, <2>16 DEF SetStatus, DeleteCredential
  <2>17. ASSUME \/ \E k \in Keys, n \in Nonces : Sign(k, n)
                \/ UNCHANGED vars
         PROVE  Afforded(a)'
    BY <2>2, <2>17 DEF Sign, vars, table
  <2> QED BY <2>3, <2>4, <2>5, <2>6, <2>8, <2>9, <2>10, <2>11, <2>12, <2>13, <2>14, <2>15, <2>16, <2>17 DEF Next
<1> QED BY <1>1, <1>2, TypeCorrect, RequestsHold, PTL DEF Spec

(* An agent adds no more passkeys than it has stepped up (requireStepUp,    *)
(* consumeStepUpToken, consumeChallenge): a token or a challenge presented  *)
(* twice, or at the same time, buys one.                                    *)
THEOREM PasskeysAreProven == Spec => []ProvenByStepUp
<1>1. TypeOK /\ Affordable => ProvenByStepUp
  <2> SUFFICES ASSUME TypeOK, Affordable, NEW a \in Agents PROVE added[a] <= proofs[a]
    BY DEF ProvenByStepUp
  <2>1. Afforded(a) /\ added[a] \in Nat /\ proofs[a] \in Nat
    BY DEF Affordable, TypeOK
  <2>2. Cardinality(Fresh(a)) \in Nat /\ Cardinality(Spending(a)) \in Nat
    BY <2>1, FreshIsFinite, FS_CardinalityType DEF Afforded
  <2> QED BY <2>1, <2>2 DEF Afforded
<1> QED BY <1>1, TypeCorrect, AffordableHolds, PTL

-----------------------------------------------------------------------------
(* The types of the install.                                                *)
Delays == 0..LeaseMinutes
Polls == 0..(MaxPolls - 1)
JobState == [stage : {"gone", "waiting", "running"}, attempts : Nat, due : Delays,
             polls : Polls, run : Runs \cup {None}]
RunState == [stage : Stages, state : States, job : Jobs \cup {None}, attempts : Nat,
             polls : Polls, outcome : {"ack", "retry", "deadLetter"}, delay : Delays]

RowTyped == /\ state \in States /\ target \in Failed \cup {None}
            /\ owner \in Runs \cup {None} /\ lease \in Delays /\ escrow \in BOOLEAN
            /\ state = "cleanup_pending" => target # None
ModuleTyped == /\ connected \in BOOLEAN /\ project \in BOOLEAN /\ proved \in BOOLEAN
               /\ assistant \in {None, "active", "disabled"}
               /\ endpoint \in {None, "disabled", "active", "foreign"}
JobsTyped == job \in [Jobs -> JobState]
Message(r) == /\ run[r].stage # "idle" => run[r].job \in Jobs
              /\ run[r].stage = "polled" => run[r].polls + 1 < MaxPolls
RunsTyped == run \in [Runs -> RunState] /\ \A r \in Runs : Message(r)
GhostTyped == faults \in Nat /\ overrun \in BOOLEAN

LEMMA InstallTypeParts ==
  InstallTypeOK <=> RowTyped /\ ModuleTyped /\ JobsTyped /\ RunsTyped /\ GhostTyped
BY DEF InstallTypeOK, RowTyped, ModuleTyped, JobsTyped, RunsTyped, GhostTyped, Message, Delays,
       Polls, JobState, RunState

LEMMA InstallTypePartsPrimed ==
  InstallTypeOK' <=> RowTyped' /\ ModuleTyped' /\ JobsTyped' /\ RunsTyped' /\ GhostTyped'
BY DEF InstallTypeOK, RowTyped, ModuleTyped, JobsTyped, RunsTyped, GhostTyped, Message, Delays,
       Polls, JobState, RunState

LEMMA BoundsAre ==
  /\ MaxAttempts \in Nat \ {0} /\ MaxPolls \in Nat \ {0} /\ LeaseMinutes \in Nat \ {0}
  /\ 0 \in Delays /\ 0 \in Polls /\ LeaseMinutes \in Delays /\ 1 \in Delays
BY InstallAssumption DEF Delays, Polls

LEMMA NothingIsTyped == NoRun \in RunState /\ NoJob \in JobState
BY BoundsAre DEF NoRun, NoJob, RunState, JobState, Stages, States, Path, Failed

LEMMA DelaysAre ==
  \A k \in Nat : Backoff(k) \in Delays /\ ThrowBackoff(k) \in Delays
BY InstallAssumption DEF Backoff, ThrowBackoff, Capped, Delays

(* One call changes, and keeps its message.                                 *)
LEMMA CallType ==
  ASSUME InstallTypeOK, NEW r \in Runs, NEW x \in RunState, run' = [run EXCEPT ![r] = x],
         x.stage # "idle" => x.job \in Jobs, x.stage = "polled" => x.polls + 1 < MaxPolls
  PROVE  RunsTyped' /\ run'[r] = x /\ \A s \in Runs \ {r} : run'[s] = run[s]
<1>1. RunsTyped
  BY InstallTypeParts
<1>2. run' \in [Runs -> RunState] /\ run'[r] = x /\ \A s \in Runs \ {r} : run'[s] = run[s]
  BY <1>1 DEF RunsTyped
<1>3. \A s \in Runs : Message(s)'
  BY <1>1, <1>2 DEF RunsTyped, Message
<1> QED BY <1>2, <1>3 DEF RunsTyped

Others(r) == \A s \in Runs \ {r} : run'[s] = run[s]

LEMMA EnterEffect ==
  ASSUME InstallTypeOK, NEW r \in Runs, NEW stage \in Stages, Enter(r, stage),
         run[r].stage # "idle", stage = "polled" => PollsLeft(r)
  PROVE  /\ RunsTyped' /\ Others(r)
         /\ run'[r].stage = stage /\ run'[r].state = run[r].state
<1>1. run[r] \in RunState /\ run[r].job \in Jobs
  BY InstallTypeParts DEF RunsTyped, Message
<1>2. PICK x \in {[run[r] EXCEPT !.stage = stage]} : run' = [run EXCEPT ![r] = x]
  BY DEF Enter
<1>3. /\ x \in RunState /\ x.stage = stage /\ x.state = run[r].state /\ x.job = run[r].job
      /\ x.polls = run[r].polls
  BY <1>1, <1>2 DEF RunState
<1>4. RunsTyped' /\ run'[r] = x /\ \A s \in Runs \ {r} : run'[s] = run[s]
  BY <1>1, <1>2, <1>3, CallType DEF PollsLeft
<1> QED BY <1>3, <1>4 DEF Others

LEMMA ReportEffect ==
  ASSUME InstallTypeOK, NEW r \in Runs, NEW outcome \in {"ack", "retry", "deadLetter"},
         NEW delay \in Delays, Report(r, outcome, delay), run[r].stage # "idle"
  PROVE  RunsTyped' /\ Others(r) /\ run'[r].stage = "reporting"
<1>1. run[r] \in RunState /\ run[r].job \in Jobs
  BY InstallTypeParts DEF RunsTyped, Message
<1>2. PICK x \in {[run[r] EXCEPT !.stage = "reporting", !.outcome = outcome, !.delay = delay]} :
        run' = [run EXCEPT ![r] = x]
  BY <1>1 DEF Report, RunState
<1>3. x \in RunState /\ x.stage = "reporting" /\ x.job = run[r].job
  BY <1>1, <1>2 DEF RunState, Stages
<1>4. RunsTyped' /\ run'[r] = x /\ \A s \in Runs \ {r} : run'[s] = run[s]
  BY <1>1, <1>2, <1>3, CallType
<1> QED BY <1>3, <1>4 DEF Others
-----------------------------------------------------------------------------
(* What a call does to its row and to itself: it reports and releases,      *)
(* enters another stage, fails the install, or moves it.                    *)
Left(r) ==
    /\ Others(r) /\ run'[r].stage = "reporting"
    /\ lease' = (IF owner = r THEN 0 ELSE lease) /\ UNCHANGED <<state, target, owner, escrow>>
Entered(r, stage) ==
    /\ Others(r) /\ run'[r].stage = stage /\ run'[r].state = run[r].state
    /\ \/ lease' = lease
       \/ owner = r /\ lease' = LeaseMinutes
    /\ UNCHANGED <<state, target, owner, escrow>>
FailedBy(r) ==
    /\ Fenced(r) /\ Others(r) /\ run'[r].stage = "cleaning" /\ run'[r].state = run[r].state
    /\ state' = "cleanup_pending" /\ target' \in Failed /\ UNCHANGED <<owner, lease, escrow>>
MovedTo(r, to, kept) ==
    /\ Fenced(r) /\ Others(r) /\ run'[r].stage = "work" /\ run'[r].state = to
    /\ state' = to /\ escrow' = kept /\ UNCHANGED <<target, owner, lease>>
CallTyped == RowTyped' /\ RunsTyped'

LEMMA LeaveEffect ==
  ASSUME InstallTypeOK, NEW r \in Runs, NEW outcome \in {"ack", "retry", "deadLetter"},
         NEW delay \in Delays, Leave(r, outcome, delay), run[r].stage # "idle"
  PROVE  Left(r) /\ CallTyped
<1>1. RunsTyped' /\ Others(r) /\ run'[r].stage = "reporting"
  BY ReportEffect DEF Leave
<1>2. RowTyped'
  BY InstallTypeParts, BoundsAre DEF Leave, Release, RowTyped
<1> QED BY <1>1, <1>2 DEF Left, CallTyped, Leave, Release

LEMMA EnteredEffect ==
  ASSUME InstallTypeOK, NEW r \in Runs, NEW stage \in Stages, Enter(r, stage),
         run[r].stage # "idle", stage = "polled" => PollsLeft(r),
         UNCHANGED <<state, target, owner, escrow>>, lease' = lease \/ (owner = r /\ lease' = LeaseMinutes)
  PROVE  Entered(r, stage) /\ CallTyped
<1>1. RunsTyped' /\ Others(r) /\ run'[r].stage = stage /\ run'[r].state = run[r].state
  BY EnterEffect
<1>2. RowTyped'
  BY InstallTypeParts, BoundsAre DEF RowTyped
<1> QED BY <1>1, <1>2 DEF Entered, CallTyped

LEMMA FailEffect ==
  ASSUME InstallTypeOK, NEW r \in Runs, NEW to \in Failed, Fail(r, to), run[r].stage # "idle"
  PROVE  (Left(r) \/ FailedBy(r)) /\ CallTyped
<1>1. CASE ~Fenced(r)
  BY <1>1, LeaveEffect, BoundsAre DEF Fail
<1>2. CASE Fenced(r)
  <2>1. /\ state' = "cleanup_pending" /\ target' = to /\ Enter(r, "cleaning")
        /\ UNCHANGED <<owner, lease, escrow>>
    BY <1>2 DEF Fail
  <2>2. RunsTyped' /\ Others(r) /\ run'[r].stage = "cleaning" /\ run'[r].state = run[r].state
    BY <2>1, EnterEffect DEF Stages
  <2>3. RowTyped'
    BY <2>1, InstallTypeParts DEF RowTyped, States, Failed, None
  <2> QED BY <1>2, <2>1, <2>2, <2>3 DEF FailedBy, CallTyped
<1> QED BY <1>1, <1>2

LEMMA RetryOrFailEffect ==
  ASSUME InstallTypeOK, NEW r \in Runs, NEW to \in Failed, RetryOrFail(r, to), run[r].stage # "idle"
  PROVE  (Left(r) \/ FailedBy(r)) /\ CallTyped
<1>1. Backoff(Attempts(r)) \in Delays
  BY DelaysAre, InstallTypeParts DEF RunsTyped, RunState, Attempts
<1> QED BY <1>1, FailEffect, LeaveEffect DEF RetryOrFail

LEMMA MoveEffect ==
  ASSUME InstallTypeOK, NEW r \in Runs, NEW to \in States \ {"cleanup_pending"},
         NEW kept \in BOOLEAN, Move(r, to, kept), run[r].stage # "idle"
  PROVE  (Left(r) \/ MovedTo(r, to, kept)) /\ CallTyped
<1>1. CASE ~Fenced(r)
  BY <1>1, LeaveEffect, BoundsAre DEF Move
<1>2. CASE Fenced(r)
  <2>1. /\ state' = to /\ escrow' = kept /\ owner' = r /\ UNCHANGED <<target, lease>>
        /\ run' = [run EXCEPT ![r].stage = "work", ![r].state = to]
    BY <1>2 DEF Move
  <2>2. run[r] \in RunState /\ run[r].job \in Jobs
    BY InstallTypeParts DEF RunsTyped, Message
  <2>3. PICK x \in {[run[r] EXCEPT !.stage = "work", !.state = to]} : run' = [run EXCEPT ![r] = x]
    BY <2>1, <2>2 DEF RunState
  <2>4. x \in RunState /\ x.stage = "work" /\ x.state = to /\ x.job = run[r].job
    BY <2>2, <2>3 DEF RunState, Stages
  <2>5. RunsTyped' /\ run'[r] = x /\ \A s \in Runs \ {r} : run'[s] = run[s]
    BY <2>2, <2>3, <2>4, CallType
  <2>6. RowTyped'
    BY <2>1, InstallTypeParts DEF RowTyped
  <2> QED BY <1>2, <2>1, <2>4, <2>5, <2>6 DEF MovedTo, CallTyped, Fenced, Others
<1> QED BY <1>1, <1>2
(* What each action of a call does, in these terms.                         *)
LEMMA ActionEffects ==
  ASSUME InstallTypeOK, NEW r \in Runs
  PROVE  /\ IssueCredentials(r) =>
              (Left(r) \/ MovedTo(r, "credentials_issued", TRUE)) /\ CallTyped
         /\ LoadCredentials(r) => (Left(r) \/ Entered(r, "loaded")) /\ CallTyped
         /\ EnsureAssistant(r) => Entered(r, "ensured") /\ CallTyped
         /\ CreateProject(r) => (Left(r) \/ FailedBy(r) \/ Entered(r, "created")) /\ CallTyped
         /\ RecordProject(r) => (Left(r) \/ MovedTo(r, "project_created", escrow)) /\ CallTyped
         /\ Prepare(r) => (Left(r) \/ FailedBy(r) \/ Entered(r, "prepared")) /\ CallTyped
         /\ Upload(r) => (Left(r) \/ FailedBy(r) \/ MovedTo(r, "artifact_uploaded", escrow)) /\ CallTyped
         /\ CreateDeployment(r) => (Left(r) \/ FailedBy(r) \/ Entered(r, "deployed")) /\ CallTyped
         /\ RecordDeployment(r) => (Left(r) \/ MovedTo(r, "deployment_created", escrow)) /\ CallTyped
         /\ AwaitBuild(r) => (Left(r) \/ MovedTo(r, "build_pending", escrow)) /\ CallTyped
         /\ PollBuild(r) => /\ \/ Left(r) \/ FailedBy(r) \/ Entered(r, "polled")
                               \/ MovedTo(r, "bootstrap_pending", escrow)
                            /\ CallTyped
<1>1. RowTyped /\ RunsTyped /\ escrow \in BOOLEAN /\ 0 \in Delays
  BY InstallTypeParts, BoundsAre DEF RowTyped
<1>2. ThrowBackoff(Attempts(r)) \in Delays
  BY <1>1, DelaysAre DEF RunsTyped, RunState, Attempts
<1>3. {"build_failed", "verification_failed", "cleanup_required"} \subseteq Failed
  BY DEF Failed
<1>4. Path \subseteq States \ {"cleanup_pending"}
  BY DEF States, Path
<1>a. ASSUME IssueCredentials(r)
      PROVE  (Left(r) \/ MovedTo(r, "credentials_issued", TRUE)) /\ CallTyped
  <2>1. run[r].stage # "idle" /\ Move(r, "credentials_issued", TRUE)
    BY <1>a DEF IssueCredentials, At
  <2> QED BY <2>1, <1>4, MoveEffect DEF Path
<1>b. ASSUME LoadCredentials(r) PROVE (Left(r) \/ Entered(r, "loaded")) /\ CallTyped
  <2>1. run[r].stage # "idle" /\ \/ Enter(r, "loaded") /\ UNCHANGED row
                                 \/ Leave(r, "retry", ThrowBackoff(Attempts(r)))
    BY <1>b DEF LoadCredentials, At
  <2> QED BY <2>1, <1>2, LeaveEffect, EnteredEffect DEF row, Stages
<1>c. ASSUME EnsureAssistant(r) PROVE Entered(r, "ensured") /\ CallTyped
  <2>1. run[r].stage # "idle" /\ Enter(r, "ensured") /\ UNCHANGED row
    BY <1>c DEF EnsureAssistant, At
  <2> QED BY <2>1, EnteredEffect DEF row, Stages
<1>d. ASSUME CreateProject(r) PROVE (Left(r) \/ FailedBy(r) \/ Entered(r, "created")) /\ CallTyped
  <2>1. /\ run[r].stage # "idle"
        /\ \/ Fail(r, "build_failed") \/ Fail(r, "cleanup_required")
           \/ Enter(r, "created") /\ UNCHANGED row
           \/ RetryOrFail(r, "build_failed")
    BY <1>d DEF CreateProject, At
  <2>2. CASE Enter(r, "created") /\ UNCHANGED row
    BY <2>1, <2>2, EnteredEffect DEF row, Stages
  <2> QED BY <2>1, <2>2, <1>3, FailEffect, RetryOrFailEffect
<1>e. ASSUME RecordProject(r)
      PROVE  (Left(r) \/ MovedTo(r, "project_created", escrow)) /\ CallTyped
  <2>1. run[r].stage # "idle" /\ Move(r, "project_created", escrow)
    BY <1>e DEF RecordProject, At
  <2> QED BY <2>1, <1>1, <1>4, MoveEffect DEF Path
<1>f. ASSUME Prepare(r) PROVE (Left(r) \/ FailedBy(r) \/ Entered(r, "prepared")) /\ CallTyped
  <2>1. /\ run[r].stage # "idle"
        /\ \/ Fail(r, "build_failed") \/ RetryOrFail(r, "build_failed")
           \/ RenewThen(r, Enter(r, "prepared") /\ UNCHANGED <<state, target, owner, escrow>>)
    BY <1>f DEF Prepare, At
  <2>2. CASE RenewThen(r, Enter(r, "prepared") /\ UNCHANGED <<state, target, owner, escrow>>)
    BY <2>1, <2>2, <1>1, EnteredEffect, LeaveEffect DEF RenewThen, Renewed, Stages
  <2> QED BY <2>1, <2>2, <1>3, FailEffect, RetryOrFailEffect
<1>g. ASSUME Upload(r)
      PROVE  (Left(r) \/ FailedBy(r) \/ MovedTo(r, "artifact_uploaded", escrow)) /\ CallTyped
  <2>1. /\ run[r].stage # "idle"
        /\ Move(r, "artifact_uploaded", escrow) \/ RetryOrFail(r, "build_failed")
    BY <1>g DEF Upload, At
  <2>2. CASE Move(r, "artifact_uploaded", escrow)
    BY <2>1, <2>2, <1>1, <1>4, MoveEffect DEF Path
  <2> QED BY <2>1, <2>2, <1>3, RetryOrFailEffect
<1>h. ASSUME CreateDeployment(r)
      PROVE  (Left(r) \/ FailedBy(r) \/ Entered(r, "deployed")) /\ CallTyped
  <2>1. /\ run[r].stage # "idle"
        /\ \/ Fail(r, "build_failed") \/ RetryOrFail(r, "build_failed")
           \/ RenewThen(r, Enter(r, "deployed") /\ UNCHANGED <<state, target, owner, escrow>>)
    BY <1>h DEF CreateDeployment, At
  <2>2. CASE RenewThen(r, Enter(r, "deployed") /\ UNCHANGED <<state, target, owner, escrow>>)
    BY <2>1, <2>2, <1>1, EnteredEffect, LeaveEffect DEF RenewThen, Renewed, Stages
  <2> QED BY <2>1, <2>2, <1>3, FailEffect, RetryOrFailEffect
<1>i. ASSUME RecordDeployment(r)
      PROVE  (Left(r) \/ MovedTo(r, "deployment_created", escrow)) /\ CallTyped
  <2>1. run[r].stage # "idle" /\ Move(r, "deployment_created", escrow)
    BY <1>i DEF RecordDeployment, At
  <2> QED BY <2>1, <1>1, <1>4, MoveEffect DEF Path
<1>j. ASSUME AwaitBuild(r) PROVE (Left(r) \/ MovedTo(r, "build_pending", escrow)) /\ CallTyped
  <2>1. run[r].stage # "idle" /\ Move(r, "build_pending", escrow)
    BY <1>j DEF AwaitBuild, At
  <2> QED BY <2>1, <1>1, <1>4, MoveEffect DEF Path
<1>k. ASSUME PollBuild(r)
      PROVE  /\ \/ Left(r) \/ FailedBy(r) \/ Entered(r, "polled")
                \/ MovedTo(r, "bootstrap_pending", escrow)
             /\ CallTyped
  <2> DEFINE Poll == PollsLeft(r) /\ Enter(r, "polled") /\ UNCHANGED <<state, target, owner, escrow>>
  <2>1. /\ run[r].stage # "idle"
        /\ \/ Fail(r, "build_failed") \/ Move(r, "bootstrap_pending", escrow)
           \/ RenewThen(r, Poll)
    BY <1>k DEF PollBuild, At
  <2>2. CASE RenewThen(r, Poll)
    BY <2>1, <2>2, <1>1, EnteredEffect, LeaveEffect DEF RenewThen, Renewed, Stages
  <2>3. CASE Move(r, "bootstrap_pending", escrow)
    BY <2>1, <2>3, <1>1, <1>4, MoveEffect DEF Path
  <2> QED BY <2>1, <2>2, <2>3, <1>3, FailEffect
<1> QED BY <1>a, <1>b, <1>c, <1>d, <1>e, <1>f, <1>g, <1>h, <1>i, <1>j, <1>k

LEMMA LateActionEffects ==
  ASSUME InstallTypeOK, NEW r \in Runs
  PROVE  /\ \A j \in Jobs : EnqueuePoll(r, j) => Left(r) /\ CallTyped
         /\ Challenge(r) => /\ \/ (Left(r) \/ FailedBy(r)) /\ proved' = proved
                               \/ Entered(r, "proved") /\ proved' = TRUE
                            /\ CallTyped
         /\ CreateEndpoint(r) => /\ \/ (Left(r) \/ FailedBy(r)) /\ endpoint' = endpoint
                                    \/ Entered(r, "registered")
                                 /\ CallTyped
         /\ RecordEndpoint(r) => (Left(r) \/ MovedTo(r, "endpoint_verified", escrow)) /\ CallTyped
         /\ Promote(r) => Entered(r, "promoted") /\ CallTyped
         /\ Activate(r) => (Left(r) \/ MovedTo(r, "active", FALSE)) /\ CallTyped
         /\ Done(r) => Left(r) /\ CallTyped
         /\ ResumeCleanup(r) => Entered(r, "cleaning") /\ CallTyped
         /\ Revoke(r) => /\ \/ Left(r) /\ assistant' = assistant
                            \/ Entered(r, "revoked") /\ assistant' # "active"
                         /\ CallTyped
<1>1. RowTyped /\ RunsTyped /\ escrow \in BOOLEAN /\ 0 \in Delays /\ LeaseMinutes \in Delays
  BY InstallTypeParts, BoundsAre DEF RowTyped
<1>2. ThrowBackoff(Attempts(r)) \in Delays
  BY <1>1, DelaysAre DEF RunsTyped, RunState, Attempts
<1>3. {"build_failed", "verification_failed", "cleanup_required"} \subseteq Failed
  BY DEF Failed
<1>a. ASSUME NEW j \in Jobs, EnqueuePoll(r, j) PROVE Left(r) /\ CallTyped
  <2>1. run[r].stage # "idle" /\ Leave(r, "ack", 0)
    BY <1>a DEF EnqueuePoll, At
  <2> QED BY <2>1, <1>1, LeaveEffect
<1>b. ASSUME Challenge(r)
      PROVE  /\ \/ (Left(r) \/ FailedBy(r)) /\ proved' = proved
                \/ Entered(r, "proved") /\ proved' = TRUE
             /\ CallTyped
  <2>1. /\ run[r].stage # "idle"
        /\ \/ Leave(r, "retry", ThrowBackoff(Attempts(r))) /\ proved' = proved
           \/ Fail(r, "verification_failed") /\ proved' = proved
           \/ proved' = TRUE /\ Enter(r, "proved") /\ UNCHANGED row
    BY <1>b DEF Challenge, At
  <2>2. CASE proved' = TRUE /\ Enter(r, "proved") /\ UNCHANGED row
    BY <2>1, <2>2, EnteredEffect DEF row, Stages
  <2> QED BY <2>1, <2>2, <1>2, <1>3, FailEffect, LeaveEffect
<1>c. ASSUME CreateEndpoint(r)
      PROVE  /\ \/ (Left(r) \/ FailedBy(r)) /\ endpoint' = endpoint
                \/ Entered(r, "registered")
             /\ CallTyped
  <2>1. /\ run[r].stage # "idle"
        /\ \/ Fail(r, "cleanup_required") /\ endpoint' = endpoint
           \/ Enter(r, "registered") /\ UNCHANGED row
    BY <1>c DEF CreateEndpoint, At, None
  <2>2. CASE Enter(r, "registered") /\ UNCHANGED row
    BY <2>1, <2>2, EnteredEffect DEF row, Stages
  <2> QED BY <2>1, <2>2, <1>3, FailEffect
<1>d. ASSUME RecordEndpoint(r)
      PROVE  (Left(r) \/ MovedTo(r, "endpoint_verified", escrow)) /\ CallTyped
  <2>1. run[r].stage # "idle" /\ Move(r, "endpoint_verified", escrow)
    BY <1>d DEF RecordEndpoint, At
  <2> QED BY <2>1, <1>1, MoveEffect DEF States, Path
<1>e. ASSUME Promote(r) PROVE Entered(r, "promoted") /\ CallTyped
  <2>1. run[r].stage # "idle" /\ Enter(r, "promoted") /\ UNCHANGED row
    BY <1>e DEF Promote, At
  <2> QED BY <2>1, EnteredEffect DEF row, Stages
<1>f. ASSUME Activate(r) PROVE (Left(r) \/ MovedTo(r, "active", FALSE)) /\ CallTyped
  <2>1. run[r].stage # "idle" /\ Move(r, "active", FALSE)
    BY <1>f DEF Activate, At
  <2> QED BY <2>1, MoveEffect DEF States
<1>g. ASSUME Done(r) PROVE Left(r) /\ CallTyped
  <2>1. run[r].stage # "idle" /\ Leave(r, "ack", 0)
    BY <1>g DEF Done
  <2> QED BY <2>1, <1>1, LeaveEffect
<1>h. ASSUME ResumeCleanup(r) PROVE Entered(r, "cleaning") /\ CallTyped
  <2>1. run[r].stage # "idle" /\ Enter(r, "cleaning") /\ UNCHANGED row
    BY <1>h DEF ResumeCleanup, At
  <2> QED BY <2>1, EnteredEffect DEF row, Stages
<1>i. ASSUME Revoke(r)
      PROVE  /\ \/ Left(r) /\ assistant' = assistant
                \/ Entered(r, "revoked") /\ assistant' # "active"
             /\ CallTyped
  <2>1. /\ run[r].stage # "idle"
        /\ \/ Leave(r, "retry", LeaseMinutes) /\ assistant' = assistant
           \/ Enter(r, "revoked") /\ assistant' # "active" /\ UNCHANGED row
    BY <1>i DEF Revoke, Revoked
  <2>2. CASE Enter(r, "revoked") /\ assistant' # "active" /\ UNCHANGED row
    BY <2>1, <2>2, EnteredEffect DEF row, Stages
  <2> QED BY <2>1, <2>2, <1>1, LeaveEffect
<1> QED BY <1>a, <1>b, <1>c, <1>d, <1>e, <1>f, <1>g, <1>h, <1>i
(* A job may be handed out, given back or finished.                         *)
LEMMA JobType ==
  ASSUME InstallTypeOK, NEW j \in Jobs, NEW y \in JobState, job' = [job EXCEPT ![j] = y]
  PROVE  JobsTyped'
BY InstallTypeParts DEF JobsTyped

LEMMA NewJobType ==
  ASSUME NEW polls \in Polls, NEW due \in Delays
  PROVE  NewJob(polls, due) \in JobState
<1>1. PICK y \in {[NoJob EXCEPT !.stage = "waiting", !.polls = polls, !.due = due]} : TRUE
  OBVIOUS
<1>2. y \in JobState
  BY <1>1, NothingIsTyped DEF JobState
<1> QED BY <1>1, <1>2 DEF NewJob

Claimed(r) ==
    /\ Others(r) /\ run[r].stage = "idle" /\ UNCHANGED <<state, target, escrow>>
    /\ \/ run'[r].stage = "reporting" /\ UNCHANGED <<owner, lease>>
       \/ /\ lease = 0 /\ run'[r].stage = "work" /\ run'[r].state = state
          /\ owner' = r /\ lease' = LeaseMinutes

LEMMA ClaimEffect ==
  ASSUME InstallTypeOK, NEW r \in Runs, NEW j \in Jobs, Claim(r, j)
  PROVE  Claimed(r) /\ CallTyped /\ JobsTyped'
<1>1. /\ RowTyped /\ job[j] \in JobState /\ job \in [Jobs -> JobState] /\ lease \in Nat
      /\ job[j].attempts + 1 \in Nat
  BY InstallTypeParts DEF JobsTyped, RowTyped, JobState, Delays
<1>2. /\ job' = [job EXCEPT ![j].stage = "running", ![j].run = r, ![j].attempts = @ + 1]
      /\ run[r].stage = "idle" /\ UNCHANGED <<state, target, escrow>>
  BY DEF Claim
<1>3. PICK y \in {[job[j] EXCEPT !.stage = "running", !.run = r, !.attempts = @ + 1]} :
        job' = [job EXCEPT ![j] = y]
  BY <1>1, <1>2 DEF JobState
<1>4. y \in JobState
  BY <1>1, <1>3 DEF JobState
<1>5. JobsTyped'
  BY <1>3, <1>4, JobType
<1>6. PICK h \in {Handed(j)} : TRUE
  OBVIOUS
<1>7. h \in RunState /\ h.job = j
  BY <1>1, <1>6, NothingIsTyped DEF Handed, RunState, JobState
<1>8. CASE lease > 0
  <2>1. PICK delay \in Delays : delay = Backoff(job[j].attempts + 1)
    BY <1>1, DelaysAre
  <2>2. /\ run' = [run EXCEPT ![r] = [h EXCEPT !.stage = "reporting", !.outcome = WhenHeld,
                                               !.delay = delay]]
        /\ UNCHANGED <<owner, lease>>
    BY <1>8, <1>6, <2>1 DEF Claim
  <2>3. PICK x \in {[h EXCEPT !.stage = "reporting", !.outcome = WhenHeld, !.delay = delay]} :
          run' = [run EXCEPT ![r] = x]
    BY <2>2
  <2>4. x \in RunState /\ x.stage = "reporting" /\ x.job = j
    BY <1>7, <2>3 DEF RunState, Stages, WhenHeld
  <2>5. RunsTyped' /\ run'[r] = x /\ \A s \in Runs \ {r} : run'[s] = run[s]
    BY <2>3, <2>4, CallType
  <2>6. RowTyped'
    BY <1>1, <1>2, <2>2 DEF RowTyped
  <2> QED BY <1>2, <1>5, <2>2, <2>4, <2>5, <2>6 DEF Claimed, Others, CallTyped
<1>9. CASE ~(lease > 0)
  <2>1. /\ run' = [run EXCEPT ![r] = [h EXCEPT !.stage = "work", !.state = state]]
        /\ owner' = r /\ lease' = LeaseMinutes
    BY <1>9, <1>6 DEF Claim
  <2>2. PICK x \in {[h EXCEPT !.stage = "work", !.state = state]} : run' = [run EXCEPT ![r] = x]
    BY <2>1
  <2>3. x \in RunState /\ x.stage = "work" /\ x.job = j /\ x.state = state
    BY <1>1, <1>7, <2>2 DEF RunState, Stages, RowTyped
  <2>4. RunsTyped' /\ run'[r] = x /\ \A s \in Runs \ {r} : run'[s] = run[s]
    BY <2>2, <2>3, CallType
  <2>5. RowTyped'
    BY <1>1, <1>2, <2>1, BoundsAre DEF RowTyped
  <2>6. lease = 0
    BY <1>1, <1>9
  <2> QED BY <1>2, <1>5, <2>1, <2>3, <2>4, <2>5, <2>6 DEF Claimed, Others, CallTyped
<1> QED BY <1>8, <1>9

(* A call that is over, settled or killed, owns nothing.                    *)
Over(r) ==
    /\ Others(r) /\ run'[r].stage = "idle"
    /\ owner' = (IF owner = r THEN None ELSE owner) /\ UNCHANGED <<state, target, lease, escrow>>

LEMMA OverEffect ==
  ASSUME InstallTypeOK, NEW r \in Runs, run[r].stage # "idle", run' = [run EXCEPT ![r] = NoRun],
         owner' = (IF owner = r THEN None ELSE owner), UNCHANGED <<state, target, lease, escrow>>
  PROVE  Over(r) /\ CallTyped
<1>1. NoRun \in RunState /\ NoRun.stage = "idle"
  BY NothingIsTyped DEF NoRun
<1>2. RunsTyped' /\ run'[r] = NoRun /\ \A s \in Runs \ {r} : run'[s] = run[s]
  BY <1>1, CallType
<1>3. RowTyped'
  BY InstallTypeParts DEF RowTyped
<1> QED BY <1>1, <1>2, <1>3 DEF Over, Others, CallTyped

LEMMA SettleEffect ==
  ASSUME InstallTypeOK, NEW r \in Runs, Settle(r)
  PROVE  Over(r) /\ CallTyped /\ JobsTyped'
<1>1. /\ run[r] \in RunState /\ run[r].stage = "reporting" /\ run[r].job \in Jobs
      /\ run[r].delay \in Delays /\ JobsTyped
  BY InstallTypeParts DEF RunsTyped, Message, RunState, Settle
<1>2. Over(r) /\ CallTyped
  BY <1>1, OverEffect DEF Settle
<1>3. JobsTyped'
  <2> DEFINE j == run[r].job
  <2>1. \/ job' = job
        \/ job' = [job EXCEPT ![j].stage = "waiting", ![j].run = None, ![j].due = run[r].delay]
        \/ job' = [job EXCEPT ![j] = NoJob]
    BY DEF Settle
  <2>2. CASE job' = [job EXCEPT ![j].stage = "waiting", ![j].run = None, ![j].due = run[r].delay]
    <3>1. PICK y \in {[job[j] EXCEPT !.stage = "waiting", !.run = None, !.due = run[r].delay]} :
            job' = [job EXCEPT ![j] = y]
      BY <1>1, <2>2 DEF JobsTyped, JobState
    <3>2. y \in JobState
      <4>1. PICK delay \in Delays : delay = run[r].delay
        BY <1>1
      <4>2. job[j] \in JobState
        BY <1>1 DEF JobsTyped
      <4> QED BY <3>1, <4>1, <4>2 DEF JobState
    <3> QED BY <1>1, <3>1, <3>2, JobType
  <2> QED BY <1>1, <2>1, <2>2, NothingIsTyped, JobType DEF JobsTyped
<1> QED BY <1>2, <1>3

LEMMA KillEffect ==
  ASSUME InstallTypeOK, NEW r \in Runs, Kill(r)
  PROVE  Over(r) /\ CallTyped /\ JobsTyped'
<1>1. run[r].stage # "idle" /\ run[r].job \in Jobs /\ JobsTyped
  BY InstallTypeParts DEF RunsTyped, Message, Kill
<1>2. Over(r) /\ CallTyped
  BY <1>1, OverEffect DEF Kill
<1>3. JobsTyped'
  <2> DEFINE j == run[r].job
             due == IF job[j].stage = "running" THEN 1 ELSE job[j].due
  <2>1. \/ job' = job
        \/ job' = [job EXCEPT ![j].stage = "waiting", ![j].run = None, ![j].due =
                                IF job[j].stage = "running" THEN 1 ELSE @]
    BY DEF Kill
  <2>2. CASE job' # job
    <3>1. job[j] \in JobState /\ due \in Delays
      BY <1>1, BoundsAre DEF JobsTyped, JobState
    <3>2. PICK y \in {[job[j] EXCEPT !.stage = "waiting", !.run = None, !.due = due]} :
            job' = [job EXCEPT ![j] = y]
      BY <1>1, <2>1, <2>2, <3>1 DEF JobsTyped, JobState
    <3>3. y \in JobState
      BY <3>1, <3>2 DEF JobState
    <3> QED BY <1>1, <3>2, <3>3, JobType
  <2> QED BY <1>1, <2>2 DEF JobsTyped
<1> QED BY <1>2, <1>3
(* The end of a cleanup, and a throw: the lease is released, or not.        *)
Threw(r) ==
    /\ Others(r) /\ run'[r].stage = "reporting"
    /\ lease' = lease \/ (owner = r /\ lease' = 0)
    /\ UNCHANGED <<state, target, owner, escrow>>
Cleaned(r) ==
    /\ Others(r) /\ run'[r].stage = "reporting" /\ run[r].stage = "revoked"
    /\ lease' = (IF owner = r THEN 0 ELSE lease) /\ UNCHANGED <<target, owner>>
    /\ \/ UNCHANGED <<state, escrow>>
       \/ owner = r /\ state = "cleanup_pending" /\ state' = target /\ target \in Failed /\ escrow' = FALSE

LEMMA ThrowEffect ==
  ASSUME InstallTypeOK, NEW r \in Runs, Throw(r)
  PROVE  Threw(r) /\ CallTyped
<1>1. RowTyped /\ run[r].stage # "idle" /\ ThrowBackoff(Attempts(r)) \in Delays /\ 0 \in Delays
  BY InstallTypeParts, DelaysAre, BoundsAre DEF RunsTyped, RunState, Attempts, Throw
<1>2. RunsTyped' /\ Others(r) /\ run'[r].stage = "reporting"
  BY <1>1, ReportEffect DEF Throw
<1>3. /\ lease' = lease \/ (owner = r /\ lease' = 0)
      /\ UNCHANGED <<state, target, owner, escrow>>
  BY DEF Throw, FinallyReleases, Release
<1>4. RowTyped'
  BY <1>1, <1>3 DEF RowTyped
<1> QED BY <1>2, <1>3, <1>4 DEF Threw, CallTyped

LEMMA FinishEffect ==
  ASSUME InstallTypeOK, NEW r \in Runs, FinishCleanup(r)
  PROVE  Cleaned(r) /\ CallTyped
<1>1. RowTyped /\ run[r].stage = "revoked" /\ 0 \in Delays
  BY InstallTypeParts, BoundsAre DEF FinishCleanup
<1>2. RunsTyped' /\ Others(r) /\ run'[r].stage = "reporting"
  BY <1>1, ReportEffect DEF FinishCleanup
<1>3. /\ lease' = (IF owner = r THEN 0 ELSE lease) /\ UNCHANGED <<target, owner>>
      /\ \/ UNCHANGED <<state, escrow>>
         \/ owner = r /\ state = "cleanup_pending" /\ state' = target /\ escrow' = FALSE
  BY DEF FinishCleanup, Release
<1>4. state = "cleanup_pending" => target \in Failed
  BY <1>1 DEF RowTyped
<1>5. RowTyped'
  BY <1>1, <1>3, <1>4 DEF RowTyped, States, Failed
<1> QED BY <1>1, <1>2, <1>3, <1>4, <1>5 DEF Cleaned, CallTyped

(* A minute takes one off each delay; a running job is due again.           *)
LEMMA MinuteEffect ==
  ASSUME InstallTypeOK, Minute
  PROVE  RowTyped' /\ JobsTyped'
<1>1. RowTyped /\ JobsTyped /\ LeaseMinutes \in Nat
  BY InstallTypeParts, BoundsAre
<1>2. \A d \in Delays : (IF d = 0 THEN 0 ELSE d - 1) \in Delays
  BY <1>1 DEF Delays
<1>3. RowTyped'
  BY <1>1, <1>2 DEF Minute, RowTyped
<1>4. ASSUME NEW j \in Jobs PROVE job'[j] \in JobState
  <2>1. job[j] \in JobState
    BY <1>1 DEF JobsTyped
  <2>2. CASE job[j].stage = "running"
    <3>1. PICK y \in {[job[j] EXCEPT !.stage = "waiting"]} : job'[j] = y
      BY <2>2 DEF Minute
    <3> QED BY <2>1, <3>1 DEF JobState
  <2>3. CASE job[j].stage # "running"
    <3>1. PICK due \in Delays : due = IF job[j].due = 0 THEN 0 ELSE job[j].due - 1
      BY <1>2, <2>1 DEF JobState
    <3>2. PICK y \in {[job[j] EXCEPT !.due = due]} : job'[j] = y
      BY <2>3, <3>1 DEF Minute
    <3> QED BY <2>1, <3>1, <3>2 DEF JobState
  <2> QED BY <2>2, <2>3
<1>5. job' = [j \in Jobs |-> job'[j]]
  BY DEF Minute
<1> QED BY <1>3, <1>4, <1>5 DEF JobsTyped
THEOREM InstallTypeCorrect == InstallSpec => []InstallTypeOK
<1>1. InstallInit => InstallTypeOK
  <2> SUFFICES ASSUME InstallInit PROVE InstallTypeOK
    OBVIOUS
  <2>1. RowTyped /\ ModuleTyped /\ GhostTyped
    BY BoundsAre DEF InstallInit, RowTyped, ModuleTyped, GhostTyped, States, Path, None
  <2>2. RunsTyped
    BY NothingIsTyped DEF InstallInit, RunsTyped, Message, NoRun
  <2>3. JobsTyped
    BY NothingIsTyped, NewJobType, BoundsAre DEF InstallInit, JobsTyped
  <2> QED BY <2>1, <2>2, <2>3, InstallTypeParts
<1>2. InstallTypeOK /\ [InstallNext]_installVars => InstallTypeOK'
  <2> SUFFICES ASSUME InstallTypeOK, [InstallNext]_installVars PROVE InstallTypeOK'
    OBVIOUS
  <2> USE DEF module, remote, ghost
  <2>0. RowTyped /\ ModuleTyped /\ JobsTyped /\ RunsTyped /\ GhostTyped
    BY InstallTypeParts
  <2>1. CASE UNCHANGED installVars
    BY <2>0, <2>1, InstallTypePartsPrimed
       DEF installVars, row, RowTyped, ModuleTyped, JobsTyped, RunsTyped, Message, GhostTyped
  <2>2. CASE Minute
    BY <2>0, <2>2, MinuteEffect, InstallTypePartsPrimed
       DEF Minute, Fault, ModuleTyped, RunsTyped, Message, GhostTyped
  <2>3. CASE Disconnect
    BY <2>0, <2>3, InstallTypePartsPrimed
       DEF Disconnect, row, RowTyped, ModuleTyped, JobsTyped, RunsTyped, Message, GhostTyped
  <2>4. ASSUME NEW r \in Runs, Throw(r) PROVE InstallTypeOK'
    BY <2>0, <2>4, ThrowEffect, InstallTypePartsPrimed
       DEF Throw, Fault, CallTyped, ModuleTyped, JobsTyped, GhostTyped
  <2>5. ASSUME NEW r \in Runs, Kill(r) PROVE InstallTypeOK'
    <3>1. Fault /\ UNCHANGED <<module, remote, overrun>>
      BY <2>5 DEF Kill
    <3>2. ModuleTyped' /\ GhostTyped'
      BY <2>0, <3>1 DEF Fault, ModuleTyped, GhostTyped
    <3> QED BY <2>5, <3>2, KillEffect, InstallTypePartsPrimed DEF CallTyped
  <2>6. ASSUME NEW r \in Runs, NEW j \in Jobs, Claim(r, j) PROVE InstallTypeOK'
    BY <2>0, <2>6, ClaimEffect, InstallTypePartsPrimed DEF Claim, CallTyped, ModuleTyped, GhostTyped
  <2>7. ASSUME NEW r \in Runs, NEW j \in Jobs, EnqueuePoll(r, j) PROVE InstallTypeOK'
    <3>1. CallTyped
      BY <2>7, LateActionEffects
    <3>2. run[r].polls + 1 \in Polls /\ 1 \in Delays
      BY <2>0, <2>7, BoundsAre DEF EnqueuePoll, At, RunsTyped, RunState, Message, Polls
    <3>3. JobsTyped'
      BY <2>7, <3>2, NewJobType, JobType DEF EnqueuePoll
    <3> QED BY <2>0, <2>7, <3>1, <3>3, InstallTypePartsPrimed DEF EnqueuePoll, CallTyped, ModuleTyped, GhostTyped
  <2>8. ASSUME NEW r \in Runs, Settle(r) PROVE InstallTypeOK'
    BY <2>0, <2>8, SettleEffect, InstallTypePartsPrimed DEF Settle, CallTyped, ModuleTyped, GhostTyped
  <2>9. ASSUME NEW r \in Runs, FinishCleanup(r) PROVE InstallTypeOK'
    BY <2>0, <2>9, FinishEffect, InstallTypePartsPrimed
       DEF FinishCleanup, CallTyped, ModuleTyped, JobsTyped, GhostTyped
  <2>10. ASSUME NEW r \in Runs,
                IssueCredentials(r) \/ LoadCredentials(r) \/ EnsureAssistant(r) \/ RecordProject(r)
                \/ RecordDeployment(r) \/ AwaitBuild(r) \/ PollBuild(r)
         PROVE  InstallTypeOK'
    <3>1. CallTyped
      BY <2>10, ActionEffects
    <3>2. JobsTyped' /\ ModuleTyped' /\ GhostTyped'
      BY <2>0, <2>10 DEF IssueCredentials, LoadCredentials, EnsureAssistant, RecordProject,
         RecordDeployment, AwaitBuild, PollBuild, JobsTyped, ModuleTyped, GhostTyped
    <3> QED BY <3>1, <3>2, InstallTypePartsPrimed DEF CallTyped
  <2>11. ASSUME NEW r \in Runs,
                CreateProject(r) \/ Prepare(r) \/ Upload(r) \/ CreateDeployment(r)
         PROVE  InstallTypeOK'
    <3>1. CallTyped
      BY <2>11, ActionEffects
    <3>2. JobsTyped'
      BY <2>0, <2>11 DEF CreateProject, Prepare, Upload, CreateDeployment, JobsTyped
    <3>3. GhostTyped'
      BY <2>0, <2>11 DEF CreateProject, Prepare, Upload, CreateDeployment, Fault, GhostTyped
    <3>4. ModuleTyped'
      <4>1. CASE CreateProject(r)
        BY <2>0, <4>1 DEF CreateProject, ModuleTyped
      <4>2. CASE Prepare(r)
        BY <2>0, <4>2 DEF Prepare, ModuleTyped
      <4>3. CASE Upload(r)
        BY <2>0, <4>3 DEF Upload, ModuleTyped
      <4>4. CASE CreateDeployment(r)
        BY <2>0, <4>4 DEF CreateDeployment, ModuleTyped
      <4> QED BY <2>11, <4>1, <4>2, <4>3, <4>4
    <3> QED BY <3>1, <3>2, <3>3, <3>4, InstallTypePartsPrimed DEF CallTyped
  <2>12. ASSUME NEW r \in Runs,
                Challenge(r) \/ CreateEndpoint(r) \/ RecordEndpoint(r) \/ Promote(r)
                \/ Activate(r) \/ Done(r) \/ ResumeCleanup(r) \/ Revoke(r)
         PROVE  InstallTypeOK'
    <3>1. CallTyped
      BY <2>12, LateActionEffects
    <3>2. JobsTyped'
      BY <2>0, <2>12 DEF Challenge, CreateEndpoint, RecordEndpoint, Promote, Activate, Done, ResumeCleanup, Revoke, JobsTyped
    <3>3. GhostTyped'
      <4>1. CASE Revoke(r)
        BY <2>0, <4>1 DEF Revoke, Fault, GhostTyped
      <4>2. CASE ~Revoke(r)
        <5>1. UNCHANGED ghost
          BY <2>12, <4>2 DEF Challenge, CreateEndpoint, RecordEndpoint, Promote, Activate, Done,
             ResumeCleanup
        <5> QED BY <2>0, <5>1 DEF GhostTyped
      <4> QED BY <4>1, <4>2
    <3>4. ModuleTyped'
      <4>1. CASE Challenge(r)
        BY <2>0, <4>1 DEF Challenge, ModuleTyped
      <4>2. CASE CreateEndpoint(r)
        BY <2>0, <4>2 DEF CreateEndpoint, ModuleTyped
      <4>3. CASE RecordEndpoint(r)
        BY <2>0, <4>3 DEF RecordEndpoint, ModuleTyped
      <4>4. CASE Promote(r)
        BY <2>0, <4>4 DEF Promote, Promoted, ModuleTyped
      <4>5. CASE Activate(r)
        BY <2>0, <4>5 DEF Activate, ModuleTyped
      <4>6. CASE Done(r)
        BY <2>0, <4>6 DEF Done, ModuleTyped
      <4>7. CASE ResumeCleanup(r)
        BY <2>0, <4>7 DEF ResumeCleanup, ModuleTyped
      <4>8. CASE Revoke(r)
        BY <2>0, <4>8 DEF Revoke, Revoked, ModuleTyped
      <4> QED BY <2>12, <4>1, <4>2, <4>3, <4>4, <4>5, <4>6, <4>7, <4>8
    <3> QED BY <3>1, <3>2, <3>3, <3>4, InstallTypePartsPrimed DEF CallTyped
  <2> QED BY <2>1, <2>2, <2>3, <2>4, <2>5, <2>6, <2>7, <2>8, <2>9, <2>10, <2>11, <2>12
          DEF InstallNext, RunStep
<1> QED BY <1>1, <1>2, PTL DEF InstallSpec
-----------------------------------------------------------------------------
(* An active install is live: what an install at its state has behind it,   *)
(* and what a call at its stage may rely on, though its lease be lost.      *)
Ended == {"cleanup_pending"} \cup Failed
Live == {"endpoint_verified", "active"}
Working(r) == run[r].stage \notin {"idle", "reporting"}

Behind ==
    /\ state \in Live => proved
    /\ state \in (Path \cup {"active"}) \ {"planned", "credentials_issued"} => assistant = "active"
    /\ state = "active" => endpoint = "active"
    /\ endpoint = "active" => state \in Live

Reached(r) ==
    /\ run[r].stage \in {"cleaning", "revoked"} => state \in Ended
    /\ run[r].stage \in {"proved", "registered"} => proved
    /\ run[r].stage \in {"ensured", "created"} => assistant = "active" \/ state \in Ended
    /\ Working(r) /\ run[r].state = "endpoint_verified" => state \in Live
    /\ Working(r) /\ run[r].state = "cleanup_pending" => state \in Ended
    /\ run[r].stage = "promoted" => endpoint = "active"

Sound == Behind /\ \A r \in Runs : Reached(r)

(* A step that leaves the state alone.                                      *)
LEMMA SoundStays ==
  ASSUME Sound, NEW r \in Runs, Others(r), state' = state, Behind', Reached(r)',
         proved => proved', endpoint = "active" => endpoint' = "active",
         assistant = "active" => assistant' = "active" \/ state \in Ended
  PROVE  Sound'
BY DEF Sound, Reached, Others, Working

LEMMA SoundLeft ==
  ASSUME Sound, NEW r \in Runs, Others(r), state' = state, ~Working(r)', UNCHANGED <<module, proved>>
  PROVE  Sound'
<1>1. Reached(r)'
  BY DEF Reached, Working
<1>2. Behind'
  BY DEF Sound, Behind, module
<1> QED BY <1>1, <1>2, SoundStays DEF module

(* A step that enters the cleanup, or ends it.                              *)
LEMMA SoundEnds ==
  ASSUME Sound, NEW r \in Runs, Others(r), Reached(r)', state \notin Live, state' \in Ended,
         UNCHANGED <<assistant, proved>>, endpoint' = "active" => endpoint = "active"
  PROVE  Sound'
<1>1. Ended \cap (Path \cup {"active"}) = {} /\ Live \subseteq Path \cup {"active"}
  BY DEF Ended, Path, Failed, Live
<1>2. Behind'
  BY <1>1 DEF Sound, Behind
<1>3. \A s \in Runs \ {r} : Reached(s)'
  BY DEF Sound, Behind, Reached, Others, Working, Live
<1> QED BY <1>2, <1>3 DEF Sound

LEMMA SoundFails ==
  ASSUME Sound, NEW r \in Runs, FailedBy(r), run[r].state \notin Live,
         UNCHANGED <<assistant, proved>>, endpoint' = "active" => endpoint = "active"
  PROVE  Sound'
<1>1. state \notin Live /\ state' \in Ended /\ Reached(r)'
  BY DEF FailedBy, Fenced, Ended, Reached, Working, Live
<1> QED BY <1>1, SoundEnds DEF FailedBy

(* A move along the path.                                                   *)
LEMMA SoundMoves ==
  ASSUME Sound, NEW r \in Runs, NEW to, NEW kept, MovedTo(r, to, kept), UNCHANGED <<module, proved>>,
         run[r].state \in Path, to \in (Path \cup {"active"}) \ {"planned"},
         run[r].state = "endpoint_verified" <=> to = "active",
         to = "endpoint_verified" => proved,
         to # "credentials_issued" => assistant = "active",
         to = "active" => endpoint = "active"
  PROVE  Sound'
<1>1. Ended \cap (Path \cup {"active"}) = {} /\ Live \subseteq Path \cup {"active"} /\ "active" \notin Path
  BY DEF Ended, Path, Failed, Live
<1>2. state = run[r].state /\ state' = to /\ state \notin Ended
  BY <1>1 DEF MovedTo, Fenced
<1>3. Behind'
  BY <1>1, <1>2 DEF Sound, Behind, module, Live
<1>4. \A s \in Runs \ {r} : Reached(s)'
  BY <1>1, <1>2 DEF Sound, Reached, MovedTo, Others, Working, Live, module
<1>5. Reached(r)'
  BY <1>1, <1>2 DEF Reached, MovedTo, Live, Ended
<1> QED BY <1>3, <1>4, <1>5 DEF Sound
LEMMA SoundStep ==
  ASSUME InstallTypeOK, Sound, NEW r \in Runs, RunStep(r) \/ Throw(r) \/ Kill(r)
  PROVE  Sound'
<1>0. Sound /\ \A x : x \in Path => x \notin Ended
  BY DEF Ended, Path, Failed
<1>1. ASSUME IssueCredentials(r) PROVE Sound'
  <2>1. run[r].state = "planned" /\ run[r].stage = "work" /\ UNCHANGED <<module, proved>>
    BY <1>1 DEF IssueCredentials, At, module, remote
  <2>left. ASSUME Left(r) PROVE Sound'
    BY <2>1, <2>left, SoundLeft DEF Left, Working, module
  <2>moved. ASSUME MovedTo(r, "credentials_issued", TRUE) PROVE Sound'
    <3>1. run[r].state \in Path /\ state = run[r].state
      BY <2>1, <2>moved DEF MovedTo, Fenced, Path
    <3> QED BY <1>0, <2>1, <2>moved, <3>1, SoundMoves DEF Sound, Behind, Reached, Path, module
  <2> QED BY <1>1, <2>left, <2>moved, ActionEffects
<1>2. ASSUME LoadCredentials(r) PROVE Sound'
  <2>1. run[r].state = "credentials_issued" /\ run[r].stage = "work" /\ UNCHANGED <<module, proved>>
    BY <1>2 DEF LoadCredentials, At, module, remote
  <2>left. ASSUME Left(r) PROVE Sound'
    BY <2>1, <2>left, SoundLeft DEF Left, Working, module
  <2>entered. ASSUME Entered(r, "loaded") PROVE Sound'
    <3>1. state' = state /\ Others(r) /\ run'[r].stage = "loaded" /\ run'[r].state = run[r].state
      BY <2>entered DEF Entered
    <3>2. Behind'
      BY <1>0, <2>1, <2>entered, <3>1 DEF Sound, Behind, Reached, Working, Path, Live, Ended, Failed, module
    <3>3. Reached(r)'
      BY <2>1, <2>entered, <3>1 DEF Sound, Reached, Working, module, Ended, Live
    <3> QED BY <1>0, <2>1, <3>1, <3>2, <3>3, SoundStays DEF Sound, Reached, Ended, Live, module
  <2> QED BY <1>2, <2>left, <2>entered, ActionEffects
<1>3. ASSUME EnsureAssistant(r) PROVE Sound'
  <2>1. run[r].state = "credentials_issued" /\ run[r].stage = "loaded" /\ assistant' = "active" /\ UNCHANGED <<endpoint, proved>>
    BY <1>3 DEF EnsureAssistant, At, module, remote
  <2>entered. ASSUME Entered(r, "ensured") PROVE Sound'
    <3>1. state' = state /\ Others(r) /\ run'[r].stage = "ensured" /\ run'[r].state = run[r].state
      BY <2>entered DEF Entered
    <3>2. Behind'
      BY <1>0, <2>1, <2>entered, <3>1 DEF Sound, Behind, Reached, Working, Path, Live, Ended, Failed, module
    <3>3. Reached(r)'
      BY <2>1, <2>entered, <3>1 DEF Sound, Reached, Working, module, Ended, Live
    <3> QED BY <1>0, <2>1, <3>1, <3>2, <3>3, SoundStays DEF Sound, Reached, Ended, Live, module
  <2> QED BY <1>3, <2>entered, ActionEffects
<1>4. ASSUME CreateProject(r) PROVE Sound'
  <2>1. run[r].state = "credentials_issued" /\ run[r].stage = "ensured" /\ UNCHANGED <<module, proved>>
    BY <1>4 DEF CreateProject, At, module, remote
  <2>left. ASSUME Left(r) PROVE Sound'
    BY <2>1, <2>left, SoundLeft DEF Left, Working, module
  <2>failed. ASSUME FailedBy(r) PROVE Sound'
    BY <2>1, <2>failed, SoundFails DEF Live, module
  <2>entered. ASSUME Entered(r, "created") PROVE Sound'
    <3>1. state' = state /\ Others(r) /\ run'[r].stage = "created" /\ run'[r].state = run[r].state
      BY <2>entered DEF Entered
    <3>2. Behind'
      BY <1>0, <2>1, <2>entered, <3>1 DEF Sound, Behind, Reached, Working, Path, Live, Ended, Failed, module
    <3>3. Reached(r)'
      BY <2>1, <2>entered, <3>1 DEF Sound, Reached, Working, module, Ended, Live
    <3> QED BY <1>0, <2>1, <3>1, <3>2, <3>3, SoundStays DEF Sound, Reached, Ended, Live, module
  <2> QED BY <1>4, <2>left, <2>failed, <2>entered, ActionEffects
<1>5. ASSUME RecordProject(r) PROVE Sound'
  <2>1. run[r].state = "credentials_issued" /\ run[r].stage = "created" /\ UNCHANGED <<module, proved>>
    BY <1>5 DEF RecordProject, At, module, remote
  <2>left. ASSUME Left(r) PROVE Sound'
    BY <2>1, <2>left, SoundLeft DEF Left, Working, module
  <2>moved. ASSUME MovedTo(r, "project_created", escrow) PROVE Sound'
    <3>1. run[r].state \in Path /\ state = run[r].state
      BY <2>1, <2>moved DEF MovedTo, Fenced, Path
    <3> QED BY <1>0, <2>1, <2>moved, <3>1, SoundMoves DEF Sound, Behind, Reached, Path, module
  <2> QED BY <1>5, <2>left, <2>moved, ActionEffects
<1>6. ASSUME Prepare(r) PROVE Sound'
  <2>1. run[r].state = "project_created" /\ run[r].stage = "work" /\ UNCHANGED <<module, proved>>
    BY <1>6 DEF Prepare, At, module, remote
  <2>left. ASSUME Left(r) PROVE Sound'
    BY <2>1, <2>left, SoundLeft DEF Left, Working, module
  <2>failed. ASSUME FailedBy(r) PROVE Sound'
    BY <2>1, <2>failed, SoundFails DEF Live, module
  <2>entered. ASSUME Entered(r, "prepared") PROVE Sound'
    <3>1. state' = state /\ Others(r) /\ run'[r].stage = "prepared" /\ run'[r].state = run[r].state
      BY <2>entered DEF Entered
    <3>2. Behind'
      BY <1>0, <2>1, <2>entered, <3>1 DEF Sound, Behind, Reached, Working, Path, Live, Ended, Failed, module
    <3>3. Reached(r)'
      BY <2>1, <2>entered, <3>1 DEF Sound, Reached, Working, module, Ended, Live
    <3> QED BY <1>0, <2>1, <3>1, <3>2, <3>3, SoundStays DEF Sound, Reached, Ended, Live, module
  <2> QED BY <1>6, <2>left, <2>failed, <2>entered, ActionEffects
<1>7. ASSUME Upload(r) PROVE Sound'
  <2>1. run[r].state = "project_created" /\ run[r].stage = "prepared" /\ UNCHANGED <<module, proved>>
    BY <1>7 DEF Upload, At, module, remote
  <2>left. ASSUME Left(r) PROVE Sound'
    BY <2>1, <2>left, SoundLeft DEF Left, Working, module
  <2>failed. ASSUME FailedBy(r) PROVE Sound'
    BY <2>1, <2>failed, SoundFails DEF Live, module
  <2>moved. ASSUME MovedTo(r, "artifact_uploaded", escrow) PROVE Sound'
    <3>1. run[r].state \in Path /\ state = run[r].state
      BY <2>1, <2>moved DEF MovedTo, Fenced, Path
    <3> QED BY <1>0, <2>1, <2>moved, <3>1, SoundMoves DEF Sound, Behind, Reached, Path, module
  <2> QED BY <1>7, <2>left, <2>failed, <2>moved, ActionEffects
<1>8. ASSUME CreateDeployment(r) PROVE Sound'
  <2>1. run[r].state = "artifact_uploaded" /\ run[r].stage = "work" /\ UNCHANGED <<module, proved>>
    BY <1>8 DEF CreateDeployment, At, module, remote
  <2>left. ASSUME Left(r) PROVE Sound'
    BY <2>1, <2>left, SoundLeft DEF Left, Working, module
  <2>failed. ASSUME FailedBy(r) PROVE Sound'
    BY <2>1, <2>failed, SoundFails DEF Live, module
  <2>entered. ASSUME Entered(r, "deployed") PROVE Sound'
    <3>1. state' = state /\ Others(r) /\ run'[r].stage = "deployed" /\ run'[r].state = run[r].state
      BY <2>entered DEF Entered
    <3>2. Behind'
      BY <1>0, <2>1, <2>entered, <3>1 DEF Sound, Behind, Reached, Working, Path, Live, Ended, Failed, module
    <3>3. Reached(r)'
      BY <2>1, <2>entered, <3>1 DEF Sound, Reached, Working, module, Ended, Live
    <3> QED BY <1>0, <2>1, <3>1, <3>2, <3>3, SoundStays DEF Sound, Reached, Ended, Live, module
  <2> QED BY <1>8, <2>left, <2>failed, <2>entered, ActionEffects
<1>9. ASSUME RecordDeployment(r) PROVE Sound'
  <2>1. run[r].state = "artifact_uploaded" /\ run[r].stage = "deployed" /\ UNCHANGED <<module, proved>>
    BY <1>9 DEF RecordDeployment, At, module, remote
  <2>left. ASSUME Left(r) PROVE Sound'
    BY <2>1, <2>left, SoundLeft DEF Left, Working, module
  <2>moved. ASSUME MovedTo(r, "deployment_created", escrow) PROVE Sound'
    <3>1. run[r].state \in Path /\ state = run[r].state
      BY <2>1, <2>moved DEF MovedTo, Fenced, Path
    <3> QED BY <1>0, <2>1, <2>moved, <3>1, SoundMoves DEF Sound, Behind, Reached, Path, module
  <2> QED BY <1>9, <2>left, <2>moved, ActionEffects
<1>10. ASSUME AwaitBuild(r) PROVE Sound'
  <2>1. run[r].state = "deployment_created" /\ run[r].stage = "work" /\ UNCHANGED <<module, proved>>
    BY <1>10 DEF AwaitBuild, At, module, remote
  <2>left. ASSUME Left(r) PROVE Sound'
    BY <2>1, <2>left, SoundLeft DEF Left, Working, module
  <2>moved. ASSUME MovedTo(r, "build_pending", escrow) PROVE Sound'
    <3>1. run[r].state \in Path /\ state = run[r].state
      BY <2>1, <2>moved DEF MovedTo, Fenced, Path
    <3> QED BY <1>0, <2>1, <2>moved, <3>1, SoundMoves DEF Sound, Behind, Reached, Path, module
  <2> QED BY <1>10, <2>left, <2>moved, ActionEffects
<1>11. ASSUME PollBuild(r) PROVE Sound'
  <2>1. run[r].state = "build_pending" /\ run[r].stage = "work" /\ UNCHANGED <<module, proved>>
    BY <1>11 DEF PollBuild, At, module, remote
  <2>left. ASSUME Left(r) PROVE Sound'
    BY <2>1, <2>left, SoundLeft DEF Left, Working, module
  <2>failed. ASSUME FailedBy(r) PROVE Sound'
    BY <2>1, <2>failed, SoundFails DEF Live, module
  <2>entered. ASSUME Entered(r, "polled") PROVE Sound'
    <3>1. state' = state /\ Others(r) /\ run'[r].stage = "polled" /\ run'[r].state = run[r].state
      BY <2>entered DEF Entered
    <3>2. Behind'
      BY <1>0, <2>1, <2>entered, <3>1 DEF Sound, Behind, Reached, Working, Path, Live, Ended, Failed, module
    <3>3. Reached(r)'
      BY <2>1, <2>entered, <3>1 DEF Sound, Reached, Working, module, Ended, Live
    <3> QED BY <1>0, <2>1, <3>1, <3>2, <3>3, SoundStays DEF Sound, Reached, Ended, Live, module
  <2>moved. ASSUME MovedTo(r, "bootstrap_pending", escrow) PROVE Sound'
    <3>1. run[r].state \in Path /\ state = run[r].state
      BY <2>1, <2>moved DEF MovedTo, Fenced, Path
    <3> QED BY <1>0, <2>1, <2>moved, <3>1, SoundMoves DEF Sound, Behind, Reached, Path, module
  <2> QED BY <1>11, <2>left, <2>failed, <2>entered, <2>moved, ActionEffects
<1>12. ASSUME Challenge(r) PROVE Sound'
  <2>1. run[r].state = "bootstrap_pending" /\ run[r].stage = "work" /\ UNCHANGED module
    BY <1>12 DEF Challenge, At, None, module, remote
  <2>left. ASSUME proved' = proved, Left(r) PROVE Sound'
    BY <2>1, <2>left, SoundLeft DEF Left, Working, module
  <2>failed. ASSUME proved' = proved, FailedBy(r) PROVE Sound'
    BY <2>1, <2>failed, SoundFails DEF Live, module
  <2>entered. ASSUME proved' = TRUE, Entered(r, "proved") PROVE Sound'
    <3>1. state' = state /\ Others(r) /\ run'[r].stage = "proved" /\ run'[r].state = run[r].state
      BY <2>entered DEF Entered
    <3>2. Behind'
      BY <1>0, <2>1, <2>entered, <3>1 DEF Sound, Behind, Reached, Working, Path, Live, Ended, Failed, module
    <3>3. Reached(r)'
      BY <2>1, <2>entered, <3>1 DEF Sound, Reached, Working, module, Ended, Live
    <3> QED BY <1>0, <2>1, <3>1, <3>2, <3>3, SoundStays DEF Sound, Reached, Ended, Live, module
  <2> QED BY <1>12, <2>1, <2>left, <2>failed, <2>entered, LateActionEffects
<1>13. ASSUME CreateEndpoint(r) PROVE Sound'
  <2>1. run[r].state = "bootstrap_pending" /\ run[r].stage = "proved" /\ UNCHANGED <<assistant, proved>>
        /\ (endpoint' = "active" <=> endpoint = "active")
    BY <1>13 DEF CreateEndpoint, At, None, module, remote
  <2>left. ASSUME endpoint' = endpoint, Left(r) PROVE Sound'
    BY <2>1, <2>left, SoundLeft DEF Left, Working, module
  <2>failed. ASSUME endpoint' = endpoint, FailedBy(r) PROVE Sound'
    BY <2>1, <2>failed, SoundFails DEF Live, module
  <2>entered. ASSUME Entered(r, "registered") PROVE Sound'
    <3>1. state' = state /\ Others(r) /\ run'[r].stage = "registered" /\ run'[r].state = run[r].state
      BY <2>entered DEF Entered
    <3>2. Behind'
      BY <1>0, <2>1, <2>entered, <3>1 DEF Sound, Behind, Reached, Working, Path, Live, Ended, Failed, module
    <3>3. Reached(r)'
      BY <2>1, <2>entered, <3>1 DEF Sound, Reached, Working, module, Ended, Live
    <3> QED BY <1>0, <2>1, <3>1, <3>2, <3>3, SoundStays DEF Sound, Reached, Ended, Live, module
  <2> QED BY <1>13, <2>1, <2>left, <2>failed, <2>entered, LateActionEffects
<1>14. ASSUME RecordEndpoint(r) PROVE Sound'
  <2>1. run[r].state = "bootstrap_pending" /\ run[r].stage = "registered" /\ UNCHANGED <<module, proved>>
    BY <1>14 DEF RecordEndpoint, At, module, remote
  <2>left. ASSUME Left(r) PROVE Sound'
    BY <2>1, <2>left, SoundLeft DEF Left, Working, module
  <2>moved. ASSUME MovedTo(r, "endpoint_verified", escrow) PROVE Sound'
    <3>1. run[r].state \in Path /\ state = run[r].state
      BY <2>1, <2>moved DEF MovedTo, Fenced, Path
    <3> QED BY <1>0, <2>1, <2>moved, <3>1, SoundMoves DEF Sound, Behind, Reached, Path, module
  <2> QED BY <1>14, <2>left, <2>moved, LateActionEffects
<1>15. ASSUME Promote(r) PROVE Sound'
  <2>1. run[r].state = "endpoint_verified" /\ run[r].stage = "work" /\ endpoint' = "active" /\ UNCHANGED <<assistant, proved>>
    BY <1>15 DEF Promote, At, module, remote, Promoted
  <2>entered. ASSUME Entered(r, "promoted") PROVE Sound'
    <3>1. state' = state /\ Others(r) /\ run'[r].stage = "promoted" /\ run'[r].state = run[r].state
      BY <2>entered DEF Entered
    <3>2. Behind'
      BY <1>0, <2>1, <2>entered, <3>1 DEF Sound, Behind, Reached, Working, Path, Live, Ended, Failed, module
    <3>3. Reached(r)'
      BY <2>1, <2>entered, <3>1 DEF Sound, Reached, Working, module, Ended, Live
    <3> QED BY <1>0, <2>1, <3>1, <3>2, <3>3, SoundStays DEF Sound, Reached, Ended, Live, module
  <2> QED BY <1>15, <2>entered, LateActionEffects
<1>16. ASSUME Activate(r) PROVE Sound'
  <2>1. run[r].state = "endpoint_verified" /\ run[r].stage = "promoted" /\ UNCHANGED <<module, proved>>
    BY <1>16 DEF Activate, At, module, remote
  <2>left. ASSUME Left(r) PROVE Sound'
    BY <2>1, <2>left, SoundLeft DEF Left, Working, module
  <2>moved. ASSUME MovedTo(r, "active", FALSE) PROVE Sound'
    <3>1. run[r].state \in Path /\ state = run[r].state
      BY <2>1, <2>moved DEF MovedTo, Fenced, Path
    <3> QED BY <1>0, <2>1, <2>moved, <3>1, SoundMoves DEF Sound, Behind, Reached, Path, module
  <2> QED BY <1>16, <2>left, <2>moved, LateActionEffects
<1>17. ASSUME Done(r) PROVE Sound'
  <2>1. run[r].stage = "work" /\ UNCHANGED <<module, proved>>
    BY <1>17 DEF Done, At, module, remote
  <2>left. ASSUME Left(r) PROVE Sound'
    BY <2>1, <2>left, SoundLeft DEF Left, Working, module
  <2> QED BY <1>17, <2>left, LateActionEffects
<1>18. ASSUME ResumeCleanup(r) PROVE Sound'
  <2>1. run[r].state = "cleanup_pending" /\ run[r].stage = "work" /\ UNCHANGED <<module, proved>>
    BY <1>18 DEF ResumeCleanup, At, module, remote
  <2>entered. ASSUME Entered(r, "cleaning") PROVE Sound'
    <3>1. state' = state /\ Others(r) /\ run'[r].stage = "cleaning" /\ run'[r].state = run[r].state
      BY <2>entered DEF Entered
    <3>2. Behind'
      BY <1>0, <2>1, <2>entered, <3>1 DEF Sound, Behind, Reached, Working, Path, Live, Ended, Failed, module
    <3>3. Reached(r)'
      BY <2>1, <2>entered, <3>1 DEF Sound, Reached, Working, module, Ended, Live
    <3> QED BY <1>0, <2>1, <3>1, <3>2, <3>3, SoundStays DEF Sound, Reached, Ended, Live, module
  <2> QED BY <1>18, <2>entered, LateActionEffects
<1>19. ASSUME Revoke(r) PROVE Sound'
  <2>1. run[r].stage = "cleaning" /\ UNCHANGED <<endpoint, proved>>
    BY <1>19 DEF Revoke, At, None, module, remote
  <2>left. ASSUME assistant' = assistant, Left(r) PROVE Sound'
    BY <2>1, <2>left, SoundLeft DEF Left, Working, module
  <2>entered. ASSUME Entered(r, "revoked") PROVE Sound'
    <3>1. state' = state /\ Others(r) /\ run'[r].stage = "revoked" /\ run'[r].state = run[r].state
      BY <2>entered DEF Entered
    <3>2. Behind'
      BY <1>0, <2>1, <2>entered, <3>1 DEF Sound, Behind, Reached, Working, Path, Live, Ended, Failed, module
    <3>3. Reached(r)'
      BY <2>1, <2>entered, <3>1 DEF Sound, Reached, Working, module, Ended, Live
    <3> QED BY <1>0, <2>1, <3>1, <3>2, <3>3, SoundStays DEF Sound, Reached, Ended, Live, module
  <2> QED BY <1>19, <2>1, <2>left, <2>entered, LateActionEffects
<1>20. ASSUME NEW j \in Jobs, EnqueuePoll(r, j) PROVE Sound'
  <2>1. Left(r) /\ UNCHANGED <<module, proved>>
    BY <1>20, LateActionEffects DEF EnqueuePoll, remote
  <2> QED BY <2>1, SoundLeft DEF Left, Working
<1>21. ASSUME NEW j \in Jobs, Claim(r, j) PROVE Sound'
  <2>1. Claimed(r) /\ UNCHANGED <<module, proved>>
    BY <1>21, ClaimEffect DEF Claim, remote
  <2>2. Behind' /\ state' = state
    BY <2>1 DEF Sound, Behind, Claimed, module
  <2>3. Reached(r)'
    BY <2>1, <2>2 DEF Claimed, Reached, Working, Live, Ended
  <2> QED BY <2>1, <2>2, <2>3, SoundStays DEF Claimed, module
<1>22. ASSUME Settle(r) \/ Kill(r) PROVE Sound'
  <2>1. Over(r) /\ UNCHANGED <<module, proved>>
    BY <1>22, SettleEffect, KillEffect DEF Settle, Kill, remote
  <2> QED BY <2>1, SoundLeft DEF Over, Working
<1>23. ASSUME Throw(r) PROVE Sound'
  <2>1. Threw(r) /\ UNCHANGED <<module, proved>>
    BY <1>23, ThrowEffect DEF Throw, remote
  <2> QED BY <2>1, SoundLeft DEF Threw, Working
<1>24. ASSUME FinishCleanup(r) PROVE Sound'
  <2>1. Cleaned(r) /\ UNCHANGED <<module, proved>>
    BY <1>24, FinishEffect DEF FinishCleanup, remote
  <2>2. CASE state' = state
    BY <2>1, <2>2, SoundLeft DEF Cleaned, Working
  <2>3. CASE state' # state
    <3>1. state \notin Live /\ state' \in Ended /\ Reached(r)'
      BY <2>1, <2>3 DEF Cleaned, Live, Ended, Reached, Working
    <3> QED BY <2>1, <3>1, SoundEnds DEF Cleaned, module
  <2> QED BY <2>2, <2>3
<1> QED BY <1>1, <1>2, <1>3, <1>4, <1>5, <1>6, <1>7, <1>8, <1>9, <1>10, <1>11, <1>12, <1>13,
          <1>14, <1>15, <1>16, <1>17, <1>18, <1>19, <1>20, <1>21, <1>22, <1>23, <1>24 DEF RunStep

LEMMA SoundAlways == InstallSpec => []Sound
<1>1. InstallInit => Sound
  BY DEF InstallInit, Sound, Behind, Reached, Working, Live, NoRun, None
<1>2. InstallTypeOK /\ Sound /\ [InstallNext]_installVars => Sound'
  <2> SUFFICES ASSUME InstallTypeOK, Sound, [InstallNext]_installVars PROVE Sound'
    OBVIOUS
  <2>1. CASE \/ UNCHANGED installVars \/ Minute \/ Disconnect
    <3>1. UNCHANGED <<state, module, proved, run>>
      BY <2>1 DEF installVars, row, remote, Minute, Disconnect
    <3> QED BY <3>1 DEF Sound, Behind, Reached, Working, module
  <2> QED BY <2>1, SoundStep DEF InstallNext
<1> QED BY <1>1, <1>2, InstallTypeCorrect, PTL DEF InstallSpec

(* An active install has a live module, and no other has a live endpoint    *)
(* (src/modules/install/installer.ts).                                      *)
THEOREM GreenIsLive == InstallSpec => []GreenMeansLive
<1>1. Sound => GreenMeansLive
  BY DEF Sound, Behind, Live, GreenMeansLive
<1> QED BY <1>1, SoundAlways, PTL
-----------------------------------------------------------------------------
(* The escrow goes with the state.                                          *)
Escrowed ==
    /\ state \in {"planned", "active"} \cup Failed => ~escrow
    /\ state \in Path \ {"planned"} => escrow

LEMMA EscrowMoves ==
  ASSUME Escrowed, NEW r \in Runs, NEW to \in Path \ {"planned"},
         \/ MovedTo(r, to, TRUE)
         \/ MovedTo(r, to, escrow) /\ run[r].state \in Path \ {"planned"}
  PROVE  Escrowed'
BY DEF Escrowed, MovedTo, Fenced, Path, Failed

LEMMA EscrowKept ==
  ASSUME Escrowed, NEW r \in Runs, Left(r) \/ FailedBy(r) \/ (\E g \in Stages : Entered(r, g))
  PROVE  Escrowed'
BY DEF Escrowed, Left, FailedBy, Entered, Path, Failed

LEMMA EscrowStep ==
  ASSUME InstallTypeOK, Escrowed, NEW r \in Runs, RunStep(r) \/ Throw(r) \/ Kill(r)
  PROVE  Escrowed'
<1>1. ASSUME NEW j \in Jobs, Claim(r, j) \/ EnqueuePoll(r, j) PROVE Escrowed'
  BY <1>1, ClaimEffect, LateActionEffects DEF Claimed, Left, Escrowed
<1>2. ASSUME Settle(r) \/ Kill(r) \/ Throw(r) PROVE Escrowed'
  BY <1>2, SettleEffect, KillEffect, ThrowEffect DEF Over, Threw, Escrowed
<1>3. ASSUME FinishCleanup(r) PROVE Escrowed'
  BY <1>3, FinishEffect DEF Cleaned, Escrowed, Failed, Path
<1>4. ASSUME \/ LoadCredentials(r) \/ EnsureAssistant(r) \/ CreateProject(r) \/ Prepare(r)
             \/ CreateDeployment(r)
      PROVE  Escrowed'
  BY <1>4, ActionEffects, EscrowKept DEF Stages
<1>5. ASSUME \/ Challenge(r) \/ CreateEndpoint(r) \/ Promote(r) \/ Done(r)
             \/ ResumeCleanup(r) \/ Revoke(r)
      PROVE  Escrowed'
  BY <1>5, LateActionEffects, EscrowKept DEF Stages
<1>6. ASSUME IssueCredentials(r) PROVE Escrowed'
  BY <1>6, ActionEffects, EscrowKept, EscrowMoves DEF Path
<1>7. ASSUME \/ RecordProject(r) \/ Upload(r) \/ RecordDeployment(r) \/ AwaitBuild(r)
      PROVE  Escrowed'
  <2>1. run[r].state \in Path \ {"planned"}
    BY <1>7 DEF RecordProject, Upload, RecordDeployment, AwaitBuild, At, Path
  <2>2. {"project_created", "artifact_uploaded", "deployment_created", "build_pending"}
           \subseteq Path \ {"planned"}
    BY DEF Path
  <2> QED BY <1>7, <2>1, <2>2, ActionEffects, EscrowKept, EscrowMoves
<1>8. ASSUME PollBuild(r) PROVE Escrowed'
  <2>1. run[r].state \in Path \ {"planned"} /\ "bootstrap_pending" \in Path \ {"planned"}
    BY <1>8 DEF PollBuild, At, Path
  <2> QED BY <1>8, <2>1, ActionEffects, EscrowKept, EscrowMoves DEF Stages
<1>9. ASSUME RecordEndpoint(r) PROVE Escrowed'
  <2>1. run[r].state \in Path \ {"planned"} /\ "endpoint_verified" \in Path \ {"planned"}
    BY <1>9 DEF RecordEndpoint, At, Path
  <2> QED BY <1>9, <2>1, LateActionEffects, EscrowKept, EscrowMoves
<1>10. ASSUME Activate(r) PROVE Escrowed'
  <2>1. CASE MovedTo(r, "active", FALSE)
    BY <2>1 DEF MovedTo, Escrowed, Path
  <2> QED BY <1>10, <2>1, LateActionEffects, EscrowKept
<1> QED BY <1>1, <1>2, <1>3, <1>4, <1>5, <1>6, <1>7, <1>8, <1>9, <1>10 DEF RunStep

LEMMA EscrowFits == InstallSpec => []Escrowed
<1>1. InstallInit => Escrowed
  BY DEF InstallInit, Escrowed
<1>2. InstallTypeOK /\ Escrowed /\ [InstallNext]_installVars => Escrowed'
  <2> SUFFICES ASSUME InstallTypeOK, Escrowed, [InstallNext]_installVars PROVE Escrowed'
    OBVIOUS
  <2>1. CASE \/ UNCHANGED installVars \/ Minute \/ Disconnect
    BY <2>1 DEF installVars, row, Minute, Disconnect, Escrowed
  <2> QED BY <2>1, EscrowStep DEF InstallNext
<1> QED BY <1>1, <1>2, InstallTypeCorrect, PTL DEF InstallSpec

-----------------------------------------------------------------------------
(* While no lease has lapsed under its call, whoever works holds the lease  *)
(* and knows the state, and a cleanup that has revoked stays revoked.       *)
HasLease(r) ==
    Working(r) =>
        /\ owner = r /\ lease > 0
        /\ run[r].stage \notin {"cleaning", "revoked"} => run[r].state = state
        /\ run[r].stage = "revoked" => assistant # "active"

Unlapsed ==
    ~overrun => (\A r \in Runs : HasLease(r)) /\ (state \in Failed => assistant # "active")

(* A call at work is alone.                                                 *)
LEMMA WorksAlone ==
  ASSUME Unlapsed, NEW r \in Runs, Working(r), Others(r), overrun' = overrun,
         ~overrun => HasLease(r)', ~overrun /\ state' \in Failed => assistant' # "active"
  PROVE  Unlapsed'
<1> SUFFICES ASSUME ~overrun
             PROVE  (\A s \in Runs : HasLease(s)') /\ (state' \in Failed => assistant' # "active")
  BY DEF Unlapsed
<1>1. \A s \in Runs \ {r} : ~Working(s)
  BY DEF Unlapsed, HasLease
<1> QED BY <1>1 DEF HasLease, Working, Others

(* What it does besides cleaning up.                                        *)
Plain(r) ==
    \/ Left(r)
    \/ FailedBy(r)
    \/ \E g \in Stages \ {"idle", "reporting", "revoked"} : Entered(r, g)
    \/ \E to \in Path \cup {"active"}, kept \in BOOLEAN : MovedTo(r, to, kept)

LEMMA UnlapsedPlain ==
  ASSUME Unlapsed, NEW r \in Runs, Plain(r), Working(r), run[r].stage \notin {"cleaning", "revoked"},
         overrun' = overrun, assistant' = assistant \/ run[r].state \notin Failed
  PROVE  Unlapsed'
<1>1. Others(r)
  BY DEF Plain, Left, FailedBy, Entered, MovedTo
<1>2. ASSUME ~overrun PROVE HasLease(r)' /\ (state' \in Failed => assistant' # "active")
  <2>1. owner = r /\ lease > 0 /\ run[r].state = state /\ (state \in Failed => assistant # "active")
    BY <1>2 DEF Unlapsed, HasLease
  <2>2. CASE Left(r)
    BY <2>1, <2>2 DEF Left, HasLease, Working
  <2>3. CASE FailedBy(r)
    BY <2>1, <2>3 DEF FailedBy, HasLease, Failed
  <2>4. ASSUME NEW g \in Stages \ {"idle", "reporting", "revoked"}, Entered(r, g)
        PROVE  HasLease(r)' /\ (state' \in Failed => assistant' # "active")
    BY <2>1, <2>4, BoundsAre DEF Entered, HasLease
  <2>5. ASSUME NEW to \in Path \cup {"active"}, NEW kept \in BOOLEAN, MovedTo(r, to, kept)
        PROVE  HasLease(r)' /\ (state' \in Failed => assistant' # "active")
    BY <2>1, <2>5 DEF MovedTo, HasLease, Path, Failed
  <2> QED BY <2>2, <2>3, <2>4, <2>5 DEF Plain
<1> QED BY <1>1, <1>2, WorksAlone

LEMMA PlainActions ==
  ASSUME InstallTypeOK, NEW r \in Runs,
         \/ IssueCredentials(r) \/ LoadCredentials(r) \/ EnsureAssistant(r) \/ CreateProject(r)
         \/ RecordProject(r) \/ Prepare(r) \/ Upload(r) \/ CreateDeployment(r) \/ RecordDeployment(r)
         \/ AwaitBuild(r) \/ PollBuild(r) \/ (\E j \in Jobs : EnqueuePoll(r, j))
         \/ Challenge(r) \/ CreateEndpoint(r)
         \/ RecordEndpoint(r) \/ Promote(r) \/ Activate(r) \/ Done(r) \/ ResumeCleanup(r)
  PROVE  /\ Plain(r) /\ Working(r) /\ run[r].stage \notin {"cleaning", "revoked"}
         /\ overrun' = overrun /\ (assistant' = assistant \/ run[r].state \notin Failed)
<1>1. Working(r) /\ run[r].stage \notin {"cleaning", "revoked"}
  BY DEF Working, At, IssueCredentials, LoadCredentials, EnsureAssistant, CreateProject, RecordProject,
     Prepare, Upload, CreateDeployment, RecordDeployment, AwaitBuild, PollBuild, EnqueuePoll, Challenge,
     CreateEndpoint, RecordEndpoint, Promote, Activate, Done, ResumeCleanup
<1>2. overrun' = overrun /\ (assistant' = assistant \/ run[r].state \notin Failed)
  BY DEF ghost, module, remote, Failed, At, IssueCredentials, LoadCredentials, EnsureAssistant,
     CreateProject, RecordProject, Prepare, Upload, CreateDeployment, RecordDeployment, AwaitBuild,
     PollBuild, EnqueuePoll, Challenge, CreateEndpoint, RecordEndpoint, Promote, Activate, Done,
     ResumeCleanup
<1>3. Plain(r)
  <2>1. escrow \in BOOLEAN
    BY InstallTypeParts DEF RowTyped
  <2>2. \A to \in Path \cup {"active"} : MovedTo(r, to, escrow) \/ MovedTo(r, to, TRUE) \/ MovedTo(r, to, FALSE) => Plain(r)
    BY <2>1 DEF Plain
  <2>3. {"credentials_issued", "project_created", "artifact_uploaded", "deployment_created",
         "build_pending", "bootstrap_pending", "endpoint_verified", "active"} \subseteq Path \cup {"active"}
    BY DEF Path
  <2>4. {"loaded", "ensured", "created", "prepared", "deployed", "polled", "proved", "registered",
         "promoted", "cleaning"} \subseteq Stages \ {"idle", "reporting", "revoked"}
    BY DEF Stages
  <2>5. \A g \in Stages \ {"idle", "reporting", "revoked"} : Entered(r, g) => Plain(r)
    BY DEF Plain
  <2>6. Left(r) \/ FailedBy(r) => Plain(r)
    BY DEF Plain
  <2>7. CASE \/ IssueCredentials(r) \/ LoadCredentials(r) \/ EnsureAssistant(r) \/ CreateProject(r)
             \/ RecordProject(r) \/ Prepare(r) \/ Upload(r)
    BY <2>2, <2>3, <2>4, <2>5, <2>6, <2>7, ActionEffects
  <2>8. CASE \/ CreateDeployment(r) \/ RecordDeployment(r) \/ AwaitBuild(r) \/ PollBuild(r)
    BY <2>2, <2>3, <2>4, <2>5, <2>6, <2>8, ActionEffects
  <2>9. CASE \/ (\E j \in Jobs : EnqueuePoll(r, j)) \/ Challenge(r) \/ CreateEndpoint(r) \/ RecordEndpoint(r)
             \/ Promote(r) \/ Activate(r) \/ Done(r) \/ ResumeCleanup(r)
    BY <2>2, <2>3, <2>4, <2>5, <2>6, <2>9, LateActionEffects
  <2> QED BY <2>7, <2>8, <2>9
<1> QED BY <1>1, <1>2, <1>3

LEMMA UnlapsedStep ==
  ASSUME InstallTypeOK, Unlapsed, NEW r \in Runs, RunStep(r) \/ Throw(r) \/ Kill(r)
  PROVE  Unlapsed'
<1>1. ASSUME NEW j \in Jobs, Claim(r, j) PROVE Unlapsed'
  <2>1. Claimed(r) /\ UNCHANGED <<module, ghost>>
    BY <1>1, ClaimEffect DEF Claim
  <2>2. ASSUME ~overrun, lease = 0 PROVE \A s \in Runs : ~Working(s)
    BY <2>2 DEF Unlapsed, HasLease
  <2> QED BY <2>1, <2>2, BoundsAre DEF Claimed, Others, Unlapsed, HasLease, Working, module, ghost
<1>2. ASSUME Settle(r) \/ Kill(r) PROVE Unlapsed'
  <2>1. Over(r) /\ UNCHANGED <<module, overrun>>
    BY <1>2, SettleEffect, KillEffect DEF Settle, Kill, ghost
  <2> QED BY <2>1 DEF Over, Others, Unlapsed, HasLease, Working, module
<1>3. ASSUME Throw(r) PROVE Unlapsed'
  <2>1. Threw(r) /\ Working(r) /\ UNCHANGED <<module, overrun>>
    BY <1>3, ThrowEffect DEF Throw, Working
  <2> QED BY <2>1, WorksAlone DEF Threw, HasLease, Working, Unlapsed, module
<1>4. ASSUME Revoke(r) PROVE Unlapsed'
  <2>1. Working(r) /\ run[r].stage = "cleaning" /\ overrun' = overrun
    BY <1>4 DEF Revoke, Working
  <2>2. CASE Left(r) /\ assistant' = assistant
    BY <2>1, <2>2, WorksAlone DEF Left, HasLease, Working, Unlapsed
  <2>3. CASE Entered(r, "revoked") /\ assistant' # "active"
    BY <2>1, <2>3, WorksAlone, BoundsAre DEF Entered, HasLease, Working, Unlapsed
  <2> QED BY <1>4, <2>2, <2>3, LateActionEffects
<1>5. ASSUME FinishCleanup(r) PROVE Unlapsed'
  <2>1. Cleaned(r) /\ Working(r) /\ UNCHANGED <<module, ghost>>
    BY <1>5, FinishEffect DEF FinishCleanup, Working
  <2> QED BY <2>1, WorksAlone DEF Cleaned, HasLease, Working, Unlapsed, module, ghost
<1> QED BY <1>1, <1>2, <1>3, <1>4, <1>5, PlainActions, UnlapsedPlain DEF RunStep

LEMMA UnlapsedAlways == InstallSpec => []Unlapsed
<1>1. InstallInit => Unlapsed
  BY DEF InstallInit, Unlapsed, HasLease, Working, NoRun, Failed
<1>2. InstallTypeOK /\ Unlapsed /\ [InstallNext]_installVars => Unlapsed'
  <2> SUFFICES ASSUME InstallTypeOK, Unlapsed, [InstallNext]_installVars PROVE Unlapsed'
    OBVIOUS
  <2>1. CASE UNCHANGED installVars \/ Disconnect
    BY <2>1 DEF installVars, row, module, ghost, Disconnect, Unlapsed, HasLease, Working
  <2>2. CASE Minute
    <3>1. /\ overrun' = (overrun \/ (lease = 1 /\ owner # None))
          /\ lease' = (IF lease = 0 THEN 0 ELSE lease - 1)
          /\ UNCHANGED <<state, owner, run, assistant>>
      BY <2>2 DEF Minute, module
    <3>2. lease \in Nat /\ None \notin Runs
      BY InstallTypeParts, InstallAssumption DEF RowTyped, Delays, None
    <3>3. ~overrun' => ~overrun /\ ~(lease = 1 /\ owner # None)
      BY <3>1
    <3>4. ASSUME ~overrun', NEW r \in Runs, Working(r) PROVE owner = r /\ lease' > 0
      <4>1. owner = r /\ lease > 0 /\ owner # None
        BY <3>2, <3>3, <3>4 DEF Unlapsed, HasLease
      <4> QED BY <3>1, <3>2, <3>3, <3>4, <4>1
    <3>5. ASSUME ~overrun' PROVE \A r \in Runs : HasLease(r)'
      BY <3>1, <3>3, <3>4, <3>5 DEF Unlapsed, HasLease, Working
    <3> QED BY <3>1, <3>3, <3>5 DEF Unlapsed
  <2> QED BY <2>1, <2>2, UnlapsedStep DEF InstallNext
<1> QED BY <1>1, <1>2, InstallTypeCorrect, PTL DEF InstallSpec

(* The credentials are in escrow while a later step needs them, and those   *)
(* of a failed install are worth nothing unless a lease was overrun         *)
(* (src/modules/install/installer.ts).                                      *)
THEOREM CredentialsFitState == InstallSpec => []CredentialsWhileNeeded
<1>1. InstallTypeOK /\ Escrowed /\ Unlapsed => CredentialsWhileNeeded
  BY DEF Escrowed, Unlapsed, CredentialsWhileNeeded
<1> QED BY <1>1, InstallTypeCorrect, EscrowFits, UnlapsedAlways, PTL
-----------------------------------------------------------------------------
(* Handling, in terms that do not name the action: a call keeps its message *)
(* and its queue row until it reports, and asks for retries in the future.  *)
Given(r) == run[r].stage = "reporting" /\ run[r].outcome = "retry"
Settled == {"active"} \cup Failed

Kept(r) ==
    /\ Others(r) /\ run'[r].stage # "idle" /\ run'[r].job = run[r].job /\ owner' = owner
    /\ Given(r)' => run'[r].delay > 0

LEMMA DelaysPositive ==
  /\ LeaseMinutes \in Delays /\ LeaseMinutes > 0
  /\ \A k \in Nat : /\ Backoff(k) \in Delays /\ Backoff(k) > 0
                    /\ ThrowBackoff(k) \in Delays /\ ThrowBackoff(k) > 0
                    /\ k >= 3 => Backoff(k) = LeaseMinutes
BY InstallAssumption DEF Backoff, ThrowBackoff, Capped, Delays

LEMMA CallAt ==
  ASSUME InstallTypeOK, NEW r \in Runs
  PROVE  /\ run \in [Runs -> RunState] /\ run[r] \in RunState /\ Attempts(r) \in Nat
         /\ run[r].stage # "idle" => run[r].job \in Jobs
BY InstallTypeParts DEF RunsTyped, RunState, Message, Attempts

LEMMA EnterKeeps ==
  ASSUME InstallTypeOK, NEW r \in Runs, NEW stage \in Stages \ {"idle", "reporting"}, Enter(r, stage),
         owner' = owner
  PROVE  Kept(r) /\ Working(r)' /\ run'[r].stage = stage
<1>1. Others(r) /\ run'[r].stage = stage /\ run'[r].job = run[r].job
  BY CallAt DEF Enter, RunState, Others
<1> QED BY <1>1 DEF Kept, Given, Working

LEMMA ReportKeeps ==
  ASSUME InstallTypeOK, NEW r \in Runs, NEW outcome, NEW delay, Report(r, outcome, delay),
         outcome = "retry" => delay > 0, owner' = owner
  PROVE  Kept(r) /\ run'[r].stage = "reporting" /\ run'[r].outcome = outcome
<1>1. /\ Others(r) /\ run'[r].stage = "reporting" /\ run'[r].job = run[r].job
      /\ run'[r].outcome = outcome /\ run'[r].delay = delay
  BY CallAt DEF Report, RunState, Others
<1> QED BY <1>1 DEF Kept, Given

LEMMA LeaveKeeps ==
  ASSUME InstallTypeOK, NEW r \in Runs, NEW outcome, NEW delay, Leave(r, outcome, delay),
         outcome = "retry" => delay > 0
  PROVE  /\ Kept(r) /\ run'[r].stage = "reporting" /\ run'[r].outcome = outcome
         /\ state' = state /\ lease' = (IF owner = r THEN 0 ELSE lease)
<1>1. /\ Report(r, outcome, delay) /\ owner' = owner /\ state' = state
      /\ lease' = (IF owner = r THEN 0 ELSE lease)
  BY DEF Leave, Release
<1> QED BY <1>1, ReportKeeps

LEMMA FailKeeps ==
  ASSUME InstallTypeOK, NEW r \in Runs, NEW to, Fail(r, to)
  PROVE  /\ Kept(r)
         /\ Fenced(r) => Working(r)' /\ state' = "cleanup_pending" /\ lease' = lease
<1>1. CASE Fenced(r)
  <2>1. Enter(r, "cleaning") /\ state' = "cleanup_pending" /\ lease' = lease /\ owner' = owner
    BY <1>1 DEF Fail
  <2> QED BY <2>1, EnterKeeps DEF Stages
<1>2. CASE ~Fenced(r)
  BY <1>2, LeaveKeeps DEF Fail
<1> QED BY <1>1, <1>2

LEMMA RetryOrFailKeeps ==
  ASSUME InstallTypeOK, NEW r \in Runs, NEW to, RetryOrFail(r, to)
  PROVE  /\ Kept(r)
         /\ Fenced(r) => \/ Working(r)' /\ state' = "cleanup_pending" /\ lease' = lease
                         \/ Given(r)' /\ state' = state /\ lease' = 0
<1>1. Fail(r, to) \/ Leave(r, "retry", Backoff(Attempts(r)))
  BY DEF RetryOrFail
<1>2. Backoff(Attempts(r)) > 0
  BY CallAt, DelaysPositive
<1>3. CASE Leave(r, "retry", Backoff(Attempts(r)))
  BY <1>2, <1>3, LeaveKeeps DEF Fenced, Given
<1> QED BY <1>1, <1>3, FailKeeps

LEMMA MoveKeeps ==
  ASSUME InstallTypeOK, NEW r \in Runs, NEW to, NEW inEscrow, Move(r, to, inEscrow)
  PROVE  /\ Kept(r)
         /\ Fenced(r) => run'[r].stage = "work" /\ state' = to /\ lease' = lease
<1>1. CASE Fenced(r)
  <2>1. /\ owner' = owner /\ state' = to /\ lease' = lease
        /\ run' = [run EXCEPT ![r].stage = "work", ![r].state = to]
    BY <1>1 DEF Move, Fenced
  <2>2. Others(r) /\ run'[r].stage = "work" /\ run'[r].job = run[r].job
    BY <2>1, CallAt DEF RunState, Others
  <2> QED BY <2>1, <2>2 DEF Kept, Given
<1>2. CASE ~Fenced(r)
  BY <1>2, LeaveKeeps DEF Move
<1> QED BY <1>1, <1>2

LEMMA RenewKeeps ==
  ASSUME InstallTypeOK, NEW r \in Runs, NEW stage \in Stages \ {"idle", "reporting"},
         RenewThen(r, Enter(r, stage) /\ UNCHANGED <<state, target, owner, escrow>>)
  PROVE  /\ Kept(r)
         /\ owner = r => run'[r].stage = stage /\ state' = state /\ lease' = LeaseMinutes
<1>1. CASE owner = r
  <2>1. Enter(r, stage) /\ owner' = owner /\ state' = state /\ lease' = LeaseMinutes
    BY <1>1 DEF RenewThen, Renewed
  <2> QED BY <2>1, EnterKeeps
<1>2. CASE owner # r
  BY <1>2, LeaveKeeps DEF RenewThen, Renewed
<1> QED BY <1>1, <1>2
-----------------------------------------------------------------------------
(* What a call at work does to its handling: it goes on, ends, or breaks    *)
(* off and asks for a retry.                                                *)
Advance(r) ==
    \/ IssueCredentials(r) \/ LoadCredentials(r) \/ EnsureAssistant(r) \/ CreateProject(r)
    \/ RecordProject(r) \/ Prepare(r) \/ Upload(r) \/ CreateDeployment(r) \/ RecordDeployment(r)
    \/ AwaitBuild(r) \/ PollBuild(r) \/ Challenge(r) \/ CreateEndpoint(r) \/ RecordEndpoint(r)
    \/ Promote(r) \/ Activate(r) \/ Done(r) \/ ResumeCleanup(r) \/ Revoke(r) \/ FinishCleanup(r)
    \/ Throw(r)

CleaningUp(r) == run[r].stage \in {"cleaning", "revoked"}

GoesOn(r) ==
    /\ Working(r)' /\ lease' \in {lease, LeaseMinutes} /\ state \notin Settled
    /\ CleaningUp(r)' => state' = "cleanup_pending"
Ends(r) == run'[r].stage = "reporting" /\ ~Given(r)' /\ state' \in Settled /\ lease' = 0
BreaksOff(r) ==
    Given(r)' /\ state' = state /\ lease' \in {0, lease} /\ faults' = faults + 1

(* A call that holds the lease and read the row last.                       *)
InCharge(r) ==
    /\ owner = r /\ (run[r].stage \notin {"cleaning", "revoked"} => run[r].state = state)
    /\ CleaningUp(r) => state = "cleanup_pending"

Handles(r) == Kept(r) /\ (InCharge(r) => GoesOn(r) \/ Ends(r) \/ BreaksOff(r))

OnTheWay == Stages \ {"idle", "reporting", "cleaning", "revoked"}

LEMMA Unsettled == Path \cup {"cleanup_pending"} \subseteq States \ Settled
BY DEF Path, Settled, Failed, States

(* The moves of the path.                                                   *)
LEMMA MoveHandles ==
  ASSUME InstallTypeOK, NEW r \in Runs, NEW s \in Path, NEW stage \in OnTheWay,
         At(r, s, stage), NEW to, NEW inEscrow, Move(r, to, inEscrow)
  PROVE  Handles(r)
<1>1. InCharge(r) => Fenced(r) /\ state \notin Settled
  BY Unsettled DEF InCharge, Fenced, At, OnTheWay
<1>2. Kept(r) /\ (InCharge(r) => run'[r].stage = "work" /\ lease' = lease)
  BY <1>1, MoveKeeps
<1> QED BY <1>1, <1>2 DEF Handles, GoesOn, Working, CleaningUp

LEMMA EnterHandles ==
  ASSUME InstallTypeOK, NEW r \in Runs, NEW s \in Path, NEW stage \in OnTheWay,
         At(r, s, stage), NEW next \in OnTheWay,
         Enter(r, next), UNCHANGED row
  PROVE  Handles(r)
<1>1. InCharge(r) => state \notin Settled
  BY Unsettled DEF InCharge, At, OnTheWay
<1>2. Kept(r) /\ Working(r)' /\ run'[r].stage = next /\ lease' = lease
  BY EnterKeeps DEF row, OnTheWay
<1> QED BY <1>1, <1>2 DEF Handles, GoesOn, CleaningUp, OnTheWay

LEMMA RenewHandles ==
  ASSUME InstallTypeOK, NEW r \in Runs, NEW s \in Path, NEW stage \in OnTheWay,
         At(r, s, stage), NEW next \in OnTheWay,
         RenewThen(r, Enter(r, next) /\ UNCHANGED <<state, target, owner, escrow>>)
  PROVE  Handles(r)
<1>1. InCharge(r) => state \notin Settled /\ owner = r
  BY Unsettled DEF InCharge, At, OnTheWay
<1>2. Kept(r) /\ (owner = r => run'[r].stage = next /\ lease' = LeaseMinutes)
  BY RenewKeeps DEF OnTheWay
<1> QED BY <1>1, <1>2 DEF Handles, GoesOn, CleaningUp, Working, OnTheWay

LEMMA FailHandles ==
  ASSUME InstallTypeOK, NEW r \in Runs, NEW s \in Path, NEW stage \in OnTheWay,
         At(r, s, stage), NEW to,
         Fail(r, to) \/ (RetryOrFail(r, to) /\ Fault)
  PROVE  Handles(r)
<1>1. InCharge(r) => Fenced(r) /\ state \notin Settled
  BY Unsettled DEF InCharge, Fenced, At, OnTheWay
<1>2. /\ Kept(r)
      /\ InCharge(r) => \/ Working(r)' /\ state' = "cleanup_pending" /\ lease' = lease
                        \/ Given(r)' /\ state' = state /\ lease' = 0 /\ faults' = faults + 1
  BY <1>1, FailKeeps, RetryOrFailKeeps DEF Fault
<1> QED BY <1>1, <1>2 DEF Handles, GoesOn, BreaksOff

LEMMA AdvanceHandles ==
  ASSUME InstallTypeOK, Escrowed, NEW r \in Runs, Advance(r)
  PROVE  Handles(r)
<1>1. /\ {"planned", "credentials_issued", "project_created", "artifact_uploaded", "deployment_created",
          "build_pending", "bootstrap_pending", "endpoint_verified"} \subseteq Path
      /\ {"loaded", "ensured", "created", "prepared", "deployed", "polled", "proved", "registered",
          "promoted", "work"} \subseteq OnTheWay
      /\ {"cleaning", "revoked"} \subseteq Stages \ {"idle", "reporting"}
  BY DEF Path, Stages, OnTheWay
<1>2. Attempts(r) \in Nat /\ ThrowBackoff(Attempts(r)) > 0 /\ LeaseMinutes > 0
  BY CallAt, DelaysPositive
<1>3. CASE \/ IssueCredentials(r) \/ RecordProject(r) \/ RecordDeployment(r) \/ AwaitBuild(r)
           \/ RecordEndpoint(r) \/ Activate(r)
  <2>1. \E s \in Path, stage \in OnTheWay : \E to, inEscrow :
          At(r, s, stage) /\ Move(r, to, inEscrow)
    BY <1>1, <1>3 DEF IssueCredentials, RecordProject, RecordDeployment, AwaitBuild, RecordEndpoint,
       Activate
  <2> QED BY <2>1, MoveHandles
<1>4. CASE EnsureAssistant(r) \/ Promote(r)
  BY <1>1, <1>4, EnterHandles DEF EnsureAssistant, Promote
<1>5. CASE LoadCredentials(r)
  <2>1. At(r, "credentials_issued", "work")
    BY <1>5 DEF LoadCredentials
  <2>2. CASE escrow
    BY <1>1, <1>5, <2>1, <2>2, EnterHandles DEF LoadCredentials
  <2>3. CASE ~escrow
    <3>1. ~InCharge(r)
      BY <1>1, <2>1, <2>3 DEF Escrowed, InCharge, At
    <3>2. Kept(r)
      BY <1>2, <1>5, <2>3, LeaveKeeps DEF LoadCredentials
    <3> QED BY <3>1, <3>2 DEF Handles
  <2> QED BY <2>2, <2>3
<1>6. CASE CreateProject(r)
  <2>1. /\ At(r, "credentials_issued", "ensured")
        /\ \/ \E to : Fail(r, to) \/ (RetryOrFail(r, to) /\ Fault)
           \/ Enter(r, "created") /\ UNCHANGED row
    BY <1>6 DEF CreateProject
  <2> QED BY <1>1, <2>1, FailHandles, EnterHandles
<1>7. CASE Prepare(r) \/ CreateDeployment(r)
  <2>1. \E s \in Path, next \in {"prepared", "deployed"} :
          /\ At(r, s, "work")
          /\ \/ \E to : Fail(r, to) \/ (RetryOrFail(r, to) /\ Fault)
             \/ RenewThen(r, Enter(r, next) /\ UNCHANGED <<state, target, owner, escrow>>)
    BY <1>1, <1>7 DEF Prepare, CreateDeployment
  <2> QED BY <1>1, <2>1, FailHandles, RenewHandles
<1>8. CASE Upload(r)
  <2>1. /\ At(r, "project_created", "prepared")
        /\ \/ RetryOrFail(r, "build_failed") /\ Fault
           \/ Move(r, "artifact_uploaded", escrow)
    BY <1>8 DEF Upload
  <2> QED BY <1>1, <2>1, FailHandles, MoveHandles
<1>9. CASE PollBuild(r)
  <2>1. /\ At(r, "build_pending", "work")
        /\ \/ Fail(r, "build_failed") \/ Move(r, "bootstrap_pending", escrow)
           \/ RenewThen(r, Enter(r, "polled") /\ UNCHANGED <<state, target, owner, escrow>>)
    BY <1>9 DEF PollBuild, RenewThen
  <2> QED BY <1>1, <2>1, FailHandles, MoveHandles, RenewHandles
<1>10. CASE Challenge(r)
  <2>1. At(r, "bootstrap_pending", "work")
    BY <1>10 DEF Challenge
  <2>2. CASE escrow
    <3>1. (Enter(r, "proved") /\ UNCHANGED row) \/ Fail(r, "verification_failed")
      BY <1>10, <2>2 DEF Challenge
    <3> QED BY <1>1, <2>1, <3>1, EnterHandles, FailHandles
  <2>3. CASE ~escrow
    <3>1. ~InCharge(r)
      BY <1>1, <2>1, <2>3 DEF Escrowed, InCharge, At
    <3>2. Kept(r)
      BY <1>2, <1>10, <2>3, LeaveKeeps DEF Challenge
    <3> QED BY <3>1, <3>2 DEF Handles
  <2> QED BY <2>2, <2>3
<1>11. CASE CreateEndpoint(r)
  <2>1. /\ At(r, "bootstrap_pending", "proved")
        /\ Fail(r, "cleanup_required") \/ (Enter(r, "registered") /\ UNCHANGED row)
    BY <1>11 DEF CreateEndpoint
  <2> QED BY <1>1, <2>1, FailHandles, EnterHandles
<1>12. CASE Done(r)
  <2>1. run[r].stage = "work" /\ run[r].state \in Settled /\ Leave(r, "ack", 0)
    BY <1>12 DEF Done, Settled
  <2>2. /\ Kept(r) /\ run'[r].stage = "reporting" /\ run'[r].outcome = "ack"
        /\ state' = state /\ lease' = (IF owner = r THEN 0 ELSE lease)
    BY <2>1, LeaveKeeps
  <2> QED BY <2>1, <2>2 DEF Handles, InCharge, Ends, Given
<1>13. CASE ResumeCleanup(r)
  <2>1. At(r, "cleanup_pending", "work") /\ Enter(r, "cleaning") /\ UNCHANGED row
    BY <1>13 DEF ResumeCleanup
  <2>2. Kept(r) /\ Working(r)' /\ lease' = lease /\ state' = state
    BY <1>1, <2>1, EnterKeeps DEF row
  <2> QED BY <2>1, <2>2, Unsettled DEF Handles, InCharge, GoesOn, At
<1>14. CASE Revoke(r)
  <2>1. CASE Enter(r, "revoked") /\ UNCHANGED row
    <3>1. Kept(r) /\ Working(r)' /\ lease' = lease /\ state' = state
      BY <1>1, <2>1, EnterKeeps DEF row
    <3> QED BY <1>14, <3>1, Unsettled DEF Revoke, Handles, InCharge, GoesOn, CleaningUp
  <2>2. CASE Fault /\ Leave(r, "retry", LeaseMinutes)
    <3>1. /\ Kept(r) /\ Given(r)' /\ state' = state /\ lease' = (IF owner = r THEN 0 ELSE lease)
          /\ faults' = faults + 1
      BY <1>2, <2>2, LeaveKeeps DEF Given, Fault
    <3> QED BY <3>1 DEF Handles, BreaksOff
  <2> QED BY <1>14, <2>1, <2>2 DEF Revoke
<1>15. CASE FinishCleanup(r)
  <2>1. /\ run[r].stage = "revoked" /\ Report(r, "deadLetter", 0) /\ owner' = owner
        /\ lease' = (IF owner = r THEN 0 ELSE lease)
        /\ owner = r /\ state = "cleanup_pending" => state' = target
    BY <1>15 DEF FinishCleanup, Release
  <2>2. state = "cleanup_pending" => target \in Settled
    BY InstallTypeParts DEF RowTyped, Settled
  <2>3. Kept(r) /\ run'[r].stage = "reporting" /\ run'[r].outcome = "deadLetter"
    BY <2>1, ReportKeeps
  <2> QED BY <2>1, <2>2, <2>3 DEF Handles, InCharge, CleaningUp, Ends, Given
<1>16. CASE Throw(r)
  <2>1. /\ Report(r, "retry", ThrowBackoff(Attempts(r))) /\ owner' = owner /\ state' = state
        /\ lease' \in {0, lease} /\ faults' = faults + 1
    BY <1>16 DEF Throw, FinallyReleases, Release, Fault
  <2>2. Kept(r) /\ Given(r)'
    BY <1>2, <2>1, ReportKeeps DEF Given
  <2> QED BY <2>1, <2>2 DEF Handles, BreaksOff
<1> QED BY <1>3, <1>4, <1>5, <1>6, <1>7, <1>8, <1>9, <1>10, <1>11, <1>12, <1>13, <1>14, <1>15,
          <1>16 DEF Advance

LEMMA AdvanceLeaves ==
  ASSUME InstallTypeOK, NEW r \in Runs, Advance(r)
  PROVE  Working(r) /\ job' = job /\ overrun' = overrun /\ faults' \in {faults, faults + 1}
<1>1. Working(r)
  BY DEF Advance, Working, At, IssueCredentials, LoadCredentials, EnsureAssistant, CreateProject,
     RecordProject, Prepare, Upload, CreateDeployment, RecordDeployment, AwaitBuild, PollBuild,
     Challenge,
     CreateEndpoint, RecordEndpoint, Promote, Activate, Done, ResumeCleanup, Revoke, FinishCleanup, Throw
<1>2. job' = job /\ overrun' = overrun /\ faults' \in {faults, faults + 1}
  BY DEF Advance, ghost, Fault, IssueCredentials, LoadCredentials, EnsureAssistant, CreateProject,
     RecordProject, Prepare, Upload, CreateDeployment, RecordDeployment, AwaitBuild, PollBuild,
     Challenge,
     CreateEndpoint, RecordEndpoint, Promote, Activate, Done, ResumeCleanup, Revoke, FinishCleanup, Throw
<1> QED BY <1>1, <1>2
-----------------------------------------------------------------------------
(* What a step does to the queue rows.                                      *)
OtherJobs(j) == \A k \in Jobs \ {j} : job'[k] = job[k]

LEMMA JobAt ==
  ASSUME InstallTypeOK, NEW k \in Jobs
  PROVE  /\ job \in [Jobs -> JobState] /\ job[k] \in JobState
         /\ job[k].attempts \in Nat /\ job[k].due \in Nat
BY InstallTypeParts DEF JobsTyped, JobState, Delays

LEMMA ClaimJob ==
  ASSUME InstallTypeOK, NEW r \in Runs, NEW j \in Jobs, Claim(r, j)
  PROVE  /\ OtherJobs(j) /\ job'[j].stage = "running" /\ job'[j].run = r
         /\ job'[j].attempts = job[j].attempts + 1 /\ job'[j].due = job[j].due
         /\ Others(r) /\ run'[r].job = j
         /\ \/ /\ lease > 0 /\ Given(r)' /\ run'[r].delay = Backoff(job[j].attempts + 1)
               /\ UNCHANGED <<owner, lease>>
            \/ /\ lease = 0 /\ run'[r].stage = "work" /\ owner' = r /\ lease' = LeaseMinutes
<1>1. lease \in Nat
  BY InstallTypeParts DEF RowTyped, Delays
<1>2. /\ OtherJobs(j) /\ job'[j].stage = "running" /\ job'[j].run = r
      /\ job'[j].attempts = job[j].attempts + 1 /\ job'[j].due = job[j].due
  BY JobAt DEF Claim, OtherJobs, JobState
<1>3. PICK h \in {Handed(j)} : TRUE
  OBVIOUS
<1>4. h \in RunState /\ h.job = j
  <2>1. job[j].polls \in Polls /\ job[j].attempts + 1 \in Nat
    BY JobAt DEF JobState
  <2> QED BY <1>3, <2>1, NothingIsTyped DEF Handed, RunState
<1>5. CASE lease > 0
  <2>1. /\ run' = [run EXCEPT ![r] = [h EXCEPT !.stage = "reporting", !.outcome = WhenHeld,
                                               !.delay = Backoff(job[j].attempts + 1)]]
        /\ UNCHANGED <<owner, lease>>
    BY <1>3, <1>5 DEF Claim
  <2>2. /\ Others(r) /\ run'[r].job = j /\ run'[r].stage = "reporting" /\ run'[r].outcome = "retry"
        /\ run'[r].delay = Backoff(job[j].attempts + 1)
    BY <1>4, <2>1, CallAt DEF Others, RunState, WhenHeld
  <2> QED BY <1>2, <1>5, <2>1, <2>2 DEF Given
<1>6. CASE ~(lease > 0)
  <2>1. /\ run' = [run EXCEPT ![r] = [h EXCEPT !.stage = "work", !.state = state]]
        /\ owner' = r /\ lease' = LeaseMinutes
    BY <1>3, <1>6 DEF Claim
  <2>2. Others(r) /\ run'[r].job = j /\ run'[r].stage = "work"
    BY <1>4, <2>1, CallAt DEF Others, RunState
  <2> QED BY <1>1, <1>2, <1>6, <2>1, <2>2
<1> QED BY <1>5, <1>6

(* A call that is over has returned its job, had it deleted, or lost it.    *)
Returned(j, due) ==
    /\ OtherJobs(j) /\ job'[j].stage = "waiting" /\ job'[j].run = None /\ job'[j].due = due
    /\ job'[j].attempts = job[j].attempts
Deleted(j) == OtherJobs(j) /\ job'[j] = NoJob

LEMMA SettleJob ==
  ASSUME InstallTypeOK, NEW r \in Runs, Settle(r), NEW j, j = run[r].job
  PROVE  /\ run[r].stage = "reporting" /\ j \in Jobs
         /\ \/ job[j].run # r /\ job' = job
            \/ /\ job[j].run = r /\ Given(r) /\ job[j].attempts < MaxAttempts
               /\ Returned(j, run[r].delay)
            \/ /\ job[j].run = r /\ ~(Given(r) /\ job[j].attempts < MaxAttempts)
               /\ Deleted(j)
<1>1. run[r].stage = "reporting" /\ j \in Jobs
  BY CallAt DEF Settle
<1>2. job[j] \in JobState /\ job \in [Jobs -> JobState]
  BY <1>1, JobAt
<1>3. CASE job[j].run # r
  BY <1>1, <1>3 DEF Settle
<1>4. CASE job[j].run = r /\ Given(r) /\ job[j].attempts < MaxAttempts
  <2>1. job' = [job EXCEPT ![j].stage = "waiting", ![j].run = None, ![j].due = run[r].delay]
    BY <1>4 DEF Settle, Given
  <2>2. Returned(j, run[r].delay)
    BY <1>1, <1>2, <2>1 DEF Returned, OtherJobs, JobState
  <2> QED BY <1>1, <1>4, <2>2
<1>5. CASE job[j].run = r /\ ~(Given(r) /\ job[j].attempts < MaxAttempts)
  <2>1. job' = [job EXCEPT ![j] = NoJob]
    BY <1>1, <1>5 DEF Settle, Given
  <2>2. Deleted(j)
    BY <1>1, <1>2, <2>1 DEF Deleted, OtherJobs
  <2> QED BY <1>1, <1>5, <2>2
<1> QED BY <1>3, <1>4, <1>5

LEMMA KillJob ==
  ASSUME InstallTypeOK, NEW r \in Runs, Kill(r), NEW j, j = run[r].job
  PROVE  /\ run[r].stage # "idle" /\ j \in Jobs
         /\ \/ job[j].run # r /\ job' = job
            \/ job[j].run = r /\ Returned(j, IF job[j].stage = "running" THEN 1 ELSE job[j].due)
<1>1. run[r].stage # "idle" /\ j \in Jobs
  BY CallAt DEF Kill
<1>2. job[j] \in JobState /\ job \in [Jobs -> JobState]
  BY <1>1, JobAt
<1>3. CASE job[j].run # r
  BY <1>1, <1>3 DEF Kill
<1>4. CASE job[j].run = r
  <2>1. job' = [job EXCEPT ![j].stage = "waiting", ![j].run = None, ![j].due =
                             IF job[j].stage = "running" THEN 1 ELSE job[j].due]
    BY <1>2, <1>4 DEF Kill
  <2>2. Returned(j, IF job[j].stage = "running" THEN 1 ELSE job[j].due)
    BY <1>1, <1>2, <2>1 DEF Returned, OtherJobs, JobState
  <2> QED BY <1>1, <1>4, <2>2
<1> QED BY <1>3, <1>4

LEMMA MinuteJob ==
  ASSUME InstallTypeOK, Minute, NEW k \in Jobs
  PROVE  /\ job'[k].run = job[k].run /\ job'[k].attempts = job[k].attempts
         /\ job[k].stage = "running" => job'[k].stage = "waiting" /\ job'[k].due = job[k].due
         /\ job[k].stage # "running" => /\ job'[k].stage = job[k].stage
                                        /\ job'[k].due = (IF job[k].due = 0 THEN 0 ELSE job[k].due - 1)
<1>1. job[k] \in JobState
  BY JobAt
<1>2. CASE job[k].stage = "running"
  BY <1>1, <1>2 DEF Minute, JobState
<1>3. CASE job[k].stage # "running"
  BY <1>1, <1>3 DEF Minute, JobState
<1> QED BY <1>2, <1>3

LEMMA PollJob ==
  ASSUME InstallTypeOK, NEW r \in Runs, NEW j \in Jobs, EnqueuePoll(r, j)
  PROVE  /\ OtherJobs(j) /\ job[j].stage = "gone" /\ job'[j].stage = "waiting" /\ job'[j].run = None
         /\ job'[j].attempts = 0 /\ job'[j].due = 1
         /\ Working(r) /\ Kept(r) /\ run'[r].stage = "reporting" /\ ~Given(r)' /\ state' = state
         /\ lease' = (IF owner = r THEN 0 ELSE lease) /\ UNCHANGED ghost
<1>1. /\ job' = [job EXCEPT ![j] = NewJob(run[r].polls + 1, 1)] /\ job[j].stage = "gone"
      /\ run[r].stage = "polled" /\ Leave(r, "ack", 0) /\ UNCHANGED ghost
  BY DEF EnqueuePoll, At
<1>2. OtherJobs(j) /\ job'[j] = NewJob(run[r].polls + 1, 1)
  BY <1>1, JobAt DEF OtherJobs
<1>3. /\ NewJob(run[r].polls + 1, 1).stage = "waiting" /\ NewJob(run[r].polls + 1, 1).run = None
      /\ NewJob(run[r].polls + 1, 1).attempts = 0 /\ NewJob(run[r].polls + 1, 1).due = 1
  BY DEF NewJob, NoJob
<1>4. /\ Kept(r) /\ run'[r].stage = "reporting" /\ run'[r].outcome = "ack" /\ state' = state
      /\ lease' = (IF owner = r THEN 0 ELSE lease)
  BY <1>1, LeaveKeeps
<1> QED BY <1>1, <1>2, <1>3, <1>4 DEF Working, Given
-----------------------------------------------------------------------------
(* The links between queue rows, calls and the lease.                       *)
Linked(k) == job[k].run # None => /\ job[k].run \in Runs /\ run[job[k].run].stage # "idle"
                                  /\ run[job[k].run].job = k
Joined ==
    /\ \A k \in Jobs : Linked(k) /\ (job[k].stage = "running" => job[k].run # None /\ job[k].due = 0)
    /\ owner # None => run[owner].stage # "idle"
    /\ \A r \in Runs : Given(r) => run[r].delay > 0

LEMMA NobodyCalls == None \notin Runs
BY InstallAssumption DEF None

LEMMA JoinedKept ==
  ASSUME InstallTypeOK, Joined, NEW r \in Runs, Kept(r)
  PROVE  /\ owner' # None => run'[owner'].stage # "idle"
         /\ \A s \in Runs : Given(s)' => run'[s].delay > 0
         /\ \A k \in Jobs : job'[k].run = job[k].run => Linked(k)'
<1>1. owner \in Runs \cup {None}
  BY InstallTypeParts DEF RowTyped
<1> QED BY <1>1 DEF Joined, Kept, Others, Linked, Given

LEMMA JoinedOver ==
  ASSUME InstallTypeOK, Joined, NEW r \in Runs, Over(r)
  PROVE  /\ owner' # None => run'[owner'].stage # "idle"
         /\ \A s \in Runs : Given(s)' => run'[s].delay > 0
         /\ \A k \in Jobs : job'[k].run = job[k].run /\ job[k].run # r => Linked(k)'
<1>1. owner \in Runs \cup {None}
  BY InstallTypeParts DEF RowTyped
<1> QED BY <1>1 DEF Joined, Over, Others, Linked, Given

LEMMA JoinedStep ==
  ASSUME InstallTypeOK, Escrowed, Joined, [InstallNext]_installVars
  PROVE  Joined'
<1>1. CASE UNCHANGED installVars \/ Disconnect
  <2>1. UNCHANGED <<owner, job, run>>
    BY <1>1 DEF installVars, row, Disconnect
  <2> QED BY <2>1 DEF Joined, Linked, Given
<1>2. CASE Minute
  <2>1. UNCHANGED <<owner, run>>
    BY <1>2 DEF Minute
  <2>2. ASSUME NEW k \in Jobs
        PROVE  Linked(k)' /\ (job'[k].stage = "running" => job'[k].run # None /\ job'[k].due = 0)
    BY <1>2, <2>1, MinuteJob DEF Joined, Linked
  <2> QED BY <2>1, <2>2 DEF Joined, Given
<1>3. ASSUME NEW r \in Runs, Advance(r) PROVE Joined'
  BY <1>3, AdvanceHandles, AdvanceLeaves, JoinedKept DEF Handles, Joined
<1>4. ASSUME NEW r \in Runs, NEW j \in Jobs, EnqueuePoll(r, j) PROVE Joined'
  <2>1. ASSUME NEW k \in Jobs
        PROVE  Linked(k)' /\ (job'[k].stage = "running" => job'[k].run # None /\ job'[k].due = 0)
    <3>1. CASE k = j
      BY <1>4, <3>1, PollJob DEF Linked
    <3>2. CASE k # j
      BY <1>4, <3>2, PollJob, JoinedKept DEF Joined, OtherJobs
    <3> QED BY <3>1, <3>2
  <2> QED BY <1>4, <2>1, PollJob, JoinedKept DEF Joined
<1>5. ASSUME NEW r \in Runs, NEW j \in Jobs, Claim(r, j) PROVE Joined'
  <2>1. run[r].stage = "idle" /\ job[j].due = 0 /\ job[j].attempts + 1 \in Nat
    BY <1>5, JobAt DEF Claim
  <2>2. run'[r].stage # "idle" /\ run'[r].job = j /\ Others(r) /\ owner' \in {owner, r}
    BY <1>5, ClaimJob DEF Given
  <2>3. ASSUME NEW k \in Jobs
        PROVE  Linked(k)' /\ (job'[k].stage = "running" => job'[k].run # None /\ job'[k].due = 0)
    <3>1. CASE k = j
      BY <1>5, <2>1, <2>2, <3>1, ClaimJob, NobodyCalls DEF Linked
    <3>2. CASE k # j
      BY <1>5, <2>1, <2>2, <3>2, ClaimJob DEF Joined, OtherJobs, Linked, Others
    <3> QED BY <3>1, <3>2
  <2>4. owner' # None => run'[owner'].stage # "idle"
    BY <2>2, InstallTypeParts DEF Joined, Others, RowTyped
  <2>5. \A s \in Runs : Given(s)' => run'[s].delay > 0
    BY <1>5, <2>1, <2>2, ClaimJob, DelaysPositive DEF Joined, Others, Given
  <2> QED BY <2>3, <2>4, <2>5 DEF Joined
<1>6. ASSUME NEW r \in Runs, Settle(r) \/ Kill(r) PROVE Joined'
  <2> DEFINE j == run[r].job
  <2>1. Over(r) /\ j \in Jobs
    BY <1>6, SettleEffect, KillEffect, SettleJob, KillJob
  <2>2. /\ run[r].stage = "reporting" /\ Given(r) => run[r].delay > 0
        /\ \A k \in Jobs : job[k].run = r => k = j
    BY NobodyCalls DEF Joined, Linked
  <2>3. \/ job[j].run # r /\ job' = job
        \/ job[j].run = r /\ (Deleted(j) \/ \E due : Returned(j, due))
    BY <1>6, SettleJob, KillJob
  <2>4. ASSUME NEW k \in Jobs
        PROVE  Linked(k)' /\ (job'[k].stage = "running" => job'[k].run # None /\ job'[k].due = 0)
    <3>1. CASE k = j /\ job[j].run = r
      BY <2>3, <3>1 DEF Linked, Deleted, Returned, NoJob
    <3>2. CASE k # j \/ job[j].run # r
      <4>1. job'[k] = job[k] /\ job[k].run # r
        BY <2>1, <2>2, <2>3, <3>2 DEF Deleted, Returned, OtherJobs
      <4> QED BY <2>1, <4>1, JoinedOver DEF Joined
    <3> QED BY <3>1, <3>2
  <2> QED BY <2>1, <2>4, JoinedOver DEF Joined
<1> QED BY <1>1, <1>2, <1>3, <1>4, <1>5, <1>6 DEF InstallNext, RunStep, Advance

LEMMA JoinedAlways == InstallSpec => []Joined
<1>1. InstallInit => Joined
  <2> SUFFICES ASSUME InstallInit PROVE Joined
    OBVIOUS
  <2>1. /\ NewJob(0, 0).run = None /\ NewJob(0, 0).stage = "waiting"
        /\ NoJob.run = None /\ NoJob.stage = "gone"
    BY DEF NewJob, NoJob
  <2>2. \A k \in Jobs : job[k].run = None /\ job[k].stage # "running"
    BY <2>1 DEF InstallInit
  <2>3. \A r \in Runs : run[r].stage = "idle"
    BY DEF InstallInit, NoRun
  <2> QED BY <2>2, <2>3 DEF InstallInit, Joined, Linked, Given
<1> QED BY <1>1, JoinedStep, InstallTypeCorrect, EscrowFits, PTL DEF InstallSpec
-----------------------------------------------------------------------------
(* The ceiling leaves room for the refusals of one held lease: a job claimed *)
(* once, refused twice and then put off by a whole lease has an attempt left.*)
RetriesOutlastLease == MaxAttempts >= 4 /\ LeaseMinutes >= 2

(* A queue row that the outcome of its call is about to remove; one that    *)
(* will be claimed again, or is in the hands of a call at work.             *)
Doomed(k) ==
    \E r \in Runs : /\ run[r].stage = "reporting" /\ job[k].run = r
                    /\ run[r].outcome = "retry" => job[k].attempts >= MaxAttempts
Safe(k) == job[k].stage # "gone" /\ ~Doomed(k)
OnHand(r) == job[run[r].job].run = r /\ job[run[r].job].stage = "running"
AtRest == \A r \in Runs : ~Working(r)

(* Before the first fault one row exists at a time, nothing is refused, and *)
(* a held lease is fresh and the lease of a call at work.                   *)
Calm ==
    /\ lease > 0 => lease = LeaseMinutes /\ ~AtRest
    /\ \A k \in Jobs : job[k].attempts <= 1
    /\ \A k \in Jobs : job[k].stage = "waiting" => job[k].attempts = 0 /\ AtRest
    /\ \A j, k \in Jobs : job[j].stage = "waiting" /\ job[k].stage = "waiting" => j = k
    /\ \A r \in Runs : ~Given(r)
    /\ \A r \in Runs : Working(r) => OnHand(r)

(* After it, refusals are bounded: while a call is at work, either its own  *)
(* row waits for its outcome or every row can still be refused; and once no *)
(* call is, what is left of the lease is shorter than a third retry.        *)
Slack ==
    \A k \in Jobs :
        job[k].attempts <= 2 /\ (job[k].stage = "waiting" /\ job[k].due = 0 => job[k].attempts <= 1)
Refusable ==
    \A k \in Jobs :
        job[k].attempts <= 3 /\ (job[k].attempts = 3 /\ job[k].stage = "waiting" => job[k].due >= lease)
Resumable ==
    /\ \A r \in Runs : Working(r) => OnHand(r) \/ Slack
    /\ lease > 0 /\ AtRest => Refusable
    /\ \A r \in Runs : Given(r) /\ job[run[r].job].run = r /\ job[run[r].job].attempts >= 3 =>
                           run[r].delay = LeaseMinutes

(* No lease has lapsed, and a cleanup under way has moved the state first.  *)
Intact == ~overrun /\ \A r \in Runs : CleaningUp(r) => state = "cleanup_pending"
Carried == state \notin Settled => \E k \in Jobs : Safe(k)

Recovering ==
    faults <= 1 => /\ Intact /\ Carried
                   /\ faults = 0 => Calm
                   /\ faults = 1 => Resumable
(* A call at work holds the lease alone.                                    *)
LEMMA Alone ==
  ASSUME InstallTypeOK, Unlapsed, Intact, NEW r \in Runs, Working(r)
  PROVE  InCharge(r) /\ lease > 0 /\ \A s \in Runs \ {r} : ~Working(s)
BY DEF Unlapsed, Intact, HasLease, InCharge, CleaningUp

LEMMA Fewest ==
  ASSUME InstallTypeOK, faults' \in {faults, faults + 1}, faults' <= 1
  PROVE  (faults = 0 /\ faults' = 0) \/ (faults = 0 /\ faults' = 1) \/ (faults = 1 /\ faults' = 1)
BY InstallTypeParts DEF GhostTyped

LEMMA AdvanceRecovers ==
  ASSUME InstallTypeOK, Escrowed, Unlapsed, Joined, Recovering, RetriesOutlastLease,
         NEW r \in Runs, Advance(r)
  PROVE  Recovering'
<1> SUFFICES ASSUME faults' <= 1
             PROVE  /\ Intact' /\ Carried'
                    /\ faults' = 0 => Calm'
                    /\ faults' = 1 => Resumable'
  BY DEF Recovering
<1>1. Working(r) /\ job' = job /\ overrun' = overrun /\ faults' \in {faults, faults + 1}
  BY AdvanceLeaves
<1>2. (faults = 0 /\ faults' = 0) \/ (faults = 0 /\ faults' = 1) \/ (faults = 1 /\ faults' = 1)
  BY <1>1, Fewest
<1>3. Intact /\ Carried /\ (faults = 0 => Calm) /\ (faults = 1 => Resumable)
  BY <1>2 DEF Recovering
<1>4. InCharge(r) /\ lease > 0 /\ \A s \in Runs \ {r} : ~Working(s)
  BY <1>1, <1>3, Alone
<1>5. Kept(r) /\ (GoesOn(r) \/ Ends(r) \/ BreaksOff(r))
  BY <1>4, AdvanceHandles DEF Handles
<1>6. /\ \A s \in Runs \ {r} : run'[s] = run[s] /\ ~Working(s)
      /\ run'[r].job = run[r].job /\ run[r].job \in Jobs
  BY <1>1, <1>4, <1>5, CallAt DEF Kept, Others, Working
<1>7. Intact'
  BY <1>1, <1>3, <1>4, <1>5, <1>6 DEF Intact, GoesOn, Ends, BreaksOff, Given, CleaningUp, Working
<1>8. CASE GoesOn(r)
  <2>1. ~AtRest /\ ~AtRest' /\ Working(r)'
    BY <1>1, <1>8 DEF AtRest, GoesOn
  <2>2. /\ \A s \in Runs : Given(s)' => Given(s) /\ run'[s] = run[s]
        /\ \A s \in Runs : OnHand(s)' <=> OnHand(s)
        /\ \A s \in Runs : Working(s)' => Working(s)
    BY <1>1, <1>6, <2>1 DEF Given, Working, OnHand
  <2>3. Carried'
    <3>1. \A k \in Jobs : Safe(k) => Safe(k)'
      BY <1>1, <1>6, <2>1 DEF Safe, Doomed, Working
    <3> QED BY <1>3, <1>8, <3>1 DEF Carried, GoesOn
  <2>4. faults' = 0 => Calm'
    BY <1>1, <1>2, <1>3, <1>4, <1>8, <2>1, <2>2 DEF Calm, GoesOn
  <2>5. ASSUME faults' = 1 PROVE Resumable'
    <3>1. CASE faults = 0
      BY <1>1, <1>3, <2>1, <2>2, <3>1 DEF Calm, Resumable
    <3>2. CASE faults = 1
      BY <1>1, <1>3, <2>1, <2>2, <3>2 DEF Resumable, Slack
    <3> QED BY <1>2, <2>5, <3>1, <3>2
  <2> QED BY <1>7, <2>3, <2>4, <2>5
<1>9. CASE Ends(r)
  <2>1. AtRest' /\ lease' = 0 /\ ~Given(r)' /\ Carried'
    BY <1>6, <1>9 DEF AtRest, Ends, Working, Carried
  <2>2. \A s \in Runs : Given(s)' => Given(s) /\ run'[s] = run[s]
    BY <1>6, <2>1 DEF Given
  <2>3. faults' = 0 => Calm'
    BY <1>1, <1>2, <1>3, <2>1, <2>2 DEF Calm, AtRest
  <2>4. ASSUME faults' = 1 PROVE Resumable'
    <3>1. CASE faults = 0
      BY <1>1, <1>3, <2>1, <2>2, <3>1 DEF Calm, Resumable, AtRest
    <3>2. CASE faults = 1
      BY <1>1, <1>3, <2>1, <2>2, <3>2 DEF Resumable, AtRest
    <3> QED BY <1>2, <2>4, <3>1, <3>2
  <2> QED BY <1>7, <2>1, <2>3, <2>4
<1>10. CASE BreaksOff(r)
  <2>1. faults = 0 /\ faults' = 1 /\ Calm
    BY <1>2, <1>3, <1>10, InstallTypeParts DEF BreaksOff, GhostTyped
  <2>2. \A k \in Jobs : job[k].attempts \in Nat /\ job[k].attempts <= 1
    BY <2>1, JobAt DEF Calm
  <2>3. AtRest' /\ Given(r)'
    BY <1>6, <1>10 DEF AtRest, BreaksOff, Given, Working
  <2>4. Resumable'
    BY <1>1, <1>6, <2>2, <2>3, CallAt DEF Resumable, Refusable, AtRest, Given, Calm
  <2>5. Carried'
    <3>1. OnHand(r)
      BY <1>1, <2>1 DEF Calm
    <3>2. Safe(run[r].job)'
      <4>1. ~(job[run[r].job].attempts >= MaxAttempts)
        BY <1>6, <2>2, InstallAssumption DEF RetriesOutlastLease
      <4> QED BY <1>1, <1>6, <2>3, <3>1, <4>1 DEF Safe, Doomed, OnHand, Given
    <3> QED BY <1>6, <3>2 DEF Carried
  <2> QED BY <1>7, <2>1, <2>4, <2>5
<1> QED BY <1>5, <1>8, <1>9, <1>10

LEMMA PollRecovers ==
  ASSUME InstallTypeOK, Unlapsed, Joined, Recovering, NEW r \in Runs, NEW j \in Jobs, EnqueuePoll(r, j)
  PROVE  Recovering'
<1> SUFFICES ASSUME faults <= 1
             PROVE  /\ Intact' /\ Carried'
                    /\ faults' = 0 => Calm'
                    /\ faults' = 1 => Resumable'
  BY PollJob DEF Recovering, ghost
<1>1. faults' = faults /\ overrun' = overrun /\ state' = state /\ Working(r)
  BY PollJob DEF ghost
<1>2. Intact /\ (faults = 0 => Calm) /\ (faults = 1 => Resumable)
  BY DEF Recovering
<1>3. lease' = 0 /\ \A s \in Runs \ {r} : run'[s] = run[s] /\ ~Working(s)
  BY <1>1, <1>2, Alone, PollJob DEF InCharge, Kept, Others
<1>4. run'[r].stage = "reporting" /\ ~Given(r)' /\ run'[r].job = run[r].job /\ run[r].job \in Jobs
  BY <1>1, PollJob, CallAt DEF Kept, Working
<1>5. AtRest' /\ \A s \in Runs : Given(s)' => Given(s) /\ run'[s] = run[s]
  BY <1>3, <1>4 DEF AtRest, Given, Working
<1>6. /\ OtherJobs(j) /\ job'[j].stage = "waiting" /\ job'[j].run = None
      /\ job'[j].attempts = 0 /\ job'[j].due = 1
  BY PollJob
<1>7. Intact'
  BY <1>1, <1>2, <1>3, <1>4 DEF Intact, CleaningUp
<1>8. Carried'
  <2>1. Safe(j)'
    BY <1>6, NobodyCalls DEF Safe, Doomed
  <2> QED BY <2>1 DEF Carried
<1>9. ASSUME faults = 0 PROVE Calm'
  <2>1. \A k \in Jobs : job[k].stage # "waiting"
    BY <1>1, <1>2, <1>9 DEF Calm, AtRest
  <2>2. \A k \in Jobs \ {j} : job'[k].stage # "waiting" /\ job'[k].attempts <= 1
    BY <1>2, <1>6, <1>9, <2>1 DEF Calm, OtherJobs
  <2> QED BY <1>2, <1>3, <1>5, <1>6, <1>9, <2>2 DEF Calm, AtRest
<1>10. ASSUME faults = 1 PROVE Resumable'
  <2>1. ASSUME NEW s \in Runs, Given(s)', job'[run'[s].job].run = s, job'[run'[s].job].attempts >= 3
        PROVE  run'[s].delay = LeaseMinutes
    <3>1. Given(s) /\ run'[s] = run[s] /\ run[s].job \in Jobs /\ run[s].job # j
      BY <1>5, <1>6, <2>1, CallAt, NobodyCalls DEF Given
    <3> QED BY <1>2, <1>6, <1>10, <2>1, <3>1 DEF Resumable, OtherJobs
  <2> QED BY <1>3, <1>5, <2>1 DEF Resumable, AtRest
<1> QED BY <1>1, <1>7, <1>8, <1>9, <1>10

LEMMA ClaimRecovers ==
  ASSUME InstallTypeOK, Unlapsed, Joined, Recovering, RetriesOutlastLease,
         NEW r \in Runs, NEW j \in Jobs, Claim(r, j)
  PROVE  Recovering'
<1> SUFFICES ASSUME faults <= 1
             PROVE  /\ Intact' /\ Carried'
                    /\ faults' = 0 => Calm'
                    /\ faults' = 1 => Resumable'
  BY DEF Recovering, Claim, ghost
<1>1. /\ faults' = faults /\ overrun' = overrun /\ state' = state /\ run[r].stage = "idle"
      /\ job[j].stage = "waiting" /\ job[j].due = 0
  BY DEF Claim, ghost
<1>2. Intact /\ (faults = 0 => Calm) /\ (faults = 1 => Resumable)
  BY DEF Recovering
<1>3. /\ OtherJobs(j) /\ job'[j].stage = "running" /\ job'[j].run = r
      /\ job'[j].attempts = job[j].attempts + 1 /\ job'[j].due = 0
      /\ Others(r) /\ run'[r].job = j /\ run'[r].stage \in {"work", "reporting"}
  BY <1>1, ClaimJob DEF Given
<1>4. job[j].attempts \in Nat /\ lease \in Nat /\ \A k \in Jobs : job[k].attempts \in Nat
  BY JobAt, InstallTypeParts DEF RowTyped, Delays
<1>5. Intact'
  BY <1>1, <1>2, <1>3 DEF Intact, CleaningUp, Others
(* The other calls handle what they handled.                                *)
<1>6. \A s \in Runs \ {r} : /\ run'[s] = run[s]
                            /\ s # r
                            /\ run[s].stage # "idle" => run[s].job \in Jobs
                            /\ run[s].stage # "idle" /\ job'[run[s].job].run = s =>
                                  run[s].job # j /\ job'[run[s].job] = job[run[s].job]
                            /\ run[s].stage # "idle" /\ OnHand(s) => OnHand(s)'
  BY <1>1, <1>3, CallAt DEF Others, OtherJobs, OnHand
<1>7. CASE lease = 0
  <2>1. run'[r].stage = "work" /\ lease' = LeaseMinutes
    BY <1>7, ClaimJob
  <2>2. \A s \in Runs : ~Working(s)
    BY <1>2, <1>4, <1>7, Alone
  <2>3. Working(r)' /\ ~Given(r)' /\ OnHand(r)' /\ ~AtRest' /\ \A s \in Runs \ {r} : ~Working(s)'
    BY <1>3, <1>6, <2>1, <2>2 DEF Working, Given, OnHand, AtRest
  <2>4. Carried'
    <3>1. Safe(j)'
      BY <1>3, <2>1 DEF Safe, Doomed
    <3> QED BY <3>1 DEF Carried
  <2>5. ASSUME faults = 0 PROVE Calm'
    <3>1. \A k \in Jobs \ {j} : job'[k].stage # "waiting" /\ job'[k].attempts <= 1
      BY <1>1, <1>2, <1>3, <2>5 DEF Calm, OtherJobs
    <3>2. job'[j].attempts <= 1 /\ \A s \in Runs : ~Given(s)'
      BY <1>1, <1>2, <1>3, <1>6, <2>3, <2>5 DEF Calm, Given
    <3> QED BY <1>3, <2>1, <2>3, <3>1, <3>2 DEF Calm
  <2>6. ASSUME faults = 1 PROVE Resumable'
    <3>1. ASSUME NEW s \in Runs, Given(s)', job'[run'[s].job].run = s, job'[run'[s].job].attempts >= 3
          PROVE  run'[s].delay = LeaseMinutes
      BY <1>2, <1>6, <2>3, <2>6, <3>1 DEF Resumable, Given
    <3> QED BY <2>3, <3>1 DEF Resumable
  <2> QED BY <1>1, <1>5, <2>4, <2>5, <2>6
<1>8. CASE lease > 0
  <2>1. Given(r)' /\ run'[r].delay = Backoff(job[j].attempts + 1) /\ lease' = lease
    BY <1>4, <1>8, ClaimJob
  <2>2. faults = 1 /\ Resumable
    BY <1>1, <1>2, <1>8, InstallTypeParts DEF Calm, GhostTyped
  <2>3. (AtRest' <=> AtRest) /\ (\A s \in Runs : Working(s)' <=> s # r /\ Working(s))
    BY <1>1, <1>6, <2>1 DEF AtRest, Working, Given
  <2>4. Slack => Slack'
    BY <1>1, <1>3, <1>4 DEF Slack, OtherJobs
  <2>5. AtRest => Refusable /\ Refusable' /\ job[j].attempts <= 2
    BY <1>1, <1>3, <1>4, <1>8, <2>1, <2>2 DEF Resumable, Refusable, OtherJobs
  <2>6. Resumable'
    <3>1. ASSUME NEW s \in Runs, Given(s)', job'[run'[s].job].run = s, job'[run'[s].job].attempts >= 3
          PROVE  run'[s].delay = LeaseMinutes
      <4>1. CASE s = r
        BY <1>3, <1>4, <2>1, <3>1, <4>1, DelaysPositive
      <4>2. CASE s # r
        BY <1>6, <2>2, <3>1, <4>2 DEF Resumable, Given
      <4> QED BY <4>1, <4>2
    <3>2. ASSUME NEW s \in Runs, Working(s)' PROVE OnHand(s)' \/ Slack'
      BY <1>6, <2>2, <2>3, <2>4, <3>2 DEF Resumable, Working
    <3> QED BY <2>1, <2>3, <2>5, <3>1, <3>2 DEF Resumable
  <2>7. \E k \in Jobs : Safe(k)'
    <3>1. CASE job[j].attempts <= 2
      <4>1. Safe(j)'
        BY <1>3, <1>4, <2>1, <3>1, InstallAssumption DEF Safe, Doomed, Given, RetriesOutlastLease
      <4> QED BY <4>1
    <3>2. CASE ~(job[j].attempts <= 2)
      <4>1. PICK s \in Runs : Working(s) /\ OnHand(s) /\ s # r
        BY <1>1, <1>4, <2>2, <2>5, <3>2 DEF Resumable, Slack, AtRest, Working
      <4>2. OnHand(s)' /\ Working(s)' /\ run'[s].job \in Jobs
        BY <1>6, <2>3, <4>1 DEF Working
      <4>3. PICK k \in Jobs : k = run'[s].job
        BY <4>2
      <4>4. Safe(k)'
        BY <4>2, <4>3 DEF Safe, Doomed, OnHand, Working
      <4> QED BY <4>4
    <3> QED BY <3>1, <3>2
  <2> QED BY <1>1, <1>5, <2>2, <2>6, <2>7 DEF Carried
<1> QED BY <1>4, <1>7, <1>8

(* A call that is over was in charge of its own job only.                   *)
LEMMA OverLeaves ==
  ASSUME InstallTypeOK, Joined, NEW r \in Runs, run[r].stage # "idle", Over(r), NEW j, j = run[r].job,
         job' = job \/ (job[j].run = r /\ OtherJobs(j) /\ job'[j].run = None)
  PROVE  /\ run'[r].stage = "idle" /\ j \in Jobs /\ state' = state /\ lease' = lease
         /\ \A k \in Jobs : job[k].run = r => k = j
         /\ \A s \in Runs \ {r} : /\ run'[s] = run[s] /\ s # r
                                  /\ run[s].stage # "idle" => run[s].job \in Jobs
                                  /\ run[s].stage # "idle" /\ job'[run[s].job].run = s =>
                                        job'[run[s].job] = job[run[s].job]
                                  /\ run[s].stage # "idle" /\ OnHand(s) => OnHand(s)'
         /\ \A k \in Jobs : Doomed(k)' => Doomed(k) /\ job'[k] = job[k]
<1>1. run'[r].stage = "idle" /\ j \in Jobs /\ state' = state /\ lease' = lease
  BY CallAt DEF Over
<1>2. \A k \in Jobs : job[k].run = r => k = j
  BY NobodyCalls DEF Joined, Linked
<1>3. \A s \in Runs \ {r} : /\ run'[s] = run[s] /\ s # r
                            /\ run[s].stage # "idle" => run[s].job \in Jobs
  BY CallAt DEF Over, Others
<1>4. ASSUME NEW s \in Runs \ {r}, run[s].stage # "idle"
      PROVE  /\ job'[run[s].job].run = s => job'[run[s].job] = job[run[s].job]
             /\ OnHand(s) => OnHand(s)'
  <2>1. run[s].job \in Jobs /\ run'[s] = run[s] /\ s # None /\ s # r
    BY <1>3, <1>4, NobodyCalls
  <2> QED BY <2>1 DEF OtherJobs, OnHand
<1>5. ASSUME NEW k \in Jobs, Doomed(k)' PROVE Doomed(k) /\ job'[k] = job[k]
  <2>1. PICK s \in Runs : /\ run'[s].stage = "reporting" /\ job'[k].run = s
                          /\ run'[s].outcome = "retry" => job'[k].attempts >= MaxAttempts
    BY <1>5 DEF Doomed
  <2>2. s # r /\ run'[s] = run[s] /\ job'[k] = job[k]
    BY <1>1, <1>3, <2>1, NobodyCalls DEF OtherJobs
  <2> QED BY <2>1, <2>2 DEF Doomed
<1> QED BY <1>1, <1>2, <1>3, <1>4, <1>5

LEMMA SettleRecovers ==
  ASSUME InstallTypeOK, Joined, Recovering, NEW r \in Runs, Settle(r)
  PROVE  Recovering'
<1> SUFFICES ASSUME faults <= 1
             PROVE  /\ Intact' /\ Carried'
                    /\ faults' = 0 => Calm'
                    /\ faults' = 1 => Resumable'
  BY DEF Recovering, Settle, ghost
<1> DEFINE j == run[r].job
<1>1. faults' = faults /\ overrun' = overrun /\ run[r].stage = "reporting" /\ Over(r)
  BY SettleEffect DEF Settle, ghost
<1>2. Intact /\ Carried /\ (faults = 0 => Calm) /\ (faults = 1 => Resumable)
  BY DEF Recovering
<1>3. \/ job[j].run # r /\ job' = job
      \/ /\ job[j].run = r /\ Given(r) /\ job[j].attempts < MaxAttempts /\ Returned(j, run[r].delay)
      \/ job[j].run = r /\ ~(Given(r) /\ job[j].attempts < MaxAttempts) /\ Deleted(j)
  BY SettleJob
<1>4. job' = job \/ (job[j].run = r /\ OtherJobs(j) /\ job'[j].run = None)
  BY <1>3 DEF Returned, Deleted, NoJob
<1>5. /\ run'[r].stage = "idle" /\ j \in Jobs /\ state' = state /\ lease' = lease
      /\ \A s \in Runs \ {r} : /\ run'[s] = run[s] /\ s # r
                               /\ run[s].stage # "idle" => run[s].job \in Jobs
                               /\ run[s].stage # "idle" /\ job'[run[s].job].run = s =>
                                     job'[run[s].job] = job[run[s].job]
                               /\ run[s].stage # "idle" /\ OnHand(s) => OnHand(s)'
      /\ \A k \in Jobs : Doomed(k)' => Doomed(k) /\ job'[k] = job[k]
  BY <1>1, <1>4, OverLeaves
<1>6. /\ AtRest' <=> AtRest
      /\ \A s \in Runs : Working(s)' <=> Working(s)
      /\ \A s \in Runs : Given(s)' => Given(s) /\ run'[s] = run[s] /\ s # r
  BY <1>1, <1>5 DEF AtRest, Working, Given
<1>7. Intact'
  BY <1>1, <1>2, <1>5 DEF Intact, CleaningUp
<1>8. Carried'
  <2>1. ASSUME state \notin Settled PROVE \E k \in Jobs : Safe(k)'
    <3>1. PICK k \in Jobs : Safe(k)
      BY <1>2, <2>1 DEF Carried
    <3>2. job'[k].stage # "gone"
      <4>1. CASE Deleted(j)
        <5>1. k # j
          BY <1>1, <1>3, <1>5, <3>1, <4>1, JobAt, NobodyCalls, InstallAssumption
             DEF Safe, Doomed, Given, Deleted, NoJob, Returned
        <5> QED BY <3>1, <4>1, <5>1 DEF Deleted, OtherJobs, Safe
      <4>2. CASE ~Deleted(j)
        BY <1>3, <3>1, <4>2 DEF Returned, OtherJobs, Safe
      <4> QED BY <4>1, <4>2
    <3> QED BY <1>5, <3>1, <3>2 DEF Safe
  <2> QED BY <1>5, <2>1 DEF Carried
<1>9. \A k \in Jobs : /\ job'[k].attempts = job[k].attempts \/ job'[k].attempts = 0
                      /\ job'[k].stage = "waiting" =>
                            \/ job'[k] = job[k]
                            \/ k = j /\ Returned(j, run[r].delay) /\ job[j].run = r /\ Given(r)
  BY <1>3 DEF Returned, Deleted, OtherJobs, NoJob
<1>10. ASSUME faults = 0 PROVE Calm'
  <2>1. \A k \in Jobs : job'[k].stage = "waiting" => job'[k] = job[k]
    BY <1>2, <1>9, <1>10 DEF Calm
  <2>2. \A k \in Jobs : job'[k].attempts <= 1
    BY <1>2, <1>9, <1>10 DEF Calm
  <2>3. \A s \in Runs : ~Given(s)' /\ (Working(s)' => OnHand(s)')
    BY <1>1, <1>2, <1>5, <1>6, <1>10 DEF Calm, Working
  <2> QED BY <1>2, <1>5, <1>6, <1>10, <2>1, <2>2, <2>3 DEF Calm
<1>11. ASSUME faults = 1 PROVE Resumable'
  <2>1. run[r].delay > 0 \/ ~Given(r)
    BY DEF Joined
  <2>2. Slack => Slack'
    BY <1>3, <1>9, <2>1, JobAt DEF Slack, Returned, Given
  <2>3. ASSUME lease > 0, AtRest PROVE Refusable'
    <3>1. Refusable
      BY <1>2, <1>11, <2>3 DEF Resumable
    <3>2. ASSUME NEW k \in Jobs, job'[k].attempts = 3, job'[k].stage = "waiting"
          PROVE  job'[k].due >= lease
      <4>1. CASE job'[k] = job[k]
        BY <3>1, <3>2, <4>1 DEF Refusable
      <4>2. CASE k = j /\ Returned(j, run[r].delay) /\ job[j].run = r /\ Given(r)
        <5>1. job'[k].due = run[r].delay /\ job[j].attempts = 3
          BY <3>2, <4>2 DEF Returned
        <5>2. run[r].delay = LeaseMinutes
          BY <1>2, <1>11, <4>2, <5>1 DEF Resumable
        <5>3. lease <= LeaseMinutes /\ lease \in Nat /\ LeaseMinutes \in Nat
          BY InstallTypeParts, InstallAssumption DEF RowTyped, Delays
        <5> QED BY <5>1, <5>2, <5>3
      <4> QED BY <1>9, <3>2, <4>1, <4>2
    <3> QED BY <1>5, <1>9, <3>1, <3>2 DEF Refusable
  <2>4. ASSUME NEW s \in Runs, Given(s)', job'[run'[s].job].run = s, job'[run'[s].job].attempts >= 3
        PROVE  run'[s].delay = LeaseMinutes
    BY <1>2, <1>5, <1>6, <1>11, <2>4 DEF Resumable, Given
  <2>5. ASSUME NEW s \in Runs, Working(s)' PROVE OnHand(s)' \/ Slack'
    BY <1>1, <1>2, <1>5, <1>6, <1>11, <2>2, <2>5 DEF Resumable, Working
  <2> QED BY <1>5, <1>6, <2>3, <2>4, <2>5 DEF Resumable
<1> QED BY <1>1, <1>7, <1>8, <1>10, <1>11

LEMMA KillRecovers ==
  ASSUME InstallTypeOK, Joined, Recovering, RetriesOutlastLease, NEW r \in Runs, Kill(r)
  PROVE  Recovering'
<1> SUFFICES ASSUME faults' <= 1
             PROVE  /\ Intact' /\ Carried'
                    /\ faults' = 0 => Calm'
                    /\ faults' = 1 => Resumable'
  BY DEF Recovering
<1> DEFINE j == run[r].job
<1>1. faults = 0 /\ faults' = 1 /\ overrun' = overrun /\ run[r].stage # "idle" /\ Over(r)
  <2>1. faults' = faults + 1 /\ overrun' = overrun /\ run[r].stage # "idle"
    BY DEF Kill, Fault
  <2> QED BY <2>1, KillEffect, InstallTypeParts DEF GhostTyped
<1>2. Intact /\ Carried /\ Calm
  BY <1>1 DEF Recovering
<1>3. \/ job[j].run # r /\ job' = job
      \/ job[j].run = r /\ Returned(j, IF job[j].stage = "running" THEN 1 ELSE job[j].due)
  BY KillJob
<1>4. job' = job \/ (job[j].run = r /\ OtherJobs(j) /\ job'[j].run = None)
  BY <1>3 DEF Returned
<1>5. /\ run'[r].stage = "idle" /\ j \in Jobs /\ state' = state /\ lease' = lease
      /\ \A s \in Runs \ {r} : /\ run'[s] = run[s] /\ s # r
                               /\ run[s].stage # "idle" => run[s].job \in Jobs
                               /\ run[s].stage # "idle" /\ job'[run[s].job].run = s =>
                                     job'[run[s].job] = job[run[s].job]
                               /\ run[s].stage # "idle" /\ OnHand(s) => OnHand(s)'
      /\ \A k \in Jobs : Doomed(k)' => Doomed(k) /\ job'[k] = job[k]
  BY <1>1, <1>4, OverLeaves
<1>6. Intact'
  BY <1>1, <1>2, <1>5 DEF Intact, CleaningUp
<1>7. Carried'
  <2>1. ASSUME NEW k \in Jobs, Safe(k) PROVE Safe(k)'
    BY <1>3, <1>5, <2>1 DEF Safe, Returned, OtherJobs
  <2> QED BY <1>2, <1>5, <2>1 DEF Carried
<1>8. \A k \in Jobs : job'[k].attempts \in Nat /\ job'[k].attempts <= 1
  BY <1>2, <1>3, JobAt DEF Calm, Returned, OtherJobs
<1>9. \A s \in Runs : Working(s)' => OnHand(s)'
  BY <1>2, <1>5 DEF Calm, Working
<1>10. \A s \in Runs : ~Given(s)'
  BY <1>2, <1>5 DEF Calm, Given
<1>11. Resumable'
  BY <1>8, <1>9, <1>10 DEF Resumable, Refusable
<1> QED BY <1>1, <1>6, <1>7, <1>11

LEMMA MinuteRecovers ==
  ASSUME InstallTypeOK, Joined, Recovering, RetriesOutlastLease, Minute
  PROVE  Recovering'
<1> SUFFICES ASSUME faults' <= 1
             PROVE  /\ Intact' /\ Carried'
                    /\ faults' = 0 => Calm'
                    /\ faults' = 1 => Resumable'
  BY DEF Recovering
<1>1. /\ IF Quiet THEN faults' = faults ELSE faults' = faults + 1
      /\ overrun' = (overrun \/ (lease = 1 /\ owner # None))
      /\ lease' = (IF lease = 0 THEN 0 ELSE lease - 1)
      /\ UNCHANGED <<state, owner, run>>
  BY DEF Minute, Fault
<1>2. (faults = 0 /\ faults' = 0) \/ (faults = 0 /\ faults' = 1) \/ (faults = 1 /\ faults' = 1)
  BY <1>1, Fewest
<1>3. Intact /\ Carried /\ (faults = 0 => Calm) /\ (faults = 1 => Resumable)
  BY <1>2 DEF Recovering
<1>4. \A k \in Jobs :
        /\ job'[k].run = job[k].run /\ job'[k].attempts = job[k].attempts
        /\ job[k].stage = "running" => job'[k].stage = "waiting" /\ job'[k].due = job[k].due
        /\ job[k].stage # "running" => /\ job'[k].stage = job[k].stage
                                       /\ job'[k].due = (IF job[k].due = 0 THEN 0 ELSE job[k].due - 1)
  BY MinuteJob
<1>5. /\ lease \in Nat /\ LeaseMinutes \in Nat
      /\ \A k \in Jobs : job[k].attempts \in Nat /\ job[k].due \in Nat
  BY JobAt, InstallTypeParts, InstallAssumption DEF RowTyped, Delays
<1>6. Quiet => owner = None /\ AtRest /\ (\A k \in Jobs : job[k].stage # "running")
               /\ \A s \in Runs : ~Given(s)
  <2>1. owner \in Runs \cup {None}
    BY InstallTypeParts DEF RowTyped
  <2> QED BY <2>1 DEF Quiet, Joined, Linked, AtRest, Working, Given
<1>7. ~overrun'
  <2>1. CASE Quiet
    BY <1>1, <1>3, <1>6, <2>1 DEF Intact
  <2>2. CASE ~Quiet
    <3>1. faults = 0
      BY <1>1, <1>2, <2>2
    <3>2. lease # 1
      BY <1>3, <1>5, <3>1 DEF Calm, RetriesOutlastLease
    <3> QED BY <1>1, <1>3, <3>2 DEF Intact
  <2> QED BY <2>1, <2>2
<1>8. Intact'
  BY <1>1, <1>3, <1>7 DEF Intact, CleaningUp
<1>9. Carried'
  <2>1. \A k \in Jobs : Safe(k) => Safe(k)'
    BY <1>1, <1>4 DEF Safe, Doomed
  <2> QED BY <1>1, <1>3, <2>1 DEF Carried
<1>10. ASSUME faults' = 0 PROVE Calm'
  <2>1. Quiet /\ Calm
    BY <1>1, <1>2, <1>3, <1>10
  <2>2. lease = 0 /\ lease' = 0
    BY <1>1, <1>5, <1>6, <2>1 DEF Calm
  <2>3. \A k \in Jobs : job'[k].stage = job[k].stage /\ job'[k].attempts = job[k].attempts
    BY <1>4, <1>6, <2>1
  <2>4. AtRest' /\ \A s \in Runs : ~Given(s)' /\ ~Working(s)'
    BY <1>1, <1>6, <2>1 DEF AtRest, Working, Given
  <2> QED BY <2>1, <2>2, <2>3, <2>4 DEF Calm
<1>11. ASSUME faults' = 1 PROVE Resumable'
  <2>1. CASE faults = 0
    <3>1. \A k \in Jobs : job'[k].attempts \in Nat /\ job'[k].attempts <= 1
      BY <1>3, <1>4, <1>5, <2>1 DEF Calm
    <3>2. Slack' /\ Refusable'
      BY <3>1 DEF Slack, Refusable
    <3>3. \A s \in Runs : ~Given(s)'
      BY <1>1, <1>3, <2>1 DEF Calm, Given
    <3> QED BY <3>2, <3>3 DEF Resumable
  <2>2. CASE faults = 1
    <3>1. Quiet /\ Resumable
      BY <1>1, <1>2, <1>3, <1>5, <2>2, <1>11
    <3>2. \A s \in Runs : ~Given(s)' /\ ~Working(s)'
      BY <1>1, <1>6, <3>1 DEF AtRest, Working, Given
    <3>3. ASSUME lease' > 0 PROVE Refusable'
      <4>1. lease > 0 /\ lease' = lease - 1 /\ Refusable
        BY <1>1, <1>5, <1>6, <3>1, <3>3 DEF Resumable
      <4> QED BY <1>4, <1>5, <1>6, <3>1, <4>1 DEF Refusable
    <3> QED BY <3>2, <3>3 DEF Resumable
  <2> QED BY <1>2, <1>11, <2>1, <2>2
<1> QED BY <1>8, <1>9, <1>10, <1>11

LEMMA RecoversAlways ==
  ASSUME RetriesOutlastLease
  PROVE  InstallSpec => []Recovering
<1>1. InstallInit => Recovering
  <2> SUFFICES ASSUME InstallInit PROVE Recovering
    OBVIOUS
  <2>1. PICK first \in Jobs : job = [j \in Jobs |-> IF j = first THEN NewJob(0, 0) ELSE NoJob]
    BY DEF InstallInit
  <2>2. /\ NewJob(0, 0).run = None /\ NewJob(0, 0).stage = "waiting" /\ NewJob(0, 0).attempts = 0
        /\ NoJob.run = None /\ NoJob.stage = "gone" /\ NoJob.attempts = 0
    BY DEF NewJob, NoJob
  <2>3. \A r \in Runs : run[r].stage = "idle"
    BY DEF InstallInit, NoRun
  <2>4. AtRest /\ \A r \in Runs : ~Given(r) /\ ~Working(r) /\ ~CleaningUp(r)
    BY <2>3 DEF AtRest, Given, Working, CleaningUp
  <2>5. Safe(first)
    BY <2>1, <2>2, <2>3 DEF Safe, Doomed
  <2>6. Calm
    BY <2>1, <2>2, <2>4 DEF InstallInit, Calm
  <2> QED BY <2>4, <2>5, <2>6 DEF InstallInit, Recovering, Intact, Carried
<1>2. /\ InstallTypeOK /\ Escrowed /\ Unlapsed /\ Joined /\ Recovering
      /\ [InstallNext]_installVars
      => Recovering'
  <2> SUFFICES ASSUME InstallTypeOK, Escrowed, Unlapsed, Joined, Recovering, [InstallNext]_installVars
               PROVE  Recovering'
    OBVIOUS
  <2>1. CASE UNCHANGED installVars \/ Disconnect
    <3>1. UNCHANGED <<state, lease, job, run, faults, overrun>>
      BY <2>1 DEF installVars, row, ghost, Disconnect
    <3> QED BY <3>1 DEF Recovering, Intact, Carried, Calm, Resumable, Refusable, Slack, AtRest,
                        Safe, Doomed, OnHand, Given, Working, CleaningUp
  <2> QED BY <2>1, AdvanceRecovers, PollRecovers, ClaimRecovers, SettleRecovers, KillRecovers,
             MinuteRecovers DEF InstallNext, RunStep, Advance
<1> QED BY <1>1, <1>2, InstallTypeCorrect, EscrowFits, UnlapsedAlways, JoinedAlways, PTL DEF InstallSpec

(* An install hit by one fault at most keeps a job until it is finished, if *)
(* the retries of a refused delivery outlast the lease, as the code's five  *)
(* attempts do (src/modules/install/installer.ts, src/queue).               *)
THEOREM NeverLeftBehind ==
  ASSUME RetriesOutlastLease
  PROVE  InstallSpec => []NeverStranded
<1>1. InstallTypeOK /\ Recovering => NeverStranded
  <2> SUFFICES ASSUME InstallTypeOK, Recovering, faults <= 1, \A k \in Jobs : job[k].stage = "gone"
               PROVE  state \in {"active"} \cup Failed
    BY DEF NeverStranded
  <2> QED BY DEF Recovering, Carried, Safe, Settled
<1> QED BY <1>1, InstallTypeCorrect, RecoversAlways, PTL
=============================================================================
