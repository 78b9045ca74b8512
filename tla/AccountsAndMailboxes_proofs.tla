--------------------- MODULE AccountsAndMailboxes_proofs ---------------------
(***************************************************************************)
(* Proofs about AgentAccounts, about MailboxGrants on top of it, and about *)
(* the Gmail grant of a mailbox (GmailMailbox), for any agents, mailboxes, *)
(* requests and grants.                                                    *)
(*                                                                         *)
(* AdminRemains is not inductive: a change that counted two admins may be  *)
(* about to write.  The strengthening says what each request may rely on   *)
(* at its stage: there is one request in the critical section (OneLocker), *)
(* what it has read is still so (ReadsHold), a count that let a change go  *)
(* on left another admin (AnotherAdmin), and what the handlers checked     *)
(* without a lock cannot become false (ChecksHold).                        *)
(***************************************************************************)
EXTENDS MailboxGrants, GmailMailbox, FiniteSetTheorems, TLAPS

OneLocker == \A r, q \in Requests :
    call[r].stage \in Critical /\ call[q].stage \in Critical => r = q

ReadsHold == \A r \in Requests :
    call[r].kind = "change" /\ call[r].stage \in {"read", "counted"} =>
        /\ Exists(call[r].agent)
        /\ call[r].oldRole = role[call[r].agent]
        /\ call[r].oldStatus = status[call[r].agent]

AnotherAdmin == \A r \in Requests :
    call[r].kind = "change" /\ call[r].stage = "counted" /\ TakesAdminAway(r) =>
        \E b \in ActiveAdmins : b # call[r].agent

Joined(a) == status[a] \in {"active", "disabled", "deleted"}

ChecksHold == \A r \in Requests : call[r].stage # "idle" =>
    /\ call[r].kind = "create" => /\ call[r].role \in Roles
                                  /\ call[r].status \in {"invited", "active"}
                                  /\ founded > 0
    /\ call[r].kind = "change" => /\ call[r].agent \in Agents
                                  /\ call[r].status \in {Keep, "active", "disabled", "deleted"}
                                  /\ call[r].status \in {"active", "disabled"} => Joined(call[r].agent)
    /\ call[r].kind = "password" => call[r].agent \in Agents /\ Joined(call[r].agent)

Founding ==
    /\ \A a \in Agents : Exists(a) => founded > 0
    /\ \A r \in Requests : call[r].kind = "setup" /\ call[r].stage = "counted" => founded = 0

IInv ==
    /\ TypeOK /\ OneLocker /\ ReadsHold /\ AnotherAdmin /\ ChecksHold /\ Founding
    /\ SomeAdmin /\ FoundedOnce /\ PasswordWhenJoined

Tables == /\ role \in [Agents -> Roles]
          /\ status \in [Agents -> {"absent", "invited", "active", "disabled", "deleted"}]
          /\ password \in [Agents -> BOOLEAN]
          /\ founded \in Nat

Call == [kind : Kinds, stage : Stages, agent : Agents \cup {Nobody}, role : Roles \cup {Keep},
         status : {Keep, "invited", "active", "disabled", "deleted"},
         oldRole : Roles, oldStatus : {"absent", "invited", "active", "disabled"}]

LEMMA TypeParts == TypeOK <=> Tables /\ call \in [Requests -> Call]
  BY DEF TypeOK, Tables, Call

LEMMA IdleType == Idle \in Call
  BY DEF Idle, Call, Kinds, Stages, Critical, Roles, Keep, Nobody

-----------------------------------------------------------------------------
LEMMA InitInv == Init => IInv
<1> SUFFICES ASSUME Init PROVE IInv
  OBVIOUS
<1> USE DEF Init
<1>1. \A r \in Requests : call[r] = Idle
  OBVIOUS
<1>2. \A r \in Requests : call[r].stage = "idle"
  BY <1>1 DEF Idle
<1>3. TypeOK
  BY IdleType, TypeParts DEF Tables, Roles
<1>4. OneLocker /\ ReadsHold /\ AnotherAdmin /\ ChecksHold
  BY <1>2 DEF OneLocker, ReadsHold, AnotherAdmin, ChecksHold, Critical
<1>5. Founding /\ SomeAdmin /\ FoundedOnce /\ PasswordWhenJoined
  BY <1>2 DEF Founding, SomeAdmin, FoundedOnce, PasswordWhenJoined, Exists
<1> QED
  BY <1>3, <1>4, <1>5 DEF IInv

(* A step that leaves the tables alone and moves one request to c: it is    *)
(* enough that c itself is in order.                                        *)
LEMMA RequestStep ==
  ASSUME IInv, NEW r \in Requests, NEW c \in Call,
         call' = [call EXCEPT ![r] = c], UNCHANGED <<table, founded>>,
         c.stage \in Critical => \A q \in Requests \ {r} : call[q].stage \notin Critical,
         c.kind = "change" /\ c.stage \in {"read", "counted"} =>
            Exists(c.agent) /\ c.oldRole = role[c.agent] /\ c.oldStatus = status[c.agent],
         c.kind = "change" /\ c.stage = "counted" /\ TakesAdminAway(r)' =>
            \E b \in ActiveAdmins : b # c.agent,
         c.kind = "setup" /\ c.stage = "counted" => founded = 0,
         c.stage # "idle" =>
            /\ c.kind = "create" => /\ c.role \in Roles /\ c.status \in {"invited", "active"}
                                    /\ founded > 0
            /\ c.kind = "change" => /\ c.agent \in Agents
                                    /\ c.status \in {Keep, "active", "disabled", "deleted"}
                                    /\ c.status \in {"active", "disabled"} => Joined(c.agent)
            /\ c.kind = "password" => c.agent \in Agents /\ Joined(c.agent)
  PROVE  IInv'
<1>1. /\ call \in [Requests -> Call]
      /\ role' = role /\ status' = status /\ password' = password /\ founded' = founded
  BY TypeParts DEF IInv, table
<1>2. \A q \in Requests : call'[q] = IF q = r THEN c ELSE call[q]
  BY <1>1
<1>3. TypeOK'
  BY <1>1, TypeParts DEF IInv, TypeOK, Call
<1>4. OneLocker'
  BY <1>2 DEF IInv, OneLocker
<1>5. ReadsHold'
  BY <1>1, <1>2 DEF IInv, ReadsHold, Exists
<1>6. ASSUME NEW q \in Requests, call'[q].kind = "change", call'[q].stage = "counted",
             TakesAdminAway(q)'
      PROVE  \E b \in ActiveAdmins' : b # call'[q].agent
  <2>1. ActiveAdmins' = ActiveAdmins
    BY <1>1 DEF ActiveAdmins
  <2>2. CASE q = r
    BY <2>1, <2>2, <1>2, <1>6
  <2>3. CASE q # r
    <3>1. call'[q] = call[q]
      BY <2>3, <1>2
    <3>2. TakesAdminAway(q)
      BY <3>1, <1>6 DEF TakesAdminAway, NewRole, NewStatus
    <3> QED
      BY <3>1, <3>2, <2>1, <1>6 DEF IInv, AnotherAdmin
  <2> QED
    BY <2>2, <2>3
<1>7. ChecksHold'
  BY <1>1, <1>2 DEF IInv, ChecksHold, Joined
<1>8. Founding'
  BY <1>1, <1>2 DEF IInv, Founding, Exists
<1>9. SomeAdmin' /\ FoundedOnce' /\ PasswordWhenJoined'
  BY <1>1 DEF IInv, SomeAdmin, FoundedOnce, PasswordWhenJoined, ActiveAdmins, Exists
<1> QED
  BY <1>3, <1>4, <1>5, <1>6, <1>7, <1>8, <1>9 DEF IInv, AnotherAdmin

(* A request that ends without having written anything is in order.         *)
LEMMA ReturnStep ==
  ASSUME IInv, NEW r \in Requests, Return(r), UNCHANGED <<table, founded>>
  PROVE  IInv'
<1>1. Idle \in Call /\ Idle.stage = "idle"
  BY IdleType DEF Idle
<1>2. call' = [call EXCEPT ![r] = Idle]
  BY DEF Return
<1> QED
  BY <1>1, <1>2, RequestStep DEF Critical

(* A step that writes the row of a and ends the requests in W: the others   *)
(* have not read that row, and do not count on its being an admin.          *)
Write(a, W, ro, st, pw) ==
    /\ role' = [role EXCEPT ![a] = ro]
    /\ status' = [status EXCEPT ![a] = st]
    /\ password' = [password EXCEPT ![a] = pw]
    /\ founded' \in {founded, founded + 1} /\ founded' <= 1
    /\ call' = [q \in Requests |-> IF q \in W THEN Idle ELSE call[q]]
    /\ \A q \in Requests \ W :
          /\ call[q].kind = "change" /\ call[q].stage \in {"read", "counted"} => call[q].agent # a
          /\ call[q].kind = "setup" /\ call[q].stage = "counted" => founded' = 0
    /\ \/ a \in ActiveAdmins => ro = "admin" /\ st = "active"
       \/ \A q \in Requests \ W : call[q].stage \notin Critical
    /\ Joined(a) => st # "invited"
    /\ st # "deleted" => founded' > 0 /\ (pw <=> st # "invited")
    /\ founded' > 0 => ActiveAdmins' # {}

LEMMA WriteStep ==
  ASSUME IInv, NEW a \in Agents, NEW W \in SUBSET Requests,
         NEW ro \in Roles, NEW st \in {"invited", "active", "disabled", "deleted"},
         NEW pw \in BOOLEAN, Write(a, W, ro, st, pw)
  PROVE  IInv'
<1> USE DEF Write
<1>1. Tables /\ call \in [Requests -> Call] /\ founded \in Nat
  BY TypeParts DEF IInv, Tables
<1>2. \A b \in Agents : /\ role'[b] = IF b = a THEN ro ELSE role[b]
                        /\ status'[b] = IF b = a THEN st ELSE status[b]
                        /\ password'[b] = IF b = a THEN pw ELSE password[b]
  BY <1>1 DEF Tables
<1>3. /\ \A q \in Requests : q \notin W => call'[q] = call[q]
      /\ \A q \in Requests : q \in W => call'[q].stage = "idle"
  BY DEF Idle
<1>4. TypeOK'
  <2>1. role' \in [Agents -> Roles] /\ password' \in [Agents -> BOOLEAN]
    BY <1>1 DEF Tables
  <2>2. status' \in [Agents -> {"absent", "invited", "active", "disabled", "deleted"}]
    BY <1>1 DEF Tables
  <2>3. call' \in [Requests -> Call]
    BY <1>1, IdleType
  <2> QED
    BY <2>1, <2>2, <2>3, <1>1 DEF TypeOK, Call
<1>5. OneLocker'
  BY <1>3 DEF IInv, OneLocker, Critical
<1>6. ReadsHold'
  <2> SUFFICES ASSUME NEW q \in Requests, call'[q].kind = "change",
                      call'[q].stage \in {"read", "counted"}
               PROVE  /\ Exists(call[q].agent)'
                      /\ call'[q].oldRole = role'[call'[q].agent]
                      /\ call'[q].oldStatus = status'[call'[q].agent]
    BY DEF ReadsHold
  <2>1. q \notin W /\ call'[q] = call[q]
    BY <1>3
  <2>2. call[q].agent \in Agents /\ call[q].agent # a
    BY <2>1 DEF IInv, ChecksHold
  <2> QED
    BY <2>1, <2>2, <1>2 DEF IInv, ReadsHold, Exists
<1>7. ASSUME NEW q \in Requests, call'[q].kind = "change", call'[q].stage = "counted",
             TakesAdminAway(q)'
      PROVE  \E b \in ActiveAdmins' : b # call'[q].agent
  <2>1. q \notin W /\ call'[q] = call[q] /\ call[q].stage \in Critical
    BY <1>3, <1>7 DEF Critical
  <2>2. TakesAdminAway(q)
    BY <2>1, <1>7 DEF TakesAdminAway, NewRole, NewStatus
  <2>3. PICK b \in ActiveAdmins : b # call[q].agent
    BY <2>1, <2>2, <1>7 DEF IInv, AnotherAdmin
  <2>4. b \in ActiveAdmins'
    BY <2>1, <1>2 DEF ActiveAdmins
  <2> QED
    BY <2>1, <2>3, <2>4
<1>8. \A b \in Agents : Joined(b) => Joined(b)'
  BY <1>2 DEF Joined
<1>9. ChecksHold'
  <2> SUFFICES ASSUME NEW q \in Requests, call'[q].stage # "idle"
               PROVE  /\ call'[q].kind = "create" =>
                            /\ call'[q].role \in Roles
                            /\ call'[q].status \in {"invited", "active"}
                            /\ founded' > 0
                      /\ call'[q].kind = "change" =>
                            /\ call'[q].agent \in Agents
                            /\ call'[q].status \in {Keep, "active", "disabled", "deleted"}
                            /\ call'[q].status \in {"active", "disabled"} =>
                                  Joined(call[q].agent)'
                      /\ call'[q].kind = "password" =>
                            call'[q].agent \in Agents /\ Joined(call[q].agent)'
    BY DEF ChecksHold, Joined
  <2>1. q \notin W /\ call'[q] = call[q]
    BY <1>3
  <2> QED
    BY <2>1, <1>1, <1>8 DEF IInv, ChecksHold
<1>10. Founding'
  <2>1. \A b \in Agents : Exists(b)' => founded' > 0
    BY <1>1, <1>2 DEF IInv, Founding, Exists
  <2>2. \A q \in Requests : call'[q].kind = "setup" /\ call'[q].stage = "counted" => founded' = 0
    BY <1>3
  <2> QED
    BY <2>1, <2>2 DEF Founding
<1>11. PasswordWhenJoined'
  BY <1>2 DEF IInv, PasswordWhenJoined, Exists
<1>12. SomeAdmin' /\ FoundedOnce'
  BY DEF SomeAdmin, FoundedOnce
<1> QED
  BY <1>4, <1>5, <1>6, <1>7, <1>9, <1>10, <1>11, <1>12 DEF IInv, AnotherAdmin

-----------------------------------------------------------------------------
(* The handlers' checks: there is an active admin only after the setup.     *)
LEMMA FoundedWithAdmin == IInv /\ ActiveAdmins # {} => founded > 0
  BY DEF IInv, Founding, ActiveAdmins, Exists

LEMMA BeginStep ==
  ASSUME IInv, NEW r \in Requests, NEW kind \in Kinds, NEW a \in Agents \cup {Nobody},
         NEW ro \in Roles \cup {Keep}, NEW st \in {Keep, "invited", "active", "disabled", "deleted"},
         Begin(r, kind, a, ro, st),
         kind = "create" => ro \in Roles /\ st \in {"invited", "active"} /\ founded > 0,
         kind = "change" => a \in Agents /\ st # "invited"
                            /\ (st \in {"active", "disabled"} => Joined(a)),
         kind = "password" => a \in Agents /\ Joined(a)
  PROVE  IInv'
<1> DEFINE c == [Idle EXCEPT !.kind = kind, !.stage = "checked",
                             !.agent = a, !.role = ro, !.status = st]
<1>1. /\ c \in Call /\ c.kind = kind /\ c.stage = "checked"
      /\ c.agent = a /\ c.role = ro /\ c.status = st
  BY IdleType DEF Idle, Call, Stages
<1>2. call' = [call EXCEPT ![r] = c] /\ UNCHANGED <<table, founded>>
  BY DEF Begin
<1>3. c.stage \notin Critical /\ c.stage # "counted" /\ c.stage # "read"
  BY <1>1 DEF Critical
<1> HIDE DEF c
<1> QED
  BY <1>1, <1>2, <1>3, RequestStep

LEMMA BeginSteps ==
  ASSUME IInv, NEW r \in Requests,
         \/ BeginSetup(r) \/ BeginCreate(r)
         \/ \E a \in Agents : BeginPatch(r, a) \/ BeginDelete(r, a) \/ BeginSetPassword(r, a)
  PROVE  IInv'
<1>1. CASE BeginSetup(r)
  BY <1>1, BeginStep DEF BeginSetup, Kinds
<1>2. CASE BeginCreate(r)
  <2>1. PICK ro \in Roles, st \in {"invited", "active"} : Begin(r, "create", Nobody, ro, st)
    BY <1>2 DEF BeginCreate
  <2>2. founded > 0
    BY <1>2, FoundedWithAdmin DEF BeginCreate
  <2> QED
    BY <2>1, <2>2, BeginStep DEF Kinds
<1>3. ASSUME NEW a \in Agents, BeginPatch(r, a)
      PROVE  IInv'
  <2>1. PICK ro \in Roles \cup {Keep}, st \in {Keep, "active", "disabled"} :
           (st # Keep => MayChangeStatus(a)) /\ Begin(r, "change", a, ro, st)
    BY <1>3 DEF BeginPatch
  <2>2. st \in {"active", "disabled"} => Joined(a)
    BY <2>1 DEF MayChangeStatus, Exists, Joined, Keep
  <2>3. st # "invited"
    BY DEF Keep
  <2> QED
    BY <2>1, <2>2, <2>3, BeginStep DEF Kinds
<1>4. ASSUME NEW a \in Agents, BeginDelete(r, a)
      PROVE  IInv'
  BY <1>4, BeginStep DEF BeginDelete, Kinds
<1>5. ASSUME NEW a \in Agents, BeginSetPassword(r, a)
      PROVE  IInv'
  <2>1. Joined(a)
    BY <1>5 DEF BeginSetPassword, MaySetPassword, Exists, Joined
  <2> QED
    BY <1>5, <2>1, BeginStep DEF BeginSetPassword, Kinds
<1> QED
  BY <1>1, <1>2, <1>3, <1>4, <1>5

-----------------------------------------------------------------------------
(* The steps inside a transaction that only read.                           *)
LEMMA GotoType ==
  ASSUME IInv, NEW r \in Requests, NEW s \in Stages
  PROVE  LET c == [call[r] EXCEPT !.stage = s] IN
         /\ c \in Call /\ c.stage = s /\ c.kind = call[r].kind /\ c.agent = call[r].agent
         /\ c.role = call[r].role /\ c.status = call[r].status
         /\ c.oldRole = call[r].oldRole /\ c.oldStatus = call[r].oldStatus
<1>1. call[r] \in Call
  BY TypeParts DEF IInv
<1> QED
  BY <1>1 DEF Call

LEMMA LockStep ==
  ASSUME IInv, NEW r \in Requests, Lock(r)
  PROVE  IInv'
<1> DEFINE c == [call[r] EXCEPT !.stage = "locked"]
<1>1. /\ c \in Call /\ c.stage = "locked" /\ c.kind = call[r].kind /\ c.agent = call[r].agent
      /\ c.role = call[r].role /\ c.status = call[r].status
  BY GotoType DEF Stages, Critical
<1>2. call' = [call EXCEPT ![r] = c] /\ UNCHANGED <<table, founded>> /\ call[r].stage = "checked"
  BY TypeParts DEF Lock, Goto, IInv
<1>3. \A q \in Requests \ {r} : call[q].stage \notin Critical
  BY DEF Lock, LockFree
<1> HIDE DEF c
<1> QED
  BY <1>1, <1>2, <1>3, RequestStep DEF IInv, ChecksHold

LEMMA FindAgentsStep ==
  ASSUME IInv, NEW r \in Requests, FindAgents(r)
  PROVE  IInv'
<1> DEFINE c == [call[r] EXCEPT !.stage = "counted"]
<1>1. CASE Return(r)
  BY <1>1, ReturnStep DEF FindAgents
<1>2. CASE Goto(r, "counted") /\ ~\E a \in Agents : Exists(a)
  <2>1. c \in Call /\ c.stage = "counted" /\ c.kind = "setup"
    BY GotoType DEF Stages, Critical, FindAgents
  <2>2. call' = [call EXCEPT ![r] = c] /\ UNCHANGED <<table, founded>>
    BY <1>2, TypeParts DEF FindAgents, Goto, IInv
  <2>3. \A q \in Requests \ {r} : call[q].stage \notin Critical
    BY DEF FindAgents, IInv, OneLocker, Critical
  <2>4. founded = 0
    <3>1. ActiveAdmins = {}
      BY <1>2 DEF ActiveAdmins, Exists
    <3> QED
      BY <3>1, TypeParts DEF IInv, SomeAdmin, Tables
  <2> HIDE DEF c
  <2> QED
    BY <2>1, <2>2, <2>3, <2>4, RequestStep
<1> QED
  BY <1>1, <1>2 DEF FindAgents

LEMMA ReadRowStep ==
  ASSUME IInv, NEW r \in Requests, ReadRow(r)
  PROVE  IInv'
<1> DEFINE a == call[r].agent
           c == [call[r] EXCEPT !.stage = "read", !.oldRole = role[a], !.oldStatus = status[a]]
<1>1. CASE ~Exists(a)
  BY <1>1, ReturnStep DEF ReadRow
<1>2. CASE Exists(a)
  <2>1. a \in Agents /\ call[r].stage = "locked" /\ call[r].kind = "change" /\ call[r] \in Call
    BY TypeParts DEF ReadRow, IInv, ChecksHold
  <2>2. role[a] \in Roles /\ status[a] \in {"invited", "active", "disabled"}
    BY <1>2, <2>1, TypeParts DEF IInv, Tables, Exists
  <2>3. /\ c \in Call /\ c.stage = "read" /\ c.kind = "change" /\ c.agent = a
        /\ c.status = call[r].status /\ c.oldRole = role[a] /\ c.oldStatus = status[a]
    BY <2>1, <2>2 DEF Call, Stages, Critical
  <2>4. call' = [call EXCEPT ![r] = c] /\ UNCHANGED <<table, founded>>
    <3>1. call' = [call EXCEPT ![r].stage = "read", ![r].oldRole = role[a],
                               ![r].oldStatus = status[a]]
      BY <1>2 DEF ReadRow
    <3> QED
      BY <3>1, TypeParts DEF ReadRow, IInv
  <2>5. \A q \in Requests \ {r} : call[q].stage \notin Critical
    BY <2>1 DEF IInv, OneLocker, Critical
  <2>6. a \in Agents /\ call[r].status \in {Keep, "active", "disabled", "deleted"}
        /\ (call[r].status \in {"active", "disabled"} => Joined(a))
    BY <2>1 DEF IInv, ChecksHold
  <2> HIDE DEF c
  <2> QED
    BY <1>2, <2>3, <2>4, <2>5, <2>6, RequestStep
<1> QED
  BY <1>1, <1>2

(* More than one active admin means another one, whichever is taken away.   *)
LEMMA AnotherOne ==
  ASSUME Cardinality(ActiveAdmins) > 1, NEW a
  PROVE  \E b \in ActiveAdmins : b # a
<1>1. SUFFICES ASSUME ActiveAdmins \subseteq {a}
               PROVE  FALSE
  OBVIOUS
<1>2. IsFiniteSet({a}) /\ Cardinality({a}) = 1
  BY FS_Singleton
<1>3. Cardinality(ActiveAdmins) <= 1 /\ Cardinality(ActiveAdmins) \in Nat
  BY <1>1, <1>2, FS_Subset, FS_CardinalityType
<1> QED
  BY <1>3

LEMMA CountAdminsStep ==
  ASSUME IInv, NEW r \in Requests, CountAdmins(r)
  PROVE  IInv'
<1> DEFINE c == [call[r] EXCEPT !.stage = "counted"]
<1>1. CASE TakesAdminAway(r) /\ Cardinality(ActiveAdmins) <= 1
  BY <1>1, ReturnStep DEF CountAdmins
<1>2. CASE ~(TakesAdminAway(r) /\ Cardinality(ActiveAdmins) <= 1)
  <2>1. /\ c \in Call /\ c.stage = "counted" /\ c.kind = "change" /\ c.agent = call[r].agent
        /\ c.role = call[r].role /\ c.status = call[r].status
        /\ c.oldRole = call[r].oldRole /\ c.oldStatus = call[r].oldStatus
    BY GotoType DEF Stages, Critical, CountAdmins
  <2>2. call' = [call EXCEPT ![r] = c] /\ UNCHANGED <<table, founded>> /\ call'[r] = c
    BY <1>2, TypeParts DEF CountAdmins, Goto, IInv
  <2>3. \A q \in Requests \ {r} : call[q].stage \notin Critical
    BY DEF CountAdmins, IInv, OneLocker, Critical
  <2>4. /\ Exists(call[r].agent)
        /\ call[r].oldRole = role[call[r].agent] /\ call[r].oldStatus = status[call[r].agent]
    BY DEF CountAdmins, IInv, ReadsHold
  <2>5. ASSUME TakesAdminAway(r)'
        PROVE  \E b \in ActiveAdmins : b # c.agent
    <3> HIDE DEF c
    <3>1. TakesAdminAway(r)
      BY <2>1, <2>2, <2>5 DEF TakesAdminAway, NewRole, NewStatus
    <3>2. IsFiniteSet(ActiveAdmins) /\ Cardinality(ActiveAdmins) \in Nat
      BY AgentsAssumption, FS_Subset, FS_CardinalityType DEF ActiveAdmins
    <3> QED
      BY <1>2, <3>1, <3>2, AnotherOne
  <2>6. /\ call[r].agent \in Agents
        /\ call[r].status \in {Keep, "active", "disabled", "deleted"}
        /\ call[r].status \in {"active", "disabled"} => Joined(call[r].agent)
    BY DEF CountAdmins, IInv, ChecksHold
  <2> HIDE DEF c
  <2> QED
    BY <2>1, <2>2, <2>3, <2>4, <2>5, <2>6, RequestStep
<1> QED
  BY <1>1, <1>2

-----------------------------------------------------------------------------
(* The steps that write a row.                                              *)
LEMMA CreateStep ==
  ASSUME IInv, NEW r \in Requests, NEW a \in Agents, Create(r, a)
  PROVE  IInv'
<1>1. /\ call[r].role \in Roles /\ call[r].status \in {"invited", "active"} /\ founded > 0
      /\ founded <= 1 /\ founded \in Nat /\ status[a] = "absent"
  BY TypeParts DEF IInv, ChecksHold, Create, FoundedOnce, Tables
<1>2. call' = [q \in Requests |-> IF q \in {r} THEN Idle ELSE call[q]]
  BY TypeParts DEF Create, Return, IInv
<1>3. \A q \in Requests : call[q].kind = "change" /\ call[q].stage \in {"read", "counted"}
         => call[q].agent # a
  BY <1>1 DEF IInv, ReadsHold, Exists
<1>4. \A q \in Requests : ~(call[q].kind = "setup" /\ call[q].stage = "counted")
  BY <1>1 DEF IInv, Founding
<1>5. a \notin ActiveAdmins /\ ~Joined(a)
  BY <1>1 DEF ActiveAdmins, Joined
<1>6. ActiveAdmins' # {}
  <2>1. ActiveAdmins # {}
    BY <1>1 DEF IInv, SomeAdmin
  <2>2. \A b \in ActiveAdmins : b \in ActiveAdmins'
    BY <1>5, TypeParts DEF ActiveAdmins, Create, IInv, Tables
  <2> QED
    BY <2>1, <2>2
<1>7. /\ role' = [role EXCEPT ![a] = call[r].role]
      /\ status' = [status EXCEPT ![a] = call[r].status]
      /\ password' = [password EXCEPT ![a] = call[r].status = "active"]
      /\ founded' = founded
  BY DEF Create
<1> DEFINE pw == call[r].status = "active"
<1>8. pw \in BOOLEAN /\ (pw <=> call[r].status # "invited") /\ password' = [password EXCEPT ![a] = pw]
  BY <1>1, <1>7
<1> HIDE DEF pw
<1>9. {r} \in SUBSET Requests /\ call[r].status \in {"invited", "active", "disabled", "deleted"}
  BY <1>1
<1>10. Write(a, {r}, call[r].role, call[r].status, pw)
  BY <1>1, <1>2, <1>3, <1>4, <1>5, <1>6, <1>7, <1>8 DEF Write
<1> QED
  BY <1>1, <1>8, <1>9, <1>10, WriteStep

LEMMA CreateFirstAdminStep ==
  ASSUME IInv, NEW r \in Requests, NEW a \in Agents, CreateFirstAdmin(r, a)
  PROVE  IInv'
<1>1. status[a] = "absent" /\ founded = 0 /\ founded' = 1
  BY DEF CreateFirstAdmin, IInv, Founding
<1>2. call' = [q \in Requests |-> IF q \in {r} THEN Idle ELSE call[q]]
  BY TypeParts DEF CreateFirstAdmin, Return, IInv
<1>3. \A q \in Requests \ {r} : call[q].stage \notin Critical
  BY DEF CreateFirstAdmin, IInv, OneLocker, Critical
<1>4. \A q \in Requests \ {r} : call[q].stage # "counted" /\ call[q].stage # "read"
  BY <1>3 DEF Critical
<1>5. /\ role' = [role EXCEPT ![a] = "admin"] /\ status' = [status EXCEPT ![a] = "active"]
      /\ password' = [password EXCEPT ![a] = TRUE]
  BY DEF CreateFirstAdmin
<1>6. a \in ActiveAdmins'
  BY <1>5, TypeParts DEF ActiveAdmins, IInv, Tables
<1>7. {r} \in SUBSET Requests /\ "admin" \in Roles
  BY DEF Roles
<1>8. \A q \in Requests \ {r} :
         /\ ~(call[q].kind = "change" /\ call[q].stage \in {"read", "counted"})
         /\ ~(call[q].kind = "setup" /\ call[q].stage = "counted")
  BY <1>4
<1>9. Write(a, {r}, "admin", "active", TRUE)
  BY <1>1, <1>2, <1>3, <1>5, <1>6, <1>8 DEF Write
<1> QED
  BY <1>7, <1>9, WriteStep

LEMMA AcceptInviteStep ==
  ASSUME IInv, NEW a \in Agents, AcceptInvite(a)
  PROVE  IInv'
<1>1. /\ status[a] = "invited" /\ role[a] \in Roles /\ founded > 0 /\ founded <= 1
      /\ founded \in Nat
  BY TypeParts DEF IInv, Tables, Founding, Exists, FoundedOnce, AcceptInvite
<1>2. call' = [q \in Requests |-> IF q \in {} THEN Idle ELSE call[q]]
  BY TypeParts DEF AcceptInvite, IInv
<1>3. \A q \in Requests : call[q].kind = "change" /\ call[q].stage \in {"read", "counted"}
         => call[q].agent # a
  BY DEF AcceptInvite, RowFree
<1>4. \A q \in Requests : ~(call[q].kind = "setup" /\ call[q].stage = "counted")
  BY <1>1 DEF IInv, Founding
<1>5. a \notin ActiveAdmins
  BY <1>1 DEF ActiveAdmins
<1>6. /\ role' = [role EXCEPT ![a] = role[a]] /\ status' = [status EXCEPT ![a] = "active"]
      /\ password' = [password EXCEPT ![a] = TRUE] /\ founded' = founded
  BY TypeParts DEF AcceptInvite, IInv, Tables
<1>7. ActiveAdmins' # {}
  <2>1. ActiveAdmins # {}
    BY <1>1 DEF IInv, SomeAdmin
  <2>2. \A b \in ActiveAdmins : b \in ActiveAdmins'
    BY <1>5, <1>6, TypeParts DEF ActiveAdmins, IInv, Tables
  <2> QED
    BY <2>1, <2>2
<1>8. {} \in SUBSET Requests
  OBVIOUS
<1>9. Write(a, {}, role[a], "active", TRUE)
  BY <1>1, <1>2, <1>3, <1>4, <1>5, <1>6, <1>7 DEF Write
<1> QED
  BY <1>1, <1>8, <1>9, WriteStep

LEMMA ChangeStep ==
  ASSUME IInv, NEW r \in Requests, Change(r)
  PROVE  IInv'
<1> DEFINE a == call[r].agent
           ro == NewRole(r)
           st == NewStatus(r)
           pw == password[a] /\ st # "deleted"
<1>1. /\ a \in Agents /\ Exists(a) /\ call[r] \in Call
      /\ call[r].oldRole = role[a] /\ call[r].oldStatus = status[a]
      /\ call[r].status \in {Keep, "active", "disabled", "deleted"}
      /\ call[r].status \in {"active", "disabled"} => Joined(a)
  BY TypeParts DEF Change, IInv, ReadsHold, ChecksHold
<1>2. ro \in Roles /\ st \in {"invited", "active", "disabled", "deleted"}
      /\ (st = "invited" <=> call[r].status = Keep /\ status[a] = "invited")
  BY <1>1 DEF NewRole, NewStatus, Call, Exists, Keep
<1>3. /\ founded > 0 /\ founded <= 1 /\ founded \in Nat /\ Tables
      /\ password[a] <=> status[a] # "invited"
  BY <1>1, TypeParts DEF IInv, Tables, Founding, FoundedOnce, PasswordWhenJoined
<1>4. call' = [q \in Requests |-> IF q \in {r} THEN Idle ELSE call[q]]
  BY TypeParts DEF Change, Return, IInv
<1>5. /\ role' = [role EXCEPT ![a] = ro] /\ status' = [status EXCEPT ![a] = st]
      /\ password' = [password EXCEPT ![a] = pw] /\ founded' = founded
  BY DEF Change
<1>6. \A q \in Requests \ {r} : call[q].stage \notin Critical
  BY DEF Change, IInv, OneLocker, Critical
<1>7. \A q \in Requests \ {r} :
         /\ ~(call[q].kind = "change" /\ call[q].stage \in {"read", "counted"})
         /\ ~(call[q].kind = "setup" /\ call[q].stage = "counted")
  BY <1>6 DEF Critical
<1>8. st # "deleted" => (pw <=> st # "invited")
  <2>1. status[a] # "invited" \/ call[r].status = Keep \/ call[r].status = "deleted"
    BY <1>1 DEF Joined
  <2>2. call[r].status = "deleted" => st = "deleted"
    BY DEF NewStatus, Keep
  <2> QED
    BY <1>2, <1>3, <2>1, <2>2
<1>9. Joined(a) => st # "invited"
  BY <1>2 DEF Joined
<1>10. ActiveAdmins' # {}
  <2> HIDE DEF a, ro, st, pw
  <2>1. \A b \in ActiveAdmins : b # a => b \in ActiveAdmins'
    BY <1>1, <1>3, <1>5 DEF ActiveAdmins, Tables
  <2>2. CASE TakesAdminAway(r)
    <3>1. PICK b \in ActiveAdmins : b # a
      BY <2>2 DEF IInv, AnotherAdmin, Change, a
    <3> QED
      BY <2>1, <3>1
  <2>3. CASE ~TakesAdminAway(r)
    <3>1. a \in ActiveAdmins => ro = "admin" /\ st = "active"
      BY <2>3, <1>1 DEF TakesAdminAway, ActiveAdmins, ro, st
    <3>2. a \in ActiveAdmins => a \in ActiveAdmins'
      BY <1>1, <1>3, <1>5, <3>1 DEF ActiveAdmins, Tables
    <3>3. ActiveAdmins # {}
      BY <1>3 DEF IInv, SomeAdmin
    <3> QED
      BY <2>1, <3>2, <3>3
  <2> QED
    BY <2>2, <2>3
<1>11. pw \in BOOLEAN
  BY <1>1, <1>3 DEF Tables
<1>12. {r} \in SUBSET Requests
  OBVIOUS
<1> HIDE DEF a, ro, st, pw
<1>13. Write(a, {r}, ro, st, pw)
  BY <1>3, <1>4, <1>5, <1>6, <1>7, <1>8, <1>9, <1>10 DEF Write
<1> QED
  BY <1>1, <1>2, <1>11, <1>12, <1>13, WriteStep

LEMMA SetPasswordStep ==
  ASSUME IInv, NEW r \in Requests, SetPassword(r)
  PROVE  IInv'
<1> DEFINE a == call[r].agent
<1>1. a \in Agents /\ Joined(a)
  BY DEF SetPassword, IInv, ChecksHold
<1>2. CASE ~Exists(a)
  <2>1. password' = password
    BY <1>1, <1>2, TypeParts DEF SetPassword, IInv, Tables
  <2> QED
    BY <2>1, ReturnStep DEF SetPassword, table
<1>3. CASE Exists(a)
  <2>1. password[a] = TRUE
    BY <1>1, <1>3, TypeParts DEF IInv, PasswordWhenJoined, Joined, Tables
  <2>2. password' = password
    BY <1>1, <1>3, <2>1, TypeParts DEF SetPassword, IInv, Tables
  <2> QED
    BY <2>2, ReturnStep DEF SetPassword, table
<1> QED
  BY <1>2, <1>3

-----------------------------------------------------------------------------
(* Every step keeps the invariant, ...                                      *)
LEMMA NextInv == IInv /\ [Next]_vars => IInv'
<1> SUFFICES ASSUME IInv, [Next]_vars PROVE IInv'
  OBVIOUS
<1>1. ASSUME NEW r \in Requests, BeginSetup(r) \/ BeginCreate(r)
      PROVE  IInv'
  BY <1>1, BeginSteps
<1>2. ASSUME NEW r \in Requests, NEW a \in Agents,
             BeginPatch(r, a) \/ BeginDelete(r, a) \/ BeginSetPassword(r, a)
      PROVE  IInv'
  BY <1>2, BeginSteps
<1>3. ASSUME NEW r \in Requests, NEW a \in Agents, Create(r, a) \/ CreateFirstAdmin(r, a)
      PROVE  IInv'
  BY <1>3, CreateStep, CreateFirstAdminStep
<1>4. ASSUME NEW r \in Requests, SetPassword(r) \/ Lock(r) \/ FindAgents(r)
      PROVE  IInv'
  BY <1>4, SetPasswordStep, LockStep, FindAgentsStep
<1>5. ASSUME NEW r \in Requests, ReadRow(r) \/ CountAdmins(r) \/ Change(r)
      PROVE  IInv'
  BY <1>5, ReadRowStep, CountAdminsStep, ChangeStep
<1>6. ASSUME NEW r \in Requests, Abort(r)
      PROVE  IInv'
  BY <1>6, ReturnStep DEF Abort
<1>7. ASSUME NEW a \in Agents, AcceptInvite(a)
      PROVE  IInv'
  BY <1>7, AcceptInviteStep
<1>8. CASE UNCHANGED vars
  <2>1. UNCHANGED <<role, status, password, call, founded>>
    BY <1>8 DEF vars, table
  <2> QED
    BY <2>1 DEF IInv, TypeOK, OneLocker, ReadsHold, AnotherAdmin, ChecksHold, Founding, Joined,
                SomeAdmin, FoundedOnce, PasswordWhenJoined, TakesAdminAway, NewRole,
                NewStatus, ActiveAdmins, Exists
<1> QED
  BY <1>1, <1>2, <1>3, <1>4, <1>5, <1>6, <1>7, <1>8 DEF Next

(* ... so it always holds.                                                  *)
THEOREM Invariance == Spec => []IInv
  BY InitInv, NextInv, PTL DEF Spec

(* The tables and the requests keep their types: no handler changes a row   *)
(* that was never created, whatever it read before it took the lock.        *)
THEOREM TypeCorrect == Spec => []TypeOK
<1>1. IInv => TypeOK
  BY DEF IInv
<1> QED
  BY <1>1, Invariance, PTL

(* A deployment is set up once, however many setups race, and then always   *)
(* has an active admin, whichever demotions, disablings and deletions of    *)
(* any number of agents race.                                               *)
THEOREM AdminAlwaysRemains == Spec => []AdminRemains
<1>1. IInv => AdminRemains
  BY DEF IInv, AdminRemains
<1> QED
  BY <1>1, Invariance, PTL

(* An agent has a password exactly when it is no longer invited: no PATCH,  *)
(* deletion, password change or acceptance in flight can break that.        *)
THEOREM PasswordsFollowStatus == Spec => []PasswordWhenJoined
<1>1. IInv => PasswordWhenJoined
  BY DEF IInv
<1> QED
  BY <1>1, Invariance, PTL

(* A change writes back nothing that another transaction has overwritten    *)
(* since it read the row: the lock and FOR UPDATE keep its read current.    *)
THEOREM ChangesAreAsAsked == Spec => ChangesOnlyAsAsked
<1>1. ASSUME IInv, NEW r \in Requests, NEW a \in Agents, Change(r), a = call[r].agent
      PROVE  /\ call[r].role = Keep => role'[a] = role[a]
             /\ call[r].status = Keep => status'[a] = status[a]
  <2>1. call[r].oldRole = role[a] /\ call[r].oldStatus = status[a]
    BY <1>1 DEF Change, IInv, ReadsHold
  <2>2. role'[a] = NewRole(r) /\ status'[a] = NewStatus(r)
    BY <1>1, TypeParts DEF Change, IInv, Tables
  <2> QED
    BY <2>1, <2>2 DEF NewRole, NewStatus
<1>2. IInv /\ [Next]_vars => [\A r \in Requests, a \in Agents :
         Change(r) /\ a = call[r].agent =>
            /\ call[r].role = Keep => role'[a] = role[a]
            /\ call[r].status = Keep => status'[a] = status[a]]_vars
  BY <1>1
<1> QED
  BY <1>2, Invariance, PTL DEF Spec, ChangesOnlyAsAsked

-----------------------------------------------------------------------------
(* MailboxGrants.                                                           *)

(* What a PUT leaves of the grants that it does not name.                   *)
LEMMA InsertEffect ==
  ASSUME GrantsOfExisting, NEW p \in Puts, InsertGrants(p)
  PROVE  /\ put[p].agent \in Agents /\ put' \in [Puts -> [agent : Agents \cup {Nobody},
                                      ids : SUBSET Mailboxes, removed : SUBSET Mailboxes]]
         /\ \A a \in Agents \ {put[p].agent} : grants'[a] = grants[a]
         /\ grants'[put[p].agent] \subseteq grants[put[p].agent] \cup put[p].ids
         /\ grants' \in [Agents -> SUBSET Mailboxes]
<1> DEFINE P == [agent : Agents \cup {Nobody}, ids : SUBSET Mailboxes, removed : SUBSET Mailboxes]
           a == put[p].agent
<1>1. put \in [Puts -> P] /\ grants \in [Agents -> SUBSET Mailboxes]
  BY DEF GrantsOfExisting, GrantsTypeOK
<1>2. a \in Agents /\ put[p].ids \in SUBSET Mailboxes
  BY <1>1 DEF InsertGrants
<1>3. NoPut \in P
  BY DEF NoPut
<1>4. \A q \in Puts : [put[q] EXCEPT !.removed = @ \ put[p].removed] \in P
  BY <1>1
<1>5. put' \in [Puts -> P]
  BY <1>1, <1>3, <1>4 DEF InsertGrants
<1>6. grants' = [grants EXCEPT ![a] = (grants[a] \ put[p].removed) \cup put[p].ids]
  BY DEF InsertGrants
<1> QED BY <1>1, <1>2, <1>5, <1>6

(* The grants are always those of existing agents: a deletion takes them    *)
(* along, and a PUT that was begun before it inserts nothing after it.      *)
THEOREM GrantsAreOfExisting == GrantsSpec => []GrantsOfExisting
<1> DEFINE P == [agent : Agents \cup {Nobody}, ids : SUBSET Mailboxes, removed : SUBSET Mailboxes]
<1>1. GrantsInit => GrantsOfExisting
  BY DEF GrantsInit, GrantsOfExisting, GrantsTypeOK, NoPut
<1>2. GrantsOfExisting /\ [GrantsNext]_allVars => GrantsOfExisting'
  <2> SUFFICES ASSUME GrantsOfExisting, [GrantsNext]_allVars PROVE GrantsOfExisting'
    OBVIOUS
  <2>0. /\ grants \in [Agents -> SUBSET Mailboxes] /\ put \in [Puts -> P]
        /\ \A a \in Agents : grants[a] # {} => Exists(a)
    BY DEF GrantsOfExisting, GrantsTypeOK
  <2>1. CASE ChangeAgents
    <3>1. \A a \in Agents : grants'[a] = Granted(a)
      BY <2>1 DEF ChangeAgents
    <3>2. \A a \in Agents : Granted(a) \in SUBSET Mailboxes
      BY <2>0 DEF Granted, Cascade
    <3>3. \A a \in Agents : Granted(a) # {} => Exists(a)'
      BY <2>0 DEF Granted, Cascade
    <3>4. grants' \in [Agents -> SUBSET Mailboxes]
      BY <2>1, <3>2 DEF ChangeAgents
    <3> QED BY <2>0, <2>1, <3>1, <3>3, <3>4 DEF ChangeAgents, GrantsOfExisting, GrantsTypeOK
  <2>2. ASSUME NEW p \in Puts, NEW a \in Agents, NEW ids \in SUBSET Mailboxes, BeginPut(p, a, ids)
        PROVE  GrantsOfExisting'
    <3>1. [agent |-> a, ids |-> ids, removed |-> grants[a]] \in P
      BY <2>0
    <3>2. put' \in [Puts -> P]
      BY <2>0, <2>2, <3>1 DEF BeginPut
    <3> QED BY <2>0, <2>2, <3>2 DEF BeginPut, GrantsOfExisting, GrantsTypeOK, Exists, vars, table
  <2>3. ASSUME NEW p \in Puts, InsertGrants(p) PROVE GrantsOfExisting'
    <3>1. put[p].ids # {} => Exists(put[p].agent)
      BY <2>3 DEF InsertGrants, AgentThere
    <3>2. status' = status
      BY <2>3 DEF InsertGrants, vars, table
    <3>3. \A a \in Agents : grants'[a] # {} => Exists(a)
      BY <2>0, <2>3, <3>1, InsertEffect
    <3> QED BY <2>3, <3>2, <3>3, InsertEffect DEF GrantsOfExisting, GrantsTypeOK, Exists
  <2>4. ASSUME NEW p \in Puts, AbortPut(p) PROVE GrantsOfExisting'
    <3>1. put' \in [Puts -> P]
      <4>1. NoPut \in P
        BY DEF NoPut
      <4> QED BY <2>0, <2>4, <4>1 DEF AbortPut
    <3> QED BY <2>0, <2>4, <3>1 DEF AbortPut, GrantsOfExisting, GrantsTypeOK, Exists, vars, table
  <2>5. CASE UNCHANGED allVars
    BY <2>0, <2>5 DEF allVars, vars, table, GrantsOfExisting, GrantsTypeOK, Exists
  <2> QED BY <2>1, <2>2, <2>3, <2>4, <2>5 DEF GrantsNext
<1> QED BY <1>1, <1>2, PTL DEF GrantsSpec

-----------------------------------------------------------------------------
(* The grant of a Gmail mailbox, for any number of callers, of disconnects  *)
(* and of grants.  The types carry the fence: what a refresh in flight      *)
(* holds is a grant, so that the predicate on its write decides.            *)

(* The bound on grants is not zero, so the first grant is one of them.      *)
LEMMA GrantNumbers == /\ 1 \in Grants
                      /\ NoGrant \notin Grants
                      /\ \A g \in Grants : g < GrantBound => g + 1 \in Grants
  BY MailboxAssumption DEF Grants, NoGrant

(* The typing of the state holds at the start, ...                          *)
LEMMA MailboxTypeInit == MailboxInit => MailboxTypeOK
  <1>1. GrantBound \in Nat \ {0}
    BY MailboxAssumption
  <1> QED
    BY <1>1, GrantNumbers DEF MailboxInit, MailboxTypeOK

(* ... and every step of every flow keeps it.                               *)
LEMMA MailboxTypeStep == MailboxTypeOK /\ [MailboxNext]_mailboxVars => MailboxTypeOK'
  <1> SUFFICES ASSUME MailboxTypeOK, [MailboxNext]_mailboxVars
               PROVE MailboxTypeOK'
    OBVIOUS
  <1> USE GrantNumbers
  <1>1. ASSUME NEW c \in Callers, Ask(c)
        PROVE MailboxTypeOK'
    BY <1>1 DEF MailboxTypeOK, Ask, mailbox, google, history
  <1>2. ASSUME NEW c \in Callers, Answer(c)
        PROVE MailboxTypeOK'
    BY <1>2 DEF MailboxTypeOK, Answer, RefreshEnds, Verdict, Fault, mailbox, google, history
  <1>3. ASSUME NEW c \in Callers, Persist(c)
        PROVE MailboxTypeOK'
    BY <1>3 DEF MailboxTypeOK, Persist, MayPersist, RefreshEnds, google, history
  <1>4. ASSUME NEW c \in Callers, MarkDead(c)
        PROVE MailboxTypeOK'
    BY <1>4 DEF MailboxTypeOK, MarkDead, RefreshEnds, google, history
  <1>5. CASE Exchange
    BY <1>5, MailboxAssumption DEF MailboxTypeOK, Exchange, Grants, NoGrant, mailbox, history
  <1>6. ASSUME NEW g \in Grants, ConnectFails(g)
        PROVE MailboxTypeOK'
    BY <1>6 DEF MailboxTypeOK, ConnectFails, Fault, mailbox, google, history
  <1>7. ASSUME NEW g \in Grants, StoreGrant(g)
        PROVE MailboxTypeOK'
    BY <1>7 DEF MailboxTypeOK, StoreGrant, google
  <1>8. ASSUME NEW d \in Closers, BeginDisconnect(d)
        PROVE MailboxTypeOK'
    BY <1>8 DEF MailboxTypeOK, BeginDisconnect, mailbox, google, history
  <1>9. ASSUME NEW d \in Closers, ReadGrant(d)
        PROVE MailboxTypeOK'
    BY <1>9 DEF MailboxTypeOK, ReadGrant, RevokeNext, mailbox, google, history
  <1>10. ASSUME NEW d \in Closers, Revoke(d)
         PROVE MailboxTypeOK'
    BY <1>10 DEF MailboxTypeOK, Revoke, Fault, mailbox
  <1>11. ASSUME NEW d \in Closers, Deactivate(d)
         PROVE MailboxTypeOK'
    BY <1>11 DEF MailboxTypeOK, Deactivate, google
  <1>12. CASE GrantDies
    BY <1>12, MailboxAssumption DEF MailboxTypeOK, GrantDies, Grants, NoGrant, mailbox, history, flows
  <1>13. CASE TokenAges
    BY <1>13 DEF MailboxTypeOK, TokenAges, google, history, flows
  <1>14. CASE UNCHANGED mailboxVars
    BY <1>14 DEF MailboxTypeOK, mailboxVars, mailbox, google, history, flows
  <1> QED
    BY <1>1, <1>2, <1>3, <1>4, <1>5, <1>6, <1>7, <1>8, <1>9, <1>10, <1>11, <1>12,
       <1>13, <1>14 DEF MailboxNext, CallerStep, DisconnectStep

(* The state keeps its types: in particular a refresh that is in flight     *)
(* always has a grant to persist, a revocation one to revoke.               *)
THEOREM MailboxTypeCorrect == MailboxSpec => []MailboxTypeOK
  BY MailboxTypeInit, MailboxTypeStep, PTL DEF MailboxSpec

(* The fence holds through every step: only a refresh with a grant, or a    *)
(* connect, writes a token, the one under the status predicate and the      *)
(* other with the status; only the disconnect deletes one, with the status. *)
LEMMA FenceStep == MailboxTypeOK /\ TokenIffConnected /\ [MailboxNext]_mailboxVars => TokenIffConnected'
  <1> SUFFICES ASSUME MailboxTypeOK, TokenIffConnected, [MailboxNext]_mailboxVars
               PROVE TokenIffConnected'
    OBVIOUS
  <1>1. ASSUME NEW c \in Callers, Persist(c)
        PROVE TokenIffConnected'
    <2>1. held[c] # NoGrant
      BY <1>1 DEF MailboxTypeOK, Persist
    <2> QED
      BY <1>1, <2>1 DEF TokenIffConnected, Persist, MayPersist
  <1>2. ASSUME NEW c \in Callers, MarkDead(c)
        PROVE TokenIffConnected'
    BY <1>2 DEF TokenIffConnected, MarkDead
  <1>3. ASSUME NEW g \in Grants, StoreGrant(g)
        PROVE TokenIffConnected'
    BY <1>3, GrantNumbers DEF TokenIffConnected, StoreGrant
  <1>4. ASSUME NEW d \in Closers, Deactivate(d)
        PROVE TokenIffConnected'
    BY <1>4 DEF TokenIffConnected, Deactivate
  <1>5. CASE UNCHANGED <<mailboxStatus, token>>
    BY <1>5 DEF TokenIffConnected
  <1>6. ASSUME NEW c \in Callers, Ask(c) \/ Answer(c)
        PROVE UNCHANGED <<mailboxStatus, token>>
    BY <1>6 DEF Ask, Answer, mailbox
  <1>7. ASSUME NEW d \in Closers, BeginDisconnect(d) \/ ReadGrant(d) \/ Revoke(d)
        PROVE UNCHANGED <<mailboxStatus, token>>
    BY <1>7 DEF BeginDisconnect, ReadGrant, Revoke, mailbox
  <1>8. CASE Exchange \/ (\E g \in Grants : ConnectFails(g)) \/ GrantDies \/ TokenAges \/ UNCHANGED mailboxVars
    BY <1>8, <1>5 DEF Exchange, ConnectFails, GrantDies, TokenAges, mailboxVars, mailbox
  <1> QED
    BY <1>1, <1>2, <1>3, <1>4, <1>5, <1>6, <1>7, <1>8 DEF MailboxNext, CallerStep, DisconnectStep

(* A disconnected mailbox has no stored token and every other mailbox has   *)
(* one, whatever refreshes, connects and disconnects are in flight.         *)
THEOREM DisconnectKeepsNoToken == MailboxSpec => []TokensMatchStatus
  <1>1. MailboxInit => TokenIffConnected
    BY DEF MailboxInit, TokenIffConnected, NoGrant
  <1>2. MailboxTypeOK /\ TokenIffConnected => TokensMatchStatus
    BY DEF TokensMatchStatus
  <1> QED
    BY <1>1, <1>2, FenceStep, MailboxTypeCorrect, PTL DEF MailboxSpec
=============================================================================
