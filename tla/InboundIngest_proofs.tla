------------------------ MODULE InboundIngest_proofs ------------------------
(***************************************************************************)
(* Proofs about InboundIngest for any messages, attachments, calls and     *)
(* conversations, any retry budget, and any number of faults.              *)
(***************************************************************************)
EXTENDS InboundIngest, FiniteSetTheorems, TLAPS

-----------------------------------------------------------------------------
(* The conversation that a decision names exists, or there is none.         *)
LEMMA DecisionType ==
  ASSUME NEW m \in Messages
  PROVE  Decision(m) \in Conversations \cup {NoConversation}
<1> DEFINE c == Candidates(m)
<1>1. InReplyTo[m] \in Seq(Ids) /\ References[m] \in Seq(Ids)
  BY IngestAssumption
<1>2. NewestFirst(References[m]) \in Seq(Ids)
  BY <1>1 DEF NewestFirst
<1>3. c \in Seq(Ids)
  BY <1>1, <1>2 DEF Candidates
<1>4. CASE \E i \in 1..Len(c) : FirstVerified(m, i)
  <2> DEFINE i == CHOOSE k \in 1..Len(c) : FirstVerified(m, k)
  <2>1. i \in 1..Len(c)
    BY <1>4
  <2>2. c[i] \in Ids
    BY <1>3, <2>1
  <2> QED BY <1>4, <2>2, IngestAssumption DEF Decision
<1> QED BY <1>4 DEF Decision

LEMMA HomeType ==
  ASSUME NEW m \in Messages
  PROVE  Home(m) \in Conversations \cup {NoConversation}
BY DecisionType DEF Home

-----------------------------------------------------------------------------
(* The types of the ledger and of the calls; a call in progress has claimed *)
(* a row, at a generation which that row has reached.                       *)
Typed == /\ status \in [Messages -> {"none", "received", "failed"} \cup Settled]
         /\ attempts \in [Messages -> Nat]
         /\ lease \in [Messages -> {"held", "lapsed"}]
         /\ threads \subseteq Thread
         /\ blobs \subseteq Messages \X Nat \X UNION {Parts[m] : m \in Messages}
         /\ conv \in [Conversations -> Open \cup Reopened \cup {"deleted"}]
         /\ msg \in [Workers -> Messages \cup {NoMessage}]
         /\ gen \in [Workers -> Nat]
         /\ stage \in [Workers -> Stages]
         /\ faults \in Nat
InProgress(w) ==
    stage[w] # "idle" =>
        msg[w] # NoMessage /\ status[msg[w]] # "none" /\ gen[w] <= attempts[msg[w]]

LEMMA TypeOKParts == TypeOK <=> Typed /\ \A w \in Workers : InProgress(w)
BY DEF TypeOK, Typed, InProgress

(* Rows only grow: none is deleted, and no generation is taken back.        *)
RowsGrow == \A m \in Messages : /\ status[m] # "none" => status'[m] # "none"
                                /\ attempts[m] <= attempts'[m]

LEMMA CallsStayTrue ==
  ASSUME TypeOK, Typed', RowsGrow,
         \A w \in Workers :
            \/ msg'[w] = msg[w] /\ gen'[w] = gen[w] /\ (stage'[w] # "idle" => stage[w] # "idle")
            \/ InProgress(w)'
  PROVE  TypeOK'
<1> SUFFICES ASSUME NEW w \in Workers,
                    msg'[w] = msg[w], gen'[w] = gen[w], stage'[w] # "idle", stage[w] # "idle"
             PROVE  InProgress(w)'
  BY TypeOKParts DEF TypeOK, Typed, InProgress
<1> QED BY DEF TypeOK, Typed, RowsGrow, InProgress

LEMMA OutcomeType ==
  ASSUME TypeOK, NEW w \in Workers, stage[w] # "idle",
         NEW outcome \in {"failed"} \cup Settled, NEW used \in Nat,
         WriteOutcome(w, outcome, used)
  PROVE  TypeOK'
<1>0. msg[w] \in Messages
  BY DEF TypeOK
<1>1. Typed'
  BY <1>0 DEF TypeOK, Typed, WriteOutcome, Return, Goto, Stages, Owns
<1>2. RowsGrow
  BY <1>0 DEF TypeOK, RowsGrow, WriteOutcome, Settled
<1>3. ASSUME NEW v \in Workers
      PROVE  \/ msg'[v] = msg[v] /\ gen'[v] = gen[v] /\ stage'[v] = stage[v]
             \/ stage'[v] = "idle"
  BY DEF TypeOK, WriteOutcome, Return, Goto
<1> QED BY <1>1, <1>2, <1>3, CallsStayTrue DEF InProgress

(* A call that only moves on, or returns, leaves the rows as they are.      *)
LEMMA CallType ==
  ASSUME TypeOK, NEW w \in Workers, stage[w] # "idle", NEW s \in Stages, UNCHANGED rowVars,
         \/ Return(w)
         \/ Goto(w, s) /\ UNCHANGED <<msg, gen>>,
         threads' \subseteq Thread, conv' = conv, faults' \in Nat,
         blobs' \subseteq Messages \X Nat \X UNION {Parts[m] : m \in Messages}
  PROVE  TypeOK'
<1>1. Typed'
  BY DEF TypeOK, Typed, Return, Goto, Stages, rowVars
<1>2. RowsGrow
  BY DEF TypeOK, RowsGrow, rowVars
<1>3. ASSUME NEW v \in Workers
      PROVE  \/ msg'[v] = msg[v] /\ gen'[v] = gen[v] /\ (stage'[v] # "idle" => stage[v] # "idle")
             \/ stage'[v] = "idle"
  BY DEF TypeOK, Return, Goto
<1> QED BY <1>1, <1>2, <1>3, CallsStayTrue DEF InProgress

LEMMA CommitType ==
  ASSUME TypeOK, NEW w \in Workers, stage[w] # "idle", NEW s \in Stages, Commit(w),
         \/ Return(w)
         \/ Goto(w, s) /\ UNCHANGED <<msg, gen>>,
         faults' \in Nat
  PROVE  TypeOK'
<1>0. msg[w] \in Messages /\ gen[w] \in Nat
  BY DEF TypeOK
<1>1. threads' \subseteq Thread
  <2>1. Parts[msg[w]] \in SUBSET (UNION {Parts[m] : m \in Messages})
    BY <1>0
  <2> QED BY <1>0, <2>1, HomeType DEF Commit, Thread, TypeOK
<1>2. Typed'
  <2>1. conv' \in [Conversations -> Open \cup Reopened \cup {"deleted"}]
    BY DEF TypeOK, Commit, Open
  <2> QED BY <1>0, <1>1, <2>1 DEF TypeOK, Typed, Commit, Return, Goto, Stages, Settled
<1>3. RowsGrow
  BY <1>0 DEF TypeOK, RowsGrow, Commit
<1>4. ASSUME NEW v \in Workers
      PROVE  \/ msg'[v] = msg[v] /\ gen'[v] = gen[v] /\ (stage'[v] # "idle" => stage[v] # "idle")
             \/ stage'[v] = "idle"
  BY DEF TypeOK, Return, Goto
<1> QED BY <1>2, <1>3, <1>4, CallsStayTrue DEF InProgress

(* The state keeps its types, and what a call in progress holds is a row    *)
(* that exists, at a generation which that row has reached.                 *)
THEOREM TypeCorrect == Spec => []TypeOK
<1>1. Init => TypeOK
  BY IngestAssumption DEF Init, TypeOK, Stages
<1>2. TypeOK /\ [Next]_vars => TypeOK'
  <2> SUFFICES ASSUME TypeOK, [Next]_vars PROVE TypeOK'
    OBVIOUS
  <2> USE DEF Stages
  <2>0. faults \in Nat /\ (Fault => faults' \in Nat)
    BY DEF TypeOK, Fault
  <2>1. ASSUME NEW w \in Workers, NEW m \in Messages, Claim(w, m) PROVE TypeOK'
    <3>1. Typed'
      BY <2>1 DEF TypeOK, Typed, Claim, Goto
    <3>2. RowsGrow
      BY <2>1 DEF TypeOK, RowsGrow, Claim
    <3>3. InProgress(w)'
      BY <2>1, IngestAssumption DEF TypeOK, Claim, Goto, InProgress
    <3>4. \A v \in Workers \ {w} :
             msg'[v] = msg[v] /\ gen'[v] = gen[v] /\ stage'[v] = stage[v]
      BY <2>1 DEF TypeOK, Claim, Goto
    <3> QED BY <3>1, <3>2, <3>3, <3>4, CallsStayTrue
  <2>2. ASSUME NEW w \in Workers, GiveUp(w) PROVE TypeOK'
    BY <2>2, OutcomeType DEF GiveUp, Settled
  <2>3. ASSUME NEW w \in Workers, Parse(w) PROVE TypeOK'
    <3>1. PICK s \in {"failing", "own", "decided"} : Goto(w, s)
      BY <2>3 DEF Parse
    <3> QED BY <2>0, <2>3, <3>1, CallType DEF Parse, TypeOK
  <2>4. ASSUME NEW w \in Workers, Suppress(w) PROVE TypeOK'
    BY <2>4, OutcomeType DEF Suppress, Settled
  <2>5. ASSUME NEW w \in Workers, WriteBlobs(w) PROVE TypeOK'
    <3>1. PICK done \in SUBSET Parts[msg[w]] :
             /\ blobs' = blobs \cup {<<msg[w], gen[w], p>> : p \in done}
             /\ \/ Goto(w, "uploaded") /\ UNCHANGED faults
                \/ Fault /\ Goto(w, "failing")
      BY <2>5 DEF WriteBlobs
    <3>2. blobs' \subseteq Messages \X Nat \X UNION {Parts[m] : m \in Messages}
      <4>1. msg[w] \in Messages /\ gen[w] \in Nat
        BY <2>5 DEF TypeOK, WriteBlobs
      <4> QED BY <3>1, <4>1 DEF TypeOK
    <3> QED BY <2>0, <2>5, <3>1, <3>2, CallType DEF WriteBlobs, TypeOK
  <2>6. ASSUME NEW w \in Workers, Store(w) PROVE TypeOK'
    <3>1. CASE Commit(w)
      BY <2>0, <2>6, <3>1, CommitType DEF Store
    <3>2. CASE Rollback
      BY <2>0, <2>6, <3>2, CallType DEF Store, Rollback, TypeOK
    <3> QED BY <2>6, <3>1, <3>2 DEF Store
  <2>7. ASSUME NEW w \in Workers, StoreThrows(w) PROVE TypeOK'
    <3>1. CASE Commit(w)
      BY <2>0, <2>7, <3>1, CommitType DEF StoreThrows
    <3>2. CASE Rollback
      BY <2>0, <2>7, <3>2, CallType DEF StoreThrows, Rollback, TypeOK
    <3> QED BY <2>7, <3>1, <3>2 DEF StoreThrows
  <2>8. ASSUME NEW w \in Workers, RecordFailure(w) PROVE TypeOK'
    BY <2>8, OutcomeType DEF RecordFailure, Settled
  <2>9. ASSUME NEW w \in Workers, Crash(w) PROVE TypeOK'
    BY <2>0, <2>9, CallType DEF Crash, TypeOK
  <2>10. ASSUME NEW m \in Messages, PreSuppress(m) \/ LeaseLapses(m) \/ LeaseOverrun(m)
         PROVE  TypeOK'
    <3>1. Typed'
      BY <2>10 DEF TypeOK, Typed, PreSuppress, LeaseLapses, LeaseOverrun, Lapse, Fault, callVars, Settled
    <3>2. RowsGrow
      BY <2>10 DEF TypeOK, RowsGrow, PreSuppress, LeaseLapses, LeaseOverrun, Lapse
    <3> QED BY <2>10, <3>1, <3>2, CallsStayTrue
          DEF PreSuppress, LeaseLapses, LeaseOverrun, Lapse, callVars
  <2>11. ASSUME NEW c \in Conversations, NEW s \in Open \cup Reopened \cup {"deleted"},
                AgentSets(c, s)
         PROVE  TypeOK'
    BY <2>11 DEF AgentSets, TypeOK, rowVars, callVars
  <2>12. CASE UNCHANGED vars
    BY <2>12 DEF vars, rowVars, callVars, TypeOK
  <2> QED BY <2>1, <2>2, <2>3, <2>4, <2>5, <2>6, <2>7, <2>8, <2>9, <2>10, <2>11, <2>12
          DEF Next, Step
<1> QED BY <1>1, <1>2, PTL DEF Spec

-----------------------------------------------------------------------------
(* The retry budget is exact: a parked message has used it up, and no call  *)
(* beyond it parses anything.                                               *)
THEOREM BudgetIsExact == Spec => []BudgetExact
<1>1. Init => BudgetExact
  BY DEF Init, BudgetExact
<1>2. TypeOK /\ BudgetExact /\ [Next]_vars => BudgetExact'
  <2> SUFFICES ASSUME TypeOK, BudgetExact, [Next]_vars PROVE BudgetExact'
    OBVIOUS
  <2> USE IngestAssumption DEF BudgetExact
  <2>0. /\ status \in [Messages -> {"none", "received", "failed"} \cup Settled]
        /\ attempts \in [Messages -> Nat] /\ gen \in [Workers -> Nat] /\ stage \in [Workers -> Stages]
        /\ \A w \in Workers : stage[w] # "idle" => msg[w] \in Messages
    BY DEF TypeOK
  <2>1. ASSUME NEW w \in Workers, NEW m \in Messages, Claim(w, m) PROVE BudgetExact'
    BY <2>0, <2>1 DEF Claim, Goto
  <2>2. ASSUME NEW w \in Workers, stage[w] # "idle",
               NEW outcome \in {"suppressed", "failed", "dead-letter"}, NEW used \in {0, 1},
               outcome = "dead-letter" => used = 1 /\ gen[w] + 1 >= MaxAttempts,
               WriteOutcome(w, outcome, used)
        PROVE  BudgetExact'
    <3>1. /\ \A v \in Workers \ {w} : stage'[v] = stage[v] /\ gen'[v] = gen[v]
          /\ stage'[w] = "idle"
      BY <2>0, <2>2 DEF WriteOutcome, Return, Goto
    <3>2. CASE Owns(w)
      <4>1. /\ \A m \in Messages \ {msg[w]} : status'[m] = status[m] /\ attempts'[m] = attempts[m]
            /\ status'[msg[w]] = outcome /\ attempts'[msg[w]] = gen[w] + used
        BY <2>0, <2>2, <3>2 DEF WriteOutcome, Owns
      <4> QED BY <2>0, <2>2, <3>1, <4>1
    <3>3. CASE ~Owns(w)
      BY <2>0, <2>2, <3>1, <3>3 DEF WriteOutcome
    <3> QED BY <3>2, <3>3
  <2>3. ASSUME NEW w \in Workers, GiveUp(w) \/ Suppress(w) \/ RecordFailure(w) PROVE BudgetExact'
    <3>1. CASE GiveUp(w)
      <4>1. gen[w] >= MaxAttempts /\ gen[w] \in Nat /\ stage[w] # "idle" /\ WriteOutcome(w, "dead-letter", 1)
        BY <2>0, <3>1 DEF GiveUp, BudgetSpent
      <4>2. gen[w] + 1 >= MaxAttempts
        BY <4>1
      <4> HIDE DEF BudgetExact
      <4> QED BY <2>2, <4>1, <4>2
    <3>2. CASE Suppress(w)
      BY <2>2, <3>2 DEF Suppress
    <3>3. CASE RecordFailure(w)
      BY <2>2, <3>3 DEF RecordFailure, LastAttempt
    <3> QED BY <2>3, <3>1, <3>2, <3>3
  <2>4. ASSUME NEW w \in Workers, Parse(w) \/ WriteBlobs(w) PROVE BudgetExact'
    <3>1. status' = status /\ attempts' = attempts /\ gen' = gen
      BY <2>4 DEF Parse, WriteBlobs, rowVars
    <3>2. \A v \in Workers \ {w} : stage'[v] = stage[v]
      BY <2>0, <2>4 DEF Parse, WriteBlobs, Goto
    <3>3. gen[w] < MaxAttempts
      BY <2>0, <2>4 DEF Parse, WriteBlobs, BudgetSpent
    <3> QED BY <3>1, <3>2, <3>3
  <2>5. ASSUME NEW w \in Workers, Store(w) \/ StoreThrows(w) \/ Crash(w) PROVE BudgetExact'
    <3>1. \A m \in Messages : status'[m] = "dead-letter" => status[m] = "dead-letter"
      BY <2>0, <2>5 DEF Store, StoreThrows, Crash, Commit, Rollback, rowVars
    <3>2. attempts' = attempts
      BY <2>5 DEF Store, StoreThrows, Crash, Commit, Rollback, rowVars
    <3>3. \A v \in Workers : stage'[v] \notin {"idle", "claimed"} =>
                               stage[v] \notin {"idle", "claimed"} /\ gen'[v] = gen[v]
      BY <2>0, <2>5 DEF Store, StoreThrows, Crash, Return, Goto
    <3> QED BY <3>1, <3>2, <3>3
  <2>6. ASSUME NEW m \in Messages, PreSuppress(m) \/ LeaseLapses(m) \/ LeaseOverrun(m)
        PROVE  BudgetExact'
    BY <2>0, <2>6 DEF PreSuppress, LeaseLapses, LeaseOverrun, Lapse, callVars
  <2>7. ASSUME NEW c \in Conversations, NEW s \in Open \cup Reopened \cup {"deleted"},
               AgentSets(c, s)
        PROVE  BudgetExact'
    BY <2>7 DEF AgentSets, rowVars, callVars
  <2>8. CASE UNCHANGED vars
    BY <2>8 DEF vars, rowVars, callVars
  <2> QED BY <2>1, <2>3, <2>4, <2>5, <2>6, <2>7, <2>8 DEF Next, Step
<1> QED BY <1>1, <1>2, TypeCorrect, PTL DEF Spec

-----------------------------------------------------------------------------
(* What makes OneThreadPerMessage inductive: a stored row has one thread    *)
(* and no other row has any, the blobs that a call has put are there while  *)
(* it stores, and so are those of every thread.                             *)
OneThread == /\ \A m \in Messages : status[m] = "stored" <=> \E t \in threads : t.msg = m
             /\ \A t, u \in threads : t.msg = u.msg => t = u
BlobsThere == /\ \A w \in Workers : stage[w] = "uploaded" =>
                    \A p \in Parts[msg[w]] : <<msg[w], gen[w], p>> \in blobs
              /\ \A t \in threads : \A p \in t.refs : <<t.msg, t.gen, p>> \in blobs

LEMMA CommitKeeps ==
  ASSUME TypeOK, OneThread, BlobsThere, NEW w \in Workers, stage[w] = "uploaded", Commit(w),
         \A v \in Workers : stage'[v] = "uploaded" =>
             stage[v] = "uploaded" /\ msg'[v] = msg[v] /\ gen'[v] = gen[v]
  PROVE  OneThread' /\ BlobsThere'
<1> DEFINE m == msg[w]
           new == [msg |-> m, gen |-> gen[w], conv |-> Home(m), refs |-> Parts[m]]
<1>1. m \in Messages /\ status[m] = "received"
  BY DEF TypeOK, Commit, Owns
<1>2. threads' = threads \cup {new} /\ status' = [status EXCEPT ![m] = "stored"] /\ blobs' = blobs
  BY DEF Commit
<1>3. \A t \in threads : t.msg # m
  BY <1>1 DEF OneThread
<1>4. new.msg = m /\ new.gen = gen[w] /\ new.refs = Parts[m]
  OBVIOUS
<1> HIDE DEF new, m
<1>5. OneThread'
  BY <1>1, <1>2, <1>3, <1>4 DEF OneThread, TypeOK
<1>6. BlobsThere'
  <2>1. \A p \in Parts[m] : <<m, gen[w], p>> \in blobs
    BY DEF BlobsThere, m
  <2>2. \A t \in threads' : \A p \in t.refs : <<t.msg, t.gen, p>> \in blobs'
    BY <1>2, <1>4, <2>1 DEF BlobsThere
  <2> QED BY <1>2, <2>2 DEF BlobsThere
<1> QED BY <1>5, <1>6

(* Steps that store nothing keep which rows are stored.                     *)
LEMMA OthersKeep ==
  ASSUME OneThread, BlobsThere, threads' = threads, blobs \subseteq blobs',
         \A m \in Messages : status'[m] = "stored" <=> status[m] = "stored",
         \A v \in Workers : stage'[v] = "uploaded" =>
             \/ stage[v] = "uploaded" /\ msg'[v] = msg[v] /\ gen'[v] = gen[v]
             \/ \A p \in Parts[msg'[v]] : <<msg'[v], gen'[v], p>> \in blobs'
  PROVE  OneThread' /\ BlobsThere'
<1>1. OneThread'  BY DEF OneThread
<1>2. BlobsThere' BY DEF BlobsThere
<1> QED BY <1>1, <1>2

LEMMA OneThreadHolds == Spec => [](OneThread /\ BlobsThere)
<1>1. Init => OneThread /\ BlobsThere
  BY DEF Init, OneThread, BlobsThere
<1>2. TypeOK /\ OneThread /\ BlobsThere /\ [Next]_vars => (OneThread /\ BlobsThere)'
  <2> SUFFICES ASSUME TypeOK, OneThread, BlobsThere, [Next]_vars PROVE OneThread' /\ BlobsThere'
    OBVIOUS
  <2>0. /\ status \in [Messages -> {"none", "received", "failed"} \cup Settled]
        /\ msg \in [Workers -> Messages \cup {NoMessage}]
        /\ gen \in [Workers -> Nat] /\ stage \in [Workers -> Stages]
        /\ \A w \in Workers : stage[w] # "idle" => msg[w] \in Messages
    BY DEF TypeOK
  <2>1. ASSUME NEW w \in Workers, NEW m \in Messages, Claim(w, m) PROVE OneThread' /\ BlobsThere'
    <3>1. \A n \in Messages : status'[n] = "stored" <=> status[n] = "stored"
      BY <2>0, <2>1 DEF Claim, Reclaimable
    <3>2. \A v \in Workers : stage'[v] = "uploaded" =>
             stage[v] = "uploaded" /\ msg'[v] = msg[v] /\ gen'[v] = gen[v]
      BY <2>0, <2>1 DEF Claim, Goto
    <3> QED BY <2>1, <3>1, <3>2, OthersKeep DEF Claim
  <2>2. ASSUME NEW w \in Workers, GiveUp(w) \/ Suppress(w) \/ RecordFailure(w)
        PROVE  OneThread' /\ BlobsThere'
    <3>1. PICK outcome \in {"suppressed", "failed", "dead-letter"}, used \in {0, 1} :
             WriteOutcome(w, outcome, used)
      BY <2>2 DEF GiveUp, Suppress, RecordFailure
    <3>2. msg[w] \in Messages
      BY <2>0, <2>2 DEF GiveUp, Suppress, RecordFailure
    <3>3. \A n \in Messages : status'[n] = "stored" <=> status[n] = "stored"
      BY <2>0, <3>1, <3>2 DEF WriteOutcome, Owns
    <3>4. \A v \in Workers : stage'[v] = "uploaded" =>
             stage[v] = "uploaded" /\ msg'[v] = msg[v] /\ gen'[v] = gen[v]
      BY <2>0, <3>1 DEF WriteOutcome, Return, Goto
    <3> QED BY <3>1, <3>3, <3>4, OthersKeep DEF WriteOutcome
  <2>3. ASSUME NEW w \in Workers, Parse(w) \/ Crash(w) PROVE OneThread' /\ BlobsThere'
    <3>1. \A v \in Workers : stage'[v] = "uploaded" =>
             stage[v] = "uploaded" /\ msg'[v] = msg[v] /\ gen'[v] = gen[v]
      BY <2>0, <2>3 DEF Parse, Crash, Return, Goto
    <3> QED BY <2>3, <3>1, OthersKeep DEF Parse, Crash, rowVars
  <2>4. ASSUME NEW w \in Workers, WriteBlobs(w) PROVE OneThread' /\ BlobsThere'
    <3>1. PICK done \in SUBSET Parts[msg[w]] :
             /\ blobs' = blobs \cup {<<msg[w], gen[w], p>> : p \in done}
             /\ \/ done = Parts[msg[w]] /\ Goto(w, "uploaded")
                \/ Goto(w, "failing")
      BY <2>4 DEF WriteBlobs, AllPut
    <3>2. UNCHANGED <<rowVars, threads, msg, gen>>
      BY <2>4 DEF WriteBlobs
    <3>3. \A v \in Workers : stage'[v] = "uploaded" =>
             \/ stage[v] = "uploaded" /\ msg'[v] = msg[v] /\ gen'[v] = gen[v]
             \/ \A p \in Parts[msg'[v]] : <<msg'[v], gen'[v], p>> \in blobs'
      <4>1. \A v \in Workers \ {w} : stage'[v] = stage[v]
        BY <2>0, <3>1 DEF Goto
      <4>2. stage'[w] = "uploaded" => done = Parts[msg[w]]
        BY <2>0, <3>1 DEF Goto
      <4> QED BY <3>1, <3>2, <4>1, <4>2
    <3> QED BY <3>1, <3>2, <3>3, OthersKeep DEF rowVars
  <2>5. ASSUME NEW w \in Workers, Store(w) \/ StoreThrows(w) PROVE OneThread' /\ BlobsThere'
    <3>1. \A v \in Workers : stage'[v] = "uploaded" =>
             stage[v] = "uploaded" /\ msg'[v] = msg[v] /\ gen'[v] = gen[v]
      BY <2>0, <2>5 DEF Store, StoreThrows, Return, Goto
    <3>2. CASE Commit(w)
      BY <2>5, <3>1, <3>2, CommitKeeps DEF Store, StoreThrows
    <3>3. CASE Rollback
      BY <3>1, <3>3, OthersKeep DEF Rollback, rowVars
    <3> QED BY <2>5, <3>2, <3>3 DEF Store, StoreThrows
  <2>6. ASSUME NEW m \in Messages, PreSuppress(m) \/ LeaseLapses(m) \/ LeaseOverrun(m)
        PROVE  OneThread' /\ BlobsThere'
    <3>1. \A n \in Messages : status'[n] = "stored" <=> status[n] = "stored"
      BY <2>0, <2>6 DEF PreSuppress, LeaseLapses, LeaseOverrun, Lapse
    <3> QED BY <2>6, <3>1, OthersKeep DEF PreSuppress, LeaseLapses, LeaseOverrun, Lapse, callVars
  <2>7. ASSUME NEW c \in Conversations, NEW s \in Open \cup Reopened \cup {"deleted"},
               AgentSets(c, s)
        PROVE  OneThread' /\ BlobsThere'
    BY <2>7, OthersKeep DEF AgentSets, rowVars, callVars
  <2>8. CASE UNCHANGED vars
    BY <2>8, OthersKeep DEF vars, rowVars, callVars
  <2> QED BY <2>1, <2>2, <2>3, <2>4, <2>5, <2>6, <2>7, <2>8 DEF Next, Step
<1> QED BY <1>1, <1>2, TypeCorrect, PTL DEF Spec

Holding(T, m) == {t \in T : t.msg = m}

LEMMA OneOfEach ==
  ASSUME NEW T, NEW m, NEW stored \in BOOLEAN,
         stored <=> \E t \in T : t.msg = m,
         \A t, u \in T : t.msg = u.msg => t = u
  PROVE  Cardinality(Holding(T, m)) = IF stored THEN 1 ELSE 0
<1> DEFINE M == Holding(T, m)
<1> USE DEF Holding
<1>1. CASE stored
  <2>1. PICK t \in T : t.msg = m
    BY <1>1
  <2>2. M = {t}
    BY <2>1
  <2> QED BY <1>1, <2>2, FS_Singleton
<1>2. CASE ~stored
  <2>1. M = {}
    BY <1>2
  <2> QED BY <1>2, <2>1, FS_EmptySet
<1> QED BY <1>1, <1>2

LEMMA CopiesCount ==
  ASSUME OneThread, NEW m \in Messages
  PROVE  Copies(m) = IF status[m] = "stored" THEN 1 ELSE 0
<1> DEFINE stored == status[m] = "stored"
<1>1. /\ stored <=> \E t \in threads : t.msg = m
      /\ \A t, u \in threads : t.msg = u.msg => t = u
      /\ stored \in BOOLEAN
  BY DEF OneThread
<1> HIDE DEF stored
<1>2. Cardinality(Holding(threads, m)) = IF stored THEN 1 ELSE 0
  BY <1>1, OneOfEach
<1> QED BY <1>2 DEF Copies, Holding, stored

(* However often a message is delivered, whichever attempts fail, die or    *)
(* overlap, it is in the desk once when its row says so and else not at     *)
(* all, and with every attachment it refers to.                             *)
THEOREM FiledOnceAndWhole == Spec => []OneThreadPerMessage
<1>1. TypeOK /\ OneThread /\ BlobsThere => OneThreadPerMessage
  <2> SUFFICES ASSUME TypeOK, OneThread, BlobsThere PROVE OneThreadPerMessage
    OBVIOUS
  <2>1. \A m \in Messages :
          Cardinality({t \in threads : t.msg = m}) = IF status[m] = "stored" THEN 1 ELSE 0
    BY CopiesCount DEF Copies
  <2> QED BY <2>1 DEF OneThreadPerMessage, BlobsThere
<1> QED BY <1>1, TypeCorrect, OneThreadHolds, PTL

-----------------------------------------------------------------------------
(* Whatever was decided before the transaction, the step that stores a      *)
(* reply finds its conversation undeleted and leaves it open.               *)
THEOREM FiledWhereSeen == Spec => FiledInOpenConversation
<1> DEFINE Seen == \A t \in threads' \ threads :
              t.conv # NoConversation => conv[t.conv] # "deleted" /\ conv'[t.conv] \in Open
<1>1. TypeOK /\ [Next]_vars => Seen
  <2> SUFFICES ASSUME TypeOK, [Next]_vars, NEW t \in threads' \ threads, t.conv # NoConversation
               PROVE  conv[t.conv] # "deleted" /\ conv'[t.conv] \in Open
    OBVIOUS
  <2>1. PICK w \in Workers : (Store(w) \/ StoreThrows(w)) /\ Commit(w)
    BY DEF Next, Step, vars, Claim, GiveUp, Suppress, RecordFailure, WriteOutcome, Parse, WriteBlobs,
           Store, StoreThrows, Rollback, Crash, PreSuppress, LeaseLapses, LeaseOverrun, Lapse, AgentSets
  <2>2. t.conv = Home(msg[w]) /\ msg[w] \in Messages
    BY <2>1 DEF Commit, Store, StoreThrows, TypeOK
  <2>3. t.conv \in Conversations /\ conv[t.conv] # "deleted"
    BY <2>2, HomeType DEF Home
  <2>4. conv'[t.conv] = IF conv[t.conv] \in Reopened THEN "active" ELSE conv[t.conv]
    BY <2>1, <2>2, <2>3 DEF Commit
  <2> QED BY <2>3, <2>4 DEF TypeOK, Open, Reopened
<1>2. TypeOK /\ [Next]_vars => [Seen]_vars
  BY <1>1
<1> QED BY <1>2, TypeCorrect, PTL DEF Spec, FiledInOpenConversation

-----------------------------------------------------------------------------
(* No two calls hold one generation of a row, and once it is recorded as    *)
(* failed nobody holds the generation it has moved on to: the next claim    *)
(* will.                                                                    *)
Busy(w, m) == stage[w] # "idle" /\ msg[w] = m
GenerationsApart ==
    /\ \A v, w \in Workers, m \in Messages :
          v # w /\ Busy(v, m) /\ Busy(w, m) => gen[v] # gen[w]
    /\ \A w \in Workers, m \in Messages :
          Busy(w, m) /\ status[m] = "failed" => gen[w] < attempts[m]

LEMMA GenerationsStayApart ==
  ASSUME TypeOK, GenerationsApart,
         \A w \in Workers : stage'[w] # "idle" =>
             stage[w] # "idle" /\ msg'[w] = msg[w] /\ gen'[w] = gen[w],
         \A m \in Messages : /\ attempts'[m] \in Nat /\ attempts[m] <= attempts'[m]
                             /\ status'[m] = "failed" =>
                                  status[m] = "failed" \/ attempts'[m] > attempts[m]
  PROVE  GenerationsApart'
<1>1. \A w \in Workers, m \in Messages :
        Busy(w, m)' => Busy(w, m) /\ gen'[w] = gen[w] /\ gen[w] \in Nat /\ gen[w] <= attempts[m]
  BY DEF Busy, TypeOK
<1>2. \A m \in Messages : attempts[m] \in Nat
  BY DEF TypeOK
<1>3. \A v, w \in Workers, m \in Messages :
        v # w /\ Busy(v, m)' /\ Busy(w, m)' => gen'[v] # gen'[w]
  BY <1>1 DEF GenerationsApart
<1>4. \A w \in Workers, m \in Messages :
        Busy(w, m)' /\ status'[m] = "failed" => gen'[w] < attempts'[m]
  BY <1>1, <1>2 DEF GenerationsApart
<1> QED BY <1>3, <1>4 DEF GenerationsApart

LEMMA GenerationsApartHolds == Spec => []GenerationsApart
<1>1. Init => GenerationsApart
  BY DEF Init, GenerationsApart, Busy
<1>2. TypeOK /\ GenerationsApart /\ [Next]_vars => GenerationsApart'
  <2> SUFFICES ASSUME TypeOK, GenerationsApart, [Next]_vars PROVE GenerationsApart'
    OBVIOUS
  <2>0. /\ status \in [Messages -> {"none", "received", "failed"} \cup Settled]
        /\ attempts \in [Messages -> Nat]
        /\ msg \in [Workers -> Messages \cup {NoMessage}]
        /\ gen \in [Workers -> Nat] /\ stage \in [Workers -> Stages]
        /\ \A w \in Workers : stage[w] # "idle" => msg[w] \in Messages
    BY DEF TypeOK
  <2>1. ASSUME NEW w \in Workers, NEW m \in Messages, Claim(w, m) PROVE GenerationsApart'
    <3>1. /\ \A v \in Workers \ {w} : stage'[v] = stage[v] /\ msg'[v] = msg[v] /\ gen'[v] = gen[v]
          /\ msg'[w] = m /\ gen'[w] = attempts'[m] /\ status'[m] = "received"
          /\ \A n \in Messages \ {m} : status'[n] = status[n] /\ attempts'[n] = attempts[n]
      BY <2>0, <2>1 DEF Claim, Goto
    <3>2. \A v \in Workers \ {w} : Busy(v, m) => gen[v] \in Nat /\ gen[v] < attempts'[m]
      <4> SUFFICES ASSUME NEW v \in Workers \ {w}, Busy(v, m) PROVE gen[v] < attempts'[m]
        BY <2>0
      <4>1. gen[v] \in Nat /\ attempts[m] \in Nat /\ gen[v] <= attempts[m] /\ status[m] # "none"
        BY DEF Busy, TypeOK
      <4>2. CASE status[m] = "failed" /\ attempts' = attempts
        BY <4>2 DEF GenerationsApart
      <4>3. CASE attempts' = [attempts EXCEPT ![m] = @ + 1]
        BY <2>0, <4>1, <4>3
      <4> QED BY <2>1, <4>1, <4>2, <4>3 DEF Claim
    <3>3. \A v \in Workers \ {w}, n \in Messages : Busy(v, n)' <=> Busy(v, n)
      BY <3>1 DEF Busy
    <3>4. \A n \in Messages : Busy(w, n)' => n = m
      BY <3>1 DEF Busy
    <3>5. ASSUME NEW u \in Workers, NEW v \in Workers, NEW n \in Messages, u # v,
                 Busy(u, n)', Busy(v, n)'
          PROVE  gen'[u] # gen'[v]
      <4>1. CASE u # w /\ v # w
        BY <3>1, <3>3, <3>5, <4>1 DEF GenerationsApart
      <4>2. CASE u = w
        BY <3>1, <3>2, <3>3, <3>4, <3>5, <4>2
      <4>3. CASE v = w
        BY <3>1, <3>2, <3>3, <3>4, <3>5, <4>3
      <4> QED BY <4>1, <4>2, <4>3
    <3>6. ASSUME NEW v \in Workers, NEW n \in Messages, Busy(v, n)', status'[n] = "failed"
          PROVE  gen'[v] < attempts'[n]
      <4>1. n # m /\ v # w
        BY <3>1, <3>4, <3>6
      <4> QED BY <3>1, <3>3, <3>6, <4>1 DEF GenerationsApart
    <3> QED BY <3>5, <3>6 DEF GenerationsApart
  <2>2. ASSUME NEW w \in Workers, GiveUp(w) \/ Suppress(w) \/ RecordFailure(w)
        PROVE  GenerationsApart'
    <3>1. PICK outcome \in {"suppressed", "failed", "dead-letter"}, used \in {0, 1} :
             /\ WriteOutcome(w, outcome, used)
             /\ outcome = "failed" => used = 1
      BY <2>2 DEF GiveUp, Suppress, RecordFailure
    <3>2. msg[w] \in Messages
      BY <2>0, <2>2 DEF GiveUp, Suppress, RecordFailure
    <3>3. \A m \in Messages : /\ attempts'[m] \in Nat /\ attempts[m] <= attempts'[m]
                              /\ status'[m] = "failed" =>
                                   status[m] = "failed" \/ attempts'[m] > attempts[m]
      BY <2>0, <3>1, <3>2 DEF WriteOutcome
    <3>4. \A v \in Workers : stage'[v] # "idle" =>
             stage[v] # "idle" /\ msg'[v] = msg[v] /\ gen'[v] = gen[v]
      BY <2>0, <3>1 DEF WriteOutcome, Return, Goto
    <3> QED BY <3>3, <3>4, GenerationsStayApart
  <2>3. ASSUME NEW w \in Workers,
               Parse(w) \/ WriteBlobs(w) \/ Store(w) \/ StoreThrows(w) \/ Crash(w)
        PROVE  GenerationsApart'
    <3>1. \A v \in Workers : stage'[v] # "idle" =>
             stage[v] # "idle" /\ msg'[v] = msg[v] /\ gen'[v] = gen[v]
      BY <2>0, <2>3 DEF Parse, WriteBlobs, Store, StoreThrows, Crash, Return, Goto
    <3>2. attempts' = attempts /\ \A m \in Messages : status'[m] = "failed" => status[m] = "failed"
      BY <2>0, <2>3 DEF Parse, WriteBlobs, Store, StoreThrows, Crash, Commit, Rollback, rowVars
    <3> QED BY <2>0, <3>1, <3>2, GenerationsStayApart
  <2>4. ASSUME NEW m \in Messages, PreSuppress(m) \/ LeaseLapses(m) \/ LeaseOverrun(m)
        PROVE  GenerationsApart'
    <3>1. UNCHANGED <<attempts, callVars>> /\ \A n \in Messages : status'[n] = "failed" => status[n] = "failed"
      BY <2>0, <2>4 DEF PreSuppress, LeaseLapses, LeaseOverrun, Lapse
    <3> QED BY <2>0, <3>1, GenerationsStayApart DEF callVars
  <2>5. ASSUME NEW c \in Conversations, NEW s \in Open \cup Reopened \cup {"deleted"},
               AgentSets(c, s)
        PROVE  GenerationsApart'
    BY <2>5 DEF AgentSets, rowVars, callVars, GenerationsApart, Busy
  <2>6. CASE UNCHANGED vars
    BY <2>6 DEF vars, rowVars, callVars, GenerationsApart, Busy
  <2> QED BY <2>1, <2>2, <2>3, <2>4, <2>5, <2>6 DEF Next, Step
<1> QED BY <1>1, <1>2, TypeCorrect, PTL DEF Spec

(* Two calls never both pass the fence of one row.                          *)
LEMMA OneOwner ==
  ASSUME GenerationsApart, TypeOK, NEW v \in Workers, NEW w \in Workers, v # w,
         stage[v] # "idle", stage[w] # "idle", Owns(v), Owns(w)
  PROVE  msg[v] # msg[w]
<1>1. msg[v] \in Messages
  BY DEF TypeOK
<1> QED BY <1>1 DEF GenerationsApart, Busy, Owns

(* While its lease has not lapsed, a call that owns its row is the only one *)
(* that settles, fails, parks or reclaims it.                               *)
THEOREM OwnersAreUndisturbed == Spec => OwnerUndisturbed
<1> DEFINE Undisturbed == \A w \in Workers :
              (stage[w] # "idle" /\ Owns(w) /\ lease[msg[w]] = "held") =>
                  stage'[w] # stage[w] \/ Owns(w)'
<1>1. TypeOK /\ GenerationsApart /\ [Next]_vars => Undisturbed
  <2> SUFFICES ASSUME TypeOK, GenerationsApart, [Next]_vars, NEW w \in Workers,
                      stage[w] # "idle", Owns(w), lease[msg[w]] = "held", stage'[w] = stage[w]
               PROVE  Owns(w)'
    OBVIOUS
  <2> DEFINE m == msg[w]
  <2>0. /\ status \in [Messages -> {"none", "received", "failed"} \cup Settled]
        /\ attempts \in [Messages -> Nat] /\ gen \in [Workers -> Nat]
        /\ msg \in [Workers -> Messages \cup {NoMessage}] /\ stage \in [Workers -> Stages]
        /\ m \in Messages /\ status[m] = "received" /\ attempts[m] = gen[w]
    BY DEF TypeOK, Owns
  <2>1. SUFFICES msg'[w] = m /\ gen'[w] = gen[w] /\ status'[m] = status[m] /\ attempts'[m] = attempts[m]
    BY <2>0 DEF Owns
  <2>2. ASSUME NEW v \in Workers, NEW n \in Messages, Claim(v, n)
        PROVE  msg'[w] = m /\ gen'[w] = gen[w] /\ status'[m] = status[m] /\ attempts'[m] = attempts[m]
    <3>1. v # w /\ n # m
      BY <2>0, <2>2 DEF Claim, Reclaimable
    <3> QED BY <2>0, <2>2, <3>1 DEF Claim
  <2>3. ASSUME NEW v \in Workers,
               \/ GiveUp(v) \/ Suppress(v) \/ RecordFailure(v)
               \/ Store(v) \/ StoreThrows(v) \/ Parse(v) \/ WriteBlobs(v) \/ Crash(v)
        PROVE  msg'[w] = m /\ gen'[w] = gen[w] /\ status'[m] = status[m] /\ attempts'[m] = attempts[m]
    <3>1. stage[v] # "idle" /\ stage'[v] # stage[v]
      BY <2>0, <2>3 DEF GiveUp, Suppress, RecordFailure, WriteOutcome, Store, StoreThrows, Parse,
                        WriteBlobs, Crash, Return, Goto
    <3>2. v # w
      BY <3>1
    <3>3. msg'[w] = m /\ gen'[w] = gen[w]
      BY <2>0, <2>3, <3>2 DEF GiveUp, Suppress, RecordFailure, WriteOutcome, Store, StoreThrows, Parse,
                              WriteBlobs, Crash, Return
    <3>4. Owns(v) => msg[v] # m
      BY <3>1, <3>2, OneOwner
    <3>5. status'[m] = status[m] /\ attempts'[m] = attempts[m]
      <4>1. CASE GiveUp(v) \/ Suppress(v) \/ RecordFailure(v)
        BY <2>0, <3>4, <4>1 DEF GiveUp, Suppress, RecordFailure, WriteOutcome
      <4>2. CASE Store(v) \/ StoreThrows(v)
        BY <2>0, <3>4, <4>2 DEF Store, StoreThrows, Commit, Rollback, rowVars
      <4>3. CASE Parse(v) \/ WriteBlobs(v) \/ Crash(v)
        BY <4>3 DEF Parse, WriteBlobs, Crash, rowVars
      <4> QED BY <2>3, <4>1, <4>2, <4>3
    <3> QED BY <3>3, <3>5
  <2>4. ASSUME NEW n \in Messages, PreSuppress(n) \/ LeaseLapses(n) \/ LeaseOverrun(n)
        PROVE  msg'[w] = m /\ gen'[w] = gen[w] /\ status'[m] = status[m] /\ attempts'[m] = attempts[m]
    BY <2>0, <2>4 DEF PreSuppress, LeaseLapses, LeaseOverrun, Lapse, callVars
  <2>5. ASSUME NEW c \in Conversations, NEW s \in Open \cup Reopened \cup {"deleted"},
               AgentSets(c, s)
        PROVE  msg'[w] = m /\ gen'[w] = gen[w] /\ status'[m] = status[m] /\ attempts'[m] = attempts[m]
    BY <2>5 DEF AgentSets, rowVars, callVars
  <2>6. CASE UNCHANGED vars
    BY <2>6 DEF vars, rowVars, callVars
  <2> QED BY <2>2, <2>3, <2>4, <2>5, <2>6 DEF Next, Step
<1>2. TypeOK /\ GenerationsApart /\ [Next]_vars => [Undisturbed]_vars
  BY <1>1
<1> QED BY <1>2, TypeCorrect, GenerationsApartHolds, PTL DEF Spec, OwnerUndisturbed

-----------------------------------------------------------------------------
(* Every delivered message meets one fate and keeps it: each step of the    *)
(* ledger and the threads is a step of the abstract ledger, or none.        *)
THEOREM LedgerIsImplemented == Spec => ImplementsLedger
<1> DEFINE fates == [m \in Messages |-> Fate(status[m])]
           held == [m \in Messages |-> Copies(m)]
<1>1. Init /\ OneThread => Ledger!LedgerInit
  BY CopiesCount DEF Init, Ledger!LedgerInit, Fate
<1>2. TypeOK /\ OneThread /\ OneThread' /\ [Next]_vars => [Ledger!LedgerNext]_(Ledger!ledgerVars)
  <2> SUFFICES ASSUME TypeOK, OneThread, OneThread', [Next]_vars
               PROVE  Ledger!LedgerNext \/ UNCHANGED <<fates, held>>
    BY DEF Ledger!ledgerVars
  <2>0. /\ status \in [Messages -> {"none", "received", "failed"} \cup Settled]
        /\ msg \in [Workers -> Messages \cup {NoMessage}] /\ stage \in [Workers -> Stages]
        /\ \A w \in Workers : stage[w] # "idle" => msg[w] \in Messages
    BY DEF TypeOK
  <2>1. held = [m \in Messages |-> IF status[m] = "stored" THEN 1 ELSE 0]
    BY CopiesCount
  <2>2. held' = [m \in Messages |-> IF status'[m] = "stored" THEN 1 ELSE 0]
    <3>1. ASSUME NEW m \in Messages
          PROVE  Copies(m)' = IF status'[m] = "stored" THEN 1 ELSE 0
      <4> DEFINE stored == status'[m] = "stored"
      <4>1. /\ stored <=> \E t \in threads' : t.msg = m
            /\ \A t, u \in threads' : t.msg = u.msg => t = u
            /\ stored \in BOOLEAN
        BY DEF OneThread
      <4> HIDE DEF stored
      <4>2. Cardinality(Holding(threads', m)) = IF stored THEN 1 ELSE 0
        BY <4>1, OneOfEach
      <4> QED BY <4>2 DEF Copies, Holding, stored
    <3> QED BY <3>1
  <2> HIDE DEF held
  <2>3. ASSUME status' = status PROVE UNCHANGED <<fates, held>>
    BY <2>1, <2>2, <2>3
  <2>4. ASSUME NEW m \in Messages, NEW s \in {"received", "failed", "stored", "suppressed", "dead-letter"},
               status' = [status EXCEPT ![m] = s],
               \/ status[m] \in {"none", "failed", "received"} /\ s = "received"
               \/ status[m] = "received"
               \/ status[m] = "none" /\ s = "suppressed"
        PROVE  Ledger!LedgerNext \/ UNCHANGED <<fates, held>>
    <3>1. fates' = [fates EXCEPT ![m] = Fate(s)]
      BY <2>0, <2>4 DEF Fate
    <3>2. held' = [held EXCEPT ![m] = IF s = "stored" THEN 1 ELSE 0] /\ held[m] = 0
      BY <2>0, <2>1, <2>2, <2>4
    <3>3. held = [n \in Messages |-> held[n]] /\ fates = [n \in Messages |-> fates[n]]
      BY <2>1
    <3>4. fates[m] = Fate(status[m])
      OBVIOUS
    <3> HIDE DEF fates
    <3>5. CASE status[m] = "none" /\ s = "received"
      <4>1. Ledger!Deliver(m)
        BY <3>1, <3>2, <3>3, <3>4, <3>5 DEF Ledger!Deliver, Fate, fates, held
      <4> QED BY <4>1 DEF Ledger!LedgerNext
    <3>6. CASE status[m] \in {"failed", "received"} /\ s \in {"received", "failed"}
      BY <3>1, <3>2, <3>3, <3>4, <3>6 DEF Fate
    <3>7. CASE s = "stored" /\ status[m] = "received"
      <4>1. fates[m] = "open" /\ Fate(s) = "stored"
        BY Zenon, <3>4, <3>7 DEF Fate
      <4>2. fates' = [fates EXCEPT ![m] = "stored"]
        BY Zenon, <3>1, <4>1
      <4>3. held' = [held EXCEPT ![m] = 1]
        BY Zenon, <3>2, <3>7
      <4>4. Ledger!File(m)
        BY <4>1, <4>2, <4>3 DEF Ledger!File, fates, held
      <4> QED BY <4>4 DEF Ledger!LedgerNext
    <3>8. CASE s = "suppressed" /\ status[m] \in {"none", "received"}
      <4>1. fates[m] \in {"unseen", "open"} /\ Fate(s) = "suppressed" /\ s # "stored"
        BY Zenon, <3>4, <3>8 DEF Fate
      <4>2. fates' = [fates EXCEPT ![m] = "suppressed"]
        BY Zenon, <3>1, <4>1
      <4>3. held' = held
        BY <3>2, <3>3, <4>1
      <4>4. Ledger!SuppressOwn(m)
        BY <4>1, <4>2, <4>3 DEF Ledger!SuppressOwn, fates, held
      <4> QED BY <4>4 DEF Ledger!LedgerNext
    <3>9. CASE s = "dead-letter" /\ status[m] = "received"
      <4>1. fates[m] = "open" /\ Fate(s) = "dead-letter"
        BY Zenon, <3>4, <3>9 DEF Fate
      <4>2. fates' = [fates EXCEPT ![m] = "dead-letter"]
        BY Zenon, <3>1, <4>1
      <4>3. held' = held
        BY <3>2, <3>3, <3>9
      <4>4. Ledger!Park(m)
        BY <4>1, <4>2, <4>3 DEF Ledger!Park, fates, held
      <4> QED BY <4>4 DEF Ledger!LedgerNext
    <3> QED BY <2>4, <3>5, <3>6, <3>7, <3>8, <3>9
  <2>5. ASSUME NEW w \in Workers, NEW m \in Messages, Claim(w, m)
        PROVE  Ledger!LedgerNext \/ UNCHANGED <<fates, held>>
    BY <2>4, <2>5 DEF Claim, Reclaimable
  <2>6. ASSUME NEW w \in Workers, GiveUp(w) \/ Suppress(w) \/ RecordFailure(w)
        PROVE  Ledger!LedgerNext \/ UNCHANGED <<fates, held>>
    <3>1. PICK s \in {"suppressed", "failed", "dead-letter"}, used \in {0, 1} : WriteOutcome(w, s, used)
      BY <2>6 DEF GiveUp, Suppress, RecordFailure
    <3>2. msg[w] \in Messages
      BY <2>0, <2>6 DEF GiveUp, Suppress, RecordFailure
    <3>3. CASE Owns(w)
      BY <2>4, <3>1, <3>2, <3>3 DEF WriteOutcome, Owns
    <3>4. CASE ~Owns(w)
      BY <2>3, <3>1, <3>4 DEF WriteOutcome
    <3> QED BY <3>3, <3>4
  <2>7. ASSUME NEW w \in Workers, Store(w) \/ StoreThrows(w)
        PROVE  Ledger!LedgerNext \/ UNCHANGED <<fates, held>>
    <3>1. msg[w] \in Messages
      BY <2>0, <2>7 DEF Store, StoreThrows
    <3>2. CASE Commit(w)
      BY <2>4, <3>1, <3>2 DEF Commit, Owns
    <3>3. CASE Rollback
      BY <2>3, <3>3 DEF Rollback, rowVars
    <3> QED BY <2>7, <3>2, <3>3 DEF Store, StoreThrows
  <2>8. ASSUME NEW w \in Workers, Parse(w) \/ WriteBlobs(w) \/ Crash(w)
        PROVE  UNCHANGED <<fates, held>>
    BY <2>3, <2>8 DEF Parse, WriteBlobs, Crash, rowVars
  <2>9. ASSUME NEW m \in Messages, PreSuppress(m) \/ LeaseLapses(m) \/ LeaseOverrun(m)
        PROVE  Ledger!LedgerNext \/ UNCHANGED <<fates, held>>
    BY <2>3, <2>4, <2>9 DEF PreSuppress, LeaseLapses, LeaseOverrun, Lapse
  <2>10. ASSUME NEW c \in Conversations, NEW s \in Open \cup Reopened \cup {"deleted"},
                AgentSets(c, s)
         PROVE  UNCHANGED <<fates, held>>
    BY <2>3, <2>10 DEF AgentSets, rowVars
  <2>11. CASE UNCHANGED vars
    BY <2>3, <2>11 DEF vars, rowVars
  <2> QED BY <2>5, <2>6, <2>7, <2>8, <2>9, <2>10, <2>11 DEF Next, Step
<1> QED
  BY <1>1, <1>2, TypeCorrect, OneThreadHolds, PTL DEF Spec, ImplementsLedger, Ledger!LedgerSpec
=============================================================================
