------------------------ MODULE PostgresQueue_proofs ------------------------
(***************************************************************************)
(* Proofs about PostgresQueue for any number of rows, drains and slots,    *)
(* any batch size and ceiling, and any number of crashes.                  *)
(***************************************************************************)
EXTENDS PostgresQueue, TLAPS

-----------------------------------------------------------------------------
(* The columns of queue_jobs and the locals of drainOnce keep their types,  *)
(* and a drain awaits a handler only for a row it still has to settle.      *)
THEOREM TypeCorrect == Spec => []TypeOK
<1>1. Init => TypeOK
  BY QueueAssumption DEF Init, TypeOK, Columns, LoopLocals, Results
<1>2. TypeOK /\ [Next]_vars => TypeOK'
  <2> SUFFICES ASSUME Columns, LoopLocals, [Next]_vars
               PROVE  Columns' /\ LoopLocals'
    BY DEF TypeOK
  <2>0. /\ NoJob \notin Jobs
        /\ \A d \in Drainers : running[d] \in Jobs \cup {NoJob}
    BY QueueAssumption DEF Columns
  <2>1. ASSUME NEW j \in Jobs, NEW s \in Slots \cup {NoSlot}, Enqueue(j, s)
        PROVE  Columns' /\ LoopLocals'
    <3>1. Columns'   BY <2>1 DEF Enqueue, Columns, callVars, ghostVars
    <3>2. LoopLocals' BY <2>1 DEF Enqueue, LoopLocals, callVars
    <3> QED BY <3>1, <3>2
  <2>2. ASSUME NEW j \in Jobs, LeaseLapses(j) \/ LeaseOverrun(j) PROVE Columns' /\ LoopLocals'
    <3>1. Columns'
      BY <2>2 DEF LeaseLapses, LeaseOverrun, Lapse, Fault, Columns, callVars, ghostVars
    <3>2. LoopLocals'
      BY <2>2 DEF LeaseLapses, LeaseOverrun, Lapse, LoopLocals, callVars
    <3> QED BY <3>1, <3>2
  <2>3. ASSUME NEW j \in Jobs, BecomesDue(j) PROVE Columns' /\ LoopLocals'
    <3>1. Columns'   BY <2>3 DEF BecomesDue, Columns, callVars, ghostVars
    <3>2. LoopLocals' BY <2>3 DEF BecomesDue, LoopLocals, callVars
    <3> QED BY <3>1, <3>2
  <2>4. ASSUME NEW d \in Drainers, Claim(d) PROVE Columns' /\ LoopLocals'
    <3>1. PICK S \in SUBSET Jobs :
            /\ attempts' = [j \in Jobs |-> IF j \in S THEN attempts[j] + 1 ELSE attempts[j]]
            /\ lease' = [j \in Jobs |-> IF j \in S THEN "held" ELSE lease[j]]
            /\ claim' = [claim EXCEPT ![d] = [j \in Jobs |-> IF j \in S THEN attempts[j] + 1 ELSE 0]]
      BY <2>4 DEF Claim
    <3>2. UNCHANGED <<state, slot, due, running, result, ghostVars>> /\ claim[d] = [j \in Jobs |-> 0]
      BY <2>4 DEF Claim
    <3>3. Columns'
      BY <3>1, <3>2 DEF Columns, ghostVars
    <3>4. running[d] = NoJob
      <4>1. \A j \in Jobs : claim[d][j] = 0
        BY <3>2
      <4> QED BY <2>0, <4>1 DEF LoopLocals
    <3>5. \A e \in Drainers : e # d => claim'[e] = claim[e]
      BY <3>1 DEF Columns
    <3>6. LoopLocals'
      BY <3>2, <3>4, <3>5 DEF LoopLocals
    <3> QED BY <3>3, <3>6
  <2>5. ASSUME NEW d \in Drainers, StartHandler(d) PROVE Columns' /\ LoopLocals'
    <3>1. PICK j \in Jobs : claim[d][j] # 0 /\ running' = [running EXCEPT ![d] = j]
      BY <2>5 DEF StartHandler
    <3>2. UNCHANGED <<rowVars, claim, result, ghostVars>> /\ running[d] = NoJob
      BY <2>5 DEF StartHandler
    <3>3. Columns'
      BY <3>1, <3>2 DEF Columns, rowVars, ghostVars
    <3>4. running'[d] = j /\ \A e \in Drainers : e # d => running'[e] = running[e]
      BY <3>1 DEF Columns
    <3>5. LoopLocals'
      BY <3>1, <3>2, <3>4 DEF LoopLocals
    <3> QED BY <3>3, <3>5
  <2>6. ASSUME NEW d \in Drainers, HandlerReturns(d) PROVE Columns' /\ LoopLocals'
    <3>1. PICK r \in Results : result' = [result EXCEPT ![d] = r]
      BY <2>6 DEF HandlerReturns
    <3>2. UNCHANGED <<rowVars, claim, running, ghostVars>> /\ running[d] # NoJob
      BY <2>6 DEF HandlerReturns
    <3>3. Columns'
      BY <3>1, <3>2 DEF Columns, rowVars, ghostVars
    <3>4. \A e \in Drainers : e # d => result'[e] = result[e]
      BY <3>1 DEF Columns
    <3>5. LoopLocals'
      BY <3>2, <3>4 DEF LoopLocals
    <3> QED BY <3>3, <3>5
  <2>7. ASSUME NEW d \in Drainers, Outcome(d) PROVE Columns' /\ LoopLocals'
    <3>1. running[d] \in Jobs
      <4>1. result[d] # "none"
        BY <2>7 DEF Outcome, Ack, DeadLetter, Reschedule, StaleSkip
      <4> QED BY <2>0, <4>1 DEF LoopLocals
    <3>2. Columns'
      <4>1. RowDone(d) => /\ claim' \in [Drainers -> [Jobs -> Nat]]
                          /\ running' \in [Drainers -> Jobs \cup {NoJob}]
                          /\ result' \in [Drainers -> Results \cup {"none"}]
        BY <3>1 DEF RowDone, Columns
      <4>2. CASE Ack(d) BY <3>1, <4>1, <4>2 DEF Ack, Columns, ghostVars
      <4>3. CASE DeadLetter(d) BY <3>1, <4>1, <4>3 DEF DeadLetter, Columns, ghostVars
      <4>4. CASE Reschedule(d) BY <3>1, <4>1, <4>4 DEF Reschedule, Columns, ghostVars
      <4>5. CASE StaleSkip(d) BY <4>1, <4>5 DEF StaleSkip, Columns, rowVars, ghostVars
      <4> QED BY <2>7, <4>2, <4>3, <4>4, <4>5 DEF Outcome
    <3>3. RowDone(d)
      BY <2>7 DEF Outcome, Ack, DeadLetter, Reschedule, StaleSkip
    <3>4. /\ running'[d] = NoJob /\ result'[d] = "none"
          /\ \A e \in Drainers : e # d => /\ running'[e] = running[e]
                                          /\ result'[e] = result[e]
                                          /\ claim'[e] = claim[e]
      BY <3>3 DEF RowDone, Columns
    <3>5. LoopLocals'
      BY <3>4 DEF LoopLocals
    <3> QED BY <3>2, <3>5
  <2>8. ASSUME NEW d \in Drainers, Abort(d) PROVE Columns' /\ LoopLocals'
    <3>1. Columns'
      BY <2>8 DEF Abort, Fault, Columns, rowVars
    <3>2. /\ running'[d] = NoJob /\ result'[d] = "none"
          /\ \A e \in Drainers : e # d => /\ running'[e] = running[e]
                                          /\ result'[e] = result[e]
                                          /\ claim'[e] = claim[e]
      BY <2>8 DEF Abort, Columns
    <3>3. LoopLocals'
      BY <3>2 DEF LoopLocals
    <3> QED BY <3>1, <3>3
  <2>9. CASE UNCHANGED vars
    BY <2>9 DEF vars, rowVars, callVars, ghostVars, Columns, LoopLocals
  <2> QED
    BY <2>1, <2>2, <2>3, <2>4, <2>5, <2>6, <2>7, <2>8, <2>9 DEF Next, DrainStep
<1> QED BY <1>1, <1>2, PTL DEF Spec

-----------------------------------------------------------------------------
(* No drain holds a generation the row has not reached, and a row that was  *)
(* never inserted has never been claimed.                                   *)
ClaimsAreOfThePast ==
    /\ \A d \in Drainers, j \in Jobs : claim[d][j] <= attempts[j]
    /\ \A j \in Jobs : state[j] = "unused" => attempts[j] = 0

FenceInv == ClaimsAreOfThePast /\ OwnClaim

(* What a settled row changes: its own columns, and only if its fence held. *)
LEMMA OutcomeEffect ==
  ASSUME TypeOK, NEW d \in Drainers, Outcome(d)
  PROVE  LET r == running[d] IN
         /\ r \in Jobs /\ claim[d][r] # 0 /\ attempts' = attempts /\ slot' = slot
         /\ \A e \in Drainers, j \in Jobs :
              claim'[e][j] = IF e = d /\ j = r THEN 0 ELSE claim[e][j]
         /\ \/ state' = state /\ lease' = lease
            \/ /\ claim[d][r] = attempts[r]
               /\ state'[r] # "unused"
               /\ \A j \in Jobs \ {r} : state'[j] = state[j] /\ lease'[j] = lease[j]
<1> DEFINE r == running[d]
<1>1. r \in Jobs /\ claim[d][r] # 0
  <2>1. result[d] # "none"
    BY DEF Outcome, Ack, DeadLetter, Reschedule, StaleSkip
  <2> QED BY <2>1, QueueAssumption DEF TypeOK, Columns, LoopLocals
<1>2. attempts' = attempts /\ slot' = slot
  BY DEF Outcome, Ack, DeadLetter, Reschedule, StaleSkip, rowVars
<1>3. claim' = [claim EXCEPT ![d][r] = 0]
  BY DEF Outcome, Ack, DeadLetter, Reschedule, StaleSkip, RowDone
<1>4. \A e \in Drainers, j \in Jobs :
        claim'[e][j] = IF e = d /\ j = r THEN 0 ELSE claim[e][j]
  BY <1>1, <1>3 DEF TypeOK, Columns
<1>5. \/ state' = state /\ lease' = lease
      \/ /\ claim[d][r] = attempts[r]
         /\ state'[r] # "unused"
         /\ \A j \in Jobs \ {r} : state'[j] = state[j] /\ lease'[j] = lease[j]
  <2>1. CASE Ack(d) BY <2>1, <1>1 DEF Ack, FenceMatches, TypeOK, Columns
  <2>2. CASE DeadLetter(d) BY <2>2, <1>1 DEF DeadLetter, FenceMatches, TypeOK, Columns
  <2>3. CASE Reschedule(d) BY <2>3, <1>1 DEF Reschedule, FenceMatches, TypeOK, Columns
  <2>4. CASE StaleSkip(d) BY <2>4 DEF StaleSkip, rowVars
  <2> QED BY <2>1, <2>2, <2>3, <2>4 DEF Outcome
<1> QED BY <1>1, <1>2, <1>4, <1>5

(* What a claim changes, row by row.                                        *)
LEMMA ClaimEffect ==
  ASSUME TypeOK, NEW d \in Drainers, Claim(d)
  PROVE  /\ state' = state /\ slot' = slot
         /\ \A e \in Drainers, j \in Jobs : e # d => claim'[e][j] = claim[e][j]
         /\ \E S \in SUBSET Jobs : \A j \in Jobs :
              IF j \in S THEN /\ state[j] = "live" /\ lease[j] # "held" /\ lease'[j] = "held"
                              /\ attempts'[j] = attempts[j] + 1
                              /\ claim'[d][j] = attempts[j] + 1
                         ELSE /\ lease'[j] = lease[j]
                              /\ attempts'[j] = attempts[j]
                              /\ claim'[d][j] = 0
<1>1. PICK S \in SUBSET {j \in Jobs : Claimable(j)} :
        /\ attempts' = [j \in Jobs |-> IF j \in S THEN attempts[j] + 1 ELSE attempts[j]]
        /\ lease' = [j \in Jobs |-> IF j \in S THEN "held" ELSE lease[j]]
        /\ claim' = [claim EXCEPT ![d] = [j \in Jobs |-> IF j \in S THEN attempts[j] + 1 ELSE 0]]
  BY DEF Claim
<1>2. \A j \in S : state[j] = "live" /\ lease[j] # "held"
  BY DEF Claimable
<1>3. S \in SUBSET Jobs
  OBVIOUS
<1>4. \A j \in Jobs : claim'[d][j] = IF j \in S THEN attempts[j] + 1 ELSE 0
  BY <1>1 DEF TypeOK, Columns
<1>5. \A e \in Drainers, j \in Jobs : e # d => claim'[e][j] = claim[e][j]
  BY <1>1 DEF TypeOK, Columns
<1>6. state' = state /\ slot' = slot
  BY DEF Claim
<1>7. \A j \in Jobs :
        IF j \in S THEN /\ state[j] = "live" /\ lease[j] # "held" /\ lease'[j] = "held"
                        /\ attempts'[j] = attempts[j] + 1
                        /\ claim'[d][j] = attempts[j] + 1
                   ELSE /\ lease'[j] = lease[j]
                        /\ attempts'[j] = attempts[j]
                        /\ claim'[d][j] = 0
  BY <1>1, <1>2, <1>4
<1> QED BY <1>3, <1>5, <1>6, <1>7

LEMMA FenceInvHolds == Spec => []FenceInv
<1>1. Init => FenceInv
  <2> SUFFICES ASSUME Init PROVE FenceInv
    OBVIOUS
  <2>1. /\ \A d \in Drainers, j \in Jobs : claim[d][j] = 0
        /\ \A j \in Jobs : attempts[j] = 0
    BY DEF Init
  <2> QED BY <2>1 DEF FenceInv, ClaimsAreOfThePast, OwnClaim
<1>2. FenceInv /\ TypeOK /\ [Next]_vars => FenceInv'
  <2> SUFFICES ASSUME FenceInv, TypeOK, [Next]_vars PROVE FenceInv'
    OBVIOUS
  <2>0. \A d \in Drainers, j \in Jobs : claim[d][j] \in Nat /\ attempts[j] \in Nat
    BY DEF TypeOK, Columns
  <2> USE DEF FenceInv, ClaimsAreOfThePast, OwnClaim
  <2>1. ASSUME NEW j \in Jobs, NEW s \in Slots \cup {NoSlot}, Enqueue(j, s) PROVE FenceInv'
    <3>1. /\ state[j] = "unused" /\ attempts' = attempts /\ lease' = lease /\ claim' = claim
          /\ \A k \in Jobs : k # j => state'[k] = state[k]
          /\ state'[j] = "live"
      BY <2>1 DEF Enqueue, callVars, TypeOK, Columns
    <3>2. \A d \in Drainers : claim[d][j] = 0
      BY <2>0, <3>1
    <3> QED BY <3>1, <3>2
  <2>2. ASSUME NEW j \in Jobs, LeaseLapses(j) \/ LeaseOverrun(j) PROVE FenceInv'
    <3>1. /\ state' = state /\ attempts' = attempts /\ claim' = claim
          /\ \A k \in Jobs : lease[k] # "none" => lease'[k] # "none"
      BY <2>2 DEF LeaseLapses, LeaseOverrun, Lapse, callVars, TypeOK, Columns
    <3> QED BY <3>1
  <2>3. ASSUME NEW j \in Jobs, BecomesDue(j) PROVE FenceInv'
    BY <2>3 DEF BecomesDue, callVars
  <2>4. ASSUME NEW d \in Drainers, Claim(d) PROVE FenceInv'
    <3>1. PICK S \in SUBSET Jobs : \A j \in Jobs :
            IF j \in S THEN /\ state[j] = "live" /\ lease[j] # "held" /\ lease'[j] = "held"
                            /\ attempts'[j] = attempts[j] + 1
                            /\ claim'[d][j] = attempts[j] + 1
                       ELSE /\ lease'[j] = lease[j]
                            /\ attempts'[j] = attempts[j]
                            /\ claim'[d][j] = 0
      BY <2>4, ClaimEffect
    <3>2. /\ state' = state
          /\ \A e \in Drainers, j \in Jobs : e # d => claim'[e][j] = claim[e][j]
      BY <2>4, ClaimEffect
    <3>3. ClaimsAreOfThePast'
      <4>1. ASSUME NEW e \in Drainers, NEW j \in Jobs PROVE claim'[e][j] <= attempts'[j]
        BY <2>0, <3>1, <3>2
      <4>2. ASSUME NEW j \in Jobs, state'[j] = "unused" PROVE attempts'[j] = 0
        BY <4>2, <3>1, <3>2
      <4> QED BY <4>1, <4>2
    <3>4. ASSUME NEW e \in Drainers, NEW j \in Jobs,
                 claim'[e][j] # 0, claim'[e][j] = attempts'[j]
          PROVE  /\ state'[j] = "live" /\ lease'[j] # "none"
                 /\ \A f \in Drainers \ {e} : claim'[f][j] # attempts'[j]
      <4>1. CASE j \in S
        <5>1. \A f \in Drainers : f # d => claim'[f][j] # attempts'[j]
          BY <4>1, <2>0, <3>1, <3>2
        <5>2. e = d
          BY <5>1, <3>4
        <5> QED BY <4>1, <5>1, <5>2, <3>1, <3>2
      <4>2. CASE j \notin S
        <5>1. e # d /\ claim[e][j] # 0 /\ claim[e][j] = attempts[j] /\ attempts'[j] = attempts[j]
          BY <4>2, <3>4, <3>1, <3>2
        <5>2. \A f \in Drainers \ {e} : claim'[f][j] # attempts'[j]
          BY <4>2, <5>1, <3>1, <3>2
        <5> QED BY <4>2, <5>1, <5>2, <3>1, <3>2
      <4> QED BY <4>1, <4>2
    <3> QED BY <3>3, <3>4
  <2>5. ASSUME NEW d \in Drainers, StartHandler(d) PROVE FenceInv'
    BY <2>5 DEF StartHandler, rowVars
  <2>6. ASSUME NEW d \in Drainers, HandlerReturns(d) PROVE FenceInv'
    BY <2>6 DEF HandlerReturns, rowVars
  <2>7. ASSUME NEW d \in Drainers, Outcome(d) PROVE FenceInv'
    <3> DEFINE r == running[d]
    <3>1. /\ r \in Jobs /\ claim[d][r] # 0 /\ attempts' = attempts
          /\ \A e \in Drainers, j \in Jobs :
               claim'[e][j] = IF e = d /\ j = r THEN 0 ELSE claim[e][j]
          /\ \/ state' = state /\ lease' = lease
             \/ /\ claim[d][r] = attempts[r]
                /\ state'[r] # "unused"
                /\ \A j \in Jobs \ {r} : state'[j] = state[j] /\ lease'[j] = lease[j]
      BY <2>7, OutcomeEffect
    <3> HIDE DEF r
    <3>2. ClaimsAreOfThePast'
      BY <2>0, <3>1
    <3>3. ASSUME NEW e \in Drainers, NEW j \in Jobs,
                 claim'[e][j] # 0, claim'[e][j] = attempts'[j]
          PROVE  /\ state'[j] = "live" /\ lease'[j] # "none"
                 /\ \A f \in Drainers \ {e} : claim'[f][j] # attempts'[j]
      <4>1. claim[e][j] # 0 /\ claim[e][j] = attempts[j] /\ ~(e = d /\ j = r)
        BY <3>1, <3>3
      <4>2. \A f \in Drainers \ {e} : claim'[f][j] # attempts'[j]
        BY <3>1, <4>1
      <4>3. state'[j] = state[j] /\ lease'[j] = lease[j]
        BY <3>1, <4>1
      <4> QED BY <4>1, <4>2, <4>3
    <3> QED BY <3>2, <3>3
  <2>8. ASSUME NEW d \in Drainers, Abort(d) PROVE FenceInv'
    <3>1. /\ UNCHANGED <<rowVars, overrun>>
          /\ \A e \in Drainers, j \in Jobs : claim'[e][j] = IF e = d THEN 0 ELSE claim[e][j]
      BY <2>8 DEF Abort, TypeOK, Columns
    <3> QED BY <2>0, <3>1 DEF rowVars
  <2>9. CASE UNCHANGED vars
    BY <2>9 DEF vars, rowVars, callVars
  <2> QED
    BY <2>1, <2>2, <2>3, <2>4, <2>5, <2>6, <2>7, <2>8, <2>9 DEF Next, DrainStep
<1> QED BY <1>1, <1>2, TypeCorrect, PTL DEF Spec

(* Whatever lapses, crashes and races: the row of a drain's current claim   *)
(* is live, leased and nobody else's until that drain writes its outcome.   *)
THEOREM ClaimIntact == Spec => []CurrentClaimIntact
<1>1. TypeOK /\ FenceInv => CurrentClaimIntact
  BY DEF FenceInv, CurrentClaimIntact
<1> QED BY <1>1, TypeCorrect, FenceInvHolds, PTL

-----------------------------------------------------------------------------
(* A claim is exclusive as long as its lease never lapsed under a claimant. *)
ClaimsHeld ==
    \A d \in Drainers, j \in Jobs \ overrun :
        claim[d][j] # 0 => claim[d][j] = attempts[j] /\ lease[j] = "held"

LEMMA ClaimsHeldHolds == Spec => []ClaimsHeld
<1>1. Init => ClaimsHeld
  <2>1. Init => \A d \in Drainers, j \in Jobs : claim[d][j] = 0
    BY DEF Init
  <2> QED BY <2>1 DEF ClaimsHeld
<1>2. ClaimsHeld /\ FenceInv /\ TypeOK /\ [Next]_vars => ClaimsHeld'
  <2> SUFFICES ASSUME ClaimsHeld, FenceInv, TypeOK, [Next]_vars PROVE ClaimsHeld'
    OBVIOUS
  <2>0. /\ \A d \in Drainers, j \in Jobs : claim[d][j] \in Nat /\ attempts[j] \in Nat
        /\ \A d \in Drainers, j \in Jobs : claim[d][j] <= attempts[j]
        /\ \A j \in Jobs : state[j] = "unused" => attempts[j] = 0
    BY DEF TypeOK, Columns, FenceInv, ClaimsAreOfThePast
  <2>1. ASSUME NEW j \in Jobs, NEW s \in Slots \cup {NoSlot}, Enqueue(j, s) PROVE ClaimsHeld'
    BY <2>1 DEF Enqueue, callVars, ghostVars, ClaimsHeld
  <2>2. ASSUME NEW j \in Jobs, LeaseLapses(j) \/ LeaseOverrun(j) PROVE ClaimsHeld'
    <3>1. /\ attempts' = attempts /\ claim' = claim
          /\ \A k \in Jobs : k # j => lease'[k] = lease[k]
      BY <2>2 DEF LeaseLapses, LeaseOverrun, Lapse, callVars, TypeOK, Columns
    <3>2. CASE LeaseLapses(j)
      <4>1. overrun' = overrun /\ \A d \in Drainers : claim[d][j] # attempts[j]
        BY <3>2 DEF LeaseLapses, Abandoned, ghostVars
      <4> QED BY <3>1, <4>1 DEF ClaimsHeld
    <3>3. CASE LeaseOverrun(j)
      <4>1. overrun' = overrun \cup {j}
        BY <3>3 DEF LeaseOverrun
      <4> QED BY <3>1, <4>1 DEF ClaimsHeld
    <3> QED BY <2>2, <3>2, <3>3
  <2>3. ASSUME NEW j \in Jobs, BecomesDue(j) PROVE ClaimsHeld'
    BY <2>3 DEF BecomesDue, callVars, ghostVars, ClaimsHeld
  <2>4. ASSUME NEW d \in Drainers, Claim(d) PROVE ClaimsHeld'
    <3>1. PICK S \in SUBSET Jobs : \A j \in Jobs :
            IF j \in S THEN /\ state[j] = "live" /\ lease[j] # "held" /\ lease'[j] = "held"
                            /\ attempts'[j] = attempts[j] + 1
                            /\ claim'[d][j] = attempts[j] + 1
                       ELSE /\ lease'[j] = lease[j]
                            /\ attempts'[j] = attempts[j]
                            /\ claim'[d][j] = 0
      BY <2>4, ClaimEffect
    <3>2. \A e \in Drainers, j \in Jobs : e # d => claim'[e][j] = claim[e][j]
      BY <2>4, ClaimEffect
    <3>a. overrun' = overrun
      BY <2>4 DEF Claim, ghostVars
    <3>3. ASSUME NEW e \in Drainers, NEW j \in Jobs \ overrun, claim'[e][j] # 0
          PROVE  claim'[e][j] = attempts'[j] /\ lease'[j] = "held"
      <4>1. CASE e = d
        BY <4>1, <3>1, <3>3
      <4>2. CASE e # d
        <5>1. claim[e][j] # 0 /\ lease[j] = "held" /\ claim[e][j] = attempts[j]
          BY <4>2, <3>2, <3>3 DEF ClaimsHeld
        <5> QED BY <4>2, <5>1, <3>1, <3>2
      <4> QED BY <4>1, <4>2
    <3> QED BY <3>3, <3>a DEF ClaimsHeld
  <2>5. ASSUME NEW d \in Drainers, StartHandler(d) PROVE ClaimsHeld'
    BY <2>5 DEF StartHandler, rowVars, ghostVars, ClaimsHeld
  <2>6. ASSUME NEW d \in Drainers, HandlerReturns(d) PROVE ClaimsHeld'
    BY <2>6 DEF HandlerReturns, rowVars, ghostVars, ClaimsHeld
  <2>7. ASSUME NEW d \in Drainers, Outcome(d) PROVE ClaimsHeld'
    <3> DEFINE r == running[d]
    <3>1. /\ r \in Jobs /\ claim[d][r] # 0 /\ attempts' = attempts
          /\ \A e \in Drainers, j \in Jobs :
               claim'[e][j] = IF e = d /\ j = r THEN 0 ELSE claim[e][j]
          /\ \/ state' = state /\ lease' = lease
             \/ /\ claim[d][r] = attempts[r]
                /\ state'[r] # "unused"
                /\ \A j \in Jobs \ {r} : state'[j] = state[j] /\ lease'[j] = lease[j]
      BY <2>7, OutcomeEffect
    <3> HIDE DEF r
    <3>a. overrun' = overrun
      BY <2>7 DEF Outcome, Ack, DeadLetter, Reschedule, StaleSkip, ghostVars
    <3>2. ASSUME NEW e \in Drainers, NEW j \in Jobs \ overrun, claim'[e][j] # 0
          PROVE  claim'[e][j] = attempts'[j] /\ lease'[j] = "held"
      <4>1. ~(e = d /\ j = r) /\ claim'[e][j] = claim[e][j]
        BY <3>1, <3>2
      <4>2. claim[e][j] = attempts[j] /\ lease[j] = "held"
        BY <4>1, <3>2 DEF ClaimsHeld
      <4>3. CASE j = r /\ lease' # lease
        <5>1. e # d /\ claim[d][j] # 0 /\ claim[d][j] = attempts[j]
          BY <4>1, <4>3, <3>1
        <5>2. claim[e][j] # attempts[j]
          BY <5>1 DEF FenceInv, OwnClaim
        <5> QED BY <5>2, <4>2
      <4>4. CASE j # r \/ lease' = lease
        BY <4>4, <4>1, <4>2, <3>1
      <4> QED BY <4>3, <4>4
    <3> QED BY <3>2, <3>a DEF ClaimsHeld
  <2>8. ASSUME NEW d \in Drainers, Abort(d) PROVE ClaimsHeld'
    <3>1. /\ UNCHANGED <<rowVars, overrun>>
          /\ \A e \in Drainers, j \in Jobs : claim'[e][j] = IF e = d THEN 0 ELSE claim[e][j]
      BY <2>8 DEF Abort, TypeOK, Columns
    <3> QED BY <3>1 DEF rowVars, ClaimsHeld
  <2>9. CASE UNCHANGED vars
    BY <2>9 DEF vars, rowVars, callVars, ghostVars, ClaimsHeld
  <2> QED
    BY <2>1, <2>2, <2>3, <2>4, <2>5, <2>6, <2>7, <2>8, <2>9 DEF Next, DrainStep
<1> QED BY <1>1, <1>2, TypeCorrect, FenceInvHolds, PTL DEF Spec

(* Unless an invocation outlives its lease on it, no two drains run the     *)
(* handler of one job at once, whatever else crashes or retries.            *)
THEOREM HandlersExclusive == Spec => []ExclusiveHandling
<1>1. TypeOK /\ FenceInv /\ ClaimsHeld => ExclusiveHandling
  <2> SUFFICES ASSUME TypeOK, FenceInv, ClaimsHeld,
                      NEW d \in Drainers, NEW e \in Drainers, d # e,
                      running[d] # NoJob, running[d] \notin overrun,
                      running[d] = running[e]
               PROVE  FALSE
    BY DEF ExclusiveHandling
  <2> DEFINE r == running[d]
  <2>1. r \in Jobs /\ claim[d][r] # 0 /\ claim[e][r] # 0
    BY QueueAssumption DEF TypeOK, Columns, LoopLocals
  <2>2. claim[d][r] = attempts[r] /\ claim[e][r] = attempts[r]
    BY <2>1 DEF ClaimsHeld
  <2> QED BY <2>1, <2>2 DEF FenceInv, OwnClaim
<1> QED BY <1>1, TypeCorrect, FenceInvHolds, ClaimsHeldHolds, PTL

-----------------------------------------------------------------------------
(* The rows implement the queue seam: nothing accepted is ever dropped,     *)
(* finished twice or revived, and no slot holds two waiting jobs.           *)
THEOREM ImplementsSeam == Spec => ImplementsWorkQueue
<1> DEFINE pool == [j \in Jobs |-> RowPlace[state[j]]]
<1>1. Init => WQ!WQInit
  BY DEF Init, WQ!WQInit, RowPlace
<1>2. TypeOK /\ FenceInv /\ [Next]_vars => [WQ!WQNext]_(WQ!wqVars)
  <2> SUFFICES ASSUME TypeOK, FenceInv, [Next]_vars
               PROVE  WQ!WQNext \/ UNCHANGED <<pool, slot>>
    BY DEF WQ!wqVars
  <2>0. /\ state \in [Jobs -> {"unused", "live", "dead", "gone"}]
        /\ slot \in [Jobs -> Slots \cup {NoSlot}]
    BY DEF TypeOK, Columns
  <2>a. /\ RowPlace["unused"] = "absent" /\ RowPlace["live"] = "waiting"
        /\ RowPlace["dead"] = "parked" /\ RowPlace["gone"] = "finished"
    BY DEF RowPlace
  <2>1. ASSUME NEW j \in Jobs, NEW s \in Slots \cup {NoSlot}, Enqueue(j, s) PROVE WQ!WQNext
    <3>1. /\ state[j] = "unused" /\ ~SlotTaken(s)
          /\ state' = [state EXCEPT ![j] = "live"] /\ slot' = [slot EXCEPT ![j] = s]
      BY <2>1 DEF Enqueue
    <3>2. pool[j] = "absent" /\ pool' = [pool EXCEPT ![j] = "waiting"]
      BY <2>0, <2>a, <3>1
    <3>3. s = NoSlot \/ \A k \in Jobs : ~(pool[k] = "waiting" /\ slot[k] = s)
      BY <2>0, <2>a, <3>1 DEF SlotTaken
    <3>4. s = NoSlot \/ WQ!Waiting(s) = {}
      BY <3>3 DEF WQ!Waiting
    <3> HIDE DEF pool
    <3>5. WQ!Accept(j, s)
      BY <3>1, <3>2, <3>4 DEF WQ!Accept, pool
    <3> QED BY <3>5 DEF WQ!WQNext
  <2>b. ASSUME NEW k \in Jobs, WQ!Finish(k) \/ WQ!Park(k) PROVE WQ!WQNext
    BY <2>b DEF WQ!WQNext
  <2>2. ASSUME NEW d \in Drainers, Ack(d) \/ DeadLetter(d) PROVE WQ!WQNext
    <3>1. PICK r \in Jobs : r = running[d] /\ claim[d][r] # 0
      BY <2>2, OutcomeEffect DEF Outcome
    <3>2. state[r] = "live"
      BY <2>2, <3>1 DEF Ack, DeadLetter, FenceMatches, FenceInv, OwnClaim
    <3>3. CASE Ack(d)
      <4>1. state' = [state EXCEPT ![r] = "gone"] /\ slot' = slot
        BY <3>1, <3>3 DEF Ack
      <4>2. pool[r] = "waiting" /\ pool' = [pool EXCEPT ![r] = "finished"]
        BY <2>0, <2>a, <3>1, <3>2, <4>1
      <4>3. WQ!Finish(r)
        BY <4>1, <4>2 DEF WQ!Finish
      <4> QED BY <2>b, <3>1, <4>3
    <3>4. CASE DeadLetter(d)
      <4>1. state' = [state EXCEPT ![r] = "dead"] /\ slot' = slot
        BY <3>1, <3>4 DEF DeadLetter
      <4>2. pool[r] = "waiting" /\ pool' = [pool EXCEPT ![r] = "parked"]
        BY <2>0, <2>a, <3>1, <3>2, <4>1
      <4>3. WQ!Park(r)
        BY <4>1, <4>2 DEF WQ!Park
      <4> QED BY <2>b, <3>1, <4>3
    <3> QED BY <2>2, <3>3, <3>4
  <2>3. ASSUME UNCHANGED <<state, slot>> PROVE UNCHANGED <<pool, slot>>
    BY <2>3
  <2>4. CASE Next
    <3>1. ASSUME NEW j \in Jobs, LeaseLapses(j) \/ LeaseOverrun(j) \/ BecomesDue(j)
          PROVE  UNCHANGED <<state, slot>>
      BY <3>1 DEF LeaseLapses, LeaseOverrun, Lapse, BecomesDue
    <3>2. ASSUME NEW d \in Drainers,
                 \/ Claim(d) \/ StartHandler(d) \/ HandlerReturns(d)
                 \/ Reschedule(d) \/ StaleSkip(d) \/ Abort(d)
          PROVE  UNCHANGED <<state, slot>>
      BY <3>2 DEF Claim, StartHandler, HandlerReturns, Reschedule, StaleSkip, Abort, rowVars
    <3> QED BY <2>1, <2>2, <2>3, <2>4, <3>1, <3>2 DEF Next, DrainStep, Outcome
  <2>5. CASE UNCHANGED vars
    BY <2>3, <2>5 DEF vars, rowVars
  <2> QED BY <2>4, <2>5
<1> QED
  BY <1>1, <1>2, TypeCorrect, FenceInvHolds, PTL DEF Spec, ImplementsWorkQueue, WQ!WQSpec
=============================================================================
