------------------------ MODULE GmailReconcile_proofs ------------------------
(***************************************************************************)
(* Proofs about GmailReconcile, for any jobs, length of the history and    *)
(* number of faults and operations.                                        *)
(*                                                                         *)
(* NeverDrop is not inductive: a run may be about to write a cursor.  It   *)
(* is a promise of every run that has read the cursor, under its lease or  *)
(* past it, that all it has been through is settled unless it is blocked   *)
(* (Passed).  A connect takes nothing of that back, as the baseline is the *)
(* highest watermark seeded; one that writes late seeds a watermark below  *)
(* it, and mail that comes now comes after all of them (Ends).             *)
(***************************************************************************)
EXTENDS GmailReconcile, SequenceTheorems, TLAPS

-----------------------------------------------------------------------------
Row == [exists : BOOLEAN, cursor : 0..HistoryBound, seeded : BOOLEAN,
        lease : Jobs \cup {Free}, live : BOOLEAN]
Run == [stage : Stages, at : 0..HistoryBound, upto : 0..HistoryBound,
        blocked : BOOLEAN, result : {"ack", "retry"}]

LEMMA BoundsAreNat ==
  /\ HistoryBound \in Nat /\ OperatorBound \in Nat /\ FaultBound \in Nat
  /\ 0 \in 0..HistoryBound /\ Watermarks = 0..HistoryBound
<1>1. HistoryBound \in Nat /\ OperatorBound \in Nat /\ FaultBound \in Nat
  BY Zenon, ReconcileAssumption DEF ReconcileAssumption
<1> QED BY <1>1 DEF Watermarks

LEMMA RowType ==
  /\ NoRow \in Row
  /\ \A r \in Row :
        /\ [r EXCEPT !.lease = Free, !.live = FALSE] \in Row
        /\ [r EXCEPT !.live = FALSE] \in Row
        /\ [r EXCEPT !.live = FALSE, !.lease = Free] \in Row
        /\ [r EXCEPT !.exists = TRUE] \in Row
        /\ \A j \in Jobs : [r EXCEPT !.lease = j, !.live = TRUE] \in Row
        /\ \A c \in 0..HistoryBound :
              [r EXCEPT !.exists = TRUE, !.seeded = TRUE, !.cursor = c] \in Row
<1>1. NoRow \in Row
  BY BoundsAreNat DEF NoRow, Row
<1>2. ASSUME NEW r \in Row
      PROVE  /\ [r EXCEPT !.lease = Free, !.live = FALSE] \in Row
             /\ [r EXCEPT !.live = FALSE] \in Row
             /\ [r EXCEPT !.live = FALSE, !.lease = Free] \in Row
             /\ [r EXCEPT !.exists = TRUE] \in Row
  BY DEF Row
<1>3. ASSUME NEW r \in Row, NEW j \in Jobs PROVE [r EXCEPT !.lease = j, !.live = TRUE] \in Row
  BY DEF Row
<1>4. ASSUME NEW r \in Row, NEW c \in 0..HistoryBound
      PROVE  [r EXCEPT !.exists = TRUE, !.seeded = TRUE, !.cursor = c] \in Row
  BY DEF Row
<1> QED BY <1>1, <1>2, <1>3, <1>4

LEMMA RunType ==
  /\ Idle \in Run /\ Idle.stage = "idle" /\ Idle.at = 0 /\ Idle.upto = 0
  /\ \A r \in Run, s \in Stages :
        /\ [r EXCEPT !.stage = s] \in Run
        /\ \A a \in {"ack", "retry"} : [r EXCEPT !.stage = s, !.result = a] \in Run
<1>1. Idle \in Run
  BY BoundsAreNat DEF Idle, Run, Stages
<1>2. Idle.stage = "idle" /\ Idle.at = 0 /\ Idle.upto = 0
  BY DEF Idle
<1>3. ASSUME NEW r \in Run, NEW s \in Stages
      PROVE  /\ [r EXCEPT !.stage = s] \in Run
             /\ \A a \in {"ack", "retry"} : [r EXCEPT !.stage = s, !.result = a] \in Run
  BY DEF Run
<1> QED BY <1>1, <1>2, <1>3

(* The types of runs and jobs, and of the rest of the state.                *)
RunsOK ==
    /\ job \in [Jobs -> {"none", "waiting", "running"}]
    /\ run \in [Jobs -> Run]
    /\ \A j \in Jobs : (run[j].stage = "idle") = (job[j] # "running")
    /\ \A j \in Jobs : run[j].upto <= Len(history)

RestOK ==
    /\ status \in {"active", "paused", "needs_reconnect", "disconnected"}
    /\ row \in Row
    /\ armed \in [Watermarks -> Nat] /\ baseline \in Watermarks
    /\ renewing \in BOOLEAN
    /\ history \in Seq({"mail", "skipped"}) /\ Len(history) <= HistoryBound
    /\ forgotten \in 0..Len(history) /\ settled \subseteq 1..Len(history)
    /\ operations \in 0..OperatorBound /\ faults \in 0..FaultBound

LEMMA TypeOKParts == (TypeOK <=> RunsOK /\ RestOK) /\ (TypeOK' <=> RunsOK' /\ RestOK')
BY DEF TypeOK, RunsOK, RestOK, Row, Run

(* One run moves, and its job with it.                                      *)
Moves(j, r, q) ==
    /\ r \in Run /\ q \in {"none", "waiting", "running"}
    /\ (r.stage = "idle") = (q # "running") /\ r.upto <= Len(history)
    /\ run' = [run EXCEPT ![j] = r] /\ job' = [job EXCEPT ![j] = q]

LEMMA MovesKeepTypes ==
  ASSUME RunsOK, NEW j \in Jobs, NEW r, NEW q, Moves(j, r, q), history' = history
  PROVE  RunsOK'
<1>1. job' \in [Jobs -> {"none", "waiting", "running"}] /\ run' \in [Jobs -> Run]
  BY DEF RunsOK, Moves
<1>2. \A k \in Jobs : run'[k] = (IF k = j THEN r ELSE run[k]) /\ job'[k] = (IF k = j THEN q ELSE job[k])
  BY DEF RunsOK, Moves
<1> QED BY <1>1, <1>2 DEF RunsOK, Moves

(* What each step of a run makes of the run and of its job.                 *)
LEMMA StepMoves ==
  ASSUME TypeOK, NEW j \in Jobs, RunStep(j) \/ Throw(j) \/ Kill(j)
  PROVE  \E r \in Run, q \in {"none", "waiting", "running"} : Moves(j, r, q)
<1>0. /\ run[j] \in Run /\ run \in [Jobs -> Run] /\ Idle \in Run
      /\ job \in [Jobs -> {"none", "waiting", "running"}]
      /\ (run[j].stage = "idle") = (job[j] # "running") /\ run[j].upto <= Len(history)
      /\ history \in Seq({"mail", "skipped"}) /\ Len(history) \in 0..HistoryBound
      /\ HistoryBound \in Nat /\ row \in Row
  <2>1. RunsOK /\ RestOK
    BY TypeOKParts
  <2>2. history \in Seq({"mail", "skipped"}) /\ Len(history) \in 0..HistoryBound
    BY <2>1, BoundsAreNat DEF RestOK
  <2> QED BY <2>1, <2>2, RunType, BoundsAreNat DEF RunsOK, RestOK
<1>1. ASSUME NEW a \in {"ack", "retry"}, Return(j, a)
      PROVE  \E r \in Run, q \in {"none", "waiting", "running"} : Moves(j, r, q)
  <2>1. PICK q \in {"none", "waiting"} : job' = [job EXCEPT ![j] = q]
    BY <1>1 DEF Return
  <2>2. Moves(j, Idle, q)
    BY <1>0, <1>1, <2>1 DEF Moves, Return, Idle
  <2> QED BY <1>0, <2>2
<1>2. ASSUME NEW r \in Run, r.stage # "idle", r.upto <= Len(history),
             run' = [run EXCEPT ![j] = r], job[j] = "running", job' = job
      PROVE  \E rr \in Run, q \in {"none", "waiting", "running"} : Moves(j, rr, q)
  <2>1. job' = [job EXCEPT ![j] = "running"]
    BY <1>0, <1>2
  <2>2. Moves(j, r, "running")
    BY <1>2, <2>1 DEF Moves
  <2> QED BY <1>2, <2>2
<1>3. ASSUME NEW s \in Stages, s # "idle", Go(j, s), job[j] = "running", job' = job
      PROVE  \E r \in Run, q \in {"none", "waiting", "running"} : Moves(j, r, q)
  <2>1. PICK r \in {[run[j] EXCEPT !.stage = s]} : run' = [run EXCEPT ![j] = r]
    BY <1>0, <1>3 DEF Go
  <2>2. r \in Run
    BY <1>0, <2>1, RunType
  <2>3. r.stage # "idle" /\ r.upto <= Len(history)
    BY <1>0, <1>3, <2>1 DEF Run
  <2>4. run' = [run EXCEPT ![j] = r]
    BY <2>1
  <2>5. job[j] = "running" /\ job' = job
    BY <1>3
  <2> QED BY <1>0, <1>2, <2>2, <2>3, <2>4, <2>5
<1>4. ASSUME NEW a \in {"ack", "retry"}, Finish(j, a), job[j] = "running", job' = job
      PROVE  \E r \in Run, q \in {"none", "waiting", "running"} : Moves(j, r, q)
  <2>1. PICK r \in {[Idle EXCEPT !.stage = "release", !.result = a]} : run' = [run EXCEPT ![j] = r]
    BY <1>4 DEF Finish
  <2>2. r \in Run
    <3>1. "release" \in Stages
      BY DEF Stages, LeasedStages
    <3>2. [Idle EXCEPT !.stage = "release", !.result = a] \in Run
      BY <3>1, RunType
    <3> QED BY <2>1, <3>2
  <2>3. r.stage # "idle" /\ r.upto = 0
    BY <2>1 DEF Idle
  <2>4. run' = [run EXCEPT ![j] = r] /\ r.upto <= Len(history)
    BY <1>0, <2>1, <2>3
  <2>5. job[j] = "running" /\ job' = job
    BY <1>4
  <2> QED BY <1>0, <1>2, <2>2, <2>3, <2>4, <2>5
<1>5. CASE Start(j)
  <2>1. CASE status = "active"
    <3>1. [Idle EXCEPT !.stage = "token"] \in Run
      BY RunType DEF Stages
    <3>2. Moves(j, [Idle EXCEPT !.stage = "token"], "running")
      BY <1>0, <1>5, <2>1, <3>1 DEF Start, Moves, Idle
    <3> QED BY <3>1, <3>2
  <2> QED BY <1>1, <1>5, <2>1 DEF Start
<1>6. CASE AcquireToken(j)
  BY <1>0, <1>3, <1>6 DEF AcquireToken, Stages
<1>7. CASE Refused(j)
  BY <1>1, <1>7 DEF Refused
<1>8. CASE ReadCursor(j)
  <2>1. CASE row.exists /\ row.seeded
    <3>1. [run[j] EXCEPT !.stage = "claim", !.at = row.cursor] \in Run
      BY <1>0 DEF Run, Row, Stages
    <3> QED BY <1>0, <1>2, <1>8, <2>1, <3>1 DEF ReadCursor, Run
  <2> QED BY <1>1, <1>8, <2>1 DEF ReadCursor
<1>9. CASE ClaimLease(j)
  BY <1>0, <1>1, <1>3, <1>9 DEF ClaimLease, Stages, LeasedStages
<1>10. CASE List(j)
  <2>1. [run[j] EXCEPT !.stage = "fetch", !.upto = Len(history)] \in Run
    BY <1>0 DEF Run, Stages, LeasedStages
  <2> QED BY <1>0, <1>2, <1>3, <1>10, <2>1 DEF List, Run, Stages, LeasedStages
<1>11. CASE Pause(j)
  BY <1>0, <1>4, <1>11 DEF Pause
<1>12. CASE Fetch(j)
  <2>1. run[j].at + 1 \in 0..HistoryBound
    BY <1>0, <1>12 DEF Fetch, Run
  <2>2. /\ [run[j] EXCEPT !.at = run[j].at + 1] \in Run
        /\ [run[j] EXCEPT !.at = run[j].at + 1, !.blocked = TRUE] \in Run
    BY <1>0, <2>1 DEF Run
  <2>3. run[j].stage = "fetch" /\ job[j] = "running" /\ job' = job
    BY <1>0, <1>12 DEF Fetch
  <2>4. PICK r \in {[run[j] EXCEPT !.at = run[j].at + 1],
                    [run[j] EXCEPT !.at = run[j].at + 1, !.blocked = TRUE]} :
              run' = [run EXCEPT ![j] = r]
    BY <1>0, <1>12 DEF Fetch
  <2>5. r \in Run /\ r.stage = run[j].stage /\ r.upto = run[j].upto
    BY <1>0, <2>2 DEF Run
  <2> QED BY <1>0, <1>2, <2>3, <2>4, <2>5
<1>13. CASE Advance(j)
  BY <1>0, <1>4, <1>13 DEF Advance
<1>14. CASE Release(j)
  BY <1>0, <1>1, <1>14 DEF Release, Run
<1>15. CASE Throw(j)
  BY <1>0, <1>4, <1>15 DEF Throw
<1>16. CASE Kill(j)
  <2>1. Moves(j, Idle, "waiting")
    BY <1>0, <1>16 DEF Kill, Moves, Idle
  <2> QED BY <1>0, <2>1
<1> QED BY <1>5, <1>6, <1>7, <1>8, <1>9, <1>10, <1>11, <1>12, <1>13, <1>14, <1>15, <1>16 DEF RunStep

LEMMA TypeIsInductive == (Init => TypeOK) /\ (TypeOK /\ [Next]_vars => TypeOK')
<1>1. Init => TypeOK
  <2> SUFFICES ASSUME Init PROVE TypeOK
    OBVIOUS
  <2>1. RunsOK
    <3>1. run \in [Jobs -> Run] /\ job \in [Jobs -> {"none", "waiting", "running"}]
      BY RunType DEF Init
    <3>2. \A j \in Jobs : run[j].stage = "idle" /\ job[j] # "running" /\ run[j].upto <= Len(history)
      <4>1. 0 <= Len(history)
        BY DEF Init
      <4>2. \A j \in Jobs : run[j] = Idle /\ job[j] = "none"
        BY DEF Init
      <4>3. \A j \in Jobs : run[j].stage = "idle" /\ job[j] # "running" /\ run[j].upto = 0
        BY Zenon, <4>2, RunType
      <4> QED BY Zenon, <4>1, <4>3
    <3> QED BY <3>1, <3>2 DEF RunsOK
  <2>2. row \in Row
    BY BoundsAreNat DEF Init, NoRow, Row
  <2>3. /\ history \in Seq({"mail", "skipped"}) /\ Len(history) <= HistoryBound
        /\ forgotten \in 0..Len(history) /\ settled \subseteq 1..Len(history)
    BY BoundsAreNat DEF Init
  <2>4. /\ armed \in [Watermarks -> Nat] /\ baseline \in Watermarks
        /\ operations \in 0..OperatorBound /\ faults \in 0..FaultBound
    <3>1. armed = [w \in Watermarks |-> 0] /\ baseline = 0 /\ operations = 0 /\ faults = 0
      BY Zenon DEF Init
    <3> QED BY <3>1, BoundsAreNat
  <2>6. status = "active" /\ renewing \in BOOLEAN
    BY Zenon DEF Init
  <2>5. RestOK
    BY <2>2, <2>3, <2>4, <2>6 DEF RestOK
  <2> QED BY <2>1, <2>5, TypeOKParts
<1>2. TypeOK /\ [Next]_vars => TypeOK'
  <2> SUFFICES ASSUME TypeOK, [Next]_vars PROVE TypeOK'
    OBVIOUS
  <2>0. /\ RunsOK /\ RestOK /\ row \in Row
        /\ Fault => faults' \in 0..FaultBound
        /\ Operate => operations' \in 0..OperatorBound
    <3>1. RunsOK /\ RestOK
      BY TypeOKParts
    <3>2. faults \in 0..FaultBound /\ operations \in 0..OperatorBound
      BY <3>1 DEF RestOK
    <3>3. /\ Fault => faults' \in 0..FaultBound
          /\ Operate => operations' \in 0..OperatorBound
      BY <3>2, BoundsAreNat DEF Fault, Operate
    <3> QED BY <3>1, <3>3 DEF RestOK
  <2>1. ASSUME NEW j \in Jobs, RunStep(j) \/ Throw(j) \/ Kill(j) PROVE TypeOK'
    <3>0. /\ run[j] \in Run /\ Len(history) \in Nat /\ Len(history) <= HistoryBound
          /\ history \in Seq({"mail", "skipped"}) /\ forgotten \in 0..Len(history)
          /\ settled \subseteq 1..Len(history) /\ run[j].upto <= Len(history)
      BY <2>0 DEF RestOK, RunsOK
    <3>1. UNCHANGED <<armed, renewing, baseline, operations, gmail>>
      BY <2>1 DEF RunStep, Start, AcquireToken, Refused, ReadCursor, ClaimLease, List, Pause,
                  Fetch, Advance, Release, Throw, Kill, mailbox
    <3>2. RunsOK'
      BY <2>0, <2>1, <3>1, StepMoves, MovesKeepTypes DEF gmail
    <3>3. row' \in Row
      <4>1. CASE ClaimLease(j)
        <5>1. [row EXCEPT !.lease = j, !.live = TRUE] \in Row
          BY <2>0, RowType
        <5> QED BY <2>0, <4>1, <5>1 DEF ClaimLease
      <4>2. CASE Advance(j)
        <5>1. run[j].upto \in 0..HistoryBound
          BY <3>0 DEF Run
        <5>2. [row EXCEPT !.exists = TRUE, !.seeded = TRUE, !.cursor = run[j].upto] \in Row
          BY <2>0, <5>1, RowType
        <5> QED BY <2>0, <4>2, <5>2 DEF Advance, NewCursor
      <4>3. CASE Release(j)
        <5>1. [row EXCEPT !.lease = Free, !.live = FALSE] \in Row
          BY <2>0, RowType
        <5> QED BY <2>0, <4>3, <5>1 DEF Release
      <4> QED BY <2>0, <2>1, <4>1, <4>2, <4>3
              DEF RunStep, Start, AcquireToken, Refused, ReadCursor, List, Pause, Fetch,
                  Throw, Kill, mailbox
    <3>4. settled' \subseteq 1..Len(history)
      <4>1. CASE Fetch(j)
        BY <3>0, <4>1 DEF Fetch, Run
      <4> QED BY <2>1, <3>0, <4>1
              DEF RunStep, Start, AcquireToken, Refused, ReadCursor, ClaimLease, List, Pause,
                  Advance, Release, Throw, Kill
    <3>5. status' \in {"active", "paused", "needs_reconnect", "disconnected"}
      BY <2>0, <2>1 DEF RestOK, RunStep, Start, AcquireToken, Refused, ReadCursor, ClaimLease,
                        List, Pause, Fetch, Advance, Release, Throw, Kill, mailbox
    <3>6. faults' \in 0..FaultBound
      BY <2>0, <2>1 DEF RestOK, RunStep, Start, AcquireToken, Refused, ReadCursor, ClaimLease,
                        List, Pause, Fetch, Advance, Release, Throw, Kill, Fault
    <3>7. RestOK'
      BY <2>0, <3>1, <3>3, <3>4, <3>5, <3>6 DEF RestOK, gmail
    <3> QED BY <3>2, <3>7, TypeOKParts
  <2>2. ASSUME NEW j \in Jobs, Enqueue(j) PROVE TypeOK'
    <3>1. RunsOK'
      BY <2>0, <2>2 DEF Enqueue, RunsOK, gmail
    <3>2. RestOK'
      BY <2>0, <2>2 DEF Enqueue, RestOK, mailbox, gmail
    <3> QED BY <3>1, <3>2, TypeOKParts
  <2>3. ASSUME UNCHANGED <<gmail, settled, job, run>>, row' \in Row, armed' \in [Watermarks -> Nat],
               baseline' \in Watermarks, renewing' \in BOOLEAN,
               status' \in {status, "active", "disconnected"},
               operations' = operations \/ Operate, faults' = faults \/ Fault
        PROVE  TypeOK'
    <3>1. RunsOK'
      BY <2>0, <2>3 DEF RunsOK, gmail
    <3>2. RestOK'
      BY <2>0, <2>3 DEF RestOK, gmail
    <3> QED BY <3>1, <3>2, TypeOKParts
  <2>4. armed \in [Watermarks -> Nat] /\ baseline \in Watermarks /\ renewing \in BOOLEAN
        /\ Len(history) \in 0..HistoryBound /\ 0 \in 0..HistoryBound
    BY <2>0, BoundsAreNat DEF RestOK
  <2>5. CASE LeaseLapses
    <3>1. [row EXCEPT !.live = FALSE] \in Row /\ [row EXCEPT !.live = FALSE, !.lease = Free] \in Row
      BY <2>0, RowType
    <3>2. row' \in Row
      BY <2>5, <3>1 DEF LeaseLapses
    <3> QED BY <2>3, <2>4, <2>5, <3>2 DEF LeaseLapses
  <2>6. CASE ConnectArms
    <3>1. armed[Len(history)] + 1 \in Nat
      BY <2>4, BoundsAreNat
    <3>2. armed' \in [Watermarks -> Nat]
      BY Zenon, <2>4, <2>6, <3>1 DEF ConnectArms
    <3> QED BY <2>0, <2>3, <2>4, <2>6, <3>2 DEF ConnectArms
  <2>7. ASSUME NEW w \in Watermarks, ConnectPersists(w) PROVE TypeOK'
    <3>1. [row EXCEPT !.exists = TRUE, !.seeded = TRUE, !.cursor = w] \in Row
      BY <2>0, <2>7, RowType, BoundsAreNat
    <3>2. armed' \in [Watermarks -> Nat]
      BY <2>4, <2>7 DEF ConnectPersists, Seeded
    <3> QED BY <2>3, <2>4, <2>7, <3>1, <3>2 DEF ConnectPersists, Seeded
  <2>8. CASE Disconnect
    BY <2>0, <2>3, <2>4, <2>8, RowType DEF Disconnect
  <2>9. CASE RenewBegins
    BY <2>0, <2>3, <2>4, <2>9 DEF RenewBegins
  <2>10. CASE RenewEnds
    <3>1. [row EXCEPT !.exists = TRUE] \in Row
      BY <2>0, RowType
    <3> QED BY <2>0, <2>3, <2>4, <2>10, <3>1 DEF RenewEnds
  <2>11. CASE Gmail
    <3>1. /\ history' \in Seq({"mail", "skipped"}) /\ Len(history') \in 0..HistoryBound
          /\ Len(history) <= Len(history')
      <4>1. ASSUME NEW m \in 1..Len(history), history' = [history EXCEPT ![m] = "skipped"]
            PROVE  history' \in Seq({"mail", "skipped"}) /\ Len(history') = Len(history)
        BY <2>0, <4>1 DEF RestOK
      <4>2. ASSUME NEW kind \in {"mail", "skipped"}, Len(history) < HistoryBound,
                   history' = Append(history, kind)
            PROVE  /\ history' \in Seq({"mail", "skipped"}) /\ Len(history') \in 0..HistoryBound
                   /\ Len(history) <= Len(history')
        BY <2>0, <2>4, <4>2, BoundsAreNat DEF RestOK
      <4>3. CASE history' = history
        BY <2>0, <2>4, <4>3 DEF RestOK
      <4> QED BY <2>4, <2>11, <4>1, <4>2, <4>3 DEF Gmail
    <3>2. RunsOK'
      BY <2>0, <2>4, <2>11, <3>1 DEF Gmail, RunsOK, Run
    <3>3. RestOK'
      BY <2>0, <2>4, <2>11, <3>1 DEF Gmail, RestOK, mailbox
    <3> QED BY <3>2, <3>3, TypeOKParts
  <2>12. CASE UNCHANGED vars
    BY <2>12 DEF vars, mailbox, gmail, TypeOK
  <2> QED BY <2>1, <2>2, <2>5, <2>6, <2>7, <2>8, <2>9, <2>10, <2>11, <2>12 DEF Next
<1> QED BY <1>1, <1>2

(* The state keeps its types.                                               *)
THEOREM TypeCorrect == Spec => []TypeOK
BY TypeIsInductive, PTL DEF Spec

-----------------------------------------------------------------------------
Through(n) == \A m \in Positions : m <= n => ~Owed(m)

(* Nothing is ahead of the history: no cursor, no run, no watermark.        *)
Ends ==
    /\ row.cursor <= Len(history) /\ baseline <= Len(history)
    /\ \A w \in Watermarks : armed[w] > 0 => w <= Len(history)
    /\ \A j \in Jobs : run[j].at <= Len(history)

(* What a run that is not blocked has been through is settled.              *)
Passed == \A j \in Jobs :
    run[j].stage \in {"claim", "list", "fetch"} /\ ~run[j].blocked => Through(run[j].at)

IInv == TypeOK /\ Ends /\ Passed /\ Through(row.cursor)

(* The history only grows, the baseline moves up, and of what was there     *)
(* nothing becomes owed.                                                    *)
LEMMA NothingComesBack ==
  ASSUME TypeOK, Ends, [Next]_vars
  PROVE  /\ Len(history) \in Nat /\ Len(history) <= Len(history')
         /\ baseline' <= Len(history')
         /\ \A m \in Positions : m <= Len(history) /\ Owed(m)' => Owed(m)
<1>0. /\ RunsOK /\ RestOK /\ Len(history) \in Nat /\ baseline \in Nat
      /\ HistoryBound \in Nat /\ history \in Seq({"mail", "skipped"})
      /\ baseline <= Len(history) /\ (\A w \in Watermarks : w \in Nat)
      /\ \A w \in Watermarks : armed[w] > 0 => w <= Len(history)
  BY TypeOKParts, BoundsAreNat DEF RestOK, Ends
<1>1. CASE Gmail
  <2>1. ASSUME NEW k \in 1..Len(history), history[k] = "mail",
               history' = [history EXCEPT ![k] = "skipped"]
        PROVE  /\ Len(history') = Len(history)
               /\ \A m \in 1..Len(history) : history'[m] = "mail" => history[m] = "mail"
    BY <1>0, <2>1
  <2>2. ASSUME NEW kind \in {"mail", "skipped"}, history' = Append(history, kind)
        PROVE  /\ Len(history') = Len(history) + 1
               /\ \A m \in 1..Len(history) : history'[m] = history[m]
    BY <1>0, <2>2
  <2>3. /\ Len(history) <= Len(history')
        /\ \A m \in 1..Len(history) : history'[m] = "mail" => history[m] = "mail"
    BY <1>0, <1>1, <2>1, <2>2 DEF Gmail
  <2>4. baseline' = baseline /\ settled' = settled
    BY <1>1 DEF Gmail, mailbox
  <2> QED BY <1>0, <2>3, <2>4 DEF Owed, Positions
<1>2. ASSUME NEW w \in Watermarks, ConnectPersists(w) PROVE
        /\ Len(history) <= Len(history')
        /\ baseline' <= Len(history')
        /\ \A m \in Positions : m <= Len(history) /\ Owed(m)' => Owed(m)
  BY <1>0, <1>2 DEF ConnectPersists, Seeded, gmail, Owed, Positions
<1>3. ASSUME history' = history, baseline' = baseline, settled \subseteq settled' PROVE
        /\ Len(history) <= Len(history')
        /\ baseline' <= Len(history')
        /\ \A m \in Positions : m <= Len(history) /\ Owed(m)' => Owed(m)
  BY <1>0, <1>3 DEF Owed
<1>4. ASSUME NEW j \in Jobs, Enqueue(j) \/ RunStep(j) \/ Throw(j) \/ Kill(j)
      PROVE  history' = history /\ baseline' = baseline /\ settled \subseteq settled'
  BY <1>4 DEF Enqueue, RunStep, Start, AcquireToken, Refused, ReadCursor, ClaimLease, List, Pause,
              Fetch, Advance, Release, Throw, Kill, mailbox, gmail
<1>5. CASE LeaseLapses \/ ConnectArms \/ Disconnect \/ RenewBegins \/ RenewEnds \/ UNCHANGED vars
  BY <1>3, <1>0, <1>5 DEF LeaseLapses, ConnectArms, Disconnect, RenewBegins, RenewEnds, vars, mailbox, gmail
<1> QED BY <1>0, <1>1, <1>2, <1>3, <1>4, <1>5 DEF Next

(* What a step that a run does not take leaves of it.                       *)
LEMMA OthersStay ==
  ASSUME TypeOK, NEW j \in Jobs, RunStep(j) \/ Throw(j) \/ Kill(j)
  PROVE  \A k \in Jobs : k # j => run'[k] = run[k]
<1>1. PICK r \in Run, q \in {"none", "waiting", "running"} : Moves(j, r, q)
  BY StepMoves
<1> QED BY <1>1, TypeOKParts DEF Moves, RunsOK

(* Where a step of a run puts the run and the cursor.                       *)
LEMMA RunEffect ==
  ASSUME IInv, NEW j \in Jobs, RunStep(j) \/ Throw(j) \/ Kill(j)
  PROVE  /\ run'[j].at <= Len(history) /\ row'.cursor <= Len(history)
         /\ run'[j].stage \in {"claim", "list", "fetch"} /\ ~run'[j].blocked =>
                \A m \in Positions : m <= run'[j].at => ~Owed(m)'
         /\ \A m \in Positions : m <= row'.cursor => ~Owed(m)'
<1>0. /\ run[j] \in Run /\ run \in [Jobs -> Run] /\ row \in Row
      /\ Idle \in Run /\ Idle.at = 0 /\ Idle.stage = "idle"
      /\ Len(history) \in Nat /\ run[j].upto <= Len(history) /\ HistoryBound \in Nat
      /\ run[j].at <= Len(history) /\ row.cursor <= Len(history)
      /\ run[j].at \in Nat /\ run[j].upto \in Nat /\ row.cursor \in Nat
      /\ Through(row.cursor)
      /\ run[j].stage \in {"claim", "list", "fetch"} /\ ~run[j].blocked => Through(run[j].at)
  <2>1. run[j] \in Run /\ run \in [Jobs -> Run] /\ row \in Row /\ Len(history) \in Nat
        /\ run[j].upto <= Len(history)
    BY TypeOKParts DEF IInv, RunsOK, RestOK
  <2>2. run[j].at \in Nat /\ run[j].upto \in Nat /\ row.cursor \in Nat
    BY <2>1, BoundsAreNat DEF Run, Row
  <2> QED BY <2>1, <2>2, RunType, BoundsAreNat DEF IInv, Ends, Passed
<1>1. \A m \in Positions : m <= Len(history) /\ Owed(m)' => Owed(m)
  BY NothingComesBack DEF IInv, Next
<1>2. \A m \in Positions : m <= row.cursor => ~Owed(m)'
  BY <1>0, <1>1 DEF Through, Positions
<1>3. ASSUME NEW a, Return(j, a) PROVE run'[j].stage = "idle" /\ run'[j].at = 0
  BY <1>0, <1>3 DEF Return
<1>4. ASSUME NEW a, Finish(j, a) PROVE run'[j].stage = "release" /\ run'[j].at = 0
  BY <1>0, <1>4 DEF Finish, Idle
<1>5. ASSUME row'.cursor = row.cursor, run'[j].at = 0, run'[j].stage \in {"idle", "token", "release"}
      PROVE  /\ run'[j].at <= Len(history) /\ row'.cursor <= Len(history)
             /\ run'[j].stage \in {"claim", "list", "fetch"} /\ ~run'[j].blocked =>
                    \A m \in Positions : m <= run'[j].at => ~Owed(m)'
             /\ \A m \in Positions : m <= row'.cursor => ~Owed(m)'
  BY <1>0, <1>2, <1>5
<1>6. ASSUME row'.cursor = row.cursor, run'[j].at = run[j].at, run'[j].blocked = run[j].blocked,
             run[j].stage \in {"claim", "list", "fetch"}
             \/ run'[j].stage \in {"refused", "cursor", "expired"}
      PROVE  /\ run'[j].at <= Len(history) /\ row'.cursor <= Len(history)
             /\ run'[j].stage \in {"claim", "list", "fetch"} /\ ~run'[j].blocked =>
                    \A m \in Positions : m <= run'[j].at => ~Owed(m)'
             /\ \A m \in Positions : m <= row'.cursor => ~Owed(m)'
  BY <1>0, <1>1, <1>2, <1>6 DEF Through, Positions
<1>7. CASE Start(j)
  <2>1. run'[j] = [Idle EXCEPT !.stage = "token"] \/ run'[j] = Idle
    BY <1>0, <1>7 DEF Start, Return
  <2>2. run'[j].at = 0 /\ run'[j].stage \in {"idle", "token"}
    BY <2>1 DEF Idle
  <2> QED BY <1>5, <1>7, <2>2 DEF Start, mailbox
<1>8. CASE AcquireToken(j)
  BY <1>0, <1>6, <1>8 DEF AcquireToken, Go, Run
<1>9. CASE Refused(j)
  BY <1>3, <1>5, <1>9 DEF Refused, mailbox
<1>10. CASE ReadCursor(j)
  <2>1. CASE row.exists /\ row.seeded
    <3>1. run'[j].at = row.cursor /\ row' = row
      BY <1>0, <1>10, <2>1 DEF ReadCursor, mailbox, Run
    <3> QED BY <1>0, <1>2, <3>1
  <2> QED BY <1>3, <1>5, <1>10, <2>1 DEF ReadCursor, mailbox
<1>11. CASE ClaimLease(j)
  <2>1. row'.cursor = row.cursor
    BY <1>0, <1>11 DEF ClaimLease, Row
  <2>2. CASE row.exists /\ ~row.live
    <3>1. run'[j].at = run[j].at /\ run'[j].blocked = run[j].blocked /\ run[j].stage = "claim"
      BY <1>0, <1>11, <2>2 DEF ClaimLease, Go, Run
    <3> QED BY <1>6, <2>1, <3>1
  <2> QED BY <1>3, <1>5, <1>11, <2>1, <2>2 DEF ClaimLease
<1>12. CASE List(j)
  <2>1. run'[j].at = run[j].at /\ run'[j].blocked = run[j].blocked /\ run[j].stage = "list"
    BY <1>0, <1>12 DEF List, Go, Run
  <2> QED BY <1>6, <1>12, <2>1 DEF List, mailbox
<1>13. CASE Pause(j)
  BY <1>4, <1>5, <1>13 DEF Pause
<1>14. CASE Fetch(j)
  <2>1. /\ run'[j].at = run[j].at + 1 /\ run[j].stage = "fetch" /\ run[j].at < run[j].upto
        /\ row' = row /\ history' = history /\ baseline' = baseline
    BY <1>0, <1>14 DEF Fetch, mailbox, gmail, Run
  <2>2. ASSUME ~run'[j].blocked, NEW m \in Positions, m <= run'[j].at PROVE ~Owed(m)'
    <3>1. /\ ~run[j].blocked
          /\ settled' = IF history[run[j].at + 1] = "mail" THEN settled \cup {run[j].at + 1} ELSE settled
      <4>1. \/ /\ settled' = IF history[run[j].at + 1] = "mail"
                               THEN settled \cup {run[j].at + 1} ELSE settled
               /\ run' = [run EXCEPT ![j].at = run[j].at + 1]
            \/ run' = [run EXCEPT ![j].at = run[j].at + 1, ![j].blocked = TRUE]
        BY <1>14 DEF Fetch
      <4>2. run' # [run EXCEPT ![j].at = run[j].at + 1, ![j].blocked = TRUE]
        BY <1>0, <2>2 DEF Run
      <4>3. run' = [run EXCEPT ![j].at = run[j].at + 1] => ~run[j].blocked
        BY <1>0, <2>2 DEF Run
      <4> QED BY <4>1, <4>2, <4>3
    <3>2. CASE m <= run[j].at
      BY <1>0, <1>1, <2>1, <3>1, <3>2 DEF Through, Positions
    <3>3. CASE m = run[j].at + 1
      BY <2>1, <3>1, <3>3 DEF Owed
    <3> QED BY <1>0, <2>1, <2>2, <3>2, <3>3 DEF Positions
  <2> QED BY <1>0, <1>2, <2>1, <2>2
<1>15. CASE Advance(j)
  <2>1. run'[j].at = 0 /\ run'[j].stage = "release" /\ run[j].stage = "fetch" /\ run[j].upto <= run[j].at
    BY <1>0, <1>4, <1>15 DEF Advance
  <2>2. CASE ~run[j].blocked
    <3>1. row'.cursor = run[j].upto
      BY <1>0, <1>15, <2>2 DEF Advance, MayAdvance, NewCursor, Row
    <3>2. \A m \in Positions : m <= row'.cursor => ~Owed(m)'
      BY <1>0, <1>1, <2>1, <2>2, <3>1 DEF Through, Positions
    <3> QED BY <1>0, <2>1, <3>1, <3>2
  <2>3. CASE run[j].blocked
    BY <1>5, <1>15, <2>1, <2>3 DEF Advance, MayAdvance
  <2> QED BY <2>2, <2>3
<1>16. CASE Release(j)
  <2>1. row'.cursor = row.cursor
    BY <1>0, <1>16 DEF Release, Row
  <2> QED BY <1>3, <1>5, <1>16, <2>1 DEF Release
<1>17. CASE Throw(j)
  BY <1>4, <1>5, <1>17 DEF Throw, mailbox
<1>18. CASE Kill(j)
  BY <1>0, <1>5, <1>18 DEF Kill, mailbox
<1> QED BY <1>7, <1>8, <1>9, <1>10, <1>11, <1>12, <1>13, <1>14, <1>15, <1>16, <1>17, <1>18 DEF RunStep

LEMMA DropInvariant == (Init => IInv) /\ (IInv /\ [Next]_vars => IInv')
<1>1. Init => IInv
  <2> SUFFICES ASSUME Init PROVE IInv
    OBVIOUS
  <2>1. TypeOK
    BY TypeIsInductive
  <2>2. /\ row.cursor = 0 /\ baseline = 0 /\ Len(history) = 0
        /\ \A w \in Watermarks : armed[w] = 0
    BY DEF Init, NoRow
  <2>3. \A j \in Jobs : run[j].at = 0 /\ run[j].stage = "idle"
    <3>1. \A j \in Jobs : run[j] = Idle
      BY DEF Init
    <3> QED BY Zenon, <3>1, RunType
  <2>4. Ends
    <3>1. 0 <= Len(history)
      BY <2>2
    <3> QED BY <2>2, <2>3, <3>1 DEF Ends
  <2>5. Passed /\ Through(row.cursor)
    BY <2>2, <2>3 DEF Passed, Through, Positions
  <2> QED BY <2>1, <2>4, <2>5 DEF IInv
<1>2. IInv /\ [Next]_vars => IInv'
  <2> SUFFICES ASSUME IInv, [Next]_vars PROVE IInv'
    OBVIOUS
  <2>1. TypeOK'
    BY TypeIsInductive DEF IInv
  <2>2. /\ Len(history) \in Nat /\ Len(history) <= Len(history') /\ baseline' <= Len(history')
        /\ \A m \in Positions : m <= Len(history) /\ Owed(m)' => Owed(m)
    BY NothingComesBack DEF IInv
  <2>3. /\ RunsOK /\ RestOK /\ row \in Row /\ row.cursor \in Nat /\ baseline \in Nat
        /\ armed \in [Watermarks -> Nat] /\ (\A w \in Watermarks : w \in Nat)
        /\ \A j \in Jobs : run[j].at \in Nat
        /\ HistoryBound \in Nat /\ Len(history') \in Nat /\ Ends /\ Passed /\ Through(row.cursor)
    <3>1. RunsOK /\ RestOK /\ RestOK'
      BY <2>1, TypeOKParts DEF IInv
    <3>2. Len(history') \in Nat
      BY <3>1 DEF RestOK
    <3>3. row.cursor \in Nat /\ HistoryBound \in Nat /\ \A j \in Jobs : run[j].at \in Nat
      BY <3>1, BoundsAreNat DEF RunsOK, RestOK, Run, Row
    <3>4. (\A w \in Watermarks : w \in Nat) /\ baseline \in Nat
      BY <3>1, BoundsAreNat DEF RestOK
    <3> QED BY Zenon, <3>1, <3>2, <3>3, <3>4 DEF IInv, RestOK
  <2>4. ASSUME NEW k \in Jobs, run'[k] = run[k]
        PROVE  /\ run'[k].at <= Len(history')
               /\ run'[k].stage \in {"claim", "list", "fetch"} /\ ~run'[k].blocked =>
                      \A m \in Positions : m <= run'[k].at => ~Owed(m)'
    BY <2>2, <2>3, <2>4 DEF Ends, Passed, Through, Positions
  <2>5. ASSUME row'.cursor = row.cursor
        PROVE  row'.cursor <= Len(history') /\ \A m \in Positions : m <= row'.cursor => ~Owed(m)'
    BY <2>2, <2>3, <2>5 DEF Ends, Through, Positions
  <2>6. ASSUME row'.cursor <= Len(history'),
               \A w \in Watermarks : armed'[w] > 0 => w <= Len(history'),
               \A m \in Positions : m <= row'.cursor => ~Owed(m)',
               \A k \in Jobs :
                  /\ run'[k].at <= Len(history')
                  /\ run'[k].stage \in {"claim", "list", "fetch"} /\ ~run'[k].blocked =>
                         \A m \in Positions : m <= run'[k].at => ~Owed(m)'
        PROVE  IInv'
    <3>1. Ends'
      BY <2>2, <2>6 DEF Ends
    <3>2. Passed' /\ Through(row.cursor)'
      BY <2>6 DEF Passed, Through
    <3> QED BY <2>1, <3>1, <3>2 DEF IInv
  <2>7. ASSUME NEW j \in Jobs, RunStep(j) \/ Throw(j) \/ Kill(j) PROVE IInv'
    <3>1. UNCHANGED <<history, armed, baseline>>
      BY <2>7 DEF RunStep, Start, AcquireToken, Refused, ReadCursor, ClaimLease, List, Pause,
                  Fetch, Advance, Release, Throw, Kill, mailbox, gmail
    <3>2. \A w \in Watermarks : armed'[w] > 0 => w <= Len(history')
      BY <2>3, <3>1 DEF Ends
    <3>3. /\ run'[j].at <= Len(history') /\ row'.cursor <= Len(history')
          /\ run'[j].stage \in {"claim", "list", "fetch"} /\ ~run'[j].blocked =>
                 \A m \in Positions : m <= run'[j].at => ~Owed(m)'
          /\ \A m \in Positions : m <= row'.cursor => ~Owed(m)'
      BY <2>7, <3>1, RunEffect
    <3>4. \A k \in Jobs : k # j => run'[k] = run[k]
      BY <2>7, OthersStay DEF IInv
    <3> QED BY <2>4, <2>6, <3>2, <3>3, <3>4
  <2>8. ASSUME run' = run, row'.cursor = row.cursor,
               \A w \in Watermarks : armed'[w] > 0 => w <= Len(history')
        PROVE  IInv'
    BY <2>4, <2>5, <2>6, <2>8
  <2>9. \A w \in Watermarks : armed[w] > 0 => w <= Len(history')
    BY <2>2, <2>3 DEF Ends
  <2>10. ASSUME NEW j \in Jobs, Enqueue(j) PROVE IInv'
    BY <2>8, <2>9, <2>10 DEF Enqueue, mailbox
  <2>11. CASE LeaseLapses
    <3>1. row'.cursor = row.cursor
      BY <2>3, <2>11 DEF LeaseLapses, Row
    <3> QED BY <2>8, <2>9, <2>11, <3>1 DEF LeaseLapses
  <2>12. CASE ConnectArms
    <3>1. \A w \in Watermarks : armed'[w] > 0 => w = Len(history) \/ armed[w] > 0
      BY <2>3, <2>12 DEF ConnectArms
    <3> QED BY <2>2, <2>3, <2>8, <2>9, <2>12, <3>1 DEF ConnectArms, gmail
  <2>13. ASSUME NEW w \in Watermarks, ConnectPersists(w) PROVE IInv'
    <3>1. /\ row'.cursor = w /\ armed[w] > 0 /\ run' = run /\ history' = history
          /\ w <= baseline' /\ \A v \in Watermarks : armed'[v] > 0 => armed[v] > 0
      BY <2>3, <2>13 DEF ConnectPersists, Seeded, Row, gmail
    <3>2. \A m \in Positions : m <= row'.cursor => ~Owed(m)'
      <4>1. baseline' \in Nat
        BY <2>3, <2>13 DEF ConnectPersists, Seeded
      <4> QED BY <2>3, <3>1, <4>1 DEF Owed, Positions
    <3>3. row'.cursor <= Len(history')
      BY <2>9, <3>1
    <3> QED BY <2>4, <2>6, <2>9, <3>1, <3>2, <3>3
  <2>14. CASE Disconnect
    <3>1. row'.cursor = 0 /\ run' = run /\ UNCHANGED <<armed, baseline>>
      BY <2>14 DEF Disconnect, NoRow
    <3>2. row'.cursor <= Len(history') /\ \A m \in Positions : m <= row'.cursor => ~Owed(m)'
      BY <2>2, <2>3, <3>1 DEF Positions
    <3> QED BY <2>4, <2>6, <2>9, <3>1, <3>2
  <2>15. CASE RenewBegins
    BY <2>8, <2>9, <2>15 DEF RenewBegins
  <2>16. CASE RenewEnds
    <3>1. row'.cursor = row.cursor
      BY <2>3, <2>16 DEF RenewEnds, Row
    <3> QED BY <2>8, <2>9, <2>16, <3>1 DEF RenewEnds
  <2>17. CASE Gmail
    BY <2>8, <2>9, <2>17 DEF Gmail, mailbox
  <2>18. CASE UNCHANGED vars
    BY <2>8, <2>9, <2>18 DEF vars, mailbox
  <2> QED BY <2>7, <2>10, <2>11, <2>12, <2>13, <2>14, <2>15, <2>16, <2>17, <2>18 DEF Next
<1> QED BY <1>1, <1>2

(* No mail after every watermark that connects have seeded lies unsettled   *)
(* behind the stored cursor, whatever runs of src/mail/gmail-reconcile.ts   *)
(* and connects overlap, die or outlive a lease or a reconnect.             *)
THEOREM NothingIsDropped == Spec => []NeverDrop
<1>1. IInv => NeverDrop
  BY DEF IInv, Through, NeverDrop
<1> QED BY <1>1, DropInvariant, PTL DEF Spec

(* A run at work under a live lease loses it to a disconnect or to the      *)
(* clock, never to the release of the run it replaced                       *)
(* (src/store/gmail-watch-state.ts, releaseReconcileLease).                 *)
THEOREM LeasesAreKept == Spec => LeaseKept
<1> DEFINE Kept == \A j \in Jobs :
        row.live /\ row.lease = j /\ run[j].stage \in LeasedStages /\ run'[j] = run[j]
            => (row'.live /\ row'.lease = j) \/ ~row'.exists \/ faults' > faults
<1>1. TypeOK /\ [Next]_vars => [Kept]_vars
  <2> SUFFICES ASSUME TypeOK, Next, NEW j \in Jobs, row.live, row.lease = j,
                      run[j].stage \in LeasedStages, run'[j] = run[j]
               PROVE  (row'.live /\ row'.lease = j) \/ ~row'.exists \/ faults' > faults
    BY DEF Kept
  <2>0. row \in Row /\ faults \in Nat /\ run \in [Jobs -> Run] /\ Idle.stage = "idle"
    <3>1. RunsOK /\ RestOK
      BY TypeOKParts
    <3>2. faults \in Nat
      BY <3>1, BoundsAreNat DEF RestOK
    <3> QED BY <3>1, <3>2, RunType DEF RunsOK, RestOK
  <2>1. CASE row' = row
    BY <2>1
  <2>2. ASSUME NEW k \in Jobs, Enqueue(k) \/ RunStep(k) \/ Throw(k) \/ Kill(k)
        PROVE  (row'.live /\ row'.lease = j) \/ row' = row
    <3>1. CASE ClaimLease(k)
      BY <3>1 DEF ClaimLease
    <3>2. CASE Advance(k)
      BY <2>0, <3>2 DEF Advance, Row
    <3>3. CASE Release(k)
      <4>1. CASE k = j
        BY <2>0, <3>3, <4>1 DEF Release, Return, LeasedStages
      <4>2. CASE k # j
        BY <3>3, <4>2 DEF Release, Releases
      <4> QED BY <4>1, <4>2
    <3> QED BY <2>2, <3>1, <3>2, <3>3
            DEF Enqueue, RunStep, Start, AcquireToken, Refused, ReadCursor, List, Pause, Fetch,
                Throw, Kill, mailbox
  <2>3. CASE LeaseLapses
    BY <2>0, <2>3 DEF LeaseLapses, Fault
  <2>4. ASSUME NEW w \in Watermarks, ConnectPersists(w)
        PROVE  row'.live = row.live /\ row'.lease = row.lease
    BY <2>0, <2>4 DEF ConnectPersists, Seeded, Row
  <2>5. CASE Disconnect
    BY <2>5 DEF Disconnect, NoRow
  <2>6. CASE RenewEnds
    BY <2>0, <2>6 DEF RenewEnds, Row
  <2> QED BY <2>1, <2>2, <2>3, <2>4, <2>5, <2>6
          DEF Next, ConnectArms, RenewBegins, Gmail, mailbox
<1>2. Spec => [][Kept]_vars
  BY <1>1, TypeCorrect, PTL DEF Spec
<1> QED BY <1>2 DEF LeaseKept, Kept
=============================================================================
