----------------------- MODULE OutboundDelivery_proofs -----------------------
(***************************************************************************)
(* Proofs about OutboundDelivery, for any threads and calls and any number *)
(* of faults.                                                              *)
(*                                                                         *)
(* OneSenderAtATime is not inductive.  What keeps senders apart differs:   *)
(* a call with the lease is covered by it until its time runs out          *)
(* (LeaseCovers); one without is covered only by the row's being young,    *)
(* pending and keyless, which nothing else picks up (AloneOnYoungRow).     *)
(*                                                                         *)
(* NoSpuriousCopy counts the mails of a row, sent and due, against the     *)
(* faults that each took (Accounts).                                       *)
(***************************************************************************)
EXTENDS OutboundDelivery, FiniteSets, FiniteSetTheorems, TLAPS

-----------------------------------------------------------------------------
Rows == /\ delivery \in [Threads -> {"none", "pending", "failed", "sent"}]
        /\ lease \in [Threads -> {"free", "held", "lapsed"}]
        /\ stale \in [Threads -> BOOLEAN]
        /\ deleted \in BOOLEAN
        /\ told \in [Threads -> Nat]
        /\ mails \in [Threads -> Nat]
Calls == /\ thread \in [Callers -> Threads \cup {NoThread}]
         /\ leased \in [Callers -> BOOLEAN]
         /\ stage \in [Callers -> {"idle", "candidate", "sending", "accepted", "threw"}]
         /\ faults \in Nat
         /\ overrun \subseteq Threads
OnRow(w) == stage[w] # "idle" => thread[w] # NoThread /\ delivery[thread[w]] # "none"

LEMMA TypeOKParts == TypeOK <=> Rows /\ Calls /\ \A w \in Callers : OnRow(w)
BY DEF TypeOK, Rows, Calls, OnRow

LEMMA OnThread ==
  ASSUME TypeOK, NEW w \in Callers, stage[w] # "idle"
  PROVE  thread[w] \in Threads /\ delivery[thread[w]] # "none"
BY DEF TypeOK

(* A step after which each call is where it was, has returned, or is on a   *)
(* row that exists, keeps the types if it keeps those of the rows.          *)
LEMMA CallsMove ==
  ASSUME TypeOK, Rows', Calls',
         \A t \in Threads : delivery[t] # "none" => delivery'[t] # "none",
         \A w \in Callers :
            \/ thread'[w] = thread[w] /\ (stage'[w] # "idle" => stage[w] # "idle")
            \/ OnRow(w)'
  PROVE  TypeOK'
<1> SUFFICES ASSUME NEW w \in Callers, thread'[w] = thread[w], stage'[w] # "idle", stage[w] # "idle"
             PROVE  OnRow(w)'
  BY TypeOKParts DEF TypeOK, Rows, Calls, OnRow
<1> QED BY OnThread, DeliveryAssumption DEF OnRow

(* The state keeps its types, and a call that is not idle is on a row that  *)
(* exists.                                                                  *)
THEOREM TypeCorrect == Spec => []TypeOK
<1>1. Init => TypeOK
  <2> SUFFICES ASSUME Init PROVE TypeOK
    OBVIOUS
  <2>1. Rows
    BY DEF Init, Rows
  <2>2. Calls
    BY DEF Init, Calls
  <2> QED BY <2>1, <2>2, TypeOKParts DEF Init, OnRow
<1>2. TypeOK /\ [Next]_vars => TypeOK'
  <2> SUFFICES ASSUME TypeOK, [Next]_vars PROVE TypeOK'
    OBVIOUS
  <2> USE DeliveryAssumption
  <2>0. Rows /\ Calls /\ (Fault => faults' \in Nat)
    BY TypeOKParts DEF Calls, Fault
  <2>1. ASSUME NEW w \in Callers, NEW t \in Threads, NEW s \in {"candidate", "sending"}, Take(w, t, s),
               UNCHANGED <<lease, stale, deleted, told, mails, ghostVars>>,
               \/ delivery' = delivery /\ delivery[t] # "none"
               \/ delivery' = [delivery EXCEPT ![t] = "pending"]
        PROVE  TypeOK'
    <3>1. Rows' /\ Calls'
      BY <2>0, <2>1 DEF Rows, Calls, Take, ghostVars
    <3>2. delivery'[t] # "none" /\ \A u \in Threads : delivery[u] # "none" => delivery'[u] # "none"
      BY <2>0, <2>1 DEF Rows
    <3>3. OnRow(w)' /\ \A v \in Callers \ {w} : thread'[v] = thread[v] /\ stage'[v] = stage[v]
      BY <2>0, <2>1, <3>2 DEF Take, Calls, OnRow
    <3> QED BY <3>1, <3>2, <3>3, CallsMove
  <2>2. ASSUME NEW w \in Callers, NEW t \in Threads,
               Persist(w, t) \/ Replay(w, t) \/ Approve(w, t) \/ Sweep(w, t)
        PROVE  TypeOK'
    <3>1. CASE Persist(w, t)
      BY <2>1, <3>1 DEF Persist
    <3>2. CASE Replay(w, t)
      BY <2>1, <3>2 DEF Replay, rowVars
    <3>3. CASE Approve(w, t)
      BY <2>1, <3>3 DEF Approve
    <3>4. CASE Sweep(w, t)
      BY <2>1, <3>4 DEF Sweep, Deliverable, rowVars
    <3> QED BY <2>2, <3>1, <3>2, <3>3, <3>4
  <2>3. ASSUME NEW w \in Callers, stage[w] # "idle", Claim(w) \/ Send(w) \/ Mark(w) \/ Crash(w)
        PROVE  TypeOK'
    <3>0. thread[w] \in Threads
      BY <2>3, OnThread
    <3>1. Rows'
      BY <2>0, <2>3, <3>0 DEF Rows, Claim, Send, Mark, MarkLeased, MarkFresh, Outcome, Crash, rowVars
    <3>2. Calls'
      BY <2>0, <2>3, <3>0 DEF Calls, Claim, Send, Mark, Crash, Return, Fault, ghostVars
    <3>3. \A u \in Threads : delivery[u] # "none" => delivery'[u] # "none"
      BY <2>0, <2>3, <3>0 DEF Rows, Claim, Send, Mark, MarkLeased, MarkFresh, Outcome, Crash, rowVars
    <3>4. \A v \in Callers : \/ thread'[v] = thread[v] /\ (stage'[v] # "idle" => stage[v] # "idle")
                             \/ stage'[v] = "idle"
      BY <2>0, <2>3 DEF Calls, Claim, Send, Mark, Crash, Return
    <3> QED BY <3>1, <3>2, <3>3, <3>4, CallsMove DEF OnRow
  <2>4. ASSUME NEW w \in Callers, Claim(w) \/ Send(w) \/ Mark(w) \/ Crash(w) PROVE TypeOK'
    <3>1. stage[w] # "idle"
      BY <2>4 DEF Claim, Send, Mark, Crash
    <3> QED BY <2>3, <2>4, <3>1
  <2>5. ASSUME NEW t \in Threads, LeaseLapses(t) \/ BecomesStale(t) PROVE TypeOK'
    <3>1. Rows'
      BY <2>0, <2>5 DEF LeaseLapses, BecomesStale, Rows
    <3>2. Calls' /\ UNCHANGED <<delivery, callVars>>
      BY <2>0, <2>5 DEF LeaseLapses, BecomesStale, TimeRunsOut, Fault, Calls, callVars, ghostVars
    <3> QED BY <3>1, <3>2, CallsMove DEF callVars
  <2>6. CASE Delete \/ UNCHANGED vars
    BY <2>6 DEF Delete, vars, rowVars, callVars, ghostVars, TypeOK
  <2> QED BY <2>2, <2>4, <2>5, <2>6 DEF Next
<1> QED BY <1>1, <1>2, PTL DEF Spec

-----------------------------------------------------------------------------
(* While a call's time on a row has not run out ...                         *)
InTime(t) == t \in Threads \ overrun

LeaseCovers == \A t \in Threads, w \in Callers :
    InTime(t) /\ Working(w, t) /\ leased[w] =>
        /\ lease[t] = "held" /\ delivery[t] \in {"pending", "failed"}
        /\ \A v \in Callers : Working(v, t) => v = w

AloneOnYoungRow == \A t \in Threads, w \in Callers :
    InTime(t) /\ Working(w, t) /\ ~leased[w] =>
        /\ t \in Keyless /\ delivery[t] = "pending" /\ ~stale[t]
        /\ \A v \in Callers : stage[v] # "idle" /\ thread[v] = t => v = w

LeaseWhenSending == \A w \in Callers : stage[w] \in {"idle", "candidate"} => ~leased[w]

BornYoung == \A t \in Threads : delivery[t] = "none" => ~stale[t]

Apart == LeaseCovers /\ AloneOnYoungRow /\ LeaseWhenSending /\ BornYoung

LEMMA ApartHolds == Spec => []Apart
<1>1. Init => Apart
  BY DEF Init, Apart, LeaseCovers, AloneOnYoungRow, LeaseWhenSending, BornYoung, Working
<1>2. TypeOK /\ Apart /\ [Next]_vars => Apart'
  <2> SUFFICES ASSUME TypeOK, Apart, [Next]_vars PROVE Apart'
    OBVIOUS
  <2> USE DeliveryAssumption DEF Apart
  <2>0. Rows /\ Calls
    BY TypeOKParts
  <2>1. ASSUME NEW w \in Callers, NEW t \in Threads, Persist(w, t) PROVE Apart'
    <3>1. /\ \A v \in Callers \ {w} : thread'[v] = thread[v] /\ stage'[v] = stage[v]
          /\ thread'[w] = t /\ leased' = leased /\ ~leased[w]
          /\ stage'[w] = IF t \in Keyless THEN "sending" ELSE "candidate"
      BY <2>0, <2>1 DEF Persist, Take, Calls, LeaseWhenSending
    <3>2. /\ \A u \in Threads \ {t} : delivery'[u] = delivery[u]
          /\ delivery'[t] = "pending" /\ delivery[t] = "none" /\ lease' = lease /\ stale' = stale
          /\ overrun' = overrun
      BY <2>0, <2>1 DEF Persist, Rows, ghostVars
    <3>3. \A v \in Callers \ {w} : stage[v] # "idle" => thread[v] # t
      BY <3>2, OnThread
    <3>4. \A v \in Callers, u \in Threads : Working(v, u)' =>
             \/ v # w /\ u # t /\ Working(v, u)
             \/ v = w /\ u = t /\ t \in Keyless
      BY <3>1, <3>3 DEF Working
    <3>5. LeaseCovers'
      BY <3>1, <3>2, <3>4 DEF LeaseCovers, InTime
    <3>6. AloneOnYoungRow'
      BY <3>1, <3>2, <3>3, <3>4 DEF AloneOnYoungRow, InTime, BornYoung
    <3> QED BY <3>1, <3>2, <3>5, <3>6 DEF LeaseWhenSending, BornYoung
  <2>2. ASSUME NEW w \in Callers, NEW t \in Threads, Replay(w, t) \/ Approve(w, t) \/ Sweep(w, t)
        PROVE  Apart'
    <3>1. /\ \A v \in Callers \ {w} : thread'[v] = thread[v] /\ stage'[v] = stage[v]
          /\ thread'[w] = t /\ leased' = leased /\ ~leased[w] /\ stage'[w] = "candidate"
      BY <2>0, <2>2 DEF Replay, Approve, Sweep, Take, Calls, LeaseWhenSending
    <3>2. /\ \A u \in Threads : delivery[u] # "none" => delivery'[u] = delivery[u]
          /\ \A u \in Threads : delivery'[u] = "none" => delivery[u] = "none"
          /\ UNCHANGED <<lease, stale, overrun>>
      BY <2>0, <2>2 DEF Replay, Approve, Awaiting, Sweep, Rows, rowVars, ghostVars
    <3>3. \A v \in Callers, u \in Threads : Working(v, u)' => v # w /\ Working(v, u)
      BY <3>1 DEF Working
    <3>4. ASSUME NEW v \in Callers, v # w, InTime(t), Working(v, t), ~leased[v] PROVE FALSE
      <4>1. t \in Keyless /\ delivery[t] = "pending" /\ ~stale[t]
        BY <3>4 DEF AloneOnYoungRow
      <4> QED BY <2>2, <4>1 DEF Replay, Approve, Awaiting, Sweep, Deliverable
    <3>5. LeaseCovers'
      BY <3>1, <3>2, <3>3 DEF LeaseCovers, InTime
    <3>6. AloneOnYoungRow'
      BY <3>1, <3>2, <3>3, <3>4 DEF AloneOnYoungRow, InTime
    <3> QED BY <3>1, <3>2, <3>5, <3>6 DEF LeaseWhenSending, BornYoung
  <2>3. ASSUME NEW w \in Callers, Claim(w) PROVE Apart'
    <3> DEFINE t == thread[w]
    <3>0. t \in Threads /\ stage[w] = "candidate"
      BY <2>3, OnThread DEF Claim
    <3>1. CASE Claimable(t)
      <4>1. /\ \A v \in Callers \ {w} : stage'[v] = stage[v] /\ leased'[v] = leased[v]
            /\ stage'[w] = "sending" /\ leased'[w] = TRUE /\ thread' = thread
            /\ \A u \in Threads \ {t} : lease'[u] = lease[u]
            /\ lease'[t] = "held" /\ UNCHANGED <<delivery, stale, overrun>>
        BY <2>0, <2>3, <3>0, <3>1 DEF Claim, Calls, Rows, ghostVars
      <4>2. ASSUME NEW v \in Callers, v # w, InTime(t), Working(v, t) PROVE FALSE
        <5>1. leased[v]
          BY <3>0, <4>2 DEF AloneOnYoungRow
        <5> QED BY <3>0, <3>1, <4>2, <5>1 DEF LeaseCovers, Claimable
      <4>3. \A v \in Callers, u \in Threads : Working(v, u)' => \/ v = w /\ u = t
                                                                \/ v # w /\ Working(v, u)
        BY <4>1 DEF Working
      <4>4. delivery[t] \in {"pending", "failed"}
        BY <3>1 DEF Claimable
      <4> HIDE DEF t
      <4>5. LeaseCovers'
        BY <4>1, <4>2, <4>3, <4>4 DEF LeaseCovers, InTime
      <4>6. \A v \in Callers : stage'[v] # "idle" => stage[v] # "idle"
        BY <3>0, <4>1
      <4>7. AloneOnYoungRow'
        BY <4>1, <4>3, <4>6 DEF AloneOnYoungRow, InTime
      <4> QED BY <4>1, <4>5, <4>7 DEF LeaseWhenSending, BornYoung
    <3>2. CASE ~Claimable(t)
      <4>1. Return(w) /\ UNCHANGED <<lease, delivery, stale, overrun>>
        BY <2>3, <3>2 DEF Claim, ghostVars
      <4>2. \A v \in Callers : \/ thread'[v] = thread[v] /\ stage'[v] = stage[v] /\ leased'[v] = leased[v]
                               \/ stage'[v] = "idle" /\ ~leased'[v]
        BY <2>0, <4>1 DEF Return, Calls
      <4> QED BY <4>1, <4>2 DEF LeaseCovers, AloneOnYoungRow, LeaseWhenSending, BornYoung, InTime, Working
    <3> QED BY <3>1, <3>2
  <2>4. ASSUME NEW w \in Callers, Send(w) PROVE Apart'
    <3>1. /\ \A v \in Callers : \/ stage'[v] = stage[v]
                                \/ stage[v] = "sending" /\ stage'[v] \in {"accepted", "threw"}
          /\ UNCHANGED <<delivery, lease, stale, thread, leased, overrun>>
      BY <2>0, <2>4 DEF Send, Calls, rowVars
    <3> QED BY <3>1 DEF LeaseCovers, AloneOnYoungRow, LeaseWhenSending, BornYoung, InTime, Working
  <2>5. ASSUME NEW w \in Callers, Mark(w) PROVE Apart'
    <3> DEFINE t == thread[w]
    <3>0. t \in Threads /\ Working(w, t) /\ delivery[t] # "none"
      BY <2>5, OnThread DEF Mark, Working
    <3>1. \A v \in Callers : \/ v # w /\ thread'[v] = thread[v] /\ stage'[v] = stage[v] /\ leased'[v] = leased[v]
                             \/ v = w /\ stage'[v] = "idle" /\ ~leased'[v]
      BY <2>0, <2>5 DEF Mark, Return, Calls
    <3>2. /\ \A u \in Threads \ {t} : delivery'[u] = delivery[u] /\ lease'[u] = lease[u]
          /\ delivery'[t] # "none" /\ UNCHANGED <<stale, overrun>>
      BY <2>0, <2>5, <3>0 DEF Mark, MarkLeased, MarkFresh, Outcome, Rows, ghostVars
    <3>3. ASSUME NEW v \in Callers, v # w, InTime(t), Working(v, t) PROVE FALSE
      BY <3>0, <3>3 DEF LeaseCovers, AloneOnYoungRow, Working
    <3> HIDE DEF t
    <3>4. \A v \in Callers, u \in Threads : Working(v, u)' => v # w /\ Working(v, u)
      BY <3>1 DEF Working
    <3>5. LeaseCovers' /\ AloneOnYoungRow'
      BY <3>1, <3>2, <3>3, <3>4 DEF LeaseCovers, AloneOnYoungRow, InTime
    <3> QED BY <3>1, <3>2, <3>5 DEF LeaseWhenSending, BornYoung
  <2>6. ASSUME NEW w \in Callers, Crash(w) PROVE Apart'
    <3>1. /\ \A v \in Callers : \/ thread'[v] = thread[v] /\ stage'[v] = stage[v] /\ leased'[v] = leased[v]
                                \/ stage'[v] = "idle" /\ ~leased'[v]
          /\ UNCHANGED <<delivery, lease, stale, overrun>>
      BY <2>0, <2>6 DEF Crash, Return, Calls, rowVars
    <3> QED BY <3>1 DEF LeaseCovers, AloneOnYoungRow, LeaseWhenSending, BornYoung, InTime, Working
  <2>7. ASSUME NEW t \in Threads, LeaseLapses(t) PROVE Apart'
    <3>1. /\ UNCHANGED <<delivery, stale, callVars>> /\ overrun \subseteq overrun'
          /\ \A u \in Threads \ {t} : lease'[u] = lease[u]
      BY <2>0, <2>7 DEF LeaseLapses, TimeRunsOut, Rows, ghostVars
    <3>2. \A w \in Callers : Working(w, t) /\ leased[w] => t \in overrun'
      BY <2>7 DEF LeaseLapses, TimeRunsOut
    <3> QED BY <3>1, <3>2 DEF LeaseCovers, AloneOnYoungRow, LeaseWhenSending, BornYoung, InTime, Working, callVars
  <2>8. ASSUME NEW t \in Threads, BecomesStale(t) PROVE Apart'
    <3>1. /\ UNCHANGED <<delivery, lease, callVars>> /\ overrun \subseteq overrun'
          /\ \A u \in Threads \ {t} : stale'[u] = stale[u]
          /\ delivery[t] = "pending"
      BY <2>0, <2>8 DEF BecomesStale, TimeRunsOut, Rows, ghostVars
    <3>2. \A w \in Callers : Working(w, t) /\ ~leased[w] => t \in overrun'
      BY <2>8 DEF BecomesStale, TimeRunsOut
    <3> QED BY <3>1, <3>2 DEF LeaseCovers, AloneOnYoungRow, LeaseWhenSending, BornYoung, InTime, Working, callVars
  <2>9. CASE Delete \/ UNCHANGED vars
    BY <2>9 DEF Delete, vars, rowVars, callVars, ghostVars,
                LeaseCovers, AloneOnYoungRow, LeaseWhenSending, BornYoung, InTime, Working
  <2> QED BY <2>1, <2>2, <2>3, <2>4, <2>5, <2>6, <2>7, <2>8, <2>9 DEF Next
<1> QED BY <1>1, <1>2, TypeCorrect, PTL DEF Spec

-----------------------------------------------------------------------------
(* No two attempts send one thread at once, unless the time of a call ran   *)
(* out while it worked on it.                                               *)
THEOREM SendersAreApart == Spec => []OneSenderAtATime
<1>1. TypeOK /\ Apart => OneSenderAtATime
  <2> SUFFICES ASSUME TypeOK, Apart, NEW v \in Callers, NEW w \in Callers, v # w,
                      stage[v] = "sending", stage[w] = "sending", thread[v] = thread[w],
                      thread[v] \notin overrun
               PROVE  FALSE
    BY DEF OneSenderAtATime
  <2>1. thread[v] \in Threads
    BY OnThread
  <2>2. InTime(thread[v]) /\ Working(v, thread[v]) /\ Working(w, thread[v])
    BY <2>1 DEF InTime, Working
  <2> QED BY <2>1, <2>2 DEF Apart, LeaseCovers, AloneOnYoungRow, Working
<1> QED BY <1>1, TypeCorrect, ApartHolds, PTL

(* Unless a call outlived its time on it, a sent thread stays sent, and its *)
(* reply_sent is fired exactly when it becomes so.                          *)
THEOREM SentStaysSent == Spec => SentIsFinal
<1> DEFINE Final == \A t \in Threads \ overrun' :
              /\ delivery[t] = "sent" => delivery'[t] = "sent"
              /\ told'[t] # told[t] => delivery[t] # "sent" /\ delivery'[t] = "sent"
<1>1. TypeOK /\ Apart /\ [Next]_vars => Final
  <2> SUFFICES ASSUME TypeOK, Apart, [Next]_vars, NEW t \in Threads \ overrun'
               PROVE  /\ delivery[t] = "sent" => delivery'[t] = "sent"
                      /\ told'[t] # told[t] => delivery[t] # "sent" /\ delivery'[t] = "sent"
    OBVIOUS
  <2>0. Rows
    BY TypeOKParts
  <2>1. ASSUME NEW w \in Callers, Mark(w), thread[w] = t
        PROVE  /\ delivery[t] # "sent"
               /\ told'[t] # told[t] => delivery'[t] = "sent"
    <3>1. InTime(t) /\ Working(w, t)
      BY <2>1 DEF Mark, InTime, Working, ghostVars
    <3>2. delivery[t] # "sent"
      BY <3>1 DEF Apart, LeaseCovers, AloneOnYoungRow
    <3> QED BY <2>0, <2>1, <3>2 DEF Rows, Mark, MarkLeased, MarkFresh
  <2>2. ASSUME NEW w \in Callers, Mark(w), thread[w] # t
        PROVE  delivery'[t] = delivery[t] /\ told'[t] = told[t]
    <3>1. thread[w] \in Threads
      BY <2>2, OnThread DEF Mark
    <3> QED BY <2>0, <2>2, <3>1 DEF Rows, Mark, MarkLeased, MarkFresh
  <2>3. ASSUME NEW w \in Callers, NEW u \in Threads, Persist(w, u) \/ Approve(w, u)
        PROVE  told' = told /\ (delivery[t] = "sent" => delivery'[t] = "sent")
    BY <2>0, <2>3 DEF Rows, Persist, Approve, Awaiting
  <2>4. ASSUME \/ \E w \in Callers : \/ \E u \in Threads : Replay(w, u) \/ Sweep(w, u)
                                     \/ Claim(w) \/ Send(w) \/ Crash(w)
               \/ \E u \in Threads : LeaseLapses(u) \/ BecomesStale(u)
               \/ Delete \/ UNCHANGED vars
        PROVE  UNCHANGED <<delivery, told>>
    BY <2>4 DEF Replay, Sweep, Claim, Send, Crash, LeaseLapses, BecomesStale, Delete, vars, rowVars
  <2> QED BY <2>1, <2>2, <2>3, <2>4 DEF Next
<1>2. TypeOK /\ Apart /\ [Next]_vars => [Final]_vars
  BY <1>1
<1> QED BY <1>2, TypeCorrect, ApartHolds, PTL DEF Spec, SentIsFinal

-----------------------------------------------------------------------------
(* The record never says sent of a mail that no provider took.              *)
THEOREM RecordIsTruthful == Spec => []NeverFalseSent
<1> DEFINE Taken == /\ \A t \in Threads : delivery[t] = "sent" => mails[t] > 0
                    /\ \A w \in Callers : stage[w] = "accepted" => mails[thread[w]] > 0
<1>1. Init => Taken
  BY DEF Init
<1>2. TypeOK /\ Taken /\ [Next]_vars => Taken'
  <2> SUFFICES ASSUME TypeOK, Taken, [Next]_vars PROVE Taken'
    OBVIOUS
  <2>0. Rows /\ Calls
    BY TypeOKParts
  <2>1. ASSUME NEW w \in Callers, NEW t \in Threads,
               Persist(w, t) \/ Replay(w, t) \/ Approve(w, t) \/ Sweep(w, t)
        PROVE  Taken'
    <3>1. mails' = mails /\ \A u \in Threads : delivery'[u] = "sent" => delivery[u] = "sent"
      BY <2>0, <2>1 DEF Persist, Replay, Approve, Sweep, Rows, rowVars
    <3>2. \A v \in Callers : stage'[v] = "accepted" => stage[v] = "accepted" /\ thread'[v] = thread[v]
      BY <2>0, <2>1 DEF Persist, Replay, Approve, Sweep, Take, Calls
    <3> QED BY <3>1, <3>2
  <2>2. ASSUME NEW w \in Callers, Claim(w) \/ Crash(w) PROVE Taken'
    <3>1. mails' = mails /\ delivery' = delivery
      BY <2>2 DEF Claim, Crash, rowVars
    <3>2. \A v \in Callers : stage'[v] = "accepted" => stage[v] = "accepted" /\ thread'[v] = thread[v]
      BY <2>0, <2>2 DEF Claim, Crash, Return, Calls
    <3> QED BY <3>1, <3>2
  <2>3. ASSUME NEW w \in Callers, Send(w) PROVE Taken'
    <3>0. thread[w] \in Threads /\ mails[thread[w]] \in Nat
      BY <2>0, <2>3, OnThread DEF Send, Rows
    <3>1. PICK taken \in BOOLEAN, threw \in BOOLEAN :
             /\ taken \/ threw
             /\ mails' = IF taken THEN [mails EXCEPT ![thread[w]] = @ + 1] ELSE mails
             /\ stage' = [stage EXCEPT ![w] = IF threw THEN "threw" ELSE "accepted"]
      BY <2>3 DEF Send
    <3>2. \A t \in Threads : mails[t] > 0 => mails'[t] > 0
      BY <2>0, <3>0, <3>1 DEF Rows
    <3>3. stage'[w] = "accepted" => mails'[thread[w]] > 0
      BY <2>0, <3>0, <3>1 DEF Rows, Calls
    <3>4. \A v \in Callers \ {w} : stage'[v] = stage[v]
      BY <2>0, <3>1 DEF Calls
    <3>5. thread' = thread /\ delivery' = delivery
      BY <2>3 DEF Send, rowVars
    <3>6. \A v \in Callers : stage[v] # "idle" => thread[v] \in Threads
      BY OnThread
    <3> QED BY <3>2, <3>3, <3>4, <3>5, <3>6
  <2>4. ASSUME NEW w \in Callers, Mark(w) PROVE Taken'
    <3>0. thread[w] \in Threads
      BY <2>4, OnThread DEF Mark
    <3>1. \A t \in Threads : delivery'[t] = "sent" =>
             \/ delivery[t] = "sent"
             \/ t = thread[w] /\ stage[w] = "accepted"
      BY <2>0, <2>4, <3>0 DEF Mark, MarkLeased, MarkFresh, Outcome, Rows
    <3>2. \A v \in Callers : stage'[v] = "accepted" => stage[v] = "accepted" /\ thread'[v] = thread[v]
      BY <2>0, <2>4 DEF Mark, Return, Calls
    <3>3. mails' = mails
      BY <2>4 DEF Mark
    <3> QED BY <3>1, <3>2, <3>3
  <2>5. ASSUME \/ \E t \in Threads : LeaseLapses(t) \/ BecomesStale(t)
               \/ Delete \/ UNCHANGED vars
        PROVE  Taken'
    BY <2>5 DEF LeaseLapses, BecomesStale, Delete, vars, rowVars, callVars
  <2> QED BY <2>1, <2>2, <2>3, <2>4, <2>5 DEF Next
<1>3. TypeOK /\ Taken => NeverFalseSent
  BY DEF NeverFalseSent
<1> QED BY <1>1, <1>2, <1>3, TypeCorrect, PTL DEF Spec

-----------------------------------------------------------------------------
(* The accounts behind NoSpuriousCopy.  A copy of t may still be sent, with *)
(* no further fault, by each attempt that has not been answered yet or has  *)
(* failed but not yet said so, and by whoever picks the row up next, when   *)
(* no call within its time stands guard over it.                            *)
Attempting(t) == {w \in Callers : thread[w] = t /\ stage[w] \in {"sending", "threw"}}

Guarded(t) ==
    \/ lease[t] = "held" /\ \E w \in Callers : Working(w, t) /\ leased[w]
    \/ /\ t \in Keyless /\ delivery[t] = "pending" /\ ~stale[t]
       /\ \E w \in Callers : Working(w, t) /\ ~leased[w]

Open(t) == delivery[t] \in {"pending", "failed"} /\ ~Guarded(t)

Due(t) == mails[t] + Cardinality(Attempting(t)) + (IF Open(t) THEN 1 ELSE 0)

(* The copies of a row, sent and due, are one and those owed to faults; a   *)
(* row that does not exist has none; nothing is about to claim a keyless    *)
(* row that is pending and young.                                           *)
Paid(t) == IsFiniteSet(Attempting(t)) /\ Due(t) <= 1 + faults
Unborn(t) == delivery[t] = "none" => mails[t] = 0
LeftAlone(t) == t \in Keyless /\ delivery[t] = "pending" /\ ~stale[t] =>
    \A w \in Callers : stage[w] = "candidate" => thread[w] # t

Accounts == \A t \in Threads : Paid(t) /\ Unborn(t) /\ LeftAlone(t)

(* A step leaves the account of a row in order when nothing about it        *)
(* changes, when a fault of its own pays for a copy or for the row's being  *)
(* open again, ...                                                          *)
LEMMA NothingDue ==
  ASSUME TypeOK, TypeOK', NEW t \in Threads, Paid(t),
         Attempting(t)' = Attempting(t), mails'[t] = mails[t], faults' = faults,
         Open(t)' => Open(t)
  PROVE  Paid(t)'
<1>1. Cardinality(Attempting(t)) \in Nat /\ mails[t] \in Nat /\ faults \in Nat
  BY FS_CardinalityType DEF Paid, TypeOK
<1> QED BY <1>1 DEF Paid, Due

LEMMA FaultPays ==
  ASSUME TypeOK, TypeOK', NEW t \in Threads, Paid(t), faults' = faults + 1,
         \/ Attempting(t)' \subseteq Attempting(t) /\ mails'[t] = mails[t]
         \/ /\ Attempting(t)' = Attempting(t) /\ mails'[t] \in {mails[t], mails[t] + 1}
            /\ Open(t)' => Open(t)
  PROVE  Paid(t)'
<1>1. Cardinality(Attempting(t)) \in Nat /\ mails[t] \in Nat /\ faults \in Nat
  BY FS_CardinalityType DEF Paid, TypeOK
<1>2. Attempting(t)' \in SUBSET Attempting(t)
  OBVIOUS
<1>3. /\ IsFiniteSet(Attempting(t)')
      /\ Cardinality(Attempting(t)') <= Cardinality(Attempting(t))
  BY <1>2, FS_Subset DEF Paid
<1>4. Cardinality(Attempting(t)') \in Nat
  BY <1>3, FS_CardinalityType
<1> QED BY <1>1, <1>3, <1>4 DEF Paid, Due

(* ... when an attempt is over that could have sent a copy, ...             *)
LEMMA AttemptEnds ==
  ASSUME TypeOK, TypeOK', NEW t \in Threads, Paid(t), NEW w \in Attempting(t),
         Attempting(t)' = Attempting(t) \ {w}, faults' = faults,
         \/ mails'[t] = mails[t]
         \/ mails'[t] = mails[t] + 1 /\ (Open(t)' => Open(t))
  PROVE  Paid(t)'
<1>1. Cardinality(Attempting(t)) \in Nat /\ mails[t] \in Nat /\ faults \in Nat
  BY FS_CardinalityType DEF Paid, TypeOK
<1>2. IsFiniteSet(Attempting(t)') /\ Cardinality(Attempting(t)') = Cardinality(Attempting(t)) - 1
  BY FS_RemoveElement DEF Paid
<1> QED BY <1>1, <1>2 DEF Paid, Due

(* ... and when an attempt begins on an open row, which it closes.          *)
LEMMA AttemptBegins ==
  ASSUME TypeOK, TypeOK', NEW t \in Threads, Paid(t), NEW w, faults' = faults,
         Attempting(t)' = Attempting(t) \cup {w}, mails'[t] = mails[t],
         Open(t), ~Open(t)'
  PROVE  Paid(t)'
<1>1. Cardinality(Attempting(t)) \in Nat /\ mails[t] \in Nat /\ faults \in Nat
  BY FS_CardinalityType DEF Paid, TypeOK
<1>2. /\ IsFiniteSet(Attempting(t)')
      /\ Cardinality(Attempting(t)') \in {Cardinality(Attempting(t)), Cardinality(Attempting(t)) + 1}
  BY FS_AddElement DEF Paid
<1> QED BY <1>1, <1>2 DEF Paid, Due

(* A row on which nobody works and of which no copy exists owes at most the *)
(* first, once it is open or one call attempts it.                          *)
LEMMA FirstCopy ==
  ASSUME TypeOK', NEW t \in Threads, mails'[t] = 0,
         \/ Attempting(t)' = {}
         \/ ~Open(t)' /\ \E w : Attempting(t)' = {w}
  PROVE  Paid(t)'
<1>1. 0 <= 1 + faults' /\ 1 <= 1 + faults'
  <2>1. faults' \in Nat
    BY DEF TypeOK
  <2>2. \A n \in Nat : 0 <= 1 + n /\ 1 <= 1 + n
    OBVIOUS
  <2> QED BY <2>1, <2>2, Zenon
<1>2. CASE Attempting(t)' = {}
  BY <1>1, <1>2, FS_EmptySet DEF Paid, Due
<1>3. CASE ~Open(t)' /\ \E w : Attempting(t)' = {w}
  <2>1. IsFiniteSet(Attempting(t)') /\ Cardinality(Attempting(t)') = 1
    BY <1>3, FS_Singleton
  <2>2. Due(t)' = 1
    BY <1>3, <2>1 DEF Due
  <2>3. Due(t)' <= 1 + faults'
    BY <1>1, <2>2, Zenon
  <2> QED BY <2>1, <2>3 DEF Paid
<1> QED BY <1>2, <1>3

(* A row stays as open as it was when the row and the calls at work on it   *)
(* stay.                                                                    *)
LEMMA StaysOpen ==
  ASSUME NEW t \in Threads,
         delivery'[t] = delivery[t], lease'[t] = lease[t], stale'[t] = stale[t],
         \A w \in Callers : Working(w, t) => Working(w, t)' /\ leased'[w] = leased[w]
  PROVE  Open(t)' => Open(t)
BY DEF Open, Guarded

LEMMA AccountsHold == Spec => []Accounts
<1>1. Init => Accounts
  <2> SUFFICES ASSUME Init, NEW t \in Threads PROVE Paid(t) /\ Unborn(t) /\ LeftAlone(t)
    BY DEF Accounts
  <2>1. Attempting(t) = {} /\ ~Open(t) /\ mails[t] = 0 /\ faults = 0
    BY DEF Init, Attempting, Open
  <2>2. Paid(t)
    BY <2>1, FS_EmptySet DEF Paid, Due
  <2> QED BY <2>1, <2>2 DEF Init, Unborn, LeftAlone
<1>2. TypeOK /\ TypeOK' /\ Apart /\ Accounts /\ [Next]_vars => Accounts'
  <2> SUFFICES ASSUME TypeOK, TypeOK', Apart, Accounts, [Next]_vars PROVE Accounts'
    OBVIOUS
  <2> USE DeliveryAssumption DEF Accounts
  <2>0. Rows /\ Calls /\ LeaseWhenSending /\ BornYoung
    BY TypeOKParts DEF Apart
  <2>a. ASSUME NEW t \in Threads, delivery[t] = "none"
        PROVE  Attempting(t) = {} /\ \A v \in Callers : stage[v] # "idle" => thread[v] # t
    BY <2>a, OnThread DEF Attempting
  <2>1. ASSUME NEW w \in Callers, NEW t \in Threads, Persist(w, t) PROVE Accounts'
    <3>1. /\ \A v \in Callers \ {w} : thread'[v] = thread[v] /\ stage'[v] = stage[v]
          /\ stage[w] = "idle" /\ thread'[w] = t /\ leased' = leased /\ ~leased[w]
          /\ stage'[w] = IF t \in Keyless THEN "sending" ELSE "candidate"
      BY <2>0, <2>1 DEF Persist, Take, Calls, LeaseWhenSending
    <3>2. /\ \A u \in Threads \ {t} : delivery'[u] = delivery[u]
          /\ delivery[t] = "none" /\ delivery'[t] = "pending"
          /\ UNCHANGED <<lease, stale, mails, faults>>
      BY <2>0, <2>1 DEF Persist, Rows, ghostVars
    <3>3. ASSUME NEW u \in Threads \ {t} PROVE Paid(u)' /\ Unborn(u)' /\ LeftAlone(u)'
      <4>1. Attempting(u)' = Attempting(u)
        BY <3>1 DEF Attempting
      <4>2. Open(u)' => Open(u)
        BY <3>1, <3>2, StaysOpen DEF Working
      <4> QED BY <3>1, <3>2, <4>1, <4>2, NothingDue DEF Unborn, LeftAlone
    <3>4. Paid(t)'
      <4>1. mails'[t] = 0 /\ ~stale'[t]
        BY <2>0, <3>2 DEF Unborn, BornYoung
      <4>2. CASE t \notin Keyless
        BY <2>a, <3>1, <3>2, <4>1, <4>2, FirstCopy DEF Attempting
      <4>3. CASE t \in Keyless
        <5>1. Attempting(t)' = {w}
          BY <2>a, <3>1, <3>2, <4>3 DEF Attempting
        <5>2. ~Open(t)'
          BY <3>1, <3>2, <4>1, <4>3 DEF Open, Guarded, Working
        <5> QED BY <4>1, <5>1, <5>2, FirstCopy
      <4> QED BY <4>2, <4>3
    <3>5. Unborn(t)' /\ LeftAlone(t)'
      BY <2>a, <3>1, <3>2 DEF Unborn, LeftAlone
    <3> QED BY <3>3, <3>4, <3>5
  <2>2. ASSUME NEW w \in Callers, NEW t \in Threads, Replay(w, t) \/ Approve(w, t) \/ Sweep(w, t)
        PROVE  Accounts'
    <3>1. /\ \A v \in Callers \ {w} : thread'[v] = thread[v] /\ stage'[v] = stage[v]
          /\ stage[w] = "idle" /\ thread'[w] = t /\ leased' = leased /\ stage'[w] = "candidate"
      BY <2>0, <2>2 DEF Replay, Approve, Sweep, Take, Calls
    <3>2. /\ UNCHANGED <<lease, stale, mails, faults>>
          /\ \A u \in Threads : \/ delivery'[u] = delivery[u]
                                \/ u = t /\ delivery[t] = "none" /\ delivery'[t] = "pending"
      BY <2>0, <2>2 DEF Replay, Approve, Awaiting, Sweep, Rows, rowVars, ghostVars
    <3>3. ~(t \in Keyless /\ delivery'[t] = "pending" /\ ~stale'[t])
      BY <2>0, <2>2 DEF Replay, Approve, Awaiting, Sweep, Deliverable, Rows, rowVars
    <3>4. ASSUME NEW u \in Threads PROVE Paid(u)'
      <4>1. Attempting(u)' = Attempting(u)
        BY <3>1 DEF Attempting
      <4>2. CASE delivery'[u] = delivery[u]
        <5>1. Open(u)' => Open(u)
          BY <3>1, <3>2, <4>2, StaysOpen DEF Working
        <5> QED BY <3>2, <4>1, <5>1, NothingDue
      <4>3. CASE delivery[u] = "none"
        BY <2>a, <3>2, <4>1, <4>3, FirstCopy DEF Unborn
      <4> QED BY <3>2, <4>2, <4>3
    <3>5. ASSUME NEW u \in Threads PROVE Unborn(u)' /\ LeftAlone(u)'
      BY <3>1, <3>2, <3>3 DEF Unborn, LeftAlone
    <3> QED BY <3>4, <3>5
  <2>3. ASSUME NEW w \in Callers, Claim(w) PROVE Accounts'
    <3>0. PICK t \in Threads : /\ t = thread[w] /\ stage[w] = "candidate"
                              /\ UNCHANGED <<delivery, stale, mails, faults>>
      BY <2>3, OnThread DEF Claim, ghostVars
    <3>1. CASE Claimable(t)
      <4>1. /\ \A v \in Callers \ {w} : stage'[v] = stage[v] /\ leased'[v] = leased[v]
            /\ stage'[w] = "sending" /\ leased'[w] = TRUE /\ thread' = thread
            /\ \A u \in Threads \ {t} : lease'[u] = lease[u]
            /\ lease'[t] = "held"
        BY <2>0, <2>3, <3>0, <3>1 DEF Claim, Calls, Rows
      <4>2. Open(t)
        BY <3>0, <3>1 DEF Open, Guarded, Claimable, LeftAlone
      <4>3. ~Open(t)'
        BY <3>0, <4>1 DEF Open, Guarded, Working
      <4>4. Attempting(t)' = Attempting(t) \cup {w}
        BY <3>0, <4>1 DEF Attempting
      <4>5. Paid(t)'
        BY <3>0, <4>2, <4>3, <4>4, AttemptBegins
      <4>6. ASSUME NEW u \in Threads \ {t} PROVE Paid(u)'
        <5>1. Attempting(u)' = Attempting(u)
          BY <3>0, <4>1 DEF Attempting
        <5>2. Open(u)' => Open(u)
          BY <3>0, <4>1, StaysOpen DEF Working
        <5> QED BY <3>0, <5>1, <5>2, NothingDue
      <4>7. \A u \in Threads : Unborn(u)' /\ LeftAlone(u)'
        BY <3>0, <4>1 DEF Unborn, LeftAlone
      <4> QED BY <4>5, <4>6, <4>7
    <3>2. CASE ~Claimable(t)
      <4>1. /\ \A v \in Callers \ {w} : thread'[v] = thread[v] /\ stage'[v] = stage[v] /\ leased'[v] = leased[v]
            /\ stage'[w] = "idle" /\ lease' = lease
        BY <2>0, <2>3, <3>0, <3>2 DEF Claim, Return, Calls
      <4>2. ASSUME NEW u \in Threads PROVE Paid(u)'
        <5>1. Attempting(u)' = Attempting(u)
          BY <3>0, <4>1 DEF Attempting
        <5>2. Open(u)' => Open(u)
          BY <3>0, <4>1, StaysOpen DEF Working
        <5> QED BY <3>0, <5>1, <5>2, NothingDue
      <4>3. \A u \in Threads : Unborn(u)' /\ LeftAlone(u)'
        BY <3>0, <4>1 DEF Unborn, LeftAlone
      <4> QED BY <4>2, <4>3
    <3> QED BY <3>1, <3>2
  <2>4. ASSUME NEW w \in Callers, Send(w) PROVE Accounts'
    <3>0. PICK t \in Threads :
             /\ t = thread[w] /\ mails[t] \in Nat /\ stage[w] = "sending" /\ w \in Attempting(t)
             /\ delivery[t] # "none" /\ UNCHANGED <<delivery, lease, stale, thread, leased>>
      BY <2>0, <2>4, OnThread DEF Send, Rows, rowVars, Attempting
    <3>1. PICK taken \in BOOLEAN, threw \in BOOLEAN :
             /\ taken \/ threw
             /\ IF taken /\ threw THEN Fault ELSE UNCHANGED faults
             /\ mails' = IF taken THEN [mails EXCEPT ![t] = @ + 1] ELSE mails
             /\ stage' = [stage EXCEPT ![w] = IF threw THEN "threw" ELSE "accepted"]
      BY <2>4, <3>0 DEF Send
    <3>2. /\ \A v \in Callers \ {w} : stage'[v] = stage[v]
          /\ stage'[w] = IF threw THEN "threw" ELSE "accepted"
      BY <2>0, <3>1 DEF Calls
    <3>3. /\ \A u \in Threads \ {t} : mails'[u] = mails[u]
          /\ mails'[t] = IF taken THEN mails[t] + 1 ELSE mails[t]
      BY <2>0, <3>0, <3>1 DEF Rows
    <3>4. \A u \in Threads : Open(u)' => Open(u)
      BY <3>0, <3>2, StaysOpen DEF Working
    <3>5. faults' = IF taken /\ threw THEN faults + 1 ELSE faults
      BY <3>1 DEF Fault
    <3>6. Attempting(t)' = IF threw THEN Attempting(t) ELSE Attempting(t) \ {w}
      BY <3>0, <3>2 DEF Attempting
    <3>7. \A u \in Threads \ {t} : Attempting(u)' = Attempting(u)
      BY <3>0, <3>2 DEF Attempting
    <3>8. Paid(t)'
      <4>1. CASE taken /\ threw
        BY <3>0, <3>3, <3>4, <3>5, <3>6, <4>1, FaultPays
      <4>2. CASE taken /\ ~threw
        BY <3>0, <3>3, <3>4, <3>5, <3>6, <4>2, AttemptEnds
      <4>3. CASE ~taken /\ threw
        BY <3>0, <3>3, <3>4, <3>5, <3>6, <4>3, NothingDue
      <4> QED BY <3>1, <4>1, <4>2, <4>3
    <3>9. ASSUME NEW u \in Threads \ {t} PROVE Paid(u)'
      <4>1. CASE faults' = faults
        BY <3>3, <3>4, <3>7, <4>1, NothingDue
      <4>2. CASE faults' = faults + 1
        BY <3>3, <3>7, <4>2, FaultPays
      <4> QED BY <3>5, <4>1, <4>2
    <3>10. \A u \in Threads : Unborn(u)' /\ LeftAlone(u)'
      BY <3>0, <3>2, <3>3 DEF Unborn, LeftAlone
    <3> QED BY <3>8, <3>9, <3>10
  <2>5. ASSUME NEW w \in Callers, Mark(w) PROVE Accounts'
    <3>0. PICK t \in Threads : /\ t = thread[w] /\ delivery[t] # "none"
                              /\ stage[w] \in {"accepted", "threw"}
      BY <2>5, OnThread DEF Mark
    <3>1. /\ \A v \in Callers \ {w} : thread'[v] = thread[v] /\ stage'[v] = stage[v] /\ leased'[v] = leased[v]
          /\ stage'[w] = "idle" /\ UNCHANGED <<mails, faults, stale>>
      BY <2>0, <2>5 DEF Mark, Return, Calls, ghostVars
    <3>2. /\ \A u \in Threads \ {t} : delivery'[u] = delivery[u] /\ lease'[u] = lease[u]
          /\ delivery'[t] = IF stage[w] = "accepted" THEN "sent" ELSE "failed"
      BY <2>0, <2>5, <3>0 DEF Mark, MarkLeased, MarkFresh, Outcome, Rows
    <3>3. Paid(t)'
      <4>1. CASE stage[w] = "accepted"
        <5>1. Attempting(t)' = Attempting(t) /\ ~Open(t)'
          BY <3>0, <3>1, <3>2, <4>1 DEF Attempting, Open
        <5> QED BY <3>0, <3>1, <5>1, NothingDue
      <4>2. CASE stage[w] = "threw"
        <5>1. w \in Attempting(t) /\ Attempting(t)' = Attempting(t) \ {w}
          BY <3>0, <3>1, <4>2 DEF Attempting
        <5> QED BY <3>0, <3>1, <5>1, AttemptEnds
      <4> QED BY <3>0, <4>1, <4>2
    <3>4. ASSUME NEW u \in Threads \ {t} PROVE Paid(u)'
      <4>1. Attempting(u)' = Attempting(u)
        BY <3>0, <3>1 DEF Attempting
      <4>2. Open(u)' => Open(u)
        BY <3>0, <3>1, <3>2, StaysOpen DEF Working
      <4> QED BY <3>1, <4>1, <4>2, NothingDue
    <3>5. \A u \in Threads : Unborn(u)' /\ LeftAlone(u)'
      BY <3>0, <3>1, <3>2 DEF Unborn, LeftAlone
    <3> QED BY <3>3, <3>4, <3>5
  <2>6. ASSUME NEW w \in Callers, Crash(w) PROVE Accounts'
    <3>1. /\ \A v \in Callers \ {w} : thread'[v] = thread[v] /\ stage'[v] = stage[v]
          /\ stage'[w] = "idle" /\ faults' = faults + 1
          /\ UNCHANGED <<delivery, lease, stale, mails>>
      BY <2>0, <2>6 DEF Crash, Return, Fault, Calls, rowVars
    <3>2. ASSUME NEW u \in Threads PROVE Paid(u)' /\ Unborn(u)' /\ LeftAlone(u)'
      <4>1. Attempting(u)' \subseteq Attempting(u)
        BY <3>1 DEF Attempting
      <4> QED BY <3>1, <4>1, FaultPays DEF Unborn, LeftAlone
    <3> QED BY <3>2
  <2>7. ASSUME NEW t \in Threads, LeaseLapses(t) \/ BecomesStale(t) PROVE Accounts'
    <3>1. /\ UNCHANGED <<delivery, mails, thread, leased, stage>>
          /\ \A u \in Threads \ {t} : lease'[u] = lease[u] /\ stale'[u] = stale[u]
          /\ stale[t] => stale'[t]
      BY <2>0, <2>7 DEF LeaseLapses, BecomesStale, Rows, callVars
    <3>2. \A u \in Threads : Attempting(u)' = Attempting(u)
      BY <3>1 DEF Attempting
    <3>3. \/ faults' = faults + 1
          \/ faults' = faults /\ (Open(t)' => Open(t))
      <4>1. CASE LeaseLapses(t)
        BY <2>0, <3>1, <4>1 DEF LeaseLapses, TimeRunsOut, Fault, ghostVars, Open, Guarded, Working, Rows
      <4>2. CASE BecomesStale(t)
        BY <2>0, <3>1, <4>2 DEF BecomesStale, TimeRunsOut, Fault, ghostVars, Open, Guarded, Working, Rows
      <4> QED BY <2>7, <4>1, <4>2
    <3>4. \A u \in Threads \ {t} : Open(u)' => Open(u)
      BY <3>1, StaysOpen DEF Working
    <3>5. ASSUME NEW u \in Threads PROVE Paid(u)'
      BY <3>1, <3>2, <3>3, <3>4, NothingDue, FaultPays
    <3>6. \A u \in Threads : Unborn(u)' /\ LeftAlone(u)'
      BY <3>1 DEF Unborn, LeftAlone
    <3> QED BY <3>5, <3>6
  <2>8. CASE Delete \/ UNCHANGED vars
    <3>1. UNCHANGED <<delivery, lease, stale, mails, thread, leased, stage, faults>>
      BY <2>8 DEF Delete, vars, rowVars, callVars, ghostVars
    <3> QED BY <3>1 DEF Paid, Due, Attempting, Open, Guarded, Working, Unborn, LeftAlone
  <2> QED BY <2>1, <2>2, <2>3, <2>4, <2>5, <2>6, <2>7, <2>8 DEF Next
<1> QED BY <1>1, <1>2, TypeCorrect, ApartHolds, PTL DEF Spec

(* Replays, sweeps and approvals never send a second copy by themselves:    *)
(* each copy beyond the first has a fault of its own.                       *)
THEOREM CopiesAreOwedToFaults == Spec => []NoSpuriousCopy
<1>1. TypeOK /\ Accounts => NoSpuriousCopy
  <2> SUFFICES ASSUME TypeOK, Accounts, NEW t \in Threads PROVE mails[t] <= 1 + faults
    BY DEF NoSpuriousCopy
  <2>1. Paid(t) /\ mails[t] \in Nat /\ faults \in Nat
    BY DEF Accounts, TypeOK
  <2>2. Cardinality(Attempting(t)) \in Nat
    BY <2>1, FS_CardinalityType DEF Paid
  <2> QED BY <2>1, <2>2 DEF Paid, Due
<1> QED BY <1>1, TypeCorrect, AccountsHold, PTL
=============================================================================
