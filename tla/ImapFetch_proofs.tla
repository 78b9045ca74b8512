--------------------------- MODULE ImapFetch_proofs ---------------------------
(***************************************************************************)
(* Proofs about ImapFetch, for any runs, connects, batch size and numbers  *)
(* of messages, renumberings and faults.                                   *)
(*                                                                         *)
(* EachMailOnce needs what the numbering is good for: in one epoch a UID   *)
(* names one message for ever (Numbered, Identified), nothing is ingested  *)
(* under another epoch than the cursor's (Batches), and the run that holds *)
(* the lease has, below where it is, left nothing out (Sweeps).            *)
(***************************************************************************)
EXTENDS ImapFetch, FiniteSetTheorems, TLAPS

-----------------------------------------------------------------------------
Invocation == [stage : {"idle", "claim"} \cup LeasedStages, at : Cursor,
               batch : SUBSET Identity, blocked : BOOLEAN]
Connecting == [stage : {"new", "probed", "done"}, cursor : Cursor, seen : Nat]
Watch == [cursor : Cursor, lease : Runs \cup {Free}, live : BOOLEAN]

LEMMA TypeOKParts ==
  TypeOK <=> /\ status \in {"absent", "active", "paused", "disconnected"}
             /\ row \in Watch
             /\ connecting \in [Connects -> Connecting]
             /\ since \in Nat /\ epoch \in Nat /\ uidNext \in Nat \ {0} /\ arrived \in Nat
             /\ uid \in [Mail -> Nat]
             /\ settled \subseteq Identity
             /\ run \in [Runs -> Invocation]
             /\ faults \in Nat
BY DEF TypeOK, Invocation, Connecting, Watch

LEMMA IdleType ==
  /\ NoCursor \in Cursor /\ Idle \in Invocation
  /\ \A s \in {"claim"} \cup LeasedStages : [Idle EXCEPT !.stage = s] \in Invocation
BY DEF NoCursor, Cursor, Idle, Invocation, LeasedStages

LEMMA PresentFinite ==
  ASSUME NEW S \in SUBSET Mail
  PROVE  IsFiniteSet(S) /\ Cardinality(S) \in Nat
<1>1. IsFiniteSet(Mail)
  BY FS_Interval, ImapAssumption DEF Mail
<1> QED BY <1>1, FS_Subset, FS_CardinalityType

LEMMA BatchType ==
  ASSUME TypeOK, NEW from \in Nat
  PROVE  Batch(from) \subseteq Identity
<1> DEFINE above == {m \in Present : uid[m] > from}
           chosen == {m \in above :
                        Cardinality({k \in above : uid[k] < uid[m]}) < MaxPerInvocation}
<1>1. chosen \subseteq Mail
  BY DEF Present
<1>2. Batch(from) = {[mail |-> m, epoch |-> epoch, uid |-> uid[m]] : m \in chosen}
  BY DEF Batch
<1> HIDE DEF chosen
<1> QED BY <1>1, <1>2 DEF Identity, TypeOK

(* What becomes of a run that takes the next message of its batch.          *)
Took(r, i, blocked) ==
    [stage |-> "ingest", at |-> [epoch |-> run[r].at.epoch, uid |-> i.uid],
     batch |-> run[r].batch \ {i}, blocked |-> blocked]

LEMMA TakenIs ==
  ASSUME TypeOK, NEW r \in Runs, NEW i \in Identity, NEW b \in BOOLEAN
  PROVE  Taken(r, i, b) = [run EXCEPT ![r] = Took(r, i, b)] /\ Took(r, i, b) \in Invocation
<1>1. run \in [Runs -> Invocation] /\ run[r] \in Invocation /\ run[r].at \in Cursor
  BY TypeOKParts DEF Invocation
<1>2. [epoch |-> run[r].at.epoch, uid |-> i.uid] \in Cursor
  BY <1>1 DEF Identity, Cursor
<1>3. run[r].batch \ {i} \in SUBSET Identity
  BY <1>1 DEF Invocation
<1> QED BY <1>2, <1>3 DEF Taken, Took, Invocation, LeasedStages

(* The state keeps its types.                                               *)
THEOREM TypeCorrect == Spec => []TypeOK
<1>1. Init => TypeOK
  <2> SUFFICES ASSUME Init PROVE TypeOK
    OBVIOUS
  <2>1. row \in Watch /\ connecting \in [Connects -> Connecting] /\ run \in [Runs -> Invocation]
    BY IdleType DEF Init, Watch, Connecting
  <2> QED BY <2>1, TypeOKParts DEF Init
<1>2. TypeOK /\ [Next]_vars => TypeOK'
  <2> SUFFICES ASSUME TypeOK, [Next]_vars PROVE TypeOK'
    OBVIOUS
  <2>0. /\ row \in Watch /\ connecting \in [Connects -> Connecting] /\ run \in [Runs -> Invocation]
        /\ since \in Nat /\ epoch \in Nat /\ uidNext \in Nat \ {0} /\ arrived \in Nat
        /\ uid \in [Mail -> Nat] /\ settled \subseteq Identity /\ faults \in Nat
        /\ Fault => faults' \in Nat
    BY TypeOKParts DEF Fault
  <2>1. CASE Arrive
    <3>1. uid' \in [Mail -> Nat]
      BY <2>0, <2>1 DEF Arrive
    <3>2. uidNext' \in Nat \ {0} /\ arrived' \in Nat
      BY <2>0, <2>1 DEF Arrive
    <3> QED BY <2>1, <3>1, <3>2 DEF Arrive, mailbox, TypeOK
  <2>2. ASSUME NEW m \in Mail, Expunge(m) PROVE TypeOK'
    BY <2>0, <2>2 DEF Expunge, mailbox, TypeOK
  <2>3. CASE Renumber
    <3>1. /\ Cardinality(Present) \in Nat
          /\ \A m \in Mail : Cardinality({k \in Present : m \in Present /\ uid[k] <= uid[m]}) \in Nat
      BY PresentFinite DEF Present
    <3>2. uid' \in [Mail -> Nat] /\ uidNext' \in Nat \ {0} /\ epoch' \in Nat
      BY <2>0, <2>3, <3>1 DEF Renumber
    <3> QED BY <2>3, <3>2 DEF Renumber, mailbox, TypeOK
  <2>4. ASSUME NEW c \in Connects, Probe(c) \/ ConnectFails(c) PROVE TypeOK'
    <3>1. connecting' \in [Connects -> Connecting]
      BY <2>0, <2>4 DEF Probe, ConnectFails, Done, NoCursor, Connecting, Cursor
    <3>2. UNCHANGED <<status, row, since, server, settled, run, faults>>
      BY <2>4 DEF Probe, ConnectFails
    <3> QED BY <3>1, <3>2 DEF server, TypeOK, Connecting
  <2>5. ASSUME NEW c \in Connects, ConnectPersists(c) PROVE TypeOK'
    <3>1. connecting' \in [Connects -> Connecting]
      BY <2>0, <2>5 DEF ConnectPersists, Done, NoCursor, Connecting, Cursor
    <3>2. row' \in Watch /\ since' \in Nat
      BY <2>0, <2>5 DEF ConnectPersists, Connecting, Watch
    <3> QED BY <2>5, <3>1, <3>2 DEF ConnectPersists, server, TypeOK, Connecting, Watch
  <2>6. ASSUME status' \in {status, "paused", "disconnected"}, row' \in Watch, run' \in [Runs -> Invocation],
               settled' \subseteq Identity, UNCHANGED <<connecting, since, server>>,
               UNCHANGED faults \/ Fault
        PROVE  TypeOK'
    BY <2>0, <2>6 DEF server, TypeOK, Watch, Invocation
  <2>7. CASE Disconnect
    BY <2>0, <2>6, <2>7 DEF Disconnect
  <2>8. ASSUME NEW r \in Runs, Tick(r) \/ ClaimLease(r) \/ Pause(r) \/ Release(r) \/ Throw(r) \/ Kill(r)
        PROVE  TypeOK'
    <3>1. run' \in [Runs -> Invocation]
      BY <2>0, <2>8, IdleType
         DEF Tick, ClaimLease, Pause, Release, Throw, Kill, Go, LeasedStages
    <3>2. row' \in Watch
      BY <2>0, <2>8 DEF Tick, ClaimLease, Pause, Release, Throw, Kill, mailbox, Watch
    <3>3. /\ status' \in {status, "paused", "disconnected"} /\ settled' = settled
          /\ UNCHANGED <<connecting, since, server>> /\ (UNCHANGED faults \/ Fault)
      BY <2>8 DEF Tick, ClaimLease, Pause, Release, Throw, Kill, mailbox
    <3> QED BY <2>0, <2>6, <3>1, <3>2, <3>3
  <2>9. ASSUME NEW r \in Runs, ReadCursor(r) PROVE TypeOK'
    <3>1. run' \in [Runs -> Invocation]
      BY <2>0, <2>9 DEF ReadCursor, Invocation, LeasedStages, Watch
    <3> QED BY <2>0, <2>6, <2>9, <3>1 DEF ReadCursor, mailbox
  <2>10. ASSUME NEW r \in Runs, FetchBatch(r) PROVE TypeOK'
    <3>1. run[r].at \in Cursor
      BY <2>0 DEF Invocation
    <3>2. SinceUid(run[r].at) \in Nat
      BY <3>1 DEF SinceUid, Cursor
    <3>3. Batch(SinceUid(run[r].at)) \in SUBSET Identity
      BY <3>2, BatchType
    <3>4. [epoch |-> epoch, uid |-> SinceUid(run[r].at)] \in Cursor
      BY <2>0, <3>2 DEF Cursor
    <3>5. [Idle EXCEPT !.stage = "ingest", !.at = [epoch |-> epoch, uid |-> SinceUid(run[r].at)],
                       !.batch = Batch(SinceUid(run[r].at))] \in Invocation
      BY <3>3, <3>4 DEF Idle, Invocation, LeasedStages
    <3>6. run' \in [Runs -> Invocation]
      BY <2>0, <2>10, <3>5, IdleType DEF FetchBatch, LeasedStages
    <3> QED BY <2>0, <2>6, <2>10, <3>6 DEF FetchBatch, mailbox
  <2>11. ASSUME NEW r \in Runs, Ingest(r) PROVE TypeOK'
    <3>1. PICK i \in run[r].batch :
             /\ settled' \in {settled, settled \cup {i}}
             /\ \E b \in BOOLEAN : run' = Taken(r, i, b)
             /\ UNCHANGED faults \/ Fault
      BY <2>0, <2>11 DEF Ingest, Invocation
    <3>2. i \in Identity
      BY <2>0 DEF Invocation
    <3>3. run' \in [Runs -> Invocation]
      <4>1. PICK t \in Invocation : run' = [run EXCEPT ![r] = t]
        BY <3>1, <3>2, TakenIs
      <4> QED BY <2>0, <4>1
    <3> QED BY <2>0, <2>6, <2>11, <3>1, <3>2, <3>3 DEF Ingest, mailbox
  <2>12. ASSUME NEW r \in Runs, Advance(r) PROVE TypeOK'
    <3>1. run' \in [Runs -> Invocation] /\ row' \in Watch
      BY <2>0, <2>12, IdleType DEF Advance, Go, LeasedStages, Watch, Invocation
    <3> QED BY <2>0, <2>6, <2>12, <3>1 DEF Advance
  <2>13. CASE LeaseLapses
    <3>1. row' \in Watch
      BY <2>0, <2>13 DEF LeaseLapses, Watch
    <3> QED BY <2>0, <2>6, <2>13, <3>1 DEF LeaseLapses
  <2>14. CASE UNCHANGED vars
    BY <2>14 DEF vars, mailbox, server, TypeOK
  <2> QED BY <2>1, <2>2, <2>3, <2>4, <2>5, <2>7, <2>8, <2>9, <2>10, <2>11, <2>12, <2>13, <2>14
          DEF Next, RunStep
<1> QED BY <1>1, <1>2, PTL DEF Spec
-----------------------------------------------------------------------------
(* The server numbers its messages: a UID names at most one of them, and    *)
(* the next one to come gets a higher one than any.                         *)
Numbered ==
    /\ \A m \in Mail : uid[m] < uidNext /\ (m > arrived => uid[m] = 0)
    /\ \A m, k \in Present : uid[m] = uid[k] => m = k

(* Before the first connect nothing has happened.                           *)
BeforeFirst == status = "absent" =>
    /\ settled = {}
    /\ \A r \in Runs : run[r].stage = "idle"

(* A run works in the epoch of the cursor.                                  *)
Batches == \A r \in Runs :
    /\ run[r].stage # "ingest" => run[r].batch = {}
    /\ run[r].stage \in {"fetch", "ingest"} => run[r].at.epoch = row.cursor.epoch
    /\ \A i, k \in run[r].batch : i.uid = k.uid => i = k

(* What a connect saw: messages that came since lie above its cursor.       *)
SeenRightly(p) ==
    /\ p.cursor.epoch <= epoch
    /\ p.cursor.epoch = epoch =>
          /\ p.cursor.uid < uidNext
          /\ \A m \in Present : m > p.seen => uid[m] > p.cursor.uid
Probes ==
    /\ status # "absent" => row.cursor.epoch <= epoch
    /\ \A c \in Connects : connecting[c].stage = "probed" => SeenRightly(connecting[c])

(* The cursor says something of the UIDs that the server has given out.     *)
CursorLive == status # "absent" /\ row.cursor.epoch = epoch

(* The identities in use, and that each is one message and the other way    *)
(* round.                                                                   *)
Known == settled \cup UNION {run[r].batch : r \in Runs}
Names(i) == /\ i.uid < uidNext
            /\ \A m \in Present : uid[m] = i.uid <=> m = i.mail
            /\ i.mail <= arrived
Identified ==
    /\ \A i \in Known : i.epoch = row.cursor.epoch
    /\ \A i, k \in Known : i.mail = k.mail => i = k
    /\ CursorLive => \A i \in Known : Names(i)

Covered == CursorLive =>
    /\ row.cursor.uid < uidNext
    /\ \A m \in Mail : Owed(m) => uid[m] > row.cursor.uid

(* The run that holds the lease goes up from the cursor, ...                *)
Ascends(r) ==
    /\ run[r].stage = "fetch" => run[r].at = row.cursor
    /\ run[r].stage = "ingest" =>
          /\ run[r].at.uid >= row.cursor.uid
          /\ \A i \in run[r].batch : i.uid > run[r].at.uid
Holder == \A r \in Runs : row.lease = r => Ascends(r)

(* ... and leaves nothing out, below where it is or within its batch.       *)
Sweeping(r) ==
    /\ run[r].at.uid < uidNext
    /\ ~run[r].blocked => \A m \in Mail : Owed(m) => uid[m] > run[r].at.uid
    /\ \A i \in run[r].batch, m \in Present :
          run[r].at.uid < uid[m] /\ uid[m] < i.uid => \E k \in run[r].batch : k.mail = m
Sweeps == \A r \in Runs : CursorLive /\ row.lease = r /\ run[r].stage = "ingest" => Sweeping(r)

IInv == /\ TypeOK /\ Numbered /\ BeforeFirst /\ Batches /\ Probes
        /\ Identified /\ Covered /\ Holder /\ Sweeps

LEMMA Shapes ==
  ASSUME TypeOK
  PROVE  /\ run \in [Runs -> Invocation] /\ connecting \in [Connects -> Connecting]
         /\ uid \in [Mail -> Nat] /\ uidNext \in Nat /\ arrived \in Nat /\ epoch \in Nat /\ since \in Nat
         /\ row \in Watch /\ row.cursor \in Cursor
         /\ row.cursor.epoch \in Nat /\ row.cursor.uid \in Nat
         /\ \A r \in Runs : /\ run[r].at \in Cursor /\ run[r].at.epoch \in Nat /\ run[r].at.uid \in Nat
                            /\ run[r].batch \subseteq Identity /\ run[r].blocked \in BOOLEAN
         /\ \A c \in Connects : /\ connecting[c].seen \in Nat /\ connecting[c].cursor \in Cursor
                                /\ connecting[c].cursor.epoch \in Nat /\ connecting[c].cursor.uid \in Nat
         /\ Known \subseteq Identity
         /\ \A i \in Identity : i.mail \in Mail /\ i.epoch \in Nat /\ i.uid \in Nat
<1>1. run \in [Runs -> Invocation] /\ row \in Watch /\ connecting \in [Connects -> Connecting]
      /\ settled \subseteq Identity
  BY TypeOKParts
<1>2. \A r \in Runs : run[r].at \in Cursor /\ run[r].batch \subseteq Identity /\ run[r].blocked \in BOOLEAN
  BY <1>1 DEF Invocation
<1>3. row.cursor \in Cursor
  BY <1>1 DEF Watch
<1>4. \A c \in Connects : connecting[c].seen \in Nat /\ connecting[c].cursor \in Cursor
  BY <1>1 DEF Connecting
<1>5. \A x \in Cursor : x.epoch \in Nat /\ x.uid \in Nat
  BY DEF Cursor
<1>6. \A i \in Identity : i.mail \in Mail /\ i.epoch \in Nat /\ i.uid \in Nat
  BY DEF Identity
<1>7. Known \subseteq Identity
  BY <1>1, <1>2 DEF Known
<1> QED BY <1>1, <1>2, <1>3, <1>4, <1>5, <1>6, <1>7 DEF TypeOK

-----------------------------------------------------------------------------
(* Steps that leave cursor, server and ledger alone, and after which no run *)
(* is fetching or ingesting that was not.                                   *)
LEMMA QuietStep ==
  ASSUME IInv, TypeOK', UNCHANGED <<server, settled, since, connecting>>, row'.cursor = row.cursor,
         status' = "absent" <=> status = "absent",
         \A r \in Runs :
            \/ run'[r] = run[r]
            \/ /\ run'[r].stage \notin {"fetch", "ingest"} /\ run'[r].batch = {}
               /\ status = "absent" => run'[r].stage = "idle",
         \A r \in Runs : row'.lease = r =>
            row.lease = r \/ run'[r].stage \notin {"fetch", "ingest"}
  PROVE  IInv'
<1> USE DEF IInv, server
<1>1. Numbered' /\ BeforeFirst' /\ Batches'
  BY DEF Numbered, Present, BeforeFirst, Batches
<1>2. Probes'
  BY DEF Probes, SeenRightly, Present
<1>3. Identified'
  <2>1. Known' \subseteq Known
    BY DEF Known
  <2> QED BY <2>1 DEF Identified, CursorLive, Names, Present
<1>4. Covered'
  BY DEF Covered, CursorLive, Owed, Present
<1>5. Holder'
  BY DEF Holder, Ascends
<1>6. Sweeps'
  <2> SUFFICES ASSUME NEW r \in Runs, CursorLive', row'.lease = r, run'[r].stage = "ingest"
               PROVE  Sweeping(r)'
    BY DEF Sweeps
  <2>1. run'[r] = run[r] /\ row.lease = r /\ CursorLive
    BY DEF CursorLive
  <2> QED BY <2>1 DEF Sweeps, Sweeping, Owed, Present
<1> QED BY <1>1, <1>2, <1>3, <1>4, <1>5, <1>6

-----------------------------------------------------------------------------
(* The server's steps.                                                      *)
LEMMA ArriveStep ==
  ASSUME IInv, TypeOK', Arrive
  PROVE  IInv'
<1> USE DEF IInv
<1> DEFINE new == arrived + 1
<1>0. /\ uid \in [Mail -> Nat] /\ uidNext \in Nat \ {0} /\ arrived \in Nat
      /\ new \in Mail /\ uid[new] = 0
  BY ImapAssumption DEF TypeOK, Numbered, Arrive, Mail
<1>1. /\ \A m \in Mail : uid'[m] = IF m = new THEN uidNext ELSE uid[m]
      /\ uidNext' = uidNext + 1 /\ arrived' = new /\ epoch' = epoch
      /\ UNCHANGED <<status, row, connecting, since, settled, run>>
  BY <1>0 DEF Arrive, mailbox
<1>2. Present' = Present \cup {new} /\ new \notin Present
  BY <1>0, <1>1 DEF Present
<1> HIDE DEF new
<1>3. Numbered'
  BY <1>0, <1>1, <1>2 DEF Numbered, Present, Mail, new
<1>4. BeforeFirst' /\ Batches' /\ Holder'
  BY <1>1 DEF BeforeFirst, Batches, Holder, Ascends
<1>5. Probes'
  BY <1>0, <1>1, <1>2, Shapes DEF Probes, SeenRightly, Present
<1>6. Identified'
  <2>1. Known' = Known
    BY <1>1 DEF Known
  <2>2. ASSUME NEW i \in Known, Names(i) PROVE Names(i)'
    <3>1. i.uid \in Nat /\ i.uid < uidNext /\ i.mail <= arrived /\ i.mail \in Mail
      BY <2>2, Shapes DEF Names
    <3>2. i.mail # new
      BY <1>0, <3>1 DEF new, Mail
    <3> QED BY <1>0, <1>1, <1>2, <2>2, <3>1, <3>2 DEF Names, Present, new, Mail
  <2> QED BY <1>1, <2>1, <2>2 DEF Identified, CursorLive
<1>7. Covered'
  BY <1>0, <1>1, <1>2, Shapes DEF Covered, CursorLive, Owed
<1>8. Sweeps'
  <2> SUFFICES ASSUME NEW r \in Runs, CursorLive, row.lease = r, run[r].stage = "ingest"
               PROVE  Sweeping(r)'
    BY <1>1 DEF Sweeps, CursorLive
  <2>1. Sweeping(r) /\ run[r].at.uid \in Nat /\ run'[r] = run[r] /\ settled' = settled /\ since' = since
    BY <1>1, Shapes DEF Sweeps
  <2>2. \A i \in run[r].batch : i.uid \in Nat /\ i.uid < uidNext
    BY Shapes DEF Identified, Names, Known
  <2>3. \A m \in Mail : Owed(m)' => m = new \/ Owed(m)
    BY <1>1, <1>2 DEF Owed
  <2> QED BY <1>0, <1>1, <1>2, <2>1, <2>2, <2>3 DEF Sweeping, Present
<1> QED BY <1>3, <1>4, <1>5, <1>6, <1>7, <1>8

LEMMA ExpungeStep ==
  ASSUME IInv, TypeOK', NEW n \in Mail, Expunge(n)
  PROVE  IInv'
<1> USE DEF IInv
<1>0. uid \in [Mail -> Nat] /\ uidNext \in Nat \ {0}
  BY DEF TypeOK
<1>1. /\ \A m \in Mail : uid'[m] = IF m = n THEN 0 ELSE uid[m]
      /\ UNCHANGED <<uidNext, arrived, epoch, status, row, connecting, since, settled, run>>
  BY <1>0 DEF Expunge, mailbox
<1>2. /\ Present' \subseteq Present
      /\ \A m \in Present' : uid'[m] = uid[m]
      /\ \A m \in Mail : Owed(m)' => Owed(m) /\ uid'[m] = uid[m]
  BY <1>0, <1>1 DEF Present, Owed
<1>3. Numbered'
  BY <1>0, <1>1, <1>2 DEF Numbered
<1>4. BeforeFirst' /\ Batches' /\ Holder'
  BY <1>1 DEF BeforeFirst, Batches, Holder, Ascends
<1>5. Probes'
  BY <1>1, <1>2 DEF Probes, SeenRightly
<1>6. Identified'
  <2>1. Known' = Known
    BY <1>1 DEF Known
  <2> QED BY <1>1, <1>2, <2>1 DEF Identified, CursorLive, Names
<1>7. Covered'
  BY <1>1, <1>2 DEF Covered, CursorLive
<1>8. Sweeps'
  BY <1>1, <1>2 DEF Sweeps, CursorLive, Sweeping
<1> QED BY <1>3, <1>4, <1>5, <1>6, <1>7, <1>8

(* A renumbering ranks the messages that are present.                       *)
LEMMA RenumberStep ==
  ASSUME IInv, TypeOK', Renumber
  PROVE  IInv'
<1> USE DEF IInv
<1> DEFINE upTo(m) == {k \in Present : uid[k] <= uid[m]}
<1>0. uid \in [Mail -> Nat] /\ epoch \in Nat /\ row.cursor.epoch \in Nat
  BY Shapes
<1>1. /\ \A m \in Mail : uid'[m] = Cardinality({k \in Present : m \in Present /\ uid[k] <= uid[m]})
      /\ uidNext' = Cardinality(Present) + 1 /\ epoch' = epoch + 1
      /\ UNCHANGED <<arrived, status, row, connecting, since, settled, run>>
  BY DEF Renumber, mailbox
<1>2. \A m \in Mail : uid'[m] = IF m \in Present THEN Cardinality(upTo(m)) ELSE 0
  <2>1. \A m \in Mail \ Present : {k \in Present : m \in Present /\ uid[k] <= uid[m]} = {}
    OBVIOUS
  <2>2. \A m \in Present : {k \in Present : m \in Present /\ uid[k] <= uid[m]} = upTo(m)
    OBVIOUS
  <2> QED BY <1>1, <2>1, <2>2, FS_EmptySet
<1>3. IsFiniteSet(Present) /\ Cardinality(Present) \in Nat
  BY PresentFinite DEF Present
<1>4. \A m \in Mail : Cardinality(upTo(m)) \in Nat /\ Cardinality(upTo(m)) <= Cardinality(Present)
  <2> SUFFICES ASSUME NEW m \in Mail
               PROVE  Cardinality(upTo(m)) \in Nat /\ Cardinality(upTo(m)) <= Cardinality(Present)
    OBVIOUS
  <2>1. upTo(m) \in SUBSET Present
    OBVIOUS
  <2> QED BY <1>3, <2>1, FS_Subset, FS_CardinalityType
<1>5. ASSUME NEW m \in Present, NEW k \in Present, uid[m] < uid[k]
      PROVE  Cardinality(upTo(m)) # Cardinality(upTo(k))
  <2>1. m \in Mail /\ k \in Mail /\ uid[m] \in Nat /\ uid[k] \in Nat
    BY <1>0 DEF Present
  <2>2. upTo(m) \in SUBSET upTo(k) /\ k \in upTo(k) /\ k \notin upTo(m)
    <3>1. \A j \in upTo(m) : uid[j] \in Nat
      BY <1>0 DEF Present
    <3> QED BY <1>5, <2>1, <3>1
  <2>3. IsFiniteSet(upTo(k))
    <3>1. upTo(k) \in SUBSET Present
      OBVIOUS
    <3> QED BY <1>3, <3>1, FS_Subset
  <2> HIDE DEF upTo
  <2> QED BY <2>2, <2>3, FS_Subset
<1> HIDE DEF upTo
<1>6. Present' \subseteq Present
  BY <1>2 DEF Present
<1>7. Numbered'
  <2>1. \A m \in Mail : uid'[m] < uidNext' /\ (m > arrived' => uid'[m] = 0)
    BY <1>0, <1>1, <1>2, <1>3, <1>4 DEF Numbered, Present
  <2>2. ASSUME NEW m \in Present', NEW k \in Present', uid'[m] = uid'[k] PROVE m = k
    <3>1. m \in Present /\ k \in Present /\ uid[m] \in Nat /\ uid[k] \in Nat
      BY <1>0, <1>6 DEF Present
    <3>2. Cardinality(upTo(m)) = Cardinality(upTo(k))
      BY <1>2, <2>2, <3>1 DEF Present
    <3>3. uid[m] = uid[k]
      BY <1>5, <3>1, <3>2
    <3> QED BY <3>1, <3>3 DEF Numbered
  <2> QED BY <2>1, <2>2 DEF Numbered
<1>8. BeforeFirst' /\ Batches' /\ Holder'
  BY <1>1 DEF BeforeFirst, Batches, Holder, Ascends
<1>9. Probes' /\ ~CursorLive'
  BY <1>0, <1>1, Shapes DEF Probes, SeenRightly, CursorLive
<1>10. Identified' /\ Covered' /\ Sweeps'
  <2>1. Known' = Known
    BY <1>1 DEF Known
  <2> QED BY <1>1, <1>9, <2>1 DEF Identified, Covered, Sweeps
<1> QED BY <1>7, <1>8, <1>9, <1>10
-----------------------------------------------------------------------------
(* Connects.                                                                *)
LEMMA ConnectStep ==
  ASSUME IInv, TypeOK', NEW c \in Connects, Probe(c) \/ ConnectFails(c)
  PROVE  IInv'
<1> USE DEF IInv
<1>1. UNCHANGED <<status, row, since, epoch, uid, uidNext, arrived, settled, run>>
  BY DEF Probe, ConnectFails, server
<1>2. Probes'
  <2> SUFFICES ASSUME NEW d \in Connects, connecting'[d].stage = "probed"
               PROVE  SeenRightly(connecting[d])'
    BY <1>1 DEF Probes
  <2>1. CASE d # c \/ ConnectFails(c)
    <3>1. connecting'[d] = connecting[d]
      BY <2>1, Shapes DEF Probe, ConnectFails, Done
    <3> QED BY <1>1, <3>1 DEF Probes, SeenRightly, Present
  <2>2. CASE d = c /\ Probe(c)
    <3>1. connecting'[d] = [stage |-> "probed", cursor |-> [epoch |-> epoch, uid |-> uidNext - 1],
                            seen |-> arrived]
      BY <2>2, Shapes DEF Probe
    <3>2. \A m \in Present : m <= arrived
      BY DEF Numbered, Present, TypeOK, Mail
    <3> QED BY <1>1, <3>1, <3>2, Shapes DEF SeenRightly, Present, Mail
  <2> QED BY <2>1, <2>2
<1> QED BY <1>1, <1>2 DEF Numbered, BeforeFirst, Batches, Identified, CursorLive, Names, Known,
                          Covered, Owed, Holder, Ascends, Sweeps, Sweeping, Present

LEMMA PersistStep ==
  ASSUME IInv, TypeOK', NEW c \in Connects, ConnectPersists(c)
  PROVE  IInv'
<1> USE DEF IInv
<1> DEFINE seen == connecting[c]
<1>1. /\ UNCHANGED <<epoch, uid, uidNext, arrived, settled, run>>
      /\ status' = "active" /\ seen.stage = "probed" /\ row'.lease = row.lease
  BY Shapes DEF ConnectPersists, server, Watch
<1>2. \A d \in Connects : connecting'[d].stage = "probed" => connecting'[d] = connecting[d]
  BY Shapes DEF ConnectPersists, Done
<1>3. CASE status # "absent"
  <2>1. UNCHANGED <<row, since>>
    BY <1>3 DEF ConnectPersists, Seeds
  <2>2. CursorLive' <=> CursorLive
    BY <1>1, <1>3, <2>1 DEF CursorLive
  <2>3. Probes'
    BY <1>1, <1>2, <1>3, <2>1 DEF Probes, SeenRightly, Present
  <2> QED BY <1>1, <2>1, <2>2, <2>3 DEF Numbered, BeforeFirst, Batches, Identified, Names, Known,
                                        Covered, Owed, Holder, Ascends, Sweeps, Sweeping, Present
<1>4. CASE status = "absent"
  <2>1. row'.cursor = seen.cursor /\ since' = seen.seen
    BY <1>4, Shapes DEF ConnectPersists, Seeds, Watch
  <2>2. /\ \A r \in Runs : run'[r].stage = "idle" /\ run'[r].batch = {}
        /\ Known' = {}
    BY <1>1, <1>4 DEF BeforeFirst, Batches, Known
  <2>3. SeenRightly(seen)
    BY <1>1 DEF Probes
  <2>4. Numbered' /\ BeforeFirst' /\ Batches' /\ Holder' /\ Sweeps' /\ Identified'
    BY <1>1, <2>2 DEF Numbered, Present, BeforeFirst, Batches, Holder, Ascends, Sweeps, Identified
  <2>5. Probes'
    BY <1>1, <1>2, <2>1, <2>3 DEF Probes, SeenRightly, Present
  <2>6. Covered'
    BY <1>1, <2>1, <2>3 DEF Covered, CursorLive, SeenRightly, Owed, Present
  <2> QED BY <2>4, <2>5, <2>6
<1> QED BY <1>3, <1>4

-----------------------------------------------------------------------------
(* A step of one run that changes nothing but where it is, and what has     *)
(* been settled.                                                            *)
RunMoves(r) == /\ UNCHANGED <<mailbox, server>> /\ settled \subseteq settled'
               /\ \A q \in Runs \ {r} : run'[q] = run[q]
               /\ run[r].stage # "idle" /\ run'[r].stage # "idle"

LEMMA MoveStep ==
  ASSUME IInv, TypeOK', NEW r \in Runs, RunMoves(r),
         run'[r].stage \in {"fetch", "ingest"} => run'[r].at.epoch = row.cursor.epoch,
         run'[r].stage # "ingest" => run'[r].batch = {},
         \A i, k \in run'[r].batch : i.uid = k.uid => i = k,
         Identified',
         row.lease = r => Ascends(r)' /\ (CursorLive /\ run'[r].stage = "ingest" => Sweeping(r)')
  PROVE  IInv'
<1> USE DEF IInv, RunMoves, mailbox, server
<1>1. Numbered' /\ BeforeFirst' /\ Batches' /\ Probes' /\ Covered'
  BY DEF Numbered, BeforeFirst, Batches, Probes, SeenRightly, Covered, CursorLive, Owed, Present
<1>2. Holder'
  BY DEF Holder, Ascends
<1>3. Sweeps'
  <2> SUFFICES ASSUME NEW q \in Runs, CursorLive, row.lease = q, run'[q].stage = "ingest"
               PROVE  Sweeping(q)'
    BY DEF Sweeps, CursorLive
  <2>1. CASE q = r
    BY <2>1
  <2>2. CASE q # r
    BY <2>2 DEF Sweeps, Sweeping, Owed, Present
  <2> QED BY <2>1, <2>2
<1> QED BY <1>1, <1>2, <1>3

LEMMA ReadStep ==
  ASSUME IInv, TypeOK', NEW r \in Runs, ReadCursor(r)
  PROVE  IInv'
<1> USE DEF IInv
<1>1. /\ RunMoves(r) /\ run[r].stage = "read"
      /\ run'[r].stage = "fetch" /\ run'[r].at = row.cursor /\ run'[r].batch = run[r].batch
      /\ UNCHANGED <<row, settled, status, epoch, uid, uidNext, arrived>>
  BY Shapes DEF ReadCursor, RunMoves, mailbox, server, Invocation
<1>2. run'[r].batch = {}
  BY <1>1 DEF Batches
<1>3. Known' \subseteq Known
  BY <1>1, <1>2 DEF Known, RunMoves
<1>4. Identified'
  BY <1>1, <1>3 DEF Identified, CursorLive, Names, Present
<1> QED BY <1>1, <1>2, <1>4, MoveStep DEF Ascends

(* A batch is the lowest messages above the cursor.                         *)
LEMMA BatchIs ==
  ASSUME IInv, NEW from \in Nat
  PROVE  /\ \A i \in Batch(from) : /\ i.mail \in Present /\ i.epoch = epoch /\ i.uid = uid[i.mail]
                                   /\ i.uid > from
         /\ \A i, k \in Batch(from) : i.uid = k.uid \/ i.mail = k.mail => i = k
         /\ \A i \in Batch(from), m \in Present :
               from < uid[m] /\ uid[m] < i.uid => \E k \in Batch(from) : k.mail = m
<1> DEFINE above == {m \in Present : uid[m] > from}
           below(m) == {k \in above : uid[k] < uid[m]}
           chosen == {m \in above : Cardinality(below(m)) < MaxPerInvocation}
           ident(m) == [mail |-> m, epoch |-> epoch, uid |-> uid[m]]
<1>1. Batch(from) = {ident(m) : m \in chosen}
  BY DEF Batch
<1>2. chosen \subseteq above /\ above \subseteq Present /\ Present \subseteq Mail
  BY DEF Present
<1>3. ASSUME NEW n \in chosen, NEW m \in above, uid[m] < uid[n] PROVE m \in chosen
  <2>1. \A k \in above : uid[k] \in Nat
    BY <1>2 DEF IInv, TypeOK
  <2>2. below(m) \in SUBSET below(n)
    BY <1>2, <1>3, <2>1
  <2>3. below(n) \in SUBSET Mail /\ below(m) \in SUBSET Mail
    BY <1>2
  <2> HIDE DEF below
  <2>4. Cardinality(below(m)) <= Cardinality(below(n))
    BY <2>2, <2>3, PresentFinite, FS_Subset
  <2>5. Cardinality(below(m)) \in Nat /\ Cardinality(below(n)) \in Nat
    BY <2>3, PresentFinite
  <2> QED BY <1>3, <2>4, <2>5, ImapAssumption
<1>4. \A m, k \in chosen : uid[m] = uid[k] => m = k
  BY <1>2 DEF IInv, Numbered
<1> HIDE DEF chosen
<1>5. \A i \in Batch(from) : i.mail \in chosen /\ i.epoch = epoch /\ i.uid = uid[i.mail] /\ i = ident(i.mail)
  BY <1>1
<1>6. \A m \in chosen : ident(m) \in Batch(from) /\ ident(m).mail = m
  BY <1>1
<1> HIDE DEF ident
<1>7. \A i, k \in Batch(from) : i.uid = k.uid \/ i.mail = k.mail => i = k
  BY <1>4, <1>5
<1>8. \A i \in Batch(from), m \in Present :
         from < uid[m] /\ uid[m] < i.uid => \E k \in Batch(from) : k.mail = m
  BY <1>2, <1>3, <1>5, <1>6 DEF IInv, TypeOK
<1> QED BY <1>2, <1>5, <1>7, <1>8
LEMMA FetchStep ==
  ASSUME IInv, TypeOK', NEW r \in Runs, FetchBatch(r)
  PROVE  IInv'
<1> USE DEF IInv
<1> DEFINE at == run[r].at
<1>1. /\ UNCHANGED <<row, settled, status, epoch, uid, uidNext, arrived, since>>
      /\ UNCHANGED <<mailbox, server>>
      /\ run[r].stage = "fetch" /\ run[r].batch = {}
      /\ \A q \in Runs \ {r} : run'[q] = run[q]
      /\ at.epoch = row.cursor.epoch /\ at.uid \in Nat /\ status # "absent"
  BY Shapes DEF FetchBatch, mailbox, server, Batches, BeforeFirst
<1>2. CASE IsReset(at)
  <2>1. run'[r].stage = "reset" /\ run'[r].batch = {}
    BY <1>2, Shapes DEF FetchBatch, Idle
  <2>2. Known' \subseteq Known
    BY <1>1, <2>1 DEF Known
  <2>3. Identified'
    BY <1>1, <2>2 DEF Identified, CursorLive, Names, Present
  <2> QED BY <1>1, <2>1, <2>3, MoveStep DEF RunMoves, Ascends
<1>3. CASE ~IsReset(at)
  <2> DEFINE batch == Batch(at.uid)
  <2>1. at.epoch = epoch /\ SinceUid(at) = at.uid /\ CursorLive
    BY <1>1, <1>3 DEF IsReset, SinceUid, CursorLive
  <2>2. /\ run'[r].stage = "ingest" /\ run'[r].batch = batch /\ run'[r].blocked = FALSE
        /\ run'[r].at.epoch = epoch /\ run'[r].at.uid = at.uid
    BY <1>3, <2>1, Shapes DEF FetchBatch, Idle
  <2>3. Known' \subseteq Known \cup batch
    BY <1>1, <2>2 DEF Known
  <2>4. /\ \A i \in batch : /\ i.mail \in Present /\ i.epoch = epoch /\ i.uid = uid[i.mail]
                            /\ i.uid > at.uid
        /\ \A i, k \in batch : i.uid = k.uid \/ i.mail = k.mail => i = k
        /\ \A i \in batch, m \in Present :
              at.uid < uid[m] /\ uid[m] < i.uid => \E k \in batch : k.mail = m
    BY <1>1, BatchIs
  <2>5. batch \subseteq Identity
    BY <1>1, BatchType
  <2> HIDE DEF batch
  <2>6. ASSUME NEW i \in batch PROVE Names(i)
    <3>1. i.mail \in Present /\ i.mail \in Mail /\ i.uid = uid[i.mail] /\ uid[i.mail] # 0
      BY <2>4 DEF Present
    <3> QED BY <3>1, Shapes DEF Names, Numbered, Mail
  <2>7. ASSUME NEW i \in Known, NEW k \in batch, i.mail = k.mail PROVE i = k
    <3>1. Names(i) /\ i.epoch = row.cursor.epoch
      BY <2>1 DEF Identified
    <3>2. i.uid = k.uid /\ i.epoch = k.epoch
      BY <1>1, <2>1, <2>4, <2>7, <3>1 DEF Names
    <3>3. i \in Identity /\ k \in Identity
      BY <2>5, Shapes
    <3> QED BY <2>7, <3>2, <3>3 DEF Identity
  <2>8. Identified'
    <3>1. \A i \in Known \cup batch : i.epoch = row.cursor.epoch /\ Names(i)
      BY <1>1, <2>1, <2>4, <2>6 DEF Identified
    <3>2. \A i, k \in Known \cup batch : i.mail = k.mail => i = k
      BY <2>4, <2>7 DEF Identified
    <3> QED BY <1>1, <2>3, <3>1, <3>2 DEF Identified, Names, Present
  <2>9. row.lease = r => at = row.cursor
    BY <1>1 DEF Holder, Ascends
  <2>10. row.lease = r => Ascends(r)'
    BY <1>1, <2>2, <2>4, <2>9, Shapes DEF Ascends
  <2>11. row.lease = r => Sweeping(r)'
    BY <1>1, <2>1, <2>2, <2>4, <2>9 DEF Sweeping, Covered, Owed, Present
  <2> QED BY <1>1, <2>1, <2>2, <2>4, <2>8, <2>10, <2>11, MoveStep DEF RunMoves
<1> QED BY <1>2, <1>3

LEMMA IngestStep ==
  ASSUME IInv, TypeOK', NEW r \in Runs, Ingest(r)
  PROVE  IInv'
<1> USE DEF IInv
<1> DEFINE batch == run[r].batch
           at == run[r].at
<1>1. PICK i \in batch, b \in BOOLEAN :
         /\ \A k \in batch : i.uid <= k.uid
         /\ run' = Taken(r, i, b)
         /\ \/ settled' = settled \cup {i} /\ b = run[r].blocked
            \/ settled' = settled /\ b = TRUE
  BY Shapes DEF Ingest
<1>2. /\ UNCHANGED <<row, status, epoch, uid, uidNext, arrived, since>>
      /\ UNCHANGED <<mailbox, server>>
      /\ run[r].stage = "ingest" /\ status # "absent"
  BY DEF Ingest, mailbox, server, BeforeFirst
<1>3. i \in Known /\ i \in Identity /\ batch \subseteq Known /\ i.uid \in Nat /\ at.uid \in Nat
  BY Shapes DEF Known
<1>4. /\ \A q \in Runs \ {r} : run'[q] = run[q]
      /\ run'[r].stage = "ingest" /\ run'[r].batch = batch \ {i} /\ run'[r].blocked = b
      /\ run'[r].at.epoch = at.epoch /\ run'[r].at.uid = i.uid
  <2>1. run' = [run EXCEPT ![r] = Took(r, i, b)]
    BY <1>1, <1>3, TakenIs
  <2>2. run'[r] = Took(r, i, b) /\ \A q \in Runs \ {r} : run'[q] = run[q]
    BY <2>1, Shapes
  <2>3. Took(r, i, b).blocked = b
    BY Zenon DEF Took
  <2> QED BY <2>2, <2>3 DEF Took
<1>5. at.epoch = row.cursor.epoch /\ \A k, l \in batch : k.uid = l.uid => k = l
  BY <1>2 DEF Batches
<1>6. \A k \in batch \ {i} : k.uid > i.uid
  BY <1>1, <1>3, <1>5, Shapes
<1>7. Identified'
  <2>1. Known' \subseteq Known
    BY <1>1, <1>3, <1>4 DEF Known
  <2> QED BY <1>2, <2>1 DEF Identified, CursorLive, Names, Present
<1>8. row.lease = r => Ascends(r)'
  BY <1>2, <1>3, <1>4, <1>6, Shapes DEF Holder, Ascends
<1>9. ASSUME row.lease = r, CursorLive PROVE Sweeping(r)'
  <2>1. Sweeping(r) /\ \A k \in batch : k.uid > at.uid
    BY <1>2, <1>9 DEF Sweeps, Holder, Ascends
  <2>2. \A k \in batch : Names(k)
    BY <1>3, <1>9 DEF Identified
  <2>3. ASSUME NEW m \in Mail, ~b, Owed(m)' PROVE uid[m] > i.uid
    <3>1. Owed(m) /\ m # i.mail /\ m \in Present /\ uid[m] \in Nat
      BY <1>1, <1>2, <2>3, Shapes DEF Owed, Present
    <3>2. uid[m] > at.uid
      BY <1>1, <2>1, <2>3, <3>1 DEF Sweeping
    <3>3. uid[m] # i.uid
      BY <2>2, <3>1 DEF Names
    <3>4. ~(uid[m] < i.uid)
      <4> SUFFICES ASSUME uid[m] < i.uid PROVE FALSE
        OBVIOUS
      <4>1. PICK k \in batch : k.mail = m
        BY <2>1, <3>1, <3>2 DEF Sweeping
      <4>2. k.uid = uid[m]
        BY <2>2, <3>1, <4>1 DEF Names
      <4> QED BY <1>1, <1>3, <3>1, <4>2
    <3> QED BY <1>3, <3>1, <3>3, <3>4
  <2>4. ASSUME NEW k \in batch \ {i}, NEW m \in Present, i.uid < uid[m], uid[m] < k.uid
        PROVE  \E l \in batch \ {i} : l.mail = m
    <3>1. i.uid > at.uid /\ uid[m] \in Nat /\ m \in Mail
      BY <2>1, Shapes DEF Present
    <3>2. at.uid < uid[m]
      BY <1>3, <2>4, <3>1
    <3>3. PICK l \in batch : l.mail = m
      BY <2>1, <2>4, <3>2 DEF Sweeping
    <3>4. l # i
      BY <1>3, <2>2, <2>4, <3>1, <3>3 DEF Names
    <3> QED BY <3>3, <3>4
  <2>5. i.uid < uidNext
    BY <2>2 DEF Names
  <2> QED BY <1>2, <1>4, <2>3, <2>4, <2>5 DEF Sweeping, Present
<1> QED BY <1>1, <1>2, <1>4, <1>5, <1>7, <1>8, <1>9, MoveStep DEF RunMoves

LEMMA AdvanceStep ==
  ASSUME IInv, TypeOK', NEW r \in Runs, Advance(r)
  PROVE  IInv'
<1> USE DEF IInv
<1>1. /\ UNCHANGED <<server, settled, since, connecting, status>>
      /\ run[r].stage = "ingest" /\ run[r].batch = {} /\ status # "absent"
      /\ run'[r].stage = "release" /\ run'[r].batch = {}
      /\ \A q \in Runs \ {r} : run'[q] = run[q]
  BY Shapes DEF Advance, Go, Idle, BeforeFirst
<1>2. CASE ~MayAdvance(r)
  <2>1. row' = row
    BY <1>2 DEF Advance
  <2> QED BY <1>1, <2>1, QuietStep
<1>3. CASE MayAdvance(r)
  <2>1. row'.cursor = run[r].at /\ row'.lease = r /\ row.lease = r /\ ~run[r].blocked
    BY <1>3, Shapes DEF Advance, MayAdvance, Watch
  <2>2. row'.cursor.epoch = row.cursor.epoch
    BY <1>1, <2>1 DEF Batches
  <2>3. UNCHANGED <<epoch, uid, uidNext, arrived>> /\ (CursorLive' <=> CursorLive)
    BY <1>1, <2>2 DEF server, CursorLive
  <2>4. Known' \subseteq Known
    BY <1>1 DEF Known
  <2>5. Numbered' /\ BeforeFirst' /\ Batches' /\ Probes' /\ Holder' /\ Sweeps'
    BY <1>1, <2>1, <2>2, <2>3 DEF Numbered, Present, BeforeFirst, Batches, Probes, SeenRightly,
                                  Holder, Ascends, Sweeps
  <2>6. Identified'
    BY <1>1, <2>2, <2>3, <2>4 DEF Identified, Names, Present
  <2>7. Covered'
    BY <1>1, <2>1, <2>3 DEF Covered, Sweeps, Sweeping, Owed, Present
  <2> QED BY <2>5, <2>6, <2>7
<1> QED BY <1>2, <1>3

-----------------------------------------------------------------------------
LEMMA IInvHolds == Spec => []IInv
<1>1. Init /\ TypeOK => IInv
  <2> SUFFICES ASSUME Init, TypeOK PROVE IInv
    OBVIOUS
  <2>1. Known = {} /\ Present = {}
    BY DEF Init, Known, Present, Idle
  <2>2. \A m \in Mail : m > arrived
    BY DEF Init, Mail
  <2> QED BY <2>1, <2>2 DEF Init, Idle, IInv, Numbered, BeforeFirst, Batches, Probes, Identified,
                      Covered, CursorLive, Holder, Ascends, Sweeps
<1>2. IInv /\ TypeOK' /\ [Next]_vars => IInv'
  <2> SUFFICES ASSUME IInv, TypeOK', [Next]_vars PROVE IInv'
    OBVIOUS
  <2>1. CASE UNCHANGED vars \/ Disconnect \/ LeaseLapses
    <3>1. row'.cursor = row.cursor /\ (row'.lease = row.lease \/ row'.lease = Free)
      BY <2>1, Shapes DEF IInv, vars, mailbox, Disconnect, LeaseLapses, Watch
    <3>2. run' = run /\ UNCHANGED <<server, settled, since, connecting>>
      BY <2>1 DEF vars, mailbox, Disconnect, LeaseLapses
    <3>3. status' = "absent" <=> status = "absent"
      BY <2>1 DEF vars, mailbox, Disconnect, LeaseLapses
    <3> QED BY <3>1, <3>2, <3>3, ImapAssumption, QuietStep
  <2>2. ASSUME NEW r \in Runs, Tick(r) \/ ClaimLease(r) \/ Pause(r) \/ Release(r) \/ Throw(r) \/ Kill(r)
        PROVE  IInv'
    <3>1. /\ row'.cursor = row.cursor
          /\ \A q \in Runs : row'.lease = q => row.lease = q \/ q = r
      BY <2>2, Shapes, ImapAssumption
         DEF IInv, Tick, ClaimLease, Pause, Release, Throw, Kill, mailbox, Watch
    <3>2. /\ run'[r].stage \notin {"fetch", "ingest"} /\ run'[r].batch = {}
          /\ \A q \in Runs \ {r} : run'[q] = run[q]
      BY <2>2, Shapes DEF IInv, Tick, ClaimLease, Pause, Release, Throw, Kill, Go, Idle
    <3>3. UNCHANGED <<server, settled, since, connecting>>
      BY <2>2 DEF Tick, ClaimLease, Pause, Release, Throw, Kill, mailbox
    <3>4. status # "absent" /\ status' # "absent"
      BY <2>2 DEF IInv, BeforeFirst, LeasedStages, Tick, ClaimLease, Pause, Release, Throw, Kill, mailbox
    <3> QED BY <3>1, <3>2, <3>3, <3>4, QuietStep
  <2> QED BY <2>1, <2>2, ArriveStep, ExpungeStep, RenumberStep, ConnectStep, PersistStep,
             ReadStep, FetchStep, IngestStep, AdvanceStep DEF Next, RunStep
<1> QED BY <1>1, <1>2, TypeCorrect, PTL DEF Spec

(* No message that came since the connect is skipped or filed twice, for    *)
(* any number of messages, runs, connects, renumberings and faults.         *)
THEOREM EachMailIsFiledOnce == Spec => []EachMailOnce
<1>1. IInv => EachMailOnce
  BY DEF IInv, EachMailOnce, Covered, CursorLive, Identified, Known
<1> QED BY <1>1, IInvHolds, PTL

(* The cursor never moves back once it is seeded, and never leaves its      *)
(* epoch.                                                                   *)
THEOREM CursorOnlyMovesUp == Spec => CursorNeverBack
<1> DEFINE Up == status # "absent" =>
              /\ row'.cursor.epoch = row.cursor.epoch
              /\ row'.cursor.uid >= row.cursor.uid
<1>1. IInv /\ [Next]_vars => Up
  <2> SUFFICES ASSUME IInv, [Next]_vars, status # "absent"
               PROVE  /\ row'.cursor.epoch = row.cursor.epoch
                      /\ row'.cursor.uid >= row.cursor.uid
    OBVIOUS
  <2>0. row \in Watch /\ row.cursor.uid \in Nat
    BY Shapes DEF IInv
  <2>1. ASSUME NEW r \in Runs, Advance(r), row' # row
        PROVE  /\ row'.cursor.epoch = row.cursor.epoch
               /\ row'.cursor.uid >= row.cursor.uid
    <3>1. row'.cursor = run[r].at /\ row.lease = r /\ run[r].stage = "ingest"
      BY <2>0, <2>1 DEF Advance, MayAdvance, Watch
    <3> QED BY <3>1 DEF IInv, Batches, Holder, Ascends
  <2>2. ASSUME ~\E r \in Runs : Advance(r) PROVE row'.cursor = row.cursor
    BY <2>0, <2>2 DEF Next, RunStep, vars, mailbox, Watch, Arrive, Renumber, Expunge, Probe, ConnectFails,
          ConnectPersists, Seeds, Disconnect, Tick, ClaimLease, ReadCursor, FetchBatch, Pause, Ingest,
          Release, Throw, Kill, LeaseLapses
  <2> QED BY <2>0, <2>1, <2>2
<1>2. IInv /\ [Next]_vars => [Up]_vars
  BY <1>1
<1> QED BY <1>2, IInvHolds, PTL DEF Spec, CursorNeverBack
=============================================================================
