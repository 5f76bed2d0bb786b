-------------------------- MODULE SyncReceiverProofs --------------------------
(***************************************************************************)
(* Proofs about the delivery-only receiver, for any set of deliveries,     *)
(* objects they share, failures, damage and retries.                       *)
(*                                                                         *)
(* A run updates one record at a time in memory and saves the whole state, *)
(* so the argument follows what memory knows and the disk does not:        *)
(* MemoryIsAhead says by how much, ReceiptIsPrepared what the steps before *)
(* a receipt have made sure of, RecordsAreEarned what a wallpaper status   *)
(* says about the commands that were really started.                       *)
(***************************************************************************)
EXTENDS SyncReceiver, TLAPS

-----------------------------------------------------------------------------
(* Records, updates and saves *)

\* A record whose error changes keeps its other fields.
LEMMA ErrorSet ==
  ASSUME NEW r \in Record, NEW b \in BOOLEAN
  PROVE  LET e == [r EXCEPT !.error = b]
         IN e \in Record /\ e.status = r.status /\ e.wallpaper = r.wallpaper
BY DEF Record

\* A record that is settled keeps its wallpaper status.
LEMMA StatusSet ==
  ASSUME NEW r \in Record
  PROVE  LET e == [r EXCEPT !.status = "acknowledged", !.error = FALSE]
         IN /\ e \in Record
            /\ e.status = "acknowledged" /\ e.wallpaper = r.wallpaper
BY DEF Record, Statuses

\* A record whose wallpaper status changes keeps what is known of the receipt.
LEMMA WallpaperSet ==
  ASSUME NEW r \in Record, NEW w \in Wallpapers
  PROVE  LET e == [r EXCEPT !.wallpaper = w]
         IN e \in Record /\ e.status = r.status /\ e.wallpaper = w
BY DEF Record

LEMMA WallpaperAndErrorSet ==
  ASSUME NEW r \in Record, NEW w \in Wallpapers, NEW b \in BOOLEAN
  PROVE  LET e == [r EXCEPT !.wallpaper = w, !.error = b]
         IN e \in Record /\ e.status = r.status /\ e.wallpaper = w
BY DEF Record

\* No record reads as its absence.
LEMMA RecordIsSome == ASSUME NEW r \in Record PROVE r # None
BY SyncAssumption

\* Update writes one record and leaves the others alone.
LEMMA UpdateEffect ==
  ASSUME TypeOK, NEW d \in Deliveries, NEW r \in Record, Update(d, r)
  PROVE  /\ mem' \in State
         /\ mem'[d] = r /\ mem'[d] # None
         /\ \A e \in Deliveries : e # d => mem'[e] = mem[e]
BY RecordIsSome DEF TypeOK, Update, State

\* Save makes the disk equal to memory, or leaves it alone and spends a failure.
LEMMA SaveEffect ==
  ASSUME TypeOK, mem' \in State, NEW next, NEW failed, Save(next, failed)
  PROVE  /\ disk' \in State /\ fails' \in 0..MaxFails
         /\ \/ pc' = next /\ disk' = mem'
            \/ pc' = failed /\ disk' = disk
BY SyncAssumption DEF TypeOK, Save, Failing

\* A failure is within its bound.
LEMMA FailingTyped ==
  ASSUME TypeOK, Failing PROVE fails' \in 0..MaxFails
BY SyncAssumption DEF TypeOK, Failing

-----------------------------------------------------------------------------
(* The initial states *)

LEMMA InitEstablishes == ASSUME Init PROVE SyncInv
<1> DEFINE old == [status |-> "acknowledged", wallpaper |-> "pending", error |-> FALSE]
<1>r. old \in Record /\ old.status = "acknowledged" /\ old.wallpaper = "pending"
  BY DEF Record, Statuses, Wallpapers
<1>s. received \subseteq Deliveries
  BY SyncAssumption DEF Init
<1>i. disk = [d \in Deliveries |-> IF d \in received THEN old ELSE None]
  BY DEF Init
<1> HIDE DEF old
<1>d. \A d \in Deliveries : /\ d \in received => disk[d] = old
                            /\ d \notin received => disk[d] = None
  BY <1>i, Zenon
<1>n. old # None
  BY <1>r, RecordIsSome
<1>e. \A d \in Deliveries : disk[d] # None <=> d \in received
  BY <1>d, <1>n, Zenon
<1>w. \A d \in Deliveries : disk[d] # None => disk[d].wallpaper = "pending"
  BY <1>d, <1>r, Zenon
<1>m. mem = disk
  BY DEF Init
<1>t. disk \in State
  BY <1>i, <1>r DEF State
<1>1. TypeOK
  BY <1>t, <1>s, <1>m, SyncAssumption DEF Init, TypeOK
<1>2. ReceiptIsBacked
  <2> SUFFICES ASSUME NEW e \in Deliveries PROVE ReceiptIsBacked!(e)
    BY Zenon DEF ReceiptIsBacked
  <2>1. \A d \in received : library[ObjectOf[d]] = "good"
    <3>1. library = [o \in Objects |->
                       IF \E d \in received : ObjectOf[d] = o THEN "good" ELSE "absent"]
      BY DEF Init
    <3> QED
      BY <3>1, <1>s, SyncAssumption
  <2> QED
    BY <1>e, <2>1 DEF ReceiptIsBacked, Verified
<1>p. pc = "stopped" /\ world = [d \in Deliveries |-> "none"]
  BY DEF Init
<1>3. MemoryIsAhead
  <2> SUFFICES ASSUME NEW e \in Deliveries PROVE MemoryIsAhead!(e)
    BY Zenon DEF MemoryIsAhead
  <2> QED
    BY <1>e, <1>m, <1>p DEF MemoryIsAhead, Reconciling, Visiting
<1>4. RecordsAreEarned
  <2> SUFFICES ASSUME NEW e \in Deliveries PROVE RecordsAreEarned!(e)
    BY Zenon DEF RecordsAreEarned
  <2> QED
    BY <1>w, <1>p DEF RecordsAreEarned, Earned
<1>5. CurrentIsRecorded /\ CurrentIsVisited /\ ReceiptIsPrepared /\ QueueIsEligible
  BY <1>p DEF CurrentIsRecorded, CurrentIsVisited, Visiting, ReceiptIsPrepared,
              QueueIsEligible, Queueing
<1> QED
  BY <1>1, <1>2, <1>3, <1>4, <1>5 DEF SyncInv

-----------------------------------------------------------------------------
(* Steps that leave the records alone *)

\* A run begins with what the disk holds.
LEMMA BeginKeeps ==
  ASSUME SyncInv, NEW m \in {"sync", "retry", "retry_uncertain"}, Begin(m),
         retries' \in 0..MaxRetries
  PROVE  SyncInv'
<1> USE DEF SyncInv, relay, setup, loop, ghosts
<1>1. TypeOK'
  BY DEF Begin, Load, TypeOK, State
<1>2. ReceiptIsBacked'
  <2> SUFFICES ASSUME NEW e \in Deliveries PROVE ReceiptIsBacked!(e)'
    BY Zenon DEF ReceiptIsBacked
  <2> QED
    BY DEF Begin, Load, ReceiptIsBacked, Verified, TypeOK
<1>3. CurrentIsRecorded'
  BY DEF Begin, Load, CurrentIsRecorded, TypeOK
<1>4. CurrentIsVisited'
  BY DEF Begin, Load, CurrentIsVisited, Visiting, TypeOK
<1>5. MemoryIsAhead'
  <2> SUFFICES ASSUME NEW e \in Deliveries PROVE MemoryIsAhead!(e)'
    BY Zenon DEF MemoryIsAhead
  <2> QED
    BY DEF Begin, Load, MemoryIsAhead, Reconciling, Visiting, TypeOK,
        ReceiptIsBacked
<1>6. ReceiptIsPrepared'
  BY DEF Begin, Load, ReceiptIsPrepared, Verified, TypeOK
<1>7. RecordsAreEarned'
  <2> SUFFICES ASSUME NEW e \in Deliveries PROVE RecordsAreEarned!(e)'
    BY Zenon DEF RecordsAreEarned
  <2> QED
    BY DEF Begin, Load, RecordsAreEarned, Earned, Fresh, TypeOK
<1>8. QueueIsEligible'
  BY DEF Begin, Load, QueueIsEligible, Queueing, Eligible, MayStart, Fresh,
      TypeOK
<1> QED
  BY <1>1, <1>2, <1>3, <1>4, <1>5, <1>6, <1>7, <1>8

\* The receipt of a reconciled record: its file was verified, its record is on disk.
LEMMA AckSendKeeps ==
  ASSUME SyncInv, AckSend
  PROVE  SyncInv'
<1> USE DEF SyncInv, relay, setup, loop, ghosts
<1>1. TypeOK'
  BY FailingTyped DEF AckSend, Acknowledge, TypeOK, State, CurrentIsRecorded
<1>2. ReceiptIsBacked'
  <2> SUFFICES ASSUME NEW e \in Deliveries PROVE ReceiptIsBacked!(e)'
    BY Zenon DEF ReceiptIsBacked
  <2> QED
    BY DEF AckSend, Acknowledge, ReceiptIsBacked, Verified, TypeOK,
        MemoryIsAhead, ReceiptIsPrepared, Reconciling, CurrentIsRecorded
<1>3. CurrentIsRecorded'
  BY DEF AckSend, Acknowledge, CurrentIsRecorded, TypeOK
<1>4. CurrentIsVisited'
  BY DEF AckSend, Acknowledge, CurrentIsVisited, Visiting, TypeOK
<1>5. MemoryIsAhead'
  <2> SUFFICES ASSUME NEW e \in Deliveries PROVE MemoryIsAhead!(e)'
    BY Zenon DEF MemoryIsAhead
  <2> QED
    BY DEF AckSend, Acknowledge, MemoryIsAhead, Reconciling, Visiting,
        TypeOK
<1>6. ReceiptIsPrepared'
  BY DEF AckSend, Acknowledge, ReceiptIsPrepared, Verified, TypeOK
<1>7. RecordsAreEarned'
  <2> SUFFICES ASSUME NEW e \in Deliveries PROVE RecordsAreEarned!(e)'
    BY Zenon DEF RecordsAreEarned
  <2> QED
    BY DEF AckSend, Acknowledge, RecordsAreEarned, Earned, Fresh, TypeOK
<1>8. QueueIsEligible'
  BY DEF AckSend, Acknowledge, QueueIsEligible, Queueing, Eligible,
      MayStart, Fresh, TypeOK
<1> QED
  BY <1>1, <1>2, <1>3, <1>4, <1>5, <1>6, <1>7, <1>8

\* The scan starts with nothing unsaved.
LEMMA ScanKeeps ==
  ASSUME SyncInv, Scan
  PROVE  SyncInv'
<1> USE DEF SyncInv, relay, setup, loop, ghosts
<1>1. TypeOK'
  BY DEF Scan, TypeOK, State
<1>2. ReceiptIsBacked'
  <2> SUFFICES ASSUME NEW e \in Deliveries PROVE ReceiptIsBacked!(e)'
    BY Zenon DEF ReceiptIsBacked
  <2> QED
    BY DEF Scan, ReceiptIsBacked, Verified, TypeOK
<1>3. CurrentIsRecorded'
  BY DEF Scan, CurrentIsRecorded, TypeOK
<1>4. CurrentIsVisited'
  BY DEF Scan, CurrentIsVisited, Visiting, TypeOK
<1>5. MemoryIsAhead'
  <2> SUFFICES ASSUME NEW e \in Deliveries PROVE MemoryIsAhead!(e)'
    BY Zenon DEF MemoryIsAhead
  <2> QED
    BY DEF Scan, MemoryIsAhead, Reconciling, Visiting, TypeOK
<1>6. ReceiptIsPrepared'
  BY DEF Scan, ReceiptIsPrepared, Verified, TypeOK
<1>7. RecordsAreEarned'
  <2> SUFFICES ASSUME NEW e \in Deliveries PROVE RecordsAreEarned!(e)'
    BY Zenon DEF RecordsAreEarned
  <2> QED
    BY DEF Scan, RecordsAreEarned, Earned, Fresh, TypeOK
<1>8. QueueIsEligible'
  BY DEF Scan, QueueIsEligible, Queueing, Eligible, MayStart, Fresh, TypeOK
<1> QED
  BY <1>1, <1>2, <1>3, <1>4, <1>5, <1>6, <1>7, <1>8

\* Only an object that is not verified is moved away: no receipt rests on it.
LEMMA DeliverKeeps ==
  ASSUME SyncInv, NEW d \in Deliveries, Deliver(d)
  PROVE  SyncInv'
<1> USE DEF SyncInv, relay, setup, loop, ghosts
<1>1. TypeOK'
  BY FailingTyped, SyncAssumption DEF Deliver, Quarantine, TypeOK, State
<1>2. ReceiptIsBacked'
  <2> SUFFICES ASSUME NEW e \in Deliveries PROVE ReceiptIsBacked!(e)'
    BY Zenon DEF ReceiptIsBacked
  <2> QED
    BY SyncAssumption DEF Deliver, Quarantine, ReceiptIsBacked, Verified,
        TypeOK
<1>3. CurrentIsRecorded'
  BY DEF Deliver, Quarantine, CurrentIsRecorded, TypeOK
<1>4. CurrentIsVisited'
  BY DEF Deliver, Quarantine, CurrentIsVisited, Visiting, TypeOK
<1>5. MemoryIsAhead'
  <2> SUFFICES ASSUME NEW e \in Deliveries PROVE MemoryIsAhead!(e)'
    BY Zenon DEF MemoryIsAhead
  <2> QED
    BY DEF Deliver, Quarantine, MemoryIsAhead, Reconciling, Visiting, TypeOK
<1>6. ReceiptIsPrepared'
  BY DEF Deliver, Quarantine, ReceiptIsPrepared, Verified, TypeOK,
      MemoryIsAhead, Visiting
<1>7. RecordsAreEarned'
  <2> SUFFICES ASSUME NEW e \in Deliveries PROVE RecordsAreEarned!(e)'
    BY Zenon DEF RecordsAreEarned
  <2> QED
    BY DEF Deliver, Quarantine, RecordsAreEarned, Earned, Fresh, TypeOK
<1>8. QueueIsEligible'
  BY DEF Deliver, Quarantine, QueueIsEligible, Queueing, Eligible, MayStart,
      Fresh, TypeOK
<1> QED
  BY <1>1, <1>2, <1>3, <1>4, <1>5, <1>6, <1>7, <1>8

\* What was received is in the library under its own digest.
LEMMA ReceiveKeeps ==
  ASSUME SyncInv, Receive
  PROVE  SyncInv'
<1> USE DEF SyncInv, relay, setup, loop, ghosts
<1>1. TypeOK'
  BY FailingTyped, SyncAssumption DEF Receive, Unreceived, TypeOK, State
<1>2. ReceiptIsBacked'
  <2> SUFFICES ASSUME NEW e \in Deliveries PROVE ReceiptIsBacked!(e)'
    BY Zenon DEF ReceiptIsBacked
  <2> QED
    BY SyncAssumption DEF Receive, Unreceived, ReceiptIsBacked, Verified,
        TypeOK
<1>3. CurrentIsRecorded'
  BY DEF Receive, Unreceived, CurrentIsRecorded, TypeOK
<1>4. CurrentIsVisited'
  BY DEF Receive, Unreceived, CurrentIsVisited, Visiting, TypeOK
<1>5. MemoryIsAhead'
  <2> SUFFICES ASSUME NEW e \in Deliveries PROVE MemoryIsAhead!(e)'
    BY Zenon DEF MemoryIsAhead
  <2> QED
    BY DEF Receive, Unreceived, MemoryIsAhead, Reconciling, Visiting, TypeOK
<1>6. ReceiptIsPrepared'
  BY SyncAssumption DEF Receive, Unreceived, ReceiptIsPrepared, Verified,
      TypeOK, CurrentIsRecorded
<1>7. RecordsAreEarned'
  <2> SUFFICES ASSUME NEW e \in Deliveries PROVE RecordsAreEarned!(e)'
    BY Zenon DEF RecordsAreEarned
  <2> QED
    BY DEF Receive, Unreceived, RecordsAreEarned, Earned, Fresh, TypeOK
<1>8. QueueIsEligible'
  BY DEF Receive, Unreceived, QueueIsEligible, Queueing, Eligible, MayStart,
      Fresh, TypeOK
<1> QED
  BY <1>1, <1>2, <1>3, <1>4, <1>5, <1>6, <1>7, <1>8

\* The receipt of a delivery whose record was saved.
LEMMA ConfirmKeeps ==
  ASSUME SyncInv, Confirm
  PROVE  SyncInv'
<1> USE DEF SyncInv, relay, setup, loop, ghosts
<1>1. TypeOK'
  BY FailingTyped DEF Confirm, Acknowledge, TypeOK, State, CurrentIsRecorded
<1>2. ReceiptIsBacked'
  <2> SUFFICES ASSUME NEW e \in Deliveries PROVE ReceiptIsBacked!(e)'
    BY Zenon DEF ReceiptIsBacked
  <2> QED
    BY DEF Confirm, Acknowledge, ReceiptIsBacked, Verified, TypeOK,
        MemoryIsAhead, ReceiptIsPrepared, Reconciling, CurrentIsRecorded
<1>3. CurrentIsRecorded'
  BY DEF Confirm, Acknowledge, CurrentIsRecorded, TypeOK
<1>4. CurrentIsVisited'
  BY DEF Confirm, Acknowledge, CurrentIsVisited, Visiting, TypeOK
<1>5. MemoryIsAhead'
  <2> SUFFICES ASSUME NEW e \in Deliveries PROVE MemoryIsAhead!(e)'
    BY Zenon DEF MemoryIsAhead
  <2> QED
    BY DEF Confirm, Acknowledge, MemoryIsAhead, Reconciling, Visiting,
        TypeOK
<1>6. ReceiptIsPrepared'
  BY DEF Confirm, Acknowledge, ReceiptIsPrepared, Verified, TypeOK
<1>7. RecordsAreEarned'
  <2> SUFFICES ASSUME NEW e \in Deliveries PROVE RecordsAreEarned!(e)'
    BY Zenon DEF RecordsAreEarned
  <2> QED
    BY DEF Confirm, Acknowledge, RecordsAreEarned, Earned, Fresh, TypeOK
<1>8. QueueIsEligible'
  BY DEF Confirm, Acknowledge, QueueIsEligible, Queueing, Eligible,
      MayStart, Fresh, TypeOK
<1> QED
  BY <1>1, <1>2, <1>3, <1>4, <1>5, <1>6, <1>7, <1>8

\* The queue follows the deliveries.
LEMMA EndDeliveriesKeeps ==
  ASSUME SyncInv, EndDeliveries
  PROVE  SyncInv'
<1> USE DEF SyncInv, relay, setup, loop, ghosts
<1>1. TypeOK'
  BY DEF EndDeliveries, TypeOK, State
<1>2. ReceiptIsBacked'
  <2> SUFFICES ASSUME NEW e \in Deliveries PROVE ReceiptIsBacked!(e)'
    BY Zenon DEF ReceiptIsBacked
  <2> QED
    BY DEF EndDeliveries, ReceiptIsBacked, Verified, TypeOK
<1>3. CurrentIsRecorded'
  BY DEF EndDeliveries, CurrentIsRecorded, TypeOK
<1>4. CurrentIsVisited'
  BY DEF EndDeliveries, CurrentIsVisited, Visiting, TypeOK
<1>5. MemoryIsAhead'
  <2> SUFFICES ASSUME NEW e \in Deliveries PROVE MemoryIsAhead!(e)'
    BY Zenon DEF MemoryIsAhead
  <2> QED
    BY DEF EndDeliveries, MemoryIsAhead, Reconciling, Visiting, TypeOK
<1>6. ReceiptIsPrepared'
  BY DEF EndDeliveries, ReceiptIsPrepared, Verified, TypeOK
<1>7. RecordsAreEarned'
  <2> SUFFICES ASSUME NEW e \in Deliveries PROVE RecordsAreEarned!(e)'
    BY Zenon DEF RecordsAreEarned
  <2> QED
    BY DEF EndDeliveries, RecordsAreEarned, Earned, Fresh, TypeOK
<1>8. QueueIsEligible'
  BY DEF EndDeliveries, QueueIsEligible, Queueing, Eligible, MayStart,
      Fresh, TypeOK
<1> QED
  BY <1>1, <1>2, <1>3, <1>4, <1>5, <1>6, <1>7, <1>8

\* The run ends with its queue.
LEMMA FinishKeeps ==
  ASSUME SyncInv, Finish
  PROVE  SyncInv'
<1> USE DEF SyncInv, relay, setup, loop, ghosts
<1>1. TypeOK'
  BY DEF Finish, TypeOK, State
<1>2. ReceiptIsBacked'
  <2> SUFFICES ASSUME NEW e \in Deliveries PROVE ReceiptIsBacked!(e)'
    BY Zenon DEF ReceiptIsBacked
  <2> QED
    BY DEF Finish, ReceiptIsBacked, Verified, TypeOK
<1>3. CurrentIsRecorded'
  BY DEF Finish, CurrentIsRecorded, TypeOK
<1>4. CurrentIsVisited'
  BY DEF Finish, CurrentIsVisited, Visiting, TypeOK
<1>5. MemoryIsAhead'
  <2> SUFFICES ASSUME NEW e \in Deliveries PROVE MemoryIsAhead!(e)'
    BY Zenon DEF MemoryIsAhead
  <2> QED
    BY DEF Finish, MemoryIsAhead, Reconciling, Visiting, TypeOK
<1>6. ReceiptIsPrepared'
  BY DEF Finish, ReceiptIsPrepared, Verified, TypeOK
<1>7. RecordsAreEarned'
  <2> SUFFICES ASSUME NEW e \in Deliveries PROVE RecordsAreEarned!(e)'
    BY Zenon DEF RecordsAreEarned
  <2> QED
    BY DEF Finish, RecordsAreEarned, Earned, Fresh, TypeOK
<1>8. QueueIsEligible'
  BY DEF Finish, QueueIsEligible, Queueing, Eligible, MayStart, Fresh,
      TypeOK
<1> QED
  BY <1>1, <1>2, <1>3, <1>4, <1>5, <1>6, <1>7, <1>8

\* The relay has something new.
LEMMA SenderStoresKeeps ==
  ASSUME SyncInv, NEW d \in Deliveries, SenderStores(d)
  PROVE  SyncInv'
<1> USE DEF SyncInv, relay, setup, loop, ghosts
<1>1. TypeOK'
  BY DEF SenderStores, TypeOK, State
<1>2. ReceiptIsBacked'
  <2> SUFFICES ASSUME NEW e \in Deliveries PROVE ReceiptIsBacked!(e)'
    BY Zenon DEF ReceiptIsBacked
  <2> QED
    BY DEF SenderStores, ReceiptIsBacked, Verified, TypeOK
<1>3. CurrentIsRecorded'
  BY DEF SenderStores, CurrentIsRecorded, TypeOK
<1>4. CurrentIsVisited'
  BY DEF SenderStores, CurrentIsVisited, Visiting, TypeOK
<1>5. MemoryIsAhead'
  <2> SUFFICES ASSUME NEW e \in Deliveries PROVE MemoryIsAhead!(e)'
    BY Zenon DEF MemoryIsAhead
  <2> QED
    BY DEF SenderStores, MemoryIsAhead, Reconciling, Visiting, TypeOK
<1>6. ReceiptIsPrepared'
  BY DEF SenderStores, ReceiptIsPrepared, Verified, TypeOK
<1>7. RecordsAreEarned'
  <2> SUFFICES ASSUME NEW e \in Deliveries PROVE RecordsAreEarned!(e)'
    BY Zenon DEF RecordsAreEarned
  <2> QED
    BY DEF SenderStores, RecordsAreEarned, Earned, Fresh, TypeOK
<1>8. QueueIsEligible'
  BY DEF SenderStores, QueueIsEligible, Queueing, Eligible, MayStart, Fresh,
      TypeOK
<1> QED
  BY <1>1, <1>2, <1>3, <1>4, <1>5, <1>6, <1>7, <1>8

\* Damage is remembered with the object.
LEMMA DamageKeeps ==
  ASSUME SyncInv, NEW o \in Objects, Damage(o)
  PROVE  SyncInv'
<1> USE DEF SyncInv, relay, setup, loop, ghosts
<1>1. TypeOK'
  BY SyncAssumption DEF Damage, TypeOK, State
<1>2. ReceiptIsBacked'
  <2> SUFFICES ASSUME NEW e \in Deliveries PROVE ReceiptIsBacked!(e)'
    BY Zenon DEF ReceiptIsBacked
  <2> QED
    BY SyncAssumption DEF Damage, ReceiptIsBacked, Verified, TypeOK
<1>3. CurrentIsRecorded'
  BY DEF Damage, CurrentIsRecorded, TypeOK
<1>4. CurrentIsVisited'
  BY DEF Damage, CurrentIsVisited, Visiting, TypeOK
<1>5. MemoryIsAhead'
  <2> SUFFICES ASSUME NEW e \in Deliveries PROVE MemoryIsAhead!(e)'
    BY Zenon DEF MemoryIsAhead
  <2> QED
    BY DEF Damage, MemoryIsAhead, Reconciling, Visiting, TypeOK
<1>6. ReceiptIsPrepared'
  BY SyncAssumption DEF Damage, ReceiptIsPrepared, Verified, TypeOK
<1>7. RecordsAreEarned'
  <2> SUFFICES ASSUME NEW e \in Deliveries PROVE RecordsAreEarned!(e)'
    BY Zenon DEF RecordsAreEarned
  <2> QED
    BY DEF Damage, RecordsAreEarned, Earned, Fresh, TypeOK
<1>8. QueueIsEligible'
  BY DEF Damage, QueueIsEligible, Queueing, Eligible, MayStart, Fresh,
      TypeOK
<1> QED
  BY <1>1, <1>2, <1>3, <1>4, <1>5, <1>6, <1>7, <1>8

\* Memory is of no use once the process is gone.
LEMMA CrashKeeps ==
  ASSUME SyncInv, Crash
  PROVE  SyncInv'
<1> USE DEF SyncInv, relay, setup, loop, ghosts
<1>1. TypeOK'
  BY FailingTyped DEF Crash, TypeOK, State
<1>2. ReceiptIsBacked'
  <2> SUFFICES ASSUME NEW e \in Deliveries PROVE ReceiptIsBacked!(e)'
    BY Zenon DEF ReceiptIsBacked
  <2> QED
    BY DEF Crash, ReceiptIsBacked, Verified, TypeOK
<1>3. CurrentIsRecorded'
  BY DEF Crash, CurrentIsRecorded, TypeOK
<1>4. CurrentIsVisited'
  BY DEF Crash, CurrentIsVisited, Visiting, TypeOK
<1>5. MemoryIsAhead'
  <2> SUFFICES ASSUME NEW e \in Deliveries PROVE MemoryIsAhead!(e)'
    BY Zenon DEF MemoryIsAhead
  <2> QED
    BY DEF Crash, MemoryIsAhead, Reconciling, Visiting, TypeOK
<1>6. ReceiptIsPrepared'
  BY DEF Crash, ReceiptIsPrepared, Verified, TypeOK
<1>7. RecordsAreEarned'
  <2> SUFFICES ASSUME NEW e \in Deliveries PROVE RecordsAreEarned!(e)'
    BY Zenon DEF RecordsAreEarned
  <2> QED
    BY DEF Crash, RecordsAreEarned, Earned, Fresh, TypeOK
<1>8. QueueIsEligible'
  BY DEF Crash, QueueIsEligible, Queueing, Eligible, MayStart, Fresh, TypeOK
<1> QED
  BY <1>1, <1>2, <1>3, <1>4, <1>5, <1>6, <1>7, <1>8

-----------------------------------------------------------------------------
(* Steps that write one record *)

\* A receipt that may not have been taken is noted as an error.
LEMMA AckErrorKeeps ==
  ASSUME SyncInv, AckError
  PROVE  SyncInv'
<1> USE DEF SyncInv, relay, setup, loop, ghosts
<1>c. cur \in Deliveries /\ mem[cur] \in Record /\ mem[cur] # None
  BY DEF AckError, NoteError, CurrentIsRecorded, TypeOK, State
<1> DEFINE r == [mem[cur] EXCEPT !.error = TRUE]
<1>n. r \in Record /\ r.status = mem[cur].status /\ r.wallpaper = mem[cur].wallpaper
  BY <1>c, ErrorSet
<1>a. Update(cur, r) /\ Save("acks", "stopped")
  BY DEF AckError, NoteError
<1>f. pc = "ack_error" /\ UNCHANGED <<library, relay, setup, loop, damages, retries, ghosts>>
  BY DEF AckError, NoteError
<1> HIDE DEF r
<1>t. mem' \in State
  BY <1>a, <1>c, <1>n, UpdateEffect
<1>u. /\ mem'[cur] = r /\ mem'[cur] # None
      /\ \A e \in Deliveries : e # cur => mem'[e] = mem[e]
  BY <1>a, <1>c, <1>n, UpdateEffect
<1>s. /\ disk' \in State /\ fails' \in 0..MaxFails
      /\ \/ pc' = "acks" /\ disk' = mem'
         \/ pc' = "stopped" /\ disk' = disk
  BY <1>a, <1>t, SaveEffect
<1>1. TypeOK'
  BY <1>c, <1>n, <1>t, <1>u, <1>s, <1>f DEF TypeOK, State
<1>2. ReceiptIsBacked'
  <2> SUFFICES ASSUME NEW e \in Deliveries PROVE ReceiptIsBacked!(e)'
    BY Zenon DEF ReceiptIsBacked
  <2> QED
    BY <1>c, <1>n, <1>t, <1>u, <1>s, <1>f DEF ReceiptIsBacked, Verified,
        TypeOK, MemoryIsAhead
<1>3. CurrentIsRecorded'
  BY <1>c, <1>n, <1>t, <1>u, <1>s, <1>f DEF CurrentIsRecorded, TypeOK
<1>4. CurrentIsVisited'
  BY <1>c, <1>n, <1>t, <1>u, <1>s, <1>f DEF CurrentIsVisited, Visiting,
      TypeOK
<1>5. MemoryIsAhead'
  <2> SUFFICES ASSUME NEW e \in Deliveries PROVE MemoryIsAhead!(e)'
    BY Zenon DEF MemoryIsAhead
  <2> QED
    BY <1>c, <1>n, <1>t, <1>u, <1>s, <1>f DEF MemoryIsAhead, Reconciling,
        Visiting, TypeOK
<1>6. ReceiptIsPrepared'
  BY <1>c, <1>n, <1>t, <1>u, <1>s, <1>f DEF ReceiptIsPrepared, Verified,
      TypeOK
<1>7. RecordsAreEarned'
  <2> SUFFICES ASSUME NEW e \in Deliveries PROVE RecordsAreEarned!(e)'
    BY Zenon DEF RecordsAreEarned
  <2> QED
    BY <1>c, <1>n, <1>t, <1>u, <1>s, <1>f DEF RecordsAreEarned, Earned,
        Fresh, TypeOK
<1>8. QueueIsEligible'
  BY <1>c, <1>n, <1>t, <1>u, <1>s, <1>f DEF QueueIsEligible, Queueing,
      Eligible, MayStart, Fresh, TypeOK
<1> QED
  BY <1>1, <1>2, <1>3, <1>4, <1>5, <1>6, <1>7, <1>8

\* A taken receipt is recorded.
LEMMA AckRecordKeeps ==
  ASSUME SyncInv, AckRecord
  PROVE  SyncInv'
<1> USE DEF SyncInv, relay, setup, loop, ghosts
<1>c. cur \in Deliveries /\ mem[cur] \in Record /\ mem[cur] # None
  BY DEF AckRecord, CurrentIsRecorded, TypeOK, State
<1> DEFINE r == [mem[cur] EXCEPT !.status = "acknowledged", !.error = FALSE]
<1>n. r \in Record /\ r.status = "acknowledged" /\ r.wallpaper = mem[cur].wallpaper
  BY <1>c, StatusSet, Zenon
<1>a. Update(cur, r) /\ Save("acks", "stopped")
  BY DEF AckRecord
<1>f. pc = "ack_record" /\ UNCHANGED <<library, relay, setup, loop, damages, retries, ghosts>>
  BY DEF AckRecord
<1> HIDE DEF r
<1>t. mem' \in State
  BY <1>a, <1>c, <1>n, UpdateEffect
<1>u. /\ mem'[cur] = r /\ mem'[cur] # None
      /\ \A e \in Deliveries : e # cur => mem'[e] = mem[e]
  BY <1>a, <1>c, <1>n, UpdateEffect
<1>s. /\ disk' \in State /\ fails' \in 0..MaxFails
      /\ \/ pc' = "acks" /\ disk' = mem'
         \/ pc' = "stopped" /\ disk' = disk
  BY <1>a, <1>t, SaveEffect
<1>1. TypeOK'
  BY <1>c, <1>n, <1>t, <1>u, <1>s, <1>f DEF TypeOK, State
<1>2. ReceiptIsBacked'
  <2> SUFFICES ASSUME NEW e \in Deliveries PROVE ReceiptIsBacked!(e)'
    BY Zenon DEF ReceiptIsBacked
  <2> QED
    BY <1>c, <1>n, <1>t, <1>u, <1>s, <1>f DEF ReceiptIsBacked, Verified,
        TypeOK, MemoryIsAhead, ReceiptIsPrepared
<1>3. CurrentIsRecorded'
  BY <1>c, <1>n, <1>t, <1>u, <1>s, <1>f DEF CurrentIsRecorded, TypeOK
<1>4. CurrentIsVisited'
  BY <1>c, <1>n, <1>t, <1>u, <1>s, <1>f DEF CurrentIsVisited, Visiting,
      TypeOK
<1>5. MemoryIsAhead'
  <2> SUFFICES ASSUME NEW e \in Deliveries PROVE MemoryIsAhead!(e)'
    BY Zenon DEF MemoryIsAhead
  <2> QED
    BY <1>c, <1>n, <1>t, <1>u, <1>s, <1>f DEF MemoryIsAhead, Reconciling,
        Visiting, TypeOK, ReceiptIsPrepared
<1>6. ReceiptIsPrepared'
  BY <1>c, <1>n, <1>t, <1>u, <1>s, <1>f DEF ReceiptIsPrepared, Verified,
      TypeOK
<1>7. RecordsAreEarned'
  <2> SUFFICES ASSUME NEW e \in Deliveries PROVE RecordsAreEarned!(e)'
    BY Zenon DEF RecordsAreEarned
  <2> QED
    BY <1>c, <1>n, <1>t, <1>u, <1>s, <1>f DEF RecordsAreEarned, Earned,
        Fresh, TypeOK
<1>8. QueueIsEligible'
  BY <1>c, <1>n, <1>t, <1>u, <1>s, <1>f DEF QueueIsEligible, Queueing,
      Eligible, MayStart, Fresh, TypeOK
<1> QED
  BY <1>1, <1>2, <1>3, <1>4, <1>5, <1>6, <1>7, <1>8

\* So is one that was taken while the deliveries are visited.
LEMMA SettleKeeps ==
  ASSUME SyncInv, Settle
  PROVE  SyncInv'
<1> USE DEF SyncInv, relay, setup, loop, ghosts
<1>c. cur \in Deliveries /\ mem[cur] \in Record /\ mem[cur] # None
  BY DEF Settle, CurrentIsRecorded, TypeOK, State
<1> DEFINE r == [mem[cur] EXCEPT !.status = "acknowledged", !.error = FALSE]
<1>n. r \in Record /\ r.status = "acknowledged" /\ r.wallpaper = mem[cur].wallpaper
  BY <1>c, StatusSet, Zenon
<1>a. Update(cur, r) /\ Save("deliver", "deliver")
  BY DEF Settle
<1>f. pc = "settle" /\ UNCHANGED <<library, relay, setup, loop, damages, retries, ghosts>>
  BY DEF Settle
<1> HIDE DEF r
<1>t. mem' \in State
  BY <1>a, <1>c, <1>n, UpdateEffect
<1>u. /\ mem'[cur] = r /\ mem'[cur] # None
      /\ \A e \in Deliveries : e # cur => mem'[e] = mem[e]
  BY <1>a, <1>c, <1>n, UpdateEffect
<1>s. /\ disk' \in State /\ fails' \in 0..MaxFails
      /\ \/ pc' = "deliver" /\ disk' = mem'
         \/ pc' = "deliver" /\ disk' = disk
  BY <1>a, <1>t, SaveEffect
<1>1. TypeOK'
  BY <1>c, <1>n, <1>t, <1>u, <1>s, <1>f DEF TypeOK, State
<1>2. ReceiptIsBacked'
  <2> SUFFICES ASSUME NEW e \in Deliveries PROVE ReceiptIsBacked!(e)'
    BY Zenon DEF ReceiptIsBacked
  <2> QED
    BY <1>c, <1>n, <1>t, <1>u, <1>s, <1>f DEF ReceiptIsBacked, Verified,
        TypeOK, MemoryIsAhead, ReceiptIsPrepared
<1>3. CurrentIsRecorded'
  BY <1>c, <1>n, <1>t, <1>u, <1>s, <1>f DEF CurrentIsRecorded, TypeOK
<1>4. CurrentIsVisited'
  BY <1>c, <1>n, <1>t, <1>u, <1>s, <1>f DEF CurrentIsVisited, Visiting,
      TypeOK
<1>5. MemoryIsAhead'
  <2> SUFFICES ASSUME NEW e \in Deliveries PROVE MemoryIsAhead!(e)'
    BY Zenon DEF MemoryIsAhead
  <2> QED
    BY <1>c, <1>n, <1>t, <1>u, <1>s, <1>f DEF MemoryIsAhead, Reconciling,
        Visiting, TypeOK, ReceiptIsPrepared, CurrentIsVisited
<1>6. ReceiptIsPrepared'
  BY <1>c, <1>n, <1>t, <1>u, <1>s, <1>f DEF ReceiptIsPrepared, Verified,
      TypeOK
<1>7. RecordsAreEarned'
  <2> SUFFICES ASSUME NEW e \in Deliveries PROVE RecordsAreEarned!(e)'
    BY Zenon DEF RecordsAreEarned
  <2> QED
    BY <1>c, <1>n, <1>t, <1>u, <1>s, <1>f DEF RecordsAreEarned, Earned,
        Fresh, TypeOK
<1>8. QueueIsEligible'
  BY <1>c, <1>n, <1>t, <1>u, <1>s, <1>f DEF QueueIsEligible, Queueing,
      Eligible, MayStart, Fresh, TypeOK
<1> QED
  BY <1>1, <1>2, <1>3, <1>4, <1>5, <1>6, <1>7, <1>8

\* A failed delivery is noted as an error.
LEMMA DeliverErrorKeeps ==
  ASSUME SyncInv, DeliverError
  PROVE  SyncInv'
<1> USE DEF SyncInv, relay, setup, loop, ghosts
<1>c. cur \in Deliveries /\ mem[cur] \in Record /\ mem[cur] # None
  BY DEF DeliverError, NoteError, CurrentIsRecorded, TypeOK, State
<1> DEFINE r == [mem[cur] EXCEPT !.error = TRUE]
<1>n. r \in Record /\ r.status = mem[cur].status /\ r.wallpaper = mem[cur].wallpaper
  BY <1>c, ErrorSet
<1>a. Update(cur, r) /\ Save("deliver", "deliver")
  BY DEF DeliverError, NoteError
<1>f. pc = "deliver_error" /\ UNCHANGED <<library, relay, setup, loop, damages, retries, ghosts>>
  BY DEF DeliverError, NoteError
<1> HIDE DEF r
<1>t. mem' \in State
  BY <1>a, <1>c, <1>n, UpdateEffect
<1>u. /\ mem'[cur] = r /\ mem'[cur] # None
      /\ \A e \in Deliveries : e # cur => mem'[e] = mem[e]
  BY <1>a, <1>c, <1>n, UpdateEffect
<1>s. /\ disk' \in State /\ fails' \in 0..MaxFails
      /\ \/ pc' = "deliver" /\ disk' = mem'
         \/ pc' = "deliver" /\ disk' = disk
  BY <1>a, <1>t, SaveEffect
<1>1. TypeOK'
  BY <1>c, <1>n, <1>t, <1>u, <1>s, <1>f DEF TypeOK, State
<1>2. ReceiptIsBacked'
  <2> SUFFICES ASSUME NEW e \in Deliveries PROVE ReceiptIsBacked!(e)'
    BY Zenon DEF ReceiptIsBacked
  <2> QED
    BY <1>c, <1>n, <1>t, <1>u, <1>s, <1>f DEF ReceiptIsBacked, Verified,
        TypeOK, MemoryIsAhead
<1>3. CurrentIsRecorded'
  BY <1>c, <1>n, <1>t, <1>u, <1>s, <1>f DEF CurrentIsRecorded, TypeOK
<1>4. CurrentIsVisited'
  BY <1>c, <1>n, <1>t, <1>u, <1>s, <1>f DEF CurrentIsVisited, Visiting,
      TypeOK
<1>5. MemoryIsAhead'
  <2> SUFFICES ASSUME NEW e \in Deliveries PROVE MemoryIsAhead!(e)'
    BY Zenon DEF MemoryIsAhead
  <2> QED
    BY <1>c, <1>n, <1>t, <1>u, <1>s, <1>f DEF MemoryIsAhead, Reconciling,
        Visiting, TypeOK, CurrentIsVisited
<1>6. ReceiptIsPrepared'
  BY <1>c, <1>n, <1>t, <1>u, <1>s, <1>f DEF ReceiptIsPrepared, Verified,
      TypeOK
<1>7. RecordsAreEarned'
  <2> SUFFICES ASSUME NEW e \in Deliveries PROVE RecordsAreEarned!(e)'
    BY Zenon DEF RecordsAreEarned
  <2> QED
    BY <1>c, <1>n, <1>t, <1>u, <1>s, <1>f DEF RecordsAreEarned, Earned,
        Fresh, TypeOK
<1>8. QueueIsEligible'
  BY <1>c, <1>n, <1>t, <1>u, <1>s, <1>f DEF QueueIsEligible, Queueing,
      Eligible, MayStart, Fresh, TypeOK
<1> QED
  BY <1>1, <1>2, <1>3, <1>4, <1>5, <1>6, <1>7, <1>8

\* reconcile_pending_acks: a file that is not good is noted, and left for the scan.
LEMMA AckVerifyFailedKeeps ==
  ASSUME SyncInv, NEW d \in Deliveries, AckVerify(d), ~Verified(d)
  PROVE  SyncInv'
<1> USE DEF SyncInv, relay, setup, loop, ghosts
<1>c. d \in Deliveries /\ mem[d] \in Record /\ mem[d] # None
  BY DEF AckVerify, NoteError, MemoryIsAhead, Reconciling, TypeOK, State
<1> DEFINE r == [mem[d] EXCEPT !.error = TRUE]
<1>n. r \in Record /\ r.status = mem[d].status /\ r.wallpaper = mem[d].wallpaper
  BY <1>c, ErrorSet
<1>a. Update(d, r) /\ Save("acks", "stopped")
  BY DEF AckVerify, NoteError
<1>f. /\ pc = "acks" /\ todo' = todo \ {d} /\ cur' = d
      /\ UNCHANGED <<library, relay, setup, handled, damages, retries, ghosts>>
  BY DEF AckVerify, NoteError
<1> HIDE DEF r
<1>t. mem' \in State
  BY <1>a, <1>c, <1>n, UpdateEffect
<1>u. /\ mem'[d] = r /\ mem'[d] # None
      /\ \A e \in Deliveries : e # d => mem'[e] = mem[e]
  BY <1>a, <1>c, <1>n, UpdateEffect
<1>s. /\ disk' \in State /\ fails' \in 0..MaxFails
      /\ \/ pc' = "acks" /\ disk' = mem'
         \/ pc' = "stopped" /\ disk' = disk
  BY <1>a, <1>t, SaveEffect
<1>1. TypeOK'
  BY <1>c, <1>n, <1>t, <1>u, <1>s, <1>f DEF TypeOK, State
<1>2. ReceiptIsBacked'
  <2> SUFFICES ASSUME NEW e \in Deliveries PROVE ReceiptIsBacked!(e)'
    BY Zenon DEF ReceiptIsBacked
  <2> QED
    BY <1>c, <1>n, <1>t, <1>u, <1>s, <1>f DEF ReceiptIsBacked, Verified,
        TypeOK, MemoryIsAhead
<1>3. CurrentIsRecorded'
  BY <1>c, <1>n, <1>t, <1>u, <1>s, <1>f DEF CurrentIsRecorded, TypeOK
<1>4. CurrentIsVisited'
  BY <1>c, <1>n, <1>t, <1>u, <1>s, <1>f DEF CurrentIsVisited, Visiting,
      TypeOK
<1>5. MemoryIsAhead'
  <2> SUFFICES ASSUME NEW e \in Deliveries PROVE MemoryIsAhead!(e)'
    BY Zenon DEF MemoryIsAhead
  <2> QED
    BY <1>c, <1>n, <1>t, <1>u, <1>s, <1>f DEF MemoryIsAhead, Reconciling,
        Visiting, TypeOK
<1>6. ReceiptIsPrepared'
  BY <1>c, <1>n, <1>t, <1>u, <1>s, <1>f DEF ReceiptIsPrepared, Verified,
      TypeOK
<1>7. RecordsAreEarned'
  <2> SUFFICES ASSUME NEW e \in Deliveries PROVE RecordsAreEarned!(e)'
    BY Zenon DEF RecordsAreEarned
  <2> QED
    BY <1>c, <1>n, <1>t, <1>u, <1>s, <1>f DEF RecordsAreEarned, Earned,
        Fresh, TypeOK
<1>8. QueueIsEligible'
  BY <1>c, <1>n, <1>t, <1>u, <1>s, <1>f DEF QueueIsEligible, Queueing,
      Eligible, MayStart, Fresh, TypeOK
<1> QED
  BY <1>1, <1>2, <1>3, <1>4, <1>5, <1>6, <1>7, <1>8

\* A good one is confirmed: its record is on disk.
LEMMA AckVerifiedKeeps ==
  ASSUME SyncInv, NEW d \in Deliveries, AckVerify(d), Verified(d)
  PROVE  SyncInv'
<1> USE DEF SyncInv, relay, setup, loop, ghosts
<1>1. TypeOK'
  BY DEF AckVerify, TypeOK, State
<1>2. ReceiptIsBacked'
  <2> SUFFICES ASSUME NEW e \in Deliveries PROVE ReceiptIsBacked!(e)'
    BY Zenon DEF ReceiptIsBacked
  <2> QED
    BY DEF AckVerify, ReceiptIsBacked, Verified, TypeOK
<1>3. CurrentIsRecorded'
  BY DEF AckVerify, CurrentIsRecorded, TypeOK, MemoryIsAhead, Reconciling
<1>4. CurrentIsVisited'
  BY DEF AckVerify, CurrentIsVisited, Visiting, TypeOK
<1>5. MemoryIsAhead'
  <2> SUFFICES ASSUME NEW e \in Deliveries PROVE MemoryIsAhead!(e)'
    BY Zenon DEF MemoryIsAhead
  <2> QED
    BY DEF AckVerify, MemoryIsAhead, Reconciling, Visiting, TypeOK
<1>6. ReceiptIsPrepared'
  BY DEF AckVerify, ReceiptIsPrepared, Verified, TypeOK
<1>7. RecordsAreEarned'
  <2> SUFFICES ASSUME NEW e \in Deliveries PROVE RecordsAreEarned!(e)'
    BY Zenon DEF RecordsAreEarned
  <2> QED
    BY DEF AckVerify, RecordsAreEarned, Earned, Fresh, TypeOK
<1>8. QueueIsEligible'
  BY DEF AckVerify, QueueIsEligible, Queueing, Eligible, MayStart, Fresh,
      TypeOK
<1> QED
  BY <1>1, <1>2, <1>3, <1>4, <1>5, <1>6, <1>7, <1>8

\* A stored delivery gets its record, or keeps what its record says.
LEMMA RecordStoredKeeps ==
  ASSUME SyncInv, RecordStored
  PROVE  SyncInv'
<1> USE DEF SyncInv, relay, setup, loop, ghosts
<1>c. cur \in Deliveries
  BY DEF RecordStored, CurrentIsRecorded
<1> DEFINE r == IF mem[cur] = None THEN NewRecord(cur) ELSE RepairedRecord(cur)
<1>n. /\ r \in Record
      /\ mem[cur] = None => /\ r.status = "ack_pending"
                            /\ r.wallpaper \in {"pending", "not_applicable"}
      /\ mem[cur] # None => /\ r.status = mem[cur].status
                            /\ r.wallpaper = mem[cur].wallpaper
  <2>1. CASE mem[cur] = None
    <3>1. /\ NewRecord(cur) \in Record
          /\ NewRecord(cur).status = "ack_pending"
          /\ NewRecord(cur).wallpaper \in {"pending", "not_applicable"}
      BY DEF NewRecord, Record, Statuses, Wallpapers
    <3> QED
      BY <2>1, <3>1, Zenon
  <2>2. CASE mem[cur] # None
    <3>1. mem[cur] \in Record
      BY <1>c, <2>2 DEF TypeOK, State
    <3>2. /\ RepairedRecord(cur) \in Record
          /\ RepairedRecord(cur).status = mem[cur].status
          /\ RepairedRecord(cur).wallpaper = mem[cur].wallpaper
      BY <3>1, ErrorSet DEF RepairedRecord
    <3> QED
      BY <2>2, <3>2, Zenon
  <2> QED
    BY <2>1, <2>2, Zenon
<1>a. Update(cur, r) /\ Save("confirm", "deliver")
  BY DEF RecordStored
<1>f. pc = "record" /\ UNCHANGED <<library, relay, setup, loop, damages, retries, ghosts>>
  BY DEF RecordStored
<1> HIDE DEF r
<1>t. mem' \in State
  BY <1>a, <1>c, <1>n, UpdateEffect
<1>u. /\ mem'[cur] = r /\ mem'[cur] # None
      /\ \A e \in Deliveries : e # cur => mem'[e] = mem[e]
  BY <1>a, <1>c, <1>n, UpdateEffect
<1>s. /\ disk' \in State /\ fails' \in 0..MaxFails
      /\ \/ pc' = "confirm" /\ disk' = mem'
         \/ pc' = "deliver" /\ disk' = disk
  BY <1>a, <1>t, SaveEffect
<1>1. TypeOK'
  BY <1>c, <1>n, <1>t, <1>u, <1>s, <1>f DEF TypeOK, State
<1>2. ReceiptIsBacked'
  <2> SUFFICES ASSUME NEW e \in Deliveries PROVE ReceiptIsBacked!(e)'
    BY Zenon DEF ReceiptIsBacked
  <2> QED
    BY <1>c, <1>n, <1>t, <1>u, <1>s, <1>f DEF ReceiptIsBacked, Verified,
        TypeOK, MemoryIsAhead
<1>3. CurrentIsRecorded'
  BY <1>c, <1>n, <1>t, <1>u, <1>s, <1>f DEF CurrentIsRecorded, TypeOK
<1>4. CurrentIsVisited'
  BY <1>c, <1>n, <1>t, <1>u, <1>s, <1>f DEF CurrentIsVisited, Visiting,
      TypeOK
<1>5. MemoryIsAhead'
  <2> SUFFICES ASSUME NEW e \in Deliveries PROVE MemoryIsAhead!(e)'
    BY Zenon DEF MemoryIsAhead
  <2> QED
    BY <1>c, <1>n, <1>t, <1>u, <1>s, <1>f DEF MemoryIsAhead, Reconciling,
        Visiting, TypeOK, CurrentIsVisited
<1>6. ReceiptIsPrepared'
  BY <1>c, <1>n, <1>t, <1>u, <1>s, <1>f DEF ReceiptIsPrepared, Verified,
      TypeOK
<1>7. RecordsAreEarned'
  <2> SUFFICES ASSUME NEW e \in Deliveries PROVE RecordsAreEarned!(e)'
    BY Zenon DEF RecordsAreEarned
  <2> QED
    BY <1>c, <1>n, <1>t, <1>u, <1>s, <1>f DEF RecordsAreEarned, Earned,
        Fresh, TypeOK, ReceiptIsBacked, MemoryIsAhead
<1>8. QueueIsEligible'
  BY <1>c, <1>n, <1>t, <1>u, <1>s, <1>f DEF QueueIsEligible, Queueing,
      Eligible, MayStart, Fresh, TypeOK
<1> QED
  BY <1>1, <1>2, <1>3, <1>4, <1>5, <1>6, <1>7, <1>8

-----------------------------------------------------------------------------
(* The wallpaper queue *)

\* Marking a set of records changes their wallpaper status and nothing else.
LEMMA MarkEffect ==
  ASSUME TypeOK, NEW S \in SUBSET Deliveries, \A e \in S : mem[e] # None,
         NEW w \in Wallpapers,
         mem' = [e \in Deliveries |->
                   IF e \in S THEN [mem[e] EXCEPT !.wallpaper = w] ELSE mem[e]]
  PROVE  /\ mem' \in State
         /\ \A e \in Deliveries :
              /\ mem'[e] = None <=> mem[e] = None
              /\ e \notin S => mem'[e] = mem[e]
              /\ e \in S => mem'[e].status = mem[e].status /\ mem'[e].wallpaper = w
<1>1. \A e \in S : mem[e] \in Record
  BY DEF TypeOK, State
<1>2. \A e \in Deliveries : /\ e \notin S => mem'[e] = mem[e]
                            /\ e \in S => mem'[e] = [mem[e] EXCEPT !.wallpaper = w]
  BY Zenon
<1>3. \A e \in S : /\ mem'[e] \in Record /\ mem'[e] # None
                   /\ mem'[e].status = mem[e].status /\ mem'[e].wallpaper = w
  BY <1>1, <1>2, WallpaperSet, RecordIsSome, Zenon
<1>4. \A e \in Deliveries : mem'[e] \in Record \cup {None}
  BY <1>2, <1>3 DEF TypeOK, State
<1>5. mem' \in State
  BY <1>4 DEF State
<1> QED
  BY <1>2, <1>3, <1>5

\* An interrupted command becomes uncertain, whatever came of it.
LEMMA InterruptedKeeps ==
  ASSUME SyncInv, Interrupted
  PROVE  SyncInv'
<1> USE DEF SyncInv, relay, setup, loop, ghosts
<1> DEFINE S == {d \in Deliveries : mem[d] # None /\ mem[d].wallpaper = "running"}
           next == IF mode = "sync" THEN "acks" ELSE "prepare"
<1>a. /\ mem' = [e \in Deliveries |->
                   IF e \in S THEN [mem[e] EXCEPT !.wallpaper = "uncertain"] ELSE mem[e]]
      /\ \/ pc' = next /\ disk' = disk /\ fails' = fails
         \/ Save(next, "stopped")
  BY DEF Interrupted
<1>f. /\ pc = "interrupted" /\ UNCHANGED <<library, relay, setup, handled, cur>>
      /\ UNCHANGED <<damages, retries, ghosts>>
      /\ todo' = IF mode = "sync" THEN AckPending(mem) ELSE {}
  BY DEF Interrupted
<1>n. next \in {"acks", "prepare"} /\ (next = "acks" <=> mode = "sync")
  OBVIOUS
<1>c. /\ S \in SUBSET Deliveries
      /\ \A e \in S : mem[e] # None /\ mem[e].wallpaper = "running"
  OBVIOUS
<1> HIDE DEF S, next
<1>w. "uncertain" \in Wallpapers
  BY DEF Wallpapers
<1>u. /\ mem' \in State
      /\ \A e \in Deliveries :
           /\ mem'[e] = None <=> mem[e] = None
           /\ e \notin S => mem'[e] = mem[e]
           /\ e \in S => /\ mem'[e].status = mem[e].status
                         /\ mem'[e].wallpaper = "uncertain"
  BY <1>a, <1>c, <1>w, MarkEffect
<1>s. /\ disk' \in State /\ fails' \in 0..MaxFails
      /\ \/ pc' = next /\ (disk' = mem' \/ disk' = disk)
         \/ pc' = "stopped" /\ disk' = disk
  BY <1>a, <1>u, SaveEffect DEF TypeOK
<1>1. TypeOK'
  BY <1>n, <1>c, <1>u, <1>s, <1>f DEF TypeOK, State, AckPending
<1>2. ReceiptIsBacked'
  <2> SUFFICES ASSUME NEW e \in Deliveries PROVE ReceiptIsBacked!(e)'
    BY Zenon DEF ReceiptIsBacked
  <2> QED
    BY <1>n, <1>c, <1>u, <1>s, <1>f DEF ReceiptIsBacked, Verified, TypeOK,
        MemoryIsAhead
<1>3. CurrentIsRecorded'
  BY <1>n, <1>c, <1>u, <1>s, <1>f DEF CurrentIsRecorded, TypeOK
<1>4. CurrentIsVisited'
  BY <1>n, <1>c, <1>u, <1>s, <1>f DEF CurrentIsVisited, Visiting, TypeOK
<1>5. MemoryIsAhead'
  <2> SUFFICES ASSUME NEW e \in Deliveries PROVE MemoryIsAhead!(e)'
    BY Zenon DEF MemoryIsAhead
  <2> QED
    BY <1>n, <1>c, <1>u, <1>s, <1>f DEF MemoryIsAhead, Reconciling,
        Visiting, TypeOK, AckPending
<1>6. ReceiptIsPrepared'
  BY <1>n, <1>c, <1>u, <1>s, <1>f DEF ReceiptIsPrepared, Verified, TypeOK
<1>7. RecordsAreEarned'
  <2> SUFFICES ASSUME NEW e \in Deliveries PROVE RecordsAreEarned!(e)'
    BY Zenon DEF RecordsAreEarned
  <2> QED
    BY <1>n, <1>c, <1>u, <1>s, <1>f DEF RecordsAreEarned, Earned, Fresh,
        TypeOK
<1>8. QueueIsEligible'
  BY <1>n, <1>c, <1>u, <1>s, <1>f DEF QueueIsEligible, Queueing, Eligible,
      MayStart, Fresh, TypeOK
<1> QED
  BY <1>1, <1>2, <1>3, <1>4, <1>5, <1>6, <1>7, <1>8

\* Other files are taken out of the queue, which then holds confirmed images.
LEMMA StartQueueKeeps ==
  ASSUME SyncInv, StartQueue
  PROVE  SyncInv'
<1> USE DEF SyncInv, relay, setup, loop, ghosts
<1> DEFINE S == LegacyNonImages(mem)
<1>a. /\ mem' = [e \in Deliveries |->
                   IF e \in S THEN [mem[e] EXCEPT !.wallpaper = "not_applicable"]
                             ELSE mem[e]]
      /\ \/ pc' = "queue" /\ disk' = disk /\ fails' = fails
         \/ Save("queue", "stopped")
  BY DEF StartQueue
<1>f. /\ pc = "prepare" /\ UNCHANGED <<library, relay, setup, handled, cur>>
      /\ UNCHANGED <<damages, retries, ghosts>>
      /\ todo' = Eligible(mem')
  BY DEF StartQueue
<1>c. /\ S \in SUBSET Deliveries
      /\ \A e \in S : mem[e] # None
      /\ \A e \in Deliveries \ S :
           mem[e] = None \/ IsImage(e) \/ mem[e].wallpaper = "not_applicable"
  BY DEF LegacyNonImages
<1> HIDE DEF S
<1>w. "not_applicable" \in Wallpapers
  BY DEF Wallpapers
<1>u. /\ mem' \in State
      /\ \A e \in Deliveries :
           /\ mem'[e] = None <=> mem[e] = None
           /\ e \notin S => mem'[e] = mem[e]
           /\ e \in S => /\ mem'[e].status = mem[e].status
                         /\ mem'[e].wallpaper = "not_applicable"
  BY <1>a, <1>c, <1>w, MarkEffect
<1>s. /\ disk' \in State /\ fails' \in 0..MaxFails
      /\ \/ pc' = "queue" /\ (disk' = mem' \/ disk' = disk)
         \/ pc' = "stopped" /\ disk' = disk
  BY <1>a, <1>u, SaveEffect DEF TypeOK
<1>1. TypeOK'
  BY <1>c, <1>u, <1>s, <1>f DEF TypeOK, State, Eligible
<1>2. ReceiptIsBacked'
  <2> SUFFICES ASSUME NEW e \in Deliveries PROVE ReceiptIsBacked!(e)'
    BY Zenon DEF ReceiptIsBacked
  <2> QED
    BY <1>c, <1>u, <1>s, <1>f DEF ReceiptIsBacked, Verified, TypeOK,
        MemoryIsAhead
<1>3. CurrentIsRecorded'
  BY <1>c, <1>u, <1>s, <1>f DEF CurrentIsRecorded, TypeOK
<1>4. CurrentIsVisited'
  BY <1>c, <1>u, <1>s, <1>f DEF CurrentIsVisited, Visiting, TypeOK
<1>5. MemoryIsAhead'
  <2> SUFFICES ASSUME NEW e \in Deliveries PROVE MemoryIsAhead!(e)'
    BY Zenon DEF MemoryIsAhead
  <2> QED
    BY <1>c, <1>u, <1>s, <1>f DEF MemoryIsAhead, Reconciling, Visiting,
        TypeOK
<1>6. ReceiptIsPrepared'
  BY <1>c, <1>u, <1>s, <1>f DEF ReceiptIsPrepared, Verified, TypeOK
<1>7. RecordsAreEarned'
  <2> SUFFICES ASSUME NEW e \in Deliveries PROVE RecordsAreEarned!(e)'
    BY Zenon DEF RecordsAreEarned
  <2> QED
    BY <1>c, <1>u, <1>s, <1>f DEF RecordsAreEarned, Earned, Fresh, TypeOK
<1>8. QueueIsEligible'
  BY <1>c, <1>u, <1>s, <1>f DEF QueueIsEligible, Queueing, Eligible,
      MayStart, Fresh, TypeOK
<1> QED
  BY <1>1, <1>2, <1>3, <1>4, <1>5, <1>6, <1>7, <1>8

\* What the queue holds is confirmed, and the mode allows the command for it.
LEMMA QueuedMayStart ==
  ASSUME SyncInv, pc = "queue", NEW d \in todo
  PROVE  /\ d \in Deliveries /\ mem[d] \in Record /\ mem[d] # None
         /\ mem[d].status = "acknowledged" /\ IsImage(d) /\ MayStart(d)
<1>1. d \in Eligible(mem) /\ IsImage(d)
  BY DEF SyncInv, QueueIsEligible, Queueing
<1>2. d \in Deliveries /\ mem[d] # None /\ mem[d].status = "acknowledged"
  BY <1>1 DEF Eligible
<1>3. mem[d] \in Record
  BY <1>2 DEF SyncInv, TypeOK, State
<1>4. MayStart(d)
  <2>1. Earned(d, mem[d].wallpaper) /\ world[d] \in {"none", "unknown", "failed", "applied"}
    BY <1>2 DEF SyncInv, RecordsAreEarned, TypeOK
  <2>2. \/ mem[d].wallpaper \in {"pending", "not_configured"}
        \/ mem[d].wallpaper = "failed" /\ mode \in {"retry", "retry_uncertain"}
        \/ mem[d].wallpaper = "uncertain" /\ mode = "retry_uncertain"
    BY <1>1 DEF Eligible, SyncInv, TypeOK
  <2> QED
    BY <2>1, <2>2 DEF Earned, MayStart, Fresh
<1> QED
  BY <1>1, <1>2, <1>3, <1>4

\* A delivery of the queue gets the status w; a retry that cannot start its
\* command is remembered.
LEMMA QueuedKeeps ==
  ASSUME SyncInv, pc = "queue", NEW d \in todo, NEW r \in Record,
         r.status = mem[d].status,
         r.wallpaper \in {"not_configured", "failed", "running"},
         NEW next \in {"queue", "launch"},
         (next = "launch") <=> (r.wallpaper = "running"),
         Update(d, r), Save(next, "stopped"), todo' = todo \ {d}, cur' = d,
         UNCHANGED <<library, relay, setup, handled, damages, retries, world, damaged>>,
         released \subseteq released', released' \subseteq released \cup {d},
         cleared \subseteq cleared', cleared' \subseteq cleared \cup {d},
         r.wallpaper = "not_configured" /\ mode # "sync" => d \in released',
         r.wallpaper = "failed" /\ mode = "retry_uncertain" => d \in cleared'
  PROVE  SyncInv'
<1> USE DEF SyncInv, relay, setup, loop, ghosts
<1>c. /\ d \in Deliveries /\ mem[d] # None
      /\ mem[d].status = "acknowledged" /\ IsImage(d) /\ MayStart(d)
  BY QueuedMayStart
<1>a. Update(d, r) /\ Save(next, "stopped")
  OBVIOUS
<1>t. mem' \in State
  BY <1>a, <1>c, UpdateEffect
<1>u. /\ mem'[d] = r /\ mem'[d] # None
      /\ \A e \in Deliveries : e # d => mem'[e] = mem[e]
  BY <1>a, <1>c, UpdateEffect
<1>s. /\ disk' \in State /\ fails' \in 0..MaxFails
      /\ \/ pc' = next /\ disk' = mem'
         \/ pc' = "stopped" /\ disk' = disk
  BY <1>a, <1>t, SaveEffect
<1>1. TypeOK'
  BY <1>c, <1>t, <1>u, <1>s DEF TypeOK, State
<1>2. ReceiptIsBacked'
  <2> SUFFICES ASSUME NEW e \in Deliveries PROVE ReceiptIsBacked!(e)'
    BY Zenon DEF ReceiptIsBacked
  <2> QED
    BY <1>c, <1>t, <1>u, <1>s DEF ReceiptIsBacked, Verified, TypeOK,
        MemoryIsAhead
<1>3. CurrentIsRecorded'
  BY <1>c, <1>t, <1>u, <1>s DEF CurrentIsRecorded, TypeOK
<1>4. CurrentIsVisited'
  BY <1>c, <1>t, <1>u, <1>s DEF CurrentIsVisited, Visiting, TypeOK
<1>5. MemoryIsAhead'
  <2> SUFFICES ASSUME NEW e \in Deliveries PROVE MemoryIsAhead!(e)'
    BY Zenon DEF MemoryIsAhead
  <2> QED
    BY <1>c, <1>t, <1>u, <1>s DEF MemoryIsAhead, Reconciling, Visiting,
        TypeOK
<1>6. ReceiptIsPrepared'
  BY <1>c, <1>t, <1>u, <1>s DEF ReceiptIsPrepared, Verified, TypeOK
<1>7. RecordsAreEarned'
  <2> SUFFICES ASSUME NEW e \in Deliveries PROVE RecordsAreEarned!(e)'
    BY Zenon DEF RecordsAreEarned
  <2> QED
    BY <1>c, <1>t, <1>u, <1>s DEF RecordsAreEarned, Earned, Fresh, TypeOK,
        MayStart, MemoryIsAhead
<1>8. QueueIsEligible'
  BY <1>c, <1>t, <1>u, <1>s DEF QueueIsEligible, Queueing, Eligible,
      MayStart, Fresh, TypeOK
<1> QED
  BY <1>1, <1>2, <1>3, <1>4, <1>5, <1>6, <1>7, <1>8

\* process_wallpaper_queue, one delivery.
LEMMA WallpaperKeeps ==
  ASSUME SyncInv, NEW d \in Deliveries, Wallpaper(d)
  PROVE  SyncInv'
<1>1. pc = "queue" /\ d \in todo /\ todo' = todo \ {d} /\ cur' = d
  BY DEF Wallpaper
<1>2. UNCHANGED <<library, relay, setup, handled, damages, retries, world, damaged>>
  BY DEF Wallpaper
<1>3. mem[d] \in Record
  BY <1>1, QueuedMayStart
<1>4. "not_configured" \in Wallpapers /\ "failed" \in Wallpapers /\ "running" \in Wallpapers
  BY DEF Wallpapers
<1>5. CASE ~configured
  <2> DEFINE r == [mem[d] EXCEPT !.wallpaper = "not_configured"]
  <2>1. r \in Record /\ r.status = mem[d].status /\ r.wallpaper = "not_configured"
    BY <1>3, <1>4, WallpaperSet
  <2>2. /\ Update(d, r) /\ Save("queue", "stopped") /\ cleared' = cleared
        /\ released' = IF mode = "sync" THEN released ELSE released \cup {d}
    BY <1>5 DEF Wallpaper
  <2> HIDE DEF r
  <2> QED
    BY <1>1, <1>2, <2>1, <2>2, QueuedKeeps
<1>6. CASE configured /\ ~Verified(d)
  <2> DEFINE r == [mem[d] EXCEPT !.wallpaper = "failed", !.error = TRUE]
  <2>1. r \in Record /\ r.status = mem[d].status /\ r.wallpaper = "failed"
    BY <1>3, <1>4, WallpaperAndErrorSet, Zenon
  <2>2. /\ Update(d, r) /\ Save("queue", "stopped") /\ released' = released
        /\ cleared' = IF mode = "retry_uncertain" THEN cleared \cup {d} ELSE cleared
    BY <1>6 DEF Wallpaper, NotStarted
  <2> HIDE DEF r
  <2> QED
    BY <1>1, <1>2, <2>1, <2>2, QueuedKeeps
<1>7. CASE configured /\ Verified(d)
  <2> DEFINE r == [mem[d] EXCEPT !.wallpaper = "running", !.error = FALSE]
  <2>1. r \in Record /\ r.status = mem[d].status /\ r.wallpaper = "running"
    BY <1>3, <1>4, WallpaperAndErrorSet, Zenon
  <2>2. /\ Update(d, r) /\ Save("launch", "stopped")
        /\ released' = released /\ cleared' = cleared
    BY <1>7 DEF Wallpaper
  <2> HIDE DEF r
  <2> QED
    BY <1>1, <1>2, <2>1, <2>2, QueuedKeeps
<1> QED
  BY <1>5, <1>6, <1>7

\* The command starts: "running" is on disk, and says that it may have.
LEMMA LaunchedKeeps ==
  ASSUME SyncInv, Launch, pc' = "command"
  PROVE  SyncInv'
<1> USE DEF SyncInv, relay, setup, loop, ghosts
<1>c. /\ pc = "launch" /\ cur \in Deliveries /\ mem[cur] # None
      /\ UNCHANGED <<library, disk, mem, relay, setup, loop, fails>>
      /\ UNCHANGED <<damages, retries, damaged>>
      /\ world' = [world EXCEPT ![cur] = "unknown"]
      /\ released' = released \ {cur} /\ cleared' = cleared \ {cur}
  BY DEF Launch, CurrentIsRecorded, Save
<1>1. TypeOK'
  BY <1>c DEF TypeOK, State
<1>2. ReceiptIsBacked'
  <2> SUFFICES ASSUME NEW e \in Deliveries PROVE ReceiptIsBacked!(e)'
    BY Zenon DEF ReceiptIsBacked
  <2> QED
    BY <1>c DEF ReceiptIsBacked, Verified, TypeOK
<1>3. CurrentIsRecorded'
  BY <1>c DEF CurrentIsRecorded, TypeOK
<1>4. CurrentIsVisited'
  BY <1>c DEF CurrentIsVisited, Visiting, TypeOK
<1>5. MemoryIsAhead'
  <2> SUFFICES ASSUME NEW e \in Deliveries PROVE MemoryIsAhead!(e)'
    BY Zenon DEF MemoryIsAhead
  <2> QED
    BY <1>c DEF MemoryIsAhead, Reconciling, Visiting, TypeOK
<1>6. ReceiptIsPrepared'
  BY <1>c DEF ReceiptIsPrepared, Verified, TypeOK
<1>7. RecordsAreEarned'
  <2> SUFFICES ASSUME NEW e \in Deliveries PROVE RecordsAreEarned!(e)'
    BY Zenon DEF RecordsAreEarned
  <2> QED
    BY <1>c DEF RecordsAreEarned, Earned, Fresh, TypeOK, QueueIsEligible,
        MemoryIsAhead
<1>8. QueueIsEligible'
  BY <1>c DEF QueueIsEligible, Queueing, Eligible, MayStart, Fresh, TypeOK,
      CurrentIsVisited
<1> QED
  BY <1>1, <1>2, <1>3, <1>4, <1>5, <1>6, <1>7, <1>8

\* The command cannot be started.
LEMMA NotLaunchedKeeps ==
  ASSUME SyncInv, Launch, pc' # "command"
  PROVE  SyncInv'
<1> USE DEF SyncInv, relay, setup, loop, ghosts
<1>c. pc = "launch" /\ cur \in Deliveries /\ mem[cur] \in Record /\ mem[cur] # None
  BY DEF Launch, CurrentIsRecorded, TypeOK, State
<1> DEFINE r == [mem[cur] EXCEPT !.wallpaper = "failed"]
<1>n. r \in Record /\ r.status = mem[cur].status /\ r.wallpaper = "failed"
  BY <1>c, WallpaperSet DEF Wallpapers
<1>a. Update(cur, r) /\ Save("queue", "stopped")
  BY DEF Launch
<1>f. /\ UNCHANGED <<library, relay, setup, loop, damages, retries, world>>
      /\ UNCHANGED <<released, damaged>>
      /\ cleared' = IF mode = "retry_uncertain" THEN cleared \cup {cur} ELSE cleared
  BY DEF Launch, NotStarted
<1> HIDE DEF r
<1>t. mem' \in State
  BY <1>a, <1>c, <1>n, UpdateEffect
<1>u. /\ mem'[cur] = r /\ mem'[cur] # None
      /\ \A e \in Deliveries : e # cur => mem'[e] = mem[e]
  BY <1>a, <1>c, <1>n, UpdateEffect
<1>s. /\ disk' \in State /\ fails' \in 0..MaxFails
      /\ \/ pc' = "queue" /\ disk' = mem'
         \/ pc' = "stopped" /\ disk' = disk
  BY <1>a, <1>t, SaveEffect
<1>1. TypeOK'
  BY <1>c, <1>n, <1>t, <1>u, <1>s, <1>f DEF TypeOK, State
<1>2. ReceiptIsBacked'
  <2> SUFFICES ASSUME NEW e \in Deliveries PROVE ReceiptIsBacked!(e)'
    BY Zenon DEF ReceiptIsBacked
  <2> QED
    BY <1>c, <1>n, <1>t, <1>u, <1>s, <1>f DEF ReceiptIsBacked, Verified,
        TypeOK, MemoryIsAhead
<1>3. CurrentIsRecorded'
  BY <1>c, <1>n, <1>t, <1>u, <1>s, <1>f DEF CurrentIsRecorded, TypeOK
<1>4. CurrentIsVisited'
  BY <1>c, <1>n, <1>t, <1>u, <1>s, <1>f DEF CurrentIsVisited, Visiting,
      TypeOK
<1>5. MemoryIsAhead'
  <2> SUFFICES ASSUME NEW e \in Deliveries PROVE MemoryIsAhead!(e)'
    BY Zenon DEF MemoryIsAhead
  <2> QED
    BY <1>c, <1>n, <1>t, <1>u, <1>s, <1>f DEF MemoryIsAhead, Reconciling,
        Visiting, TypeOK
<1>6. ReceiptIsPrepared'
  BY <1>c, <1>n, <1>t, <1>u, <1>s, <1>f DEF ReceiptIsPrepared, Verified,
      TypeOK
<1>7. RecordsAreEarned'
  <2> SUFFICES ASSUME NEW e \in Deliveries PROVE RecordsAreEarned!(e)'
    BY Zenon DEF RecordsAreEarned
  <2> QED
    BY <1>c, <1>n, <1>t, <1>u, <1>s, <1>f DEF RecordsAreEarned, Earned,
        Fresh, TypeOK, QueueIsEligible, MayStart
<1>8. QueueIsEligible'
  BY <1>c, <1>n, <1>t, <1>u, <1>s, <1>f DEF QueueIsEligible, Queueing,
      Eligible, MayStart, Fresh, TypeOK, CurrentIsVisited
<1> QED
  BY <1>1, <1>2, <1>3, <1>4, <1>5, <1>6, <1>7, <1>8

\* What came of the command is recorded, or stays unknown.
LEMMA OutcomeKeeps ==
  ASSUME SyncInv, NEW result \in Results, Outcome(result)
  PROVE  SyncInv'
<1> USE DEF SyncInv, relay, setup, loop, ghosts
<1>c. pc = "command" /\ cur \in Deliveries /\ mem[cur] \in Record /\ mem[cur] # None
  BY DEF Outcome, CurrentIsRecorded, TypeOK, State
<1> DEFINE r == [mem[cur] EXCEPT !.wallpaper = result]
<1>n. r \in Record /\ r.status = mem[cur].status /\ r.wallpaper = result
  <2>1. result \in Wallpapers
    BY DEF Wallpapers, Results
  <2> QED
    BY <1>c, <2>1, WallpaperSet
<1>a. Update(cur, r) /\ Save("queue", "stopped")
  BY DEF Outcome
<1>f. /\ UNCHANGED <<library, relay, setup, loop, damages, retries>>
      /\ UNCHANGED <<released, cleared, damaged>>
      /\ world' = [world EXCEPT ![cur] = IF result = "uncertain" \/ pc' = "stopped"
                                         THEN "unknown" ELSE result]
  BY DEF Outcome
<1> HIDE DEF r
<1>t. mem' \in State
  BY <1>a, <1>c, <1>n, UpdateEffect
<1>u. /\ mem'[cur] = r /\ mem'[cur] # None
      /\ \A e \in Deliveries : e # cur => mem'[e] = mem[e]
  BY <1>a, <1>c, <1>n, UpdateEffect
<1>s. /\ disk' \in State /\ fails' \in 0..MaxFails
      /\ \/ pc' = "queue" /\ disk' = mem'
         \/ pc' = "stopped" /\ disk' = disk
  BY <1>a, <1>t, SaveEffect
<1>1. TypeOK'
  BY <1>c, <1>n, <1>t, <1>u, <1>s, <1>f DEF TypeOK, State, Results
<1>2. ReceiptIsBacked'
  <2> SUFFICES ASSUME NEW e \in Deliveries PROVE ReceiptIsBacked!(e)'
    BY Zenon DEF ReceiptIsBacked
  <2> QED
    BY <1>c, <1>n, <1>t, <1>u, <1>s, <1>f DEF ReceiptIsBacked, Verified,
        TypeOK, MemoryIsAhead
<1>3. CurrentIsRecorded'
  BY <1>c, <1>n, <1>t, <1>u, <1>s, <1>f DEF CurrentIsRecorded, TypeOK
<1>4. CurrentIsVisited'
  BY <1>c, <1>n, <1>t, <1>u, <1>s, <1>f DEF CurrentIsVisited, Visiting,
      TypeOK
<1>5. MemoryIsAhead'
  <2> SUFFICES ASSUME NEW e \in Deliveries PROVE MemoryIsAhead!(e)'
    BY Zenon DEF MemoryIsAhead
  <2> QED
    BY <1>c, <1>n, <1>t, <1>u, <1>s, <1>f DEF MemoryIsAhead, Reconciling,
        Visiting, TypeOK
<1>6. ReceiptIsPrepared'
  BY <1>c, <1>n, <1>t, <1>u, <1>s, <1>f DEF ReceiptIsPrepared, Verified,
      TypeOK
<1>7. RecordsAreEarned'
  <2> SUFFICES ASSUME NEW e \in Deliveries PROVE RecordsAreEarned!(e)'
    BY Zenon DEF RecordsAreEarned
  <2> QED
    BY <1>c, <1>n, <1>t, <1>u, <1>s, <1>f DEF RecordsAreEarned, Earned,
        Fresh, TypeOK, QueueIsEligible, Results, MemoryIsAhead
<1>8. QueueIsEligible'
  BY <1>c, <1>n, <1>t, <1>u, <1>s, <1>f DEF QueueIsEligible, Queueing,
      Eligible, MayStart, Fresh, TypeOK, CurrentIsVisited
<1> QED
  BY <1>1, <1>2, <1>3, <1>4, <1>5, <1>6, <1>7, <1>8

-----------------------------------------------------------------------------
(* The theorems *)

LEMMA ContinueKeeps ==
  ASSUME SyncInv, Continue PROVE SyncInv'
<1>1. CASE \E d \in Deliveries : AckVerify(d) \/ Deliver(d) \/ Wallpaper(d)
  <2> PICK d \in Deliveries : AckVerify(d) \/ Deliver(d) \/ Wallpaper(d)
    BY <1>1
  <2> QED
    BY AckVerifiedKeeps, AckVerifyFailedKeeps, DeliverKeeps, WallpaperKeeps
<1>2. CASE \E result \in Results : Outcome(result)
  BY <1>2, OutcomeKeeps
<1>3. CASE Launch
  BY <1>3, LaunchedKeeps, NotLaunchedKeeps
<1>4. CASE AckSend \/ AckError \/ AckRecord \/ Receive \/ RecordStored \/ Confirm
  BY <1>4, AckSendKeeps, AckErrorKeeps, AckRecordKeeps, ReceiveKeeps,
     RecordStoredKeeps, ConfirmKeeps
<1>5. CASE Interrupted \/ Scan \/ Settle \/ DeliverError \/ EndDeliveries
           \/ StartQueue \/ Finish
  BY <1>5, InterruptedKeeps, ScanKeeps, SettleKeeps, DeliverErrorKeeps,
     EndDeliveriesKeeps, StartQueueKeeps, FinishKeeps
<1> QED
  BY <1>1, <1>2, <1>3, <1>4, <1>5 DEF Continue

LEMMA StepKeeps ==
  ASSUME SyncInv, [Next]_vars PROVE SyncInv'
<1>1. CASE Start
  <2>1. Begin("sync") /\ retries' \in 0..MaxRetries
    BY <1>1 DEF Start, SyncInv, TypeOK
  <2> QED
    BY <2>1, BeginKeeps
<1>2. ASSUME NEW m \in {"retry", "retry_uncertain"}, StartRetry(m)
      PROVE  SyncInv'
  <2>1. Begin(m) /\ retries' \in 0..MaxRetries
    BY <1>2, SyncAssumption DEF StartRetry, SyncInv, TypeOK
  <2> QED
    BY <2>1, BeginKeeps
<1>3. CASE Continue
  BY <1>3, ContinueKeeps
<1>4. CASE Crash
  BY <1>4, CrashKeeps
<1>5. CASE (\E d \in Deliveries : SenderStores(d)) \/ (\E o \in Objects : Damage(o))
  BY <1>5, SenderStoresKeeps, DamageKeeps
<1>6. CASE UNCHANGED vars
  <2>1. TypeOK' /\ CurrentIsRecorded' /\ CurrentIsVisited' /\ ReceiptIsPrepared'
    BY <1>6 DEF SyncInv, vars, TypeOK, CurrentIsRecorded, CurrentIsVisited,
                ReceiptIsPrepared, Verified
  <2>2. ReceiptIsBacked'
    <3> SUFFICES ASSUME NEW e \in Deliveries PROVE ReceiptIsBacked!(e)'
      BY Zenon DEF ReceiptIsBacked
    <3> QED
      BY <1>6 DEF SyncInv, vars, ReceiptIsBacked, Verified
  <2>3. MemoryIsAhead'
    <3> SUFFICES ASSUME NEW e \in Deliveries PROVE MemoryIsAhead!(e)'
      BY Zenon DEF MemoryIsAhead
    <3> QED
      BY <1>6 DEF SyncInv, vars, MemoryIsAhead
  <2>4. RecordsAreEarned'
    <3> SUFFICES ASSUME NEW e \in Deliveries PROVE RecordsAreEarned!(e)'
      BY Zenon DEF RecordsAreEarned
    <3> QED
      BY <1>6 DEF SyncInv, vars, RecordsAreEarned, Earned, Fresh
  <2>5. QueueIsEligible'
    BY <1>6 DEF SyncInv, vars, QueueIsEligible, Eligible, MayStart, Fresh
  <2> QED
    BY <2>1, <2>2, <2>3, <2>4, <2>5 DEF SyncInv
<1> QED
  BY <1>1, <1>2, <1>3, <1>4, <1>5, <1>6 DEF Next

\* The inductive invariant holds in every run of the receiver.
THEOREM SyncInvariance == Spec => []SyncInv
BY InitEstablishes, StepKeeps, PTL DEF Spec

\* The receiver's state is well typed.
THEOREM SyncTyped == Spec => []TypeOK
<1>1. SyncInv => TypeOK
  BY DEF SyncInv
<1> QED
  BY <1>1, SyncInvariance, PTL

\* What the relay may forget is on disk, record and object, and the disk claims no
\* receipt that was not taken: however many deliveries share an object, whatever
\* failed, and wherever the process died.
THEOREM ReceiptsBacked == Spec => []ReceiptIsBacked
<1>1. SyncInv => ReceiptIsBacked
  BY DEF SyncInv
<1> QED
  BY <1>1, SyncInvariance, PTL

\* A command is started for a confirmed image, and again only on request.
THEOREM NoSilentReplay == Spec => ReplayIsExplicit
<1> DEFINE Explicit ==
      CommandStarts =>
        /\ IsImage(cur) /\ cur \in received
        /\ \/ world[cur] = "none"
           \/ world[cur] = "failed" /\ mode # "sync"
           \/ world[cur] = "unknown" /\ mode = "retry_uncertain"
           \/ world[cur] = "unknown" /\ mode = "retry" /\ cur \in cleared
           \/ world[cur] # "applied" /\ cur \in released
<1>1. SyncInv /\ [Next]_vars => [Explicit]_vars
  <2> SUFFICES ASSUME SyncInv, pc = "launch" PROVE Explicit
    BY DEF CommandStarts
  <2>1. cur \in Deliveries /\ mem[cur] # None
    BY DEF SyncInv, CurrentIsRecorded
  <2>2. IsImage(cur) /\ MayStart(cur) /\ mem[cur].status = "acknowledged"
    BY DEF SyncInv, QueueIsEligible
  <2>3. cur \in received
    BY <2>1, <2>2 DEF SyncInv, MemoryIsAhead
  <2> QED
    BY <2>2, <2>3 DEF MayStart, Fresh
<1> QED
  BY <1>1, SyncInvariance, PTL DEF Spec, ReplayIsExplicit
=============================================================================
