------------------------- MODULE PhoneTransferProofs -------------------------
(***************************************************************************)
(* Proofs about a file on its way from a phone to the relay, for any       *)
(* number of threads, work ids, chunks, failures and taps.                 *)
(*                                                                         *)
(* Steps fall into a few kinds, each with a lemma: one that changes the    *)
(* row without settling it, one that stages the file, one that stops       *)
(* threads, one of a single thread, one of a session.  The argument for    *)
(* DeliveredOnce is SessionIsSingle: while the relay is open resume.json   *)
(* names the one session that is or may get delivered, until the payload,  *)
(* without which no other can be created, is gone.                         *)
(***************************************************************************)
EXTENDS PhoneTransfer, TLAPS, SequenceTheorems, FiniteSetTheorems

-----------------------------------------------------------------------------
(* Records *)

\* The bounds are numbers.
LEMMA Bounds ==
  /\ MaxFails \in Nat /\ MaxUser \in Nat /\ MaxWorks \in Nat /\ MaxAttempts \in Nat
  /\ Length \in Nat /\ Length > 0 /\ Revisions \subseteq Nat
<1>1. MaxFails \in Nat /\ MaxUser \in Nat /\ MaxAttempts \in Nat
  BY PhoneAssumption, Zenon
<1> QED
  BY <1>1, PhoneAssumption DEF Revisions

\* What there is at first is typed.
LEMMA InitialValues ==
  /\ Idle \in Thread /\ NoRow \in Row /\ Done \in Job /\ EmptyDir \in Dir
  /\ NoImport \in Staged /\ FreeQueue \in Monitor
  /\ Idle.at = "idle" /\ Idle.ans = "none" /\ Idle.ses = 0 /\ Idle.rev = 0
  /\ NoRow.status = "none" /\ NoRow.work = 0 /\ NoRow.rev = 0 /\ NoRow.receipt = 0
  /\ EmptyDir.resume = 0 /\ NoImport.at = "idle" /\ NoImport.rev = 0
BY PhoneAssumption DEF Idle, Thread, NoRow, Row, Done, Job, EmptyDir, Dir, NoImport,
    FreeQueue, Revisions, Requesting, Dropping, Staging, Staged, Monitor

\* Revisions and counters are numbers.
LEMMA TypedNumbers ==
  ASSUME TypeOK
  PROVE  /\ auto.rev \in Nat /\ row.rev \in Nat /\ import.rev \in Nat
         /\ user \in Nat /\ fails \in Nat /\ Len(sess) \in Nat
         /\ \A t \in Threads : thread[t].rev \in Nat
<1>1. /\ auto \in Source /\ row \in Row /\ import \in Staged
      /\ \A t \in Threads : thread[t] \in Thread
      /\ user \in 0..MaxUser /\ fails \in 0..MaxFails /\ sess \in Seq(Session)
  BY DEF TypeOK
<1>2. auto.rev \in Revisions /\ row.rev \in Revisions /\ import.rev \in Revisions
  BY <1>1 DEF Source, Row, Staged
<1>3. \A t \in Threads : thread[t].rev \in Revisions
  BY <1>1 DEF Thread
<1>4. Len(sess) \in Nat
  BY <1>1, LenProperties
<1>5. user \in Nat /\ fails \in Nat
  BY <1>1, Bounds
<1> QED
  BY <1>2, <1>3, <1>4, <1>5, Bounds, Zenon

LEMMA InitEstablishes == ASSUME Init PROVE PhoneInv
<1> USE InitialValues DEF Init
<1>1. TypeOK
  <2>1. auto \in Source
    <3>1. 0 \in Revisions /\ 1 \in Revisions
      BY PhoneAssumption DEF Revisions
    <3>2. CASE auto = [rev |-> 0, on |-> FALSE, tree |-> FALSE]
      BY ONLY <3>1, <3>2 DEF Source
    <3>3. CASE auto = [rev |-> 1, on |-> TRUE, tree |-> TRUE]
      BY ONLY <3>1, <3>3 DEF Source
    <3> QED
      BY <3>2, <3>3, Zenon
  <2>2. /\ fails \in 0..MaxFails /\ user \in 0..MaxUser
        /\ sess \in Seq(Session) /\ Len(sess) = 0
    BY PhoneAssumption
  <2> QED
    BY <2>1, <2>2 DEF TypeOK
<1>2. RowIsWhole /\ RevisionsArePast /\ AssignIsMeant /\ PayloadIsKept
      /\ ReceiptIsDelivered
  BY DEF RowIsWhole, RevisionsArePast, AssignIsMeant, PayloadIsKept, FreeQueue,
      ReceiptIsDelivered
<1>3. ThreadsAreWhole /\ LockIsExclusive /\ DropsAreRecorded /\ SessionsAreThere
  BY DEF ThreadsAreWhole, ThreadIsWhole, LockIsExclusive, Holding, Requesting,
      Dropping, DropsAreRecorded, SessionsAreThere
<1>4. StagingIsAlone /\ ExitIsOrdered /\ CleanedIsQuiet
  BY DEF StagingIsAlone, ExitIsOrdered, CleanedIsQuiet, Quiet, Staging, Cleaning
<1>5. SessionIsSingle /\ DeliveredIsSingle
  BY DEF SessionIsSingle, OneLive, LiveIsNamed, Looked, DeliveredIsSingle, Sessions
<1> QED
  BY <1>1, <1>2, <1>3, <1>4, <1>5 DEF PhoneInv

-----------------------------------------------------------------------------
(* Steps that change the row without settling it *)

\* The thread, session and file parts of the invariant do not look further into
\* the row than this.
LEMMA RowStep ==
  ASSUME PhoneInv, UNCHANGED <<dir, thread, sess, late, relay>>,
         row' \in Row, row'.receipt = row.receipt,
         row.status = "none" => row' = row,
         row'.status = "none" => row.status = "none",
         row'.status = "UPLOADED" <=> row.status = "UPLOADED",
         row'.status = "PAUSED" => row'.work = 0,
         \A t \in Threads : thread[t].at # "idle" /\ row'.work = thread[t].work
                            => row.work = thread[t].work,
         row'.rev <= auto'.rev, auto.rev <= auto'.rev, auto'.rev <= user' + 1,
         auto.rev \in Int, auto'.rev \in Int,
         \A r \in Revisions : r <= auto.rev /\ Allowed(r)' => Allowed(r),
         folder = "removed" => folder' = "removed",
         import'.rev <= auto'.rev,
         import'.at \in Staging => import' = import,
         exit' = "none" => exit = "none",
         exit' \in {"local_cleaned", "complete"} => exit \in {"local_cleaned", "complete"}
  PROVE  /\ RowIsWhole' /\ ThreadsAreWhole' /\ LockIsExclusive' /\ RevisionsArePast'
         /\ StagingIsAlone' /\ CleanedIsQuiet' /\ DropsAreRecorded' /\ PayloadIsKept'
         /\ SessionIsSingle' /\ SessionsAreThere' /\ DeliveredIsSingle'
         /\ ReceiptIsDelivered'
<1> USE DEF PhoneInv
<1>1. RowIsWhole'
  BY DEF RowIsWhole
<1>2. ThreadsAreWhole'
  <2> SUFFICES ASSUME NEW t \in Threads PROVE ThreadIsWhole(t)'
    BY Zenon DEF ThreadsAreWhole
  <2>1. ThreadIsWhole(t) /\ thread[t] \in Thread
    BY DEF ThreadsAreWhole, TypeOK
  <2>2. thread[t].ans = "paused" => thread[t].at # "idle"
    BY <2>1, InitialValues DEF ThreadIsWhole
  <2>3. thread[t].rev \in Revisions /\ thread[t].rev <= auto.rev
    BY <2>1 DEF Thread, RevisionsArePast
  <2>4. thread[t].ans = "paused" => ~MayGoOn(t)'
    BY <2>1, <2>2, <2>3 DEF ThreadIsWhole, MayGoOn
  <2> QED
    BY <2>1, <2>4 DEF ThreadIsWhole
<1>3. LockIsExclusive'
  BY DEF LockIsExclusive, Holding
<1>4. RevisionsArePast'
  <2>1. \A t \in Threads : thread[t].rev \in Int
    BY PhoneAssumption DEF TypeOK, Thread, Revisions
  <2> QED
    BY <2>1 DEF RevisionsArePast
<1>5. StagingIsAlone'
  <2>1. row' = NoRow => row = NoRow
    BY InitialValues DEF RowIsWhole
  <2>2. /\ import'.at \in Staging => import' = import
        /\ import'.at = "commit" => import' = import
    BY DEF Staging
  <2>3. import'.at \in Staging => row' = NoRow
    BY <2>2, InitialValues DEF StagingIsAlone
  <2>4. (import'.at \in Staging) \/ (row' = NoRow /\ folder' # "removed")
        => Quiet /\ (relay = "open" => sess = <<>>)
    BY <2>1, <2>2 DEF StagingIsAlone
  <2>5. Quiet' <=> Quiet
    BY DEF Quiet
  <2>6. import'.at = "commit" => dir'.bytes = "full"
    BY <2>2 DEF StagingIsAlone
  <2> QED
    BY <2>3, <2>4, <2>5, <2>6 DEF StagingIsAlone
<1>6. CleanedIsQuiet'
  BY DEF CleanedIsQuiet, Quiet, NoRow
<1>7. DropsAreRecorded'
  BY DEF DropsAreRecorded
<1>8. PayloadIsKept'
  BY DEF PayloadIsKept
<1>9. SessionIsSingle' /\ SessionsAreThere' /\ DeliveredIsSingle'
  BY DEF SessionIsSingle, OneLive, LiveIsNamed, Looked, SessionsAreThere,
      DeliveredIsSingle, Live, Sessions
<1>10. ReceiptIsDelivered'
  BY DEF ReceiptIsDelivered
<1> QED
  BY <1>1, <1>2, <1>3, <1>4, <1>5, <1>6, <1>7, <1>8, <1>9, <1>10

\* The phone's own actions: none of them touches a thread, a session or a file.
LEMMA RetryKeeps == ASSUME PhoneInv, Retry PROVE PhoneInv'
<1> USE DEF PhoneInv, phone, server, workers, control
<1>0. row \in Row /\ row.status # "none" /\ folder = "open" /\ queue.at = "free"
  BY DEF Retry, TypeOK
<1>1. /\ row' \in Row /\ row'.receipt = row.receipt /\ row'.status = row.status
      /\ row'.work = row.work /\ row'.rev \in {0, row.rev}
  BY <1>0, PhoneAssumption DEF Retry, Row, Revisions
<1>2. user' \in 0..MaxUser /\ user' >= user
  BY Bounds DEF Retry, Tap, TypeOK
<1>3. UNCHANGED <<folder, exit, auto, dir, sess, late, relay, job, thread, import, exiter, fails>>
  BY DEF Retry
<1>4. auto.rev \in Int /\ 0 <= auto.rev
  BY TypedNumbers
<1>5. TypeOK'
  <2>1. queue' \in Monitor
    BY InitialValues DEF Retry, Monitor
  <2> QED
    BY <1>1, <1>2, <1>3, <2>1 DEF TypeOK
<1>6. \A r \in Revisions : Allowed(r)' => Allowed(r)
  BY <1>3 DEF Allowed, Active
<1>7. ExitIsOrdered' /\ AssignIsMeant'
  BY <1>3 DEF Retry, ExitIsOrdered, AssignIsMeant, Cleaning, Working, Importing, FreeQueue
<1>8. /\ row'.rev <= auto'.rev /\ auto.rev <= auto'.rev /\ auto'.rev <= user' + 1
      /\ import'.rev <= auto'.rev
  BY <1>1, <1>2, <1>3, <1>4, TypedNumbers DEF RevisionsArePast
<1>9. row'.status = "PAUSED" => row'.work = 0
  BY <1>1 DEF RowIsWhole
<1> QED
  BY <1>0, <1>1, <1>3, <1>4, <1>5, <1>6, <1>7, <1>8, <1>9, RowStep

\* Pausing leaves a settled transfer alone and takes a waiting one away from its
\* owner.
LEMMA PausedEffect ==
  ASSUME row \in Row, RowIsWhole
  PROVE  LET r == Paused(row)
         IN /\ r \in Row /\ r.receipt = row.receipt /\ r.rev = row.rev /\ r.tree = row.tree
            /\ r.work \in {0, row.work} /\ (row.status = "none" => r = row)
            /\ r.status = "none" <=> row.status = "none"
            /\ r.status = "UPLOADED" <=> row.status = "UPLOADED"
            /\ r.status = "PAUSED" => r.work = 0
<1>1. CASE Waiting(row)
  <2> DEFINE r == [row EXCEPT !.status = "PAUSED", !.work = 0]
  <2>1. 0 \in 0..MaxWorks
    BY Bounds
  <2>2. /\ r \in Row /\ r.receipt = row.receipt /\ r.rev = row.rev /\ r.tree = row.tree
        /\ r.work = 0 /\ r.status = "PAUSED"
    BY <2>1 DEF Row
  <2> QED
    BY <1>1, <2>2 DEF Paused, Waiting
<1>2. CASE ~Waiting(row)
  BY <1>2 DEF Paused, RowIsWhole
<1> QED
  BY <1>1, <1>2

\* recover pauses what is not permitted any more.
LEMMA RecoverKeeps == ASSUME PhoneInv, Recover PROVE PhoneInv'
<1> USE DEF PhoneInv, phone, server, workers, control
<1>u. UNCHANGED <<folder, exit, auto, dir, sess, late, relay, job, thread, import, exiter, fails, user>>
  BY DEF Recover
<1>t. row \in Row
  BY DEF TypeOK
<1>w. \A t \in Threads : thread[t].at # "idle" => thread[t].work # 0
  BY DEF ThreadsAreWhole, ThreadIsWhole
<1>r. /\ row' \in Row /\ row'.receipt = row.receipt /\ row'.rev = row.rev
      /\ row'.work \in {0, row.work} /\ (row.status = "none" => row' = row)
      /\ row'.status = "none" <=> row.status = "none"
      /\ row'.status = "UPLOADED" <=> row.status = "UPLOADED"
      /\ row'.status = "PAUSED" => row'.work = 0
  BY <1>t, PausedEffect DEF Recover, RowIsWhole
<1>n. user' \in 0..MaxUser /\ user' >= user /\ fails' \in 0..MaxFails
  BY <1>u, TypedNumbers DEF TypeOK
<1>q. queue' \in Monitor /\ import' \in Staged /\ auto' \in Source
  BY <1>u, InitialValues DEF Recover, TypeOK, Monitor
<1>1. TypeOK'
  BY <1>u, <1>r, <1>n, <1>q DEF TypeOK
<1>2. \A r \in Revisions : r <= auto.rev /\ Allowed(r)' => Allowed(r)
  BY <1>u DEF Allowed, Active
<1>3. ExitIsOrdered'
  BY <1>u DEF ExitIsOrdered, Cleaning, Working, Importing
<1>4. AssignIsMeant'
  BY <1>u, <1>r, InitialValues DEF Recover, AssignIsMeant, FreeQueue,
      Waiting
<1>5. /\ row'.rev <= auto'.rev /\ auto.rev <= auto'.rev /\ auto'.rev <= user' + 1
      /\ import'.rev <= auto'.rev /\ auto.rev \in Int /\ auto'.rev \in Int
  BY <1>u, <1>r, <1>n, TypedNumbers DEF RevisionsArePast
<1> QED
  BY <1>u, <1>r, <1>1, <1>2, <1>3, <1>4, <1>5, RowStep, <1>w

\* enqueue reads the row.
LEMMA QueueReadKeeps == ASSUME PhoneInv, QueueRead PROVE PhoneInv'
<1> USE DEF PhoneInv, phone, server, workers, control
<1>u. UNCHANGED <<folder, exit, auto, dir, sess, late, relay, job, thread, import, exiter, fails, user, row>>
  BY DEF QueueRead
<1>t. row \in Row
  BY DEF TypeOK
<1>w. \A t \in Threads : thread[t].at # "idle" => thread[t].work # 0
  BY DEF ThreadsAreWhole, ThreadIsWhole
<1>r. /\ row' \in Row /\ row'.receipt = row.receipt /\ row'.rev = row.rev
      /\ row'.work \in {0, row.work} /\ (row.status = "none" => row' = row)
      /\ row'.status = "none" <=> row.status = "none"
      /\ row'.status = "UPLOADED" <=> row.status = "UPLOADED"
      /\ row'.status = "PAUSED" => row'.work = 0
  BY <1>t, <1>u DEF RowIsWhole
<1>n. user' \in 0..MaxUser /\ user' >= user /\ fails' \in 0..MaxFails
  BY <1>u, TypedNumbers DEF TypeOK
<1>q. queue' \in Monitor /\ import' \in Staged /\ auto' \in Source
  BY <1>u, InitialValues DEF QueueRead, TypeOK, Monitor
<1>1. TypeOK'
  BY <1>u, <1>r, <1>n, <1>q DEF TypeOK
<1>2. \A r \in Revisions : r <= auto.rev /\ Allowed(r)' => Allowed(r)
  BY <1>u DEF Allowed, Active
<1>3. ExitIsOrdered'
  BY <1>u DEF ExitIsOrdered, Cleaning, Working, Importing
<1>4. AssignIsMeant'
  BY <1>u, <1>r, InitialValues DEF QueueRead, AssignIsMeant, FreeQueue,
      Waiting
<1>5. /\ row'.rev <= auto'.rev /\ auto.rev <= auto'.rev /\ auto'.rev <= user' + 1
      /\ import'.rev <= auto'.rev /\ auto.rev \in Int /\ auto'.rev \in Int
  BY <1>u, <1>r, <1>n, TypedNumbers DEF RevisionsArePast
<1> QED
  BY <1>u, <1>r, <1>1, <1>2, <1>3, <1>4, <1>5, RowStep, <1>w

\* The user pauses.
LEMMA PauseKeeps == ASSUME PhoneInv, Pause PROVE PhoneInv'
<1> USE DEF PhoneInv, phone, server, workers, control
<1>u. UNCHANGED <<folder, exit, auto, dir, sess, late, relay, job, thread, import, exiter, fails>>
  BY DEF Pause
<1>t. row \in Row
  BY DEF TypeOK
<1>w. \A t \in Threads : thread[t].at # "idle" => thread[t].work # 0
  BY DEF ThreadsAreWhole, ThreadIsWhole
<1>r. /\ row' \in Row /\ row'.receipt = row.receipt /\ row'.rev = row.rev
      /\ row'.work \in {0, row.work} /\ (row.status = "none" => row' = row)
      /\ row'.status = "none" <=> row.status = "none"
      /\ row'.status = "UPLOADED" <=> row.status = "UPLOADED"
      /\ row'.status = "PAUSED" => row'.work = 0
  BY <1>t, PausedEffect DEF Pause
<1>n. user' \in 0..MaxUser /\ user' >= user /\ fails' \in 0..MaxFails
  BY <1>u, Bounds DEF Pause, Tap, TypeOK
<1>q. queue' \in Monitor /\ import' \in Staged /\ auto' \in Source
  BY <1>u, InitialValues DEF Pause, TypeOK, Monitor
<1>1. TypeOK'
  BY <1>u, <1>r, <1>n, <1>q DEF TypeOK
<1>2. \A r \in Revisions : r <= auto.rev /\ Allowed(r)' => Allowed(r)
  BY <1>u DEF Allowed, Active
<1>3. ExitIsOrdered'
  BY <1>u DEF ExitIsOrdered, Cleaning, Working, Importing
<1>4. AssignIsMeant'
  BY <1>u, <1>r, InitialValues DEF Pause, AssignIsMeant, FreeQueue, Waiting
<1>5. /\ row'.rev <= auto'.rev /\ auto.rev <= auto'.rev /\ auto'.rev <= user' + 1
      /\ import'.rev <= auto'.rev /\ auto.rev \in Int /\ auto'.rev \in Int
  BY <1>u, <1>r, <1>n, TypedNumbers DEF RevisionsArePast
<1> QED
  BY <1>u, <1>r, <1>1, <1>2, <1>3, <1>4, <1>5, RowStep, <1>w

\* Auto is turned off.
LEMMA PauseAutomaticKeeps == ASSUME PhoneInv, PauseAutomatic PROVE PhoneInv'
<1> USE DEF PhoneInv, phone, server, workers, control
<1>u. UNCHANGED <<folder, exit, dir, sess, late, relay, job, thread, import, exiter, fails, user>>
  BY DEF PauseAutomatic
<1>t. row \in Row
  BY DEF TypeOK
<1>w. \A t \in Threads : thread[t].at # "idle" => thread[t].work # 0
  BY DEF ThreadsAreWhole, ThreadIsWhole
<1>a. auto' = [auto EXCEPT !.on = FALSE] /\ auto \in Source /\ auto'.rev = auto.rev /\ ~auto'.on
  BY DEF PauseAutomatic, TypeOK, Source
<1>r. /\ row' \in Row /\ row'.receipt = row.receipt /\ row'.rev = row.rev
      /\ row'.work \in {0, row.work} /\ (row.status = "none" => row' = row)
      /\ row'.status = "none" <=> row.status = "none"
      /\ row'.status = "UPLOADED" <=> row.status = "UPLOADED"
      /\ row'.status = "PAUSED" => row'.work = 0
  BY <1>t, PausedEffect DEF PauseAutomatic, RowIsWhole
<1>n. user' \in 0..MaxUser /\ user' >= user /\ fails' \in 0..MaxFails
  BY <1>u, TypedNumbers DEF TypeOK
<1>q. queue' \in Monitor /\ import' \in Staged /\ auto' \in Source
  BY <1>u, InitialValues DEF PauseAutomatic, TypeOK, Monitor, Source
<1>1. TypeOK'
  BY <1>u, <1>r, <1>n, <1>q DEF TypeOK
<1>2. \A r \in Revisions : r <= auto.rev /\ Allowed(r)' => Allowed(r)
  BY <1>u, <1>a DEF Allowed, Active
<1>3. ExitIsOrdered'
  BY <1>u DEF ExitIsOrdered, Cleaning, Working, Importing
<1>4. AssignIsMeant'
  BY <1>u, <1>r, InitialValues DEF PauseAutomatic, AssignIsMeant, FreeQueue,
      Waiting
<1>5. /\ row'.rev <= auto'.rev /\ auto.rev <= auto'.rev /\ auto'.rev <= user' + 1
      /\ import'.rev <= auto'.rev /\ auto.rev \in Int /\ auto'.rev \in Int
  BY <1>u, <1>r, <1>n, TypedNumbers, <1>a DEF RevisionsArePast
<1> QED
  BY <1>u, <1>r, <1>1, <1>2, <1>3, <1>4, <1>5, RowStep, <1>w

\* The barrier of a disconnection.
LEMMA DisconnectKeeps == ASSUME PhoneInv, Disconnect PROVE PhoneInv'
<1> USE DEF PhoneInv, phone, server, workers, control
<1>u. UNCHANGED <<exit, dir, sess, late, relay, job, thread, import, exiter, fails>>
  BY DEF Disconnect, Barrier
<1>t. row \in Row
  BY DEF TypeOK
<1>w. \A t \in Threads : thread[t].at # "idle" => thread[t].work # 0
  BY DEF ThreadsAreWhole, ThreadIsWhole
<1>b. Paused(row) \in Row /\ 0 \in 0..MaxWorks /\ row' = [Paused(row) EXCEPT !.work = 0]
  BY <1>t, Bounds, PausedEffect DEF Disconnect, Barrier
<1>c. row.status = "none" => row' = row
  BY <1>t, <1>b, PausedEffect DEF Row, RowIsWhole, NoRow
<1>d. /\ row' \in Row /\ row'.receipt = Paused(row).receipt /\ row'.rev = Paused(row).rev
      /\ row'.work = 0 /\ row'.status = Paused(row).status
  BY <1>b DEF Row
<1>a. /\ auto \in Source /\ auto'.rev = auto.rev /\ auto' \in Source
      /\ ~auto'.on
  BY DEF Disconnect, Barrier, TypeOK, Source
<1>e. folder' = "pending" /\ folder \in {"open", "pending"}
  BY DEF Disconnect, Barrier
<1>r. /\ row' \in Row /\ row'.receipt = row.receipt /\ row'.rev = row.rev
      /\ row'.work \in {0, row.work} /\ (row.status = "none" => row' = row)
      /\ row'.status = "none" <=> row.status = "none"
      /\ row'.status = "UPLOADED" <=> row.status = "UPLOADED"
      /\ row'.status = "PAUSED" => row'.work = 0
  BY <1>t, <1>c, <1>d, PausedEffect
<1>n. user' \in 0..MaxUser /\ user' >= user /\ fails' \in 0..MaxFails
  BY <1>u, Bounds DEF Disconnect, Tap, TypeOK
<1>q. queue' \in Monitor /\ import' \in Staged /\ auto' \in Source
  BY <1>u, <1>a, InitialValues DEF Disconnect, Barrier, TypeOK, Monitor
<1>1. TypeOK'
  BY <1>u, <1>r, <1>n, <1>q DEF TypeOK, Disconnect, Barrier
<1>2. \A r \in Revisions : r <= auto.rev /\ Allowed(r)' => Allowed(r)
  BY <1>u, <1>e DEF Allowed, Active
<1>3. ExitIsOrdered'
  BY <1>u DEF Disconnect, Barrier, ExitIsOrdered, Cleaning, Working,
      Importing, Barrier
<1>4. AssignIsMeant'
  BY <1>u, <1>r, InitialValues DEF Disconnect, Barrier, AssignIsMeant,
      FreeQueue, Waiting
<1>5. /\ row'.rev <= auto'.rev /\ auto.rev <= auto'.rev /\ auto'.rev <= user' + 1
      /\ import'.rev <= auto'.rev /\ auto.rev \in Int /\ auto'.rev \in Int
  BY <1>u, <1>r, <1>n, TypedNumbers, <1>a DEF RevisionsArePast
<1> QED
  BY <1>u, <1>r, <1>1, <1>2, <1>3, <1>4, <1>5, RowStep, <1>w, <1>e

\* The same barrier in a clean exit.
LEMMA ExitStopKeeps == ASSUME PhoneInv, ExitStop PROVE PhoneInv'
<1> USE DEF PhoneInv, phone, server, workers, control
<1>u. UNCHANGED <<exit, dir, sess, late, relay, job, thread, import, fails, user>>
  BY DEF ExitStop, Barrier
<1>t. row \in Row
  BY DEF TypeOK
<1>w. \A t \in Threads : thread[t].at # "idle" => thread[t].work # 0
  BY DEF ThreadsAreWhole, ThreadIsWhole
<1>b. Paused(row) \in Row /\ 0 \in 0..MaxWorks /\ row' = [Paused(row) EXCEPT !.work = 0]
  BY <1>t, Bounds, PausedEffect DEF ExitStop, Barrier
<1>c. row.status = "none" => row' = row
  BY <1>t, <1>b, PausedEffect DEF Row, RowIsWhole, NoRow
<1>d. /\ row' \in Row /\ row'.receipt = Paused(row).receipt /\ row'.rev = Paused(row).rev
      /\ row'.work = 0 /\ row'.status = Paused(row).status
  BY <1>b DEF Row
<1>a. /\ auto \in Source /\ auto'.rev = auto.rev /\ auto' \in Source
      /\ ~auto'.on
  BY DEF ExitStop, Barrier, TypeOK, Source
<1>e. folder' = "pending" /\ folder # "removed"
  BY DEF ExitStop, Barrier, ExitIsOrdered
<1>r. /\ row' \in Row /\ row'.receipt = row.receipt /\ row'.rev = row.rev
      /\ row'.work \in {0, row.work} /\ (row.status = "none" => row' = row)
      /\ row'.status = "none" <=> row.status = "none"
      /\ row'.status = "UPLOADED" <=> row.status = "UPLOADED"
      /\ row'.status = "PAUSED" => row'.work = 0
  BY <1>t, <1>c, <1>d, PausedEffect
<1>n. user' \in 0..MaxUser /\ user' >= user /\ fails' \in 0..MaxFails
  BY <1>u, TypedNumbers DEF TypeOK
<1>q. queue' \in Monitor /\ import' \in Staged /\ auto' \in Source
  BY <1>u, <1>a, InitialValues DEF ExitStop, Barrier, TypeOK, Monitor
<1>1. TypeOK'
  BY <1>u, <1>r, <1>n, <1>q DEF TypeOK, ExitStop, Barrier
<1>2. \A r \in Revisions : r <= auto.rev /\ Allowed(r)' => Allowed(r)
  BY <1>u, <1>e DEF Allowed, Active
<1>3. ExitIsOrdered'
  BY <1>u DEF ExitStop, Barrier, ExitIsOrdered, Cleaning, Working,
      Importing, Barrier
<1>4. AssignIsMeant'
  BY <1>u, <1>r, InitialValues DEF ExitStop, Barrier, AssignIsMeant,
      FreeQueue, Waiting
<1>5. /\ row'.rev <= auto'.rev /\ auto.rev <= auto'.rev /\ auto'.rev <= user' + 1
      /\ import'.rev <= auto'.rev /\ auto.rev \in Int /\ auto'.rev \in Int
  BY <1>u, <1>r, <1>n, TypedNumbers, <1>a DEF RevisionsArePast
<1> QED
  BY <1>u, <1>r, <1>1, <1>2, <1>3, <1>4, <1>5, RowStep, <1>w, <1>e

\* The relay has confirmed the disconnection.
LEMMA FinishDisconnectKeeps == ASSUME PhoneInv, FinishDisconnect PROVE PhoneInv'
<1> USE DEF PhoneInv, phone, server, workers, control
<1>u. UNCHANGED <<exit, auto, dir, sess, late, relay, job, thread, import, queue, exiter, fails, user, row>>
  BY DEF FinishDisconnect
<1>t. row \in Row
  BY DEF TypeOK
<1>w. \A t \in Threads : thread[t].at # "idle" => thread[t].work # 0
  BY DEF ThreadsAreWhole, ThreadIsWhole
<1>e. folder' = "closed" /\ folder = "pending"
  BY DEF FinishDisconnect
<1>r. /\ row' \in Row /\ row'.receipt = row.receipt /\ row'.rev = row.rev
      /\ row'.work \in {0, row.work} /\ (row.status = "none" => row' = row)
      /\ row'.status = "none" <=> row.status = "none"
      /\ row'.status = "UPLOADED" <=> row.status = "UPLOADED"
      /\ row'.status = "PAUSED" => row'.work = 0
  BY <1>t, <1>u DEF RowIsWhole
<1>n. user' \in 0..MaxUser /\ user' >= user /\ fails' \in 0..MaxFails
  BY <1>u, TypedNumbers DEF TypeOK
<1>q. queue' \in Monitor /\ import' \in Staged /\ auto' \in Source
  BY <1>u DEF TypeOK
<1>1. TypeOK'
  BY <1>u, <1>r, <1>n, <1>q DEF TypeOK, FinishDisconnect
<1>2. \A r \in Revisions : r <= auto.rev /\ Allowed(r)' => Allowed(r)
  BY <1>u, <1>e DEF Allowed, Active
<1>3. ExitIsOrdered'
  BY <1>u DEF FinishDisconnect, ExitIsOrdered, Cleaning, Working, Importing
<1>4. AssignIsMeant'
  BY <1>u, <1>r, InitialValues DEF FinishDisconnect, AssignIsMeant,
      FreeQueue, Waiting
<1>5. /\ row'.rev <= auto'.rev /\ auto.rev <= auto'.rev /\ auto'.rev <= user' + 1
      /\ import'.rev <= auto'.rev /\ auto.rev \in Int /\ auto'.rev \in Int
  BY <1>u, <1>r, <1>n, TypedNumbers DEF RevisionsArePast
<1> QED
  BY <1>u, <1>r, <1>1, <1>2, <1>3, <1>4, <1>5, RowStep, <1>w, <1>e

\* A clean exit begins: the Folder is no longer open.
LEMMA ExitBeginKeeps == ASSUME PhoneInv, ExitBegin PROVE PhoneInv'
<1> USE DEF PhoneInv, phone, server, workers, control
<1>u. UNCHANGED <<auto, dir, sess, late, relay, job, thread, import, queue, fails, user, row>>
  BY DEF ExitBegin
<1>t. row \in Row
  BY DEF TypeOK
<1>w. \A t \in Threads : thread[t].at # "idle" => thread[t].work # 0
  BY DEF ThreadsAreWhole, ThreadIsWhole
<1>e. /\ folder' = "pending" /\ folder \in {"open", "pending"}
      /\ exit' \in {"pending", exit} /\ exit' # "none"
  BY DEF ExitBegin, TypeOK
<1>r. /\ row' \in Row /\ row'.receipt = row.receipt /\ row'.rev = row.rev
      /\ row'.work \in {0, row.work} /\ (row.status = "none" => row' = row)
      /\ row'.status = "none" <=> row.status = "none"
      /\ row'.status = "UPLOADED" <=> row.status = "UPLOADED"
      /\ row'.status = "PAUSED" => row'.work = 0
  BY <1>t, <1>u DEF RowIsWhole
<1>n. user' \in 0..MaxUser /\ user' >= user /\ fails' \in 0..MaxFails
  BY <1>u, TypedNumbers DEF TypeOK
<1>q. queue' \in Monitor /\ import' \in Staged /\ auto' \in Source
  BY <1>u DEF TypeOK
<1>1. TypeOK'
  BY <1>u, <1>r, <1>n, <1>q DEF TypeOK, ExitBegin
<1>2. \A r \in Revisions : r <= auto.rev /\ Allowed(r)' => Allowed(r)
  BY <1>u, <1>e DEF Allowed, Active
<1>3. ExitIsOrdered'
  BY <1>u, <1>e DEF ExitBegin, ExitIsOrdered, Cleaning, Working, Importing,
      TypeOK
<1>4. AssignIsMeant'
  BY <1>u, <1>r, InitialValues DEF ExitBegin, AssignIsMeant, FreeQueue,
      Waiting
<1>5. /\ row'.rev <= auto'.rev /\ auto.rev <= auto'.rev /\ auto'.rev <= user' + 1
      /\ import'.rev <= auto'.rev /\ auto.rev \in Int /\ auto'.rev \in Int
  BY <1>u, <1>r, <1>n, TypedNumbers DEF RevisionsArePast
<1> QED
  BY <1>u, <1>r, <1>1, <1>2, <1>3, <1>4, <1>5, RowStep, <1>w, <1>e

\* FolderWorkGate.clean waits for work that is stopping.
LEMMA ExitGateKeeps == ASSUME PhoneInv, ExitGate PROVE PhoneInv'
<1> USE DEF PhoneInv, phone, server, workers, control
<1>u. UNCHANGED <<folder, exit, auto, dir, sess, late, relay, job, thread, import, queue, fails, user, row>>
  BY DEF ExitGate
<1>t. row \in Row
  BY DEF TypeOK
<1>w. \A t \in Threads : thread[t].at # "idle" => thread[t].work # 0
  BY DEF ThreadsAreWhole, ThreadIsWhole
<1>r. /\ row' \in Row /\ row'.receipt = row.receipt /\ row'.rev = row.rev
      /\ row'.work \in {0, row.work} /\ (row.status = "none" => row' = row)
      /\ row'.status = "none" <=> row.status = "none"
      /\ row'.status = "UPLOADED" <=> row.status = "UPLOADED"
      /\ row'.status = "PAUSED" => row'.work = 0
  BY <1>t, <1>u DEF RowIsWhole
<1>n. user' \in 0..MaxUser /\ user' >= user /\ fails' \in 0..MaxFails
  BY <1>u, TypedNumbers DEF TypeOK
<1>q. queue' \in Monitor /\ import' \in Staged /\ auto' \in Source
  BY <1>u DEF TypeOK
<1>1. TypeOK'
  BY <1>u, <1>r, <1>n, <1>q DEF TypeOK, ExitGate
<1>2. \A r \in Revisions : r <= auto.rev /\ Allowed(r)' => Allowed(r)
  BY <1>u DEF Allowed, Active
<1>3. ExitIsOrdered'
  BY <1>u DEF ExitGate, ExitIsOrdered, Cleaning, Working, Importing
<1>4. AssignIsMeant'
  BY <1>u, <1>r, InitialValues DEF ExitGate, AssignIsMeant, FreeQueue,
      Waiting
<1>5. /\ row'.rev <= auto'.rev /\ auto.rev <= auto'.rev /\ auto'.rev <= user' + 1
      /\ import'.rev <= auto'.rev /\ auto.rev \in Int /\ auto'.rev \in Int
  BY <1>u, <1>r, <1>n, TypedNumbers DEF RevisionsArePast
<1> QED
  BY <1>u, <1>r, <1>1, <1>2, <1>3, <1>4, <1>5, RowStep, <1>w

\* The phone's receipt is sent.
LEMMA ExitAckKeeps == ASSUME PhoneInv, ExitAck PROVE PhoneInv'
<1> USE DEF PhoneInv, phone, server, workers, control
<1>u. UNCHANGED <<auto, dir, sess, late, relay, job, thread, import, queue, fails, user, row>>
  BY DEF ExitAck
<1>t. row \in Row
  BY DEF TypeOK
<1>w. \A t \in Threads : thread[t].at # "idle" => thread[t].work # 0
  BY DEF ThreadsAreWhole, ThreadIsWhole
<1>e. /\ folder = "pending" /\ folder' \in {"closed", folder}
      /\ exit = "local_cleaned" /\ exit' \in {"complete", exit}
  BY DEF ExitAck, ExitIsOrdered
<1>r. /\ row' \in Row /\ row'.receipt = row.receipt /\ row'.rev = row.rev
      /\ row'.work \in {0, row.work} /\ (row.status = "none" => row' = row)
      /\ row'.status = "none" <=> row.status = "none"
      /\ row'.status = "UPLOADED" <=> row.status = "UPLOADED"
      /\ row'.status = "PAUSED" => row'.work = 0
  BY <1>t, <1>u DEF RowIsWhole
<1>n. user' \in 0..MaxUser /\ user' >= user /\ fails' \in 0..MaxFails
  BY <1>u, TypedNumbers DEF TypeOK
<1>q. queue' \in Monitor /\ import' \in Staged /\ auto' \in Source
  BY <1>u DEF TypeOK
<1>1. TypeOK'
  BY <1>u, <1>r, <1>n, <1>q DEF TypeOK, ExitAck
<1>2. \A r \in Revisions : r <= auto.rev /\ Allowed(r)' => Allowed(r)
  BY <1>u, <1>e DEF Allowed, Active
<1>3. ExitIsOrdered'
  BY <1>u DEF ExitAck, ExitIsOrdered, Cleaning, Working, Importing
<1>4. AssignIsMeant'
  BY <1>u, <1>r, InitialValues DEF ExitAck, AssignIsMeant, FreeQueue,
      Waiting
<1>5. /\ row'.rev <= auto'.rev /\ auto.rev <= auto'.rev /\ auto'.rev <= user' + 1
      /\ import'.rev <= auto'.rev /\ auto.rev \in Int /\ auto'.rev \in Int
  BY <1>u, <1>r, <1>n, TypedNumbers DEF RevisionsArePast
<1> QED
  BY <1>u, <1>r, <1>1, <1>2, <1>3, <1>4, <1>5, RowStep, <1>w, <1>e

\* The caller of the import enqueues.
LEMMA ImportEnqueueKeeps == ASSUME PhoneInv, ImportEnqueue PROVE PhoneInv'
<1> USE DEF PhoneInv, phone, server, workers, control
<1>u. UNCHANGED <<folder, exit, auto, dir, sess, late, relay, job, thread, exiter, fails, user, row>>
  BY DEF ImportEnqueue
<1>t. row \in Row
  BY DEF TypeOK
<1>w. \A t \in Threads : thread[t].at # "idle" => thread[t].work # 0
  BY DEF ThreadsAreWhole, ThreadIsWhole
<1>e. import' = NoImport /\ import'.at \notin Staging /\ import'.rev = 0
  BY InitialValues DEF ImportEnqueue, Staging
<1>r. /\ row' \in Row /\ row'.receipt = row.receipt /\ row'.rev = row.rev
      /\ row'.work \in {0, row.work} /\ (row.status = "none" => row' = row)
      /\ row'.status = "none" <=> row.status = "none"
      /\ row'.status = "UPLOADED" <=> row.status = "UPLOADED"
      /\ row'.status = "PAUSED" => row'.work = 0
  BY <1>t, <1>u DEF RowIsWhole
<1>n. user' \in 0..MaxUser /\ user' >= user /\ fails' \in 0..MaxFails
  BY <1>u, TypedNumbers DEF TypeOK
<1>q. queue' \in Monitor /\ import' \in Staged /\ auto' \in Source
  BY <1>u, InitialValues DEF ImportEnqueue, TypeOK, Monitor
<1>1. TypeOK'
  BY <1>u, <1>r, <1>n, <1>q DEF TypeOK, ImportEnqueue
<1>2. \A r \in Revisions : r <= auto.rev /\ Allowed(r)' => Allowed(r)
  BY <1>u DEF Allowed, Active
<1>3. ExitIsOrdered'
  BY <1>u, <1>e, InitialValues DEF ImportEnqueue, ExitIsOrdered, Cleaning,
      Working, Importing
<1>4. AssignIsMeant'
  BY <1>u, <1>r, InitialValues DEF ImportEnqueue, AssignIsMeant, FreeQueue,
      Waiting
<1>5. /\ row'.rev <= auto'.rev /\ auto.rev <= auto'.rev /\ auto'.rev <= user' + 1
      /\ import'.rev <= auto'.rev /\ auto.rev \in Int /\ auto'.rev \in Int
  BY <1>u, <1>r, <1>n, TypedNumbers, <1>e DEF RevisionsArePast
<1> QED
  BY <1>u, <1>r, <1>1, <1>2, <1>3, <1>4, <1>5, RowStep, <1>w, <1>e

\* assign: the new work id is one that no thread has.
LEMMA QueueAssignKeeps == ASSUME PhoneInv, QueueAssign PROVE PhoneInv'
<1> USE DEF PhoneInv, phone, server, workers, control
<1>u. UNCHANGED <<folder, exit, auto, dir, sess, late, relay, job, thread, import, exiter, fails, user>>
  BY Zenon DEF QueueAssign
<1>t. row \in Row
  BY DEF TypeOK
<1>f. \/ row' = row /\ RowIsWhole
      \/ /\ row' \in Row /\ row'.receipt = row.receipt /\ row'.rev = row.rev
         /\ row'.status = "QUEUED" /\ row.status \notin {"none", "UPLOADED"}
         /\ \A t \in Threads : row'.work # thread[t].work
  <2>1. CASE row' = row
    BY <2>1
  <2>2. ASSUME NEW w \in WorkIds, Fresh(w), row' = [row EXCEPT !.status = "QUEUED", !.work = w],
               row.status \notin {"none", "UPLOADED"}
        PROVE  /\ row' \in Row /\ row'.receipt = row.receipt /\ row'.rev = row.rev
               /\ row'.status = "QUEUED" /\ \A t \in Threads : row'.work # thread[t].work
    <3>1. w \in 0..MaxWorks
      BY Bounds DEF WorkIds
    <3>2. /\ row' \in Row /\ row'.receipt = row.receipt /\ row'.rev = row.rev
          /\ row'.status = "QUEUED" /\ row'.work = w
      BY <1>t, <2>2, <3>1 DEF Row
    <3> QED
      BY <2>2, <3>2 DEF Fresh
  <2> QED
    BY <2>1, <2>2, Zenon DEF QueueAssign
<1>g. queue' \in Monitor
  <2>1. queue \in Monitor /\ \A w \in WorkIds : w \in 0..MaxWorks
    BY Bounds DEF TypeOK, WorkIds
  <2>2. \A w \in 0..MaxWorks : [queue EXCEPT !.at = "submit", !.work = w] \in Monitor
    BY <2>1 DEF Monitor
  <2> QED
    BY <2>1, <2>2, InitialValues, Zenon DEF QueueAssign
<1>h. queue'.at # "assign"
  <2>1. queue \in Monitor /\ FreeQueue.at = "free"
    BY DEF TypeOK, FreeQueue
  <2>2. \A w : [queue EXCEPT !.at = "submit", !.work = w].at = "submit"
    BY <2>1 DEF Monitor
  <2>3. queue'.at \in {"free", "submit"}
    BY <2>1, <2>2, Zenon DEF QueueAssign
  <2> QED
    BY <2>3
<1>r. /\ row' \in Row /\ row'.receipt = row.receipt /\ row'.rev = row.rev
      /\ (row.status = "none" => row' = row)
      /\ row'.status = "none" <=> row.status = "none"
      /\ row'.status = "UPLOADED" <=> row.status = "UPLOADED"
      /\ row'.status = "PAUSED" => row'.work = 0
      /\ \A t \in Threads : thread[t].at # "idle" /\ row'.work = thread[t].work => row.work = thread[t].work
  BY <1>t, <1>f DEF RowIsWhole
<1>n. user' \in 0..MaxUser /\ user' >= user /\ fails' \in 0..MaxFails
  BY <1>u, TypedNumbers DEF TypeOK
<1>q. queue' \in Monitor /\ import' \in Staged /\ auto' \in Source
  BY <1>u, <1>g DEF TypeOK
<1>1. TypeOK'
  BY <1>u, <1>r, <1>n, <1>q DEF TypeOK
<1>2. \A r \in Revisions : r <= auto.rev /\ Allowed(r)' => Allowed(r)
  BY <1>u DEF Allowed, Active
<1>3. ExitIsOrdered'
  BY <1>u DEF ExitIsOrdered, Cleaning, Working, Importing
<1>4. AssignIsMeant'
  BY <1>h DEF AssignIsMeant
<1>5. /\ row'.rev <= auto'.rev /\ auto.rev <= auto'.rev /\ auto'.rev <= user' + 1
      /\ import'.rev <= auto'.rev /\ auto.rev \in Int /\ auto'.rev \in Int
  BY <1>u, <1>r, <1>n, TypedNumbers DEF RevisionsArePast
<1> QED
  BY <1>u, <1>r, <1>1, <1>2, <1>3, <1>4, <1>5, RowStep

\* A new revision is one that no transfer has.
LEMMA EnableAutoKeeps == ASSUME PhoneInv, EnableAuto PROVE PhoneInv'
<1> USE DEF PhoneInv, phone, server, workers, control
<1>u. UNCHANGED <<folder, exit, dir, sess, late, relay, job, thread, import, queue, exiter, fails, row>>
  BY DEF EnableAuto
<1>t. row \in Row
  BY DEF TypeOK
<1>w. \A t \in Threads : thread[t].at # "idle" => thread[t].work # 0
  BY DEF ThreadsAreWhole, ThreadIsWhole
<1>a. auto'.rev = auto.rev + 1 /\ auto' \in Source
  <2>1. auto.rev + 1 \in Revisions
    BY Bounds, TypedNumbers DEF EnableAuto, Tap, TypeOK, RevisionsArePast, Revisions
  <2> QED
    BY <2>1 DEF EnableAuto, Source
<1>r. /\ row' \in Row /\ row'.receipt = row.receipt /\ row'.rev = row.rev
      /\ row'.work \in {0, row.work} /\ (row.status = "none" => row' = row)
      /\ row'.status = "none" <=> row.status = "none"
      /\ row'.status = "UPLOADED" <=> row.status = "UPLOADED"
      /\ row'.status = "PAUSED" => row'.work = 0
  BY <1>t, <1>u DEF RowIsWhole
<1>n. user' \in 0..MaxUser /\ user' >= user /\ fails' \in 0..MaxFails
  BY <1>u, Bounds DEF EnableAuto, Tap, TypeOK
<1>q. queue' \in Monitor /\ import' \in Staged /\ auto' \in Source
  BY <1>u, <1>a DEF TypeOK
<1>1. TypeOK'
  BY <1>u, <1>r, <1>n, <1>q DEF TypeOK
<1>2. \A r \in Revisions : r <= auto.rev /\ Allowed(r)' => Allowed(r)
  BY <1>u, <1>a, <1>n, TypedNumbers, Bounds DEF Allowed, Active
<1>3. ExitIsOrdered'
  BY <1>u DEF ExitIsOrdered, Cleaning, Working, Importing
<1>4. AssignIsMeant'
  BY <1>u, <1>r, InitialValues DEF EnableAuto, AssignIsMeant, FreeQueue,
      Waiting
<1>s. user' = user + 1
  BY DEF EnableAuto, Tap
<1>5. /\ row'.rev <= auto'.rev /\ auto.rev <= auto'.rev /\ auto'.rev <= user' + 1
      /\ import'.rev <= auto'.rev /\ auto.rev \in Int /\ auto'.rev \in Int
  <2>1. /\ auto.rev \in Nat /\ row.rev \in Nat /\ import.rev \in Nat /\ user \in Nat
        /\ auto.rev <= user + 1 /\ row.rev <= auto.rev /\ import.rev <= auto.rev
    BY TypedNumbers DEF RevisionsArePast
  <2>2. import' = import /\ row'.rev \in {row.rev, auto'.rev}
    BY <1>u, <1>r
  <2> QED
    BY ONLY <1>a, <1>s, <2>1, <2>2
<1> QED
  BY <1>u, <1>r, <1>1, <1>2, <1>3, <1>4, <1>5, RowStep, <1>w

\* A directory's transfers move to the new revision.
LEMMA ResumeDirectoryKeeps == ASSUME PhoneInv, ResumeDirectory PROVE PhoneInv'
<1> USE DEF PhoneInv, phone, server, workers, control
<1>u. UNCHANGED <<folder, exit, dir, sess, late, relay, job, thread, import, queue, exiter, fails>>
  BY DEF ResumeDirectory
<1>t. row \in Row
  BY DEF TypeOK
<1>w. \A t \in Threads : thread[t].at # "idle" => thread[t].work # 0
  BY DEF ThreadsAreWhole, ThreadIsWhole
<1>s. user' = user + 1
  BY DEF ResumeDirectory, Tap
<1>a. /\ auto'.rev = auto.rev + 1 /\ auto' \in Source /\ auto.rev + 1 \in Revisions
  <2>1. auto.rev + 1 \in Revisions
    BY Bounds, TypedNumbers DEF ResumeDirectory, Tap, TypeOK, RevisionsArePast, Revisions
  <2>2. auto \in Source /\ auto' = [auto EXCEPT !.rev = auto.rev + 1, !.on = TRUE]
    BY DEF ResumeDirectory, TypeOK
  <2> QED
    BY <2>1, <2>2 DEF Source
<1>b. \/ row' = row
      \/ /\ row.status \in {"PAUSED", "QUEUED", "UPLOADING"} /\ row' \in Row
         /\ row'.status = "QUEUED" /\ row'.work = 0 /\ row'.rev = auto.rev + 1
         /\ row'.receipt = row.receipt
      \/ /\ row.status = "FAILED" /\ row' \in Row
         /\ row'.status = "FAILED" /\ row'.work = row.work /\ row'.rev = auto.rev + 1
         /\ row'.receipt = row.receipt
  <2>1. 0 \in 0..MaxWorks
    BY Bounds
  <2>2. CASE row' = [row EXCEPT !.status = "QUEUED", !.work = 0, !.rev = auto.rev + 1]
             /\ row.status \in {"PAUSED", "QUEUED", "UPLOADING"}
    BY <1>t, <1>a, <2>1, <2>2 DEF Row
  <2>3. CASE row' = [row EXCEPT !.rev = auto.rev + 1] /\ row.status = "FAILED"
    BY <1>t, <1>a, <2>3 DEF Row
  <2> QED
    BY <2>2, <2>3, Zenon DEF ResumeDirectory
<1>r. /\ row' \in Row /\ row'.receipt = row.receipt /\ row'.rev \in {row.rev, auto'.rev}
      /\ row'.work \in {0, row.work} /\ (row.status = "none" => row' = row)
      /\ row'.status = "none" <=> row.status = "none"
      /\ row'.status = "UPLOADED" <=> row.status = "UPLOADED"
      /\ row'.status = "PAUSED" => row'.work = 0
  BY <1>t, <1>a, <1>b DEF RowIsWhole
<1>n. user' \in 0..MaxUser /\ user' >= user /\ fails' \in 0..MaxFails
  BY <1>u, Bounds DEF ResumeDirectory, Tap, TypeOK
<1>q. queue' \in Monitor /\ import' \in Staged /\ auto' \in Source
  BY <1>u, <1>a DEF TypeOK
<1>1. TypeOK'
  BY <1>u, <1>r, <1>n, <1>q DEF TypeOK
<1>2. \A r \in Revisions : r <= auto.rev /\ Allowed(r)' => Allowed(r)
  BY <1>u, <1>a, <1>n, TypedNumbers, Bounds DEF Allowed, Active
<1>3. ExitIsOrdered'
  BY <1>u DEF ExitIsOrdered, Cleaning, Working, Importing
<1>4. AssignIsMeant'
  BY <1>u, <1>r, InitialValues DEF ResumeDirectory, AssignIsMeant,
      FreeQueue, Waiting
<1>5. /\ row'.rev <= auto'.rev /\ auto.rev <= auto'.rev /\ auto'.rev <= user' + 1
      /\ import'.rev <= auto'.rev /\ auto.rev \in Int /\ auto'.rev \in Int
  <2>1. /\ auto.rev \in Nat /\ row.rev \in Nat /\ import.rev \in Nat /\ user \in Nat
        /\ auto.rev <= user + 1 /\ row.rev <= auto.rev /\ import.rev <= auto.rev
    BY TypedNumbers DEF RevisionsArePast
  <2>2. import' = import /\ row'.rev \in {row.rev, auto'.rev}
    BY <1>u, <1>r
  <2> QED
    BY ONLY <1>a, <1>s, <2>1, <2>2
<1> QED
  BY <1>u, <1>r, <1>1, <1>2, <1>3, <1>4, <1>5, RowStep, <1>w

-----------------------------------------------------------------------------
(* Steps of an import *)

\* While a file is staged there is no row, no thread and no session that counts.
LEMMA StagingStep ==
  ASSUME PhoneInv, import.at \in Staging,
         UNCHANGED <<row, folder, exit, auto, sess, late, relay, job, thread, queue,
                     exiter, user>>,
         fails' \in 0..MaxFails,
         dir' \in Dir, dir'.resume = dir.resume,
         import' \in Staged, import'.rev \in {0, import.rev},
         import'.at \in Staging \cup {"idle"},
         import'.at = "commit" => dir'.bytes = "full"
  PROVE  PhoneInv'
<1> USE DEF PhoneInv
<1>1. row = NoRow /\ Quiet /\ (relay = "open" => sess = <<>>)
  BY DEF StagingIsAlone
<1>2. TypeOK'
  BY DEF TypeOK
<1>3. ThreadsAreWhole' /\ LockIsExclusive'
  <2>1. \A t \in Threads : thread'[t] = Idle
    BY <1>1 DEF Quiet
  <2> QED
    BY <2>1, InitialValues DEF ThreadsAreWhole, ThreadIsWhole, LockIsExclusive,
        Holding, Requesting, Dropping
<1>4. RowIsWhole' /\ AssignIsMeant' /\ ReceiptIsDelivered'
  BY DEF RowIsWhole, AssignIsMeant, ReceiptIsDelivered
<1>5. RevisionsArePast'
  BY TypedNumbers DEF RevisionsArePast
<1>6. StagingIsAlone'
  BY <1>1 DEF StagingIsAlone, Quiet
<1>7. ~Cleaning /\ exit \notin {"local_cleaned", "complete"}
  <2>1. Working
    BY DEF Working, Importing, Staging
  <2> QED
    BY <2>1 DEF ExitIsOrdered, CleanedIsQuiet
<1>8. ExitIsOrdered' /\ CleanedIsQuiet'
  BY <1>7 DEF ExitIsOrdered, CleanedIsQuiet, Cleaning
<1>9. DropsAreRecorded' /\ SessionsAreThere'
  <2>1. \A t \in Threads : thread'[t] = Idle
    BY <1>1 DEF Quiet
  <2> QED
    BY <2>1, InitialValues DEF DropsAreRecorded, SessionsAreThere, Dropping
<1>10. PayloadIsKept'
  BY <1>1, InitialValues DEF PayloadIsKept
<1>11. SessionIsSingle'
  <2>1. \A t \in Threads : thread'[t] = Idle
    BY <1>1 DEF Quiet
  <2>2. relay = "open" => Sessions' = {}
    BY <1>1 DEF Sessions
  <2> QED
    BY <2>1, <2>2, InitialValues DEF SessionIsSingle, OneLive, LiveIsNamed, Looked
<1>12. DeliveredIsSingle'
  BY DEF DeliveredIsSingle, Sessions
<1> QED
  BY <1>2, <1>3, <1>4, <1>5, <1>6, <1>8, <1>9, <1>10, <1>11, <1>12

\* The steps between the start of an import and its commit.
LEMMA StageKeeps ==
  ASSUME PhoneInv, ImportMark \/ ImportCopy \/ ImportRename \/ ImportUndo \/ ImportUnmark
  PROVE  PhoneInv'
<1> USE DEF PhoneInv, phone, server, workers, control
<1>1. dir \in Dir /\ import \in Staged /\ fails \in 0..MaxFails
  BY DEF TypeOK
<1>2. /\ \A b \in BOOLEAN : [dir EXCEPT !.owner = b] \in Dir
                           /\ [dir EXCEPT !.owner = b].resume = dir.resume
      /\ \A b \in {"none", "part", "full"} :
           /\ [dir EXCEPT !.bytes = b] \in Dir /\ [dir EXCEPT !.bytes = b].bytes = b
           /\ [dir EXCEPT !.bytes = b].resume = dir.resume
  BY <1>1 DEF Dir
<1>3. \A s \in Staging : /\ [import EXCEPT !.at = s] \in Staged
                         /\ [import EXCEPT !.at = s].at = s
                         /\ [import EXCEPT !.at = s].rev = import.rev
  BY <1>1 DEF Staged
<1>4. CASE ImportMark
  BY <1>1, <1>2, <1>3, <1>4, StagingStep DEF ImportMark, Staging
<1>5. CASE ImportCopy
  BY <1>1, <1>2, <1>3, <1>5, StagingStep DEF ImportCopy, Staging
<1>6. CASE ImportRename
  <2>1. CASE UNCHANGED dir
    <3>1. fails' \in 0..MaxFails
      BY <1>1, <1>6, Bounds DEF ImportRename, Failed, CanFail
    <3> QED
      BY <1>1, <1>2, <1>3, <1>6, <2>1, <3>1, StagingStep DEF ImportRename, Staging
  <2>2. CASE dir' = [dir EXCEPT !.bytes = "full"] /\ UNCHANGED fails
    BY <1>1, <1>2, <1>3, <1>6, <2>2, StagingStep DEF ImportRename, Staging
  <2> QED
    BY <1>6, <2>1, <2>2 DEF ImportRename
<1>7. CASE ImportUndo
  BY <1>1, <1>2, <1>3, <1>7, StagingStep DEF ImportUndo, Staging
<1>8. CASE ImportUnmark
  BY <1>1, <1>2, <1>3, <1>8, InitialValues, StagingStep DEF ImportUnmark, Staging
<1> QED
  BY <1>4, <1>5, <1>6, <1>7, <1>8

\* An import begins for an open Folder without a row, so before any session.
LEMMA ImportBeginKeeps == ASSUME PhoneInv, ImportBegin PROVE PhoneInv'
<1> USE DEF PhoneInv, phone, server, workers, control
<1>1. /\ row = NoRow /\ folder = "open" /\ ~Cleaning
      /\ UNCHANGED <<row, folder, exit, auto, dir, sess, late, relay, job, thread,
                     queue, exiter, fails, user>>
  BY DEF ImportBegin
<1>2. import' \in Staged /\ import'.at = "mark" /\ import'.rev \in {0, auto.rev}
  <2>1. 0 \in Revisions /\ auto.rev \in Revisions /\ auto.tree \in BOOLEAN
    BY InitialValues DEF TypeOK, Source, NoRow, Row
  <2>2. \A r \in Revisions, b \in BOOLEAN : [at |-> "mark", rev |-> r, tree |-> b] \in Staged
    BY DEF Staged, Staging
  <2>3. \/ import' = [at |-> "mark", rev |-> 0, tree |-> FALSE]
        \/ import' = [at |-> "mark", rev |-> auto.rev, tree |-> auto.tree]
    BY DEF ImportBegin
  <2>4. ASSUME NEW r \in Revisions, NEW b \in BOOLEAN,
               import' = [at |-> "mark", rev |-> r, tree |-> b]
        PROVE  import' \in Staged /\ import'.at = "mark" /\ import'.rev = r
    BY <2>2, <2>4
  <2> QED
    BY <2>1, <2>3, <2>4
<1>3. Quiet /\ (relay = "open" => sess = <<>>)
  BY <1>1 DEF StagingIsAlone
<1>4. TypeOK'
  BY <1>1, <1>2 DEF TypeOK
<1>5. ThreadsAreWhole'
  <2> SUFFICES ASSUME NEW t \in Threads PROVE ThreadIsWhole(t)'
    BY Zenon DEF ThreadsAreWhole
  <2> QED
    BY <1>1 DEF ThreadsAreWhole, ThreadIsWhole, MayGoOn, Allowed, Active
<1>6. RowIsWhole' /\ LockIsExclusive' /\ AssignIsMeant' /\ ReceiptIsDelivered'
      /\ DropsAreRecorded' /\ SessionsAreThere' /\ PayloadIsKept'
  BY <1>1 DEF RowIsWhole, LockIsExclusive, Holding, AssignIsMeant, ReceiptIsDelivered,
      DropsAreRecorded, SessionsAreThere, PayloadIsKept
<1>7. RevisionsArePast'
  BY <1>1, <1>2, TypedNumbers DEF RevisionsArePast
<1>8. StagingIsAlone'
  BY <1>1, <1>2, <1>3 DEF StagingIsAlone, Quiet
<1>9. ExitIsOrdered' /\ CleanedIsQuiet'
  BY <1>1 DEF ExitIsOrdered, CleanedIsQuiet, Cleaning
<1>10. SessionIsSingle' /\ DeliveredIsSingle'
  BY <1>1 DEF SessionIsSingle, OneLive, LiveIsNamed, Looked,
      DeliveredIsSingle, Live, Sessions
<1> QED
  BY <1>4, <1>5, <1>6, <1>7, <1>8, <1>9, <1>10

\* The row is committed with its payload in place, or not at all.
LEMMA ImportCommitKeeps == ASSUME PhoneInv, ImportCommit PROVE PhoneInv'
<1> USE DEF PhoneInv, phone, server, workers, control
<1>1. /\ import.at = "commit" /\ import.at \in Staging
      /\ UNCHANGED <<folder, exit, auto, dir, sess, late, relay, job, thread,
                     queue, exiter, fails, user>>
  BY Zenon DEF ImportCommit, Staging
<1>2. row = NoRow /\ Quiet /\ dir.bytes = "full" /\ import \in Staged
      /\ (relay = "open" => sess = <<>>)
  BY <1>1 DEF StagingIsAlone, TypeOK
<1>3. \A s \in {"enqueue"} \cup Staging :
        /\ [import EXCEPT !.at = s] \in Staged /\ [import EXCEPT !.at = s].at = s
        /\ [import EXCEPT !.at = s].rev = import.rev
  BY <1>2 DEF Staged
<1>4. CASE UNCHANGED row /\ import' = [import EXCEPT !.at = "undo"]
  <2>1. dir \in Dir /\ fails' \in 0..MaxFails
    BY <1>1 DEF TypeOK
  <2> QED
    BY <1>1, <1>3, <1>4, <2>1, StagingStep DEF Staging
<1>5. CASE /\ row' = [NoRow EXCEPT !.status = "QUEUED", !.rev = import.rev,
                                   !.tree = import.tree]
           /\ import' = [import EXCEPT !.at = "enqueue"]
           /\ Allowed(import.rev)
  <2>1. /\ row' \in Row /\ row'.status = "QUEUED" /\ row'.rev = import.rev
        /\ row'.receipt = 0
    <3>1. import.rev \in Revisions /\ import.tree \in BOOLEAN
      BY <1>2 DEF Staged
    <3> QED
      BY <1>5, <3>1, InitialValues DEF Row
  <2>2. import' \in Staged /\ import'.at = "enqueue" /\ import'.rev = import.rev
    BY <1>3, <1>5
  <2>3. TypeOK'
    BY <1>1, <2>1, <2>2, TypedNumbers DEF TypeOK
  <2>4. \A t \in Threads : thread'[t] = Idle
    BY <1>1, <1>2 DEF Quiet
  <2>5. ThreadsAreWhole' /\ LockIsExclusive' /\ DropsAreRecorded' /\ SessionsAreThere'
    BY <2>4, InitialValues DEF ThreadsAreWhole, ThreadIsWhole, LockIsExclusive,
        Holding, Requesting, Dropping, DropsAreRecorded, SessionsAreThere
  <2>6. RowIsWhole' /\ AssignIsMeant' /\ ReceiptIsDelivered'
    BY <1>1, <2>1 DEF RowIsWhole, AssignIsMeant, ReceiptIsDelivered
  <2>7. RevisionsArePast'
    BY <1>1, <2>1, <2>2, TypedNumbers DEF RevisionsArePast
  <2>8. StagingIsAlone' /\ PayloadIsKept'
    BY <1>1, <1>2, <2>1, <2>2, InitialValues DEF StagingIsAlone, Staging, PayloadIsKept
  <2>9. folder = "open" /\ exit = "none" /\ exiter = "idle"
    BY <1>5 DEF Allowed, ExitIsOrdered, TypeOK
  <2>10. ExitIsOrdered' /\ CleanedIsQuiet'
    BY <1>1, <2>9 DEF ExitIsOrdered, CleanedIsQuiet, Cleaning
  <2>11. SessionIsSingle' /\ DeliveredIsSingle'
    BY <1>1 DEF SessionIsSingle, OneLive, LiveIsNamed, Looked,
      DeliveredIsSingle, Live, Sessions
  <2> QED
    BY <2>3, <2>5, <2>6, <2>7, <2>8, <2>10, <2>11
<1> QED
  BY <1>4, <1>5, Zenon DEF ImportCommit

-----------------------------------------------------------------------------
(* Steps that stop threads *)

\* A thread is gone, or goes on as it was and may have been told to stop.
GoneOrStopping(t) ==
  \/ thread'[t] = Idle
  \/ /\ thread[t].at # "idle" /\ thread'[t].at = thread[t].at
     /\ thread'[t].work = thread[t].work /\ thread'[t].rev = thread[t].rev
     /\ thread'[t].ses = thread[t].ses /\ thread'[t].ans = thread[t].ans
     /\ thread[t].stop => thread'[t].stop

LEMMA StopStep ==
  ASSUME PhoneInv, UNCHANGED <<exit, auto, dir, sess, late, relay, user>>,
         thread' \in [Threads -> Thread],
         \A t \in Threads : GoneOrStopping(t),
         (row' = row /\ folder' = folder) \/ (row' = NoRow /\ folder' = "removed"),
         import' = import \/ import' = NoImport
  PROVE  /\ RowIsWhole' /\ ThreadsAreWhole' /\ LockIsExclusive' /\ RevisionsArePast'
         /\ StagingIsAlone' /\ CleanedIsQuiet' /\ DropsAreRecorded' /\ PayloadIsKept'
         /\ SessionIsSingle' /\ SessionsAreThere' /\ DeliveredIsSingle'
         /\ ReceiptIsDelivered'
<1> USE DEF PhoneInv, GoneOrStopping
<1>1. RowIsWhole' /\ ReceiptIsDelivered' /\ PayloadIsKept'
  BY InitialValues DEF RowIsWhole, ReceiptIsDelivered, PayloadIsKept
<1>2. ThreadsAreWhole'
  <2> SUFFICES ASSUME NEW t \in Threads PROVE ThreadIsWhole(t)'
    BY Zenon DEF ThreadsAreWhole
  <2>1. ThreadIsWhole(t)
    BY DEF ThreadsAreWhole
  <2>2. CASE thread'[t] = Idle
    BY <2>2, InitialValues DEF ThreadIsWhole, Requesting, Dropping
  <2>3. CASE thread'[t] # Idle
    <3>1. thread[t].work # 0 /\ thread'[t].work # 0
      BY <2>1, <2>3 DEF ThreadIsWhole
    <3>2. MayGoOn(t)' => MayGoOn(t)
      BY <2>3, <3>1, InitialValues DEF MayGoOn, Allowed, Active
    <3> QED
      BY <2>1, <2>3, <3>1, <3>2 DEF ThreadIsWhole
  <2> QED
    BY <2>2, <2>3
<1>3. LockIsExclusive'
  <2>1. \A t \in Threads : Holding(t)' => Holding(t)
    BY InitialValues DEF Holding, Requesting
  <2> QED
    BY <2>1 DEF LockIsExclusive
<1>4. RevisionsArePast'
  BY InitialValues, TypedNumbers DEF RevisionsArePast
<1>5. Quiet => Quiet'
  <2> SUFFICES ASSUME Quiet, NEW t \in Threads PROVE thread'[t] = Idle
    BY DEF Quiet
  <2> QED
    BY InitialValues DEF Quiet
<1>6. StagingIsAlone'
  BY <1>5, InitialValues DEF StagingIsAlone, Staging
<1>7. CleanedIsQuiet'
  BY <1>5, InitialValues DEF CleanedIsQuiet, Staging
<1>8. DropsAreRecorded'
  <2> SUFFICES ASSUME NEW t \in Threads PROVE DropsAreRecorded!(t)'
    BY Zenon DEF DropsAreRecorded
  <2> QED
    BY InitialValues DEF DropsAreRecorded, Dropping
<1>9. SessionsAreThere'
  <2> SUFFICES ASSUME NEW t \in Threads PROVE SessionsAreThere!(t)'
    BY Zenon DEF SessionsAreThere
  <2> QED
    BY InitialValues DEF SessionsAreThere
<1>10. DeliveredIsSingle'
  BY DEF DeliveredIsSingle, Sessions
<1>11. SessionIsSingle'
  <2> SUFFICES ASSUME relay = "open" PROVE SessionIsSingle'
    BY DEF SessionIsSingle
  <2>1. Sessions' = Sessions /\ \A k : Live(k)' <=> Live(k)
    BY DEF Sessions, Live
  <2>2. ASSUME NEW t \in Threads
        PROVE  /\ thread'[t].at \in {"create", "save"} =>
                    dir'.resume = 0 /\ \A k \in Sessions : ~Live(k)
               /\ thread'[t].at \in {"head", "loop", "patch"} =>
                    \/ dir'.resume = thread'[t].ses
                    \/ sess'[thread'[t].ses].state = "delivered"
    BY InitialValues DEF SessionIsSingle, Looked
  <2> QED
    BY <2>1, <2>2 DEF SessionIsSingle, OneLive, LiveIsNamed, Looked
<1> QED
  BY <1>1, <1>2, <1>3, <1>4, <1>6, <1>7, <1>8, <1>9, <1>10, <1>11

\* What cancellation makes of a thread.
LEMMA StoppedEffect ==
  ASSUME PhoneInv, NEW t \in Threads, thread[t] # Idle
  PROVE  LET r == [thread[t] EXCEPT !.stop = TRUE]
         IN /\ r \in Thread /\ r.stop /\ thread[t].at # "idle" /\ r.at = thread[t].at
            /\ r.work = thread[t].work /\ r.rev = thread[t].rev
            /\ r.ses = thread[t].ses /\ r.ans = thread[t].ans
<1>1. thread[t] \in Thread /\ thread[t].at # "idle"
  BY DEF PhoneInv, TypeOK, ThreadsAreWhole, ThreadIsWhole
<1> QED
  BY <1>1 DEF Thread

LEMMA CancelledEffect ==
  ASSUME PhoneInv, thread' = [t \in Threads |-> Stopped(t)]
  PROVE  /\ thread' \in [Threads -> Thread]
         /\ \A t \in Threads : GoneOrStopping(t)
         /\ \A t \in Threads : thread'[t].ses = thread[t].ses
         /\ \A t \in Threads : thread[t] = Idle => thread'[t] = Idle
<1>1. \A t \in Threads : Stopped(t) \in Thread
  BY StoppedEffect, InitialValues DEF Stopped
<1>2. ASSUME NEW t \in Threads
      PROVE  GoneOrStopping(t)
  BY StoppedEffect DEF Stopped, GoneOrStopping
<1>3. ASSUME NEW t \in Threads
      PROVE  thread'[t].ses = thread[t].ses /\ (thread[t] = Idle => thread'[t] = Idle)
  BY StoppedEffect DEF Stopped
<1> QED
  BY <1>1, <1>2, <1>3

\* REPLACE, cancellation and the removal of a Folder.
LEMMA QueueSubmitKeeps == ASSUME PhoneInv, QueueSubmit PROVE PhoneInv'
<1> USE DEF PhoneInv, phone, server, workers, control
<1>1. UNCHANGED <<row, folder, exit, auto, dir, sess, late, relay, import, exiter, fails, user>>
  BY DEF QueueSubmit
<1>2. job' \in [WorkIds -> Job] /\ queue' \in Monitor /\ queue'.at = "free"
  <2>1. \A w \in WorkIds : job[w] \in Job /\ Ended(w) \in Job
    BY InitialValues DEF TypeOK, Ended
  <2>2. [state |-> "enqueued", attempt |-> 0] \in Job
    BY DEF Job
  <2> QED
    BY <2>1, <2>2, InitialValues DEF QueueSubmit, FreeQueue
<1>3. TypeOK'
  BY <1>1, <1>2, CancelledEffect DEF TypeOK, QueueSubmit
<1>4. ExitIsOrdered' /\ AssignIsMeant'
  <2>1. Working' => Working
    BY <1>1, CancelledEffect, InitialValues DEF QueueSubmit, Working, Importing,
        GoneOrStopping
  <2> QED
    BY <1>1, <1>2, <2>1 DEF ExitIsOrdered, Cleaning, AssignIsMeant
<1>5. /\ UNCHANGED <<exit, auto, dir, sess, late, relay, user>>
      /\ thread' \in [Threads -> Thread] /\ \A v \in Threads : GoneOrStopping(v)
      /\ (row' = row /\ folder' = folder) \/ (row' = NoRow /\ folder' = "removed")
      /\ import' = import \/ import' = NoImport
  BY <1>1, CancelledEffect DEF QueueSubmit
<1>6. /\ RowIsWhole' /\ ThreadsAreWhole' /\ LockIsExclusive' /\ RevisionsArePast'
      /\ StagingIsAlone' /\ CleanedIsQuiet' /\ DropsAreRecorded' /\ PayloadIsKept'
      /\ SessionIsSingle' /\ SessionsAreThere' /\ DeliveredIsSingle'
      /\ ReceiptIsDelivered'
  BY ONLY PhoneInv, <1>5, StopStep
<1> QED
  BY <1>3, <1>4, <1>6

LEMMA QueueCancelKeeps == ASSUME PhoneInv, QueueCancel PROVE PhoneInv'
<1> USE DEF PhoneInv, phone, server, workers, control
<1>1. UNCHANGED <<row, folder, exit, auto, dir, sess, late, relay, import, fails, user>>
  BY DEF QueueCancel
<1>2. job' \in [WorkIds -> Job] /\ queue' \in Monitor /\ queue'.at = "free"
  <2>1. \A w \in WorkIds : job[w] \in Job /\ Ended(w) \in Job
    BY InitialValues DEF TypeOK, Ended
  <2> QED
    BY <2>1, InitialValues DEF QueueCancel, Cancelled, FreeQueue
<1>3. TypeOK'
  BY <1>1, <1>2, CancelledEffect DEF TypeOK, QueueCancel, Cancelled
<1>4. ExitIsOrdered' /\ AssignIsMeant'
  <2>1. Working' => Working
    BY <1>1, CancelledEffect, InitialValues DEF QueueCancel, Cancelled, Working, Importing,
        GoneOrStopping
  <2>2. exiter' = exiter \/ (exiter = "cancel" /\ exiter' = "server")
    BY DEF QueueCancel
  <2> QED
    BY <1>1, <1>2, <2>1, <2>2 DEF ExitIsOrdered, Cleaning, AssignIsMeant
<1>5. /\ UNCHANGED <<exit, auto, dir, sess, late, relay, user>>
      /\ thread' \in [Threads -> Thread] /\ \A v \in Threads : GoneOrStopping(v)
      /\ (row' = row /\ folder' = folder) \/ (row' = NoRow /\ folder' = "removed")
      /\ import' = import \/ import' = NoImport
  BY <1>1, CancelledEffect DEF QueueCancel, Cancelled
<1>6. /\ RowIsWhole' /\ ThreadsAreWhole' /\ LockIsExclusive' /\ RevisionsArePast'
      /\ StagingIsAlone' /\ CleanedIsQuiet' /\ DropsAreRecorded' /\ PayloadIsKept'
      /\ SessionIsSingle' /\ SessionsAreThere' /\ DeliveredIsSingle'
      /\ ReceiptIsDelivered'
  BY ONLY PhoneInv, <1>5, StopStep
<1> QED
  BY <1>3, <1>4, <1>6

LEMMA RemoveFolderKeeps == ASSUME PhoneInv, RemoveFolder PROVE PhoneInv'
<1> USE DEF PhoneInv, phone, server, workers, control
<1>1. /\ UNCHANGED <<exit, auto, dir, sess, late, relay, import, queue, exiter, fails, user>>
      /\ row' = NoRow /\ folder' = "removed" /\ folder = "closed"
  BY DEF RemoveFolder
<1>2. job' \in [WorkIds -> Job]
  <2>1. \A w \in WorkIds : job[w] \in Job /\ Ended(w) \in Job
    BY InitialValues DEF TypeOK, Ended
  <2> QED
    BY <2>1 DEF RemoveFolder, Cancelled
<1>3. TypeOK'
  <2>1. row' \in Row /\ row'.receipt <= Len(sess)
    BY <1>1, InitialValues, TypedNumbers
  <2> QED
    BY <1>1, <1>2, <2>1, CancelledEffect DEF TypeOK, RemoveFolder, Cancelled
<1>4. ExitIsOrdered' /\ AssignIsMeant'
  <2>1. exiter = "idle"
    BY <1>1 DEF ExitIsOrdered
  <2> QED
    BY <1>1, <2>1, InitialValues DEF ExitIsOrdered, Cleaning, AssignIsMeant
<1> QED
  BY <1>1, <1>3, <1>4, CancelledEffect, StopStep DEF RemoveFolder, Cancelled

\* The process dies; its jobs are run again.
LEMMA CrashKeeps == ASSUME PhoneInv, Crash PROVE PhoneInv'
<1> USE DEF PhoneInv, phone, server, workers, control
<1>1. /\ UNCHANGED <<row, folder, exit, auto, dir, sess, late, relay, user>>
      /\ \A t \in Threads : thread'[t] = Idle
      /\ thread' \in [Threads -> Thread] /\ exiter' = "idle" /\ import' = NoImport
      /\ queue' = FreeQueue
  BY InitialValues DEF Crash
<1>2. fails' \in 0..MaxFails
  BY Bounds DEF Crash, Failed, CanFail, TypeOK
<1>3. job' \in [WorkIds -> Job]
  <2>1. \A w \in WorkIds : job[w] \in Job
    BY DEF TypeOK
  <2>2. \A w \in WorkIds : [state |-> "enqueued", attempt |-> job[w].attempt + 1] \in Job
    BY <2>1 DEF Job
  <2> QED
    BY <2>1, <2>2 DEF Crash
<1>4. TypeOK'
  BY <1>1, <1>2, <1>3, InitialValues, TypedNumbers DEF TypeOK
<1>5. ExitIsOrdered' /\ AssignIsMeant'
  BY <1>1 DEF ExitIsOrdered, Cleaning, AssignIsMeant, FreeQueue
<1>6. \A t \in Threads : GoneOrStopping(t)
  BY <1>1 DEF GoneOrStopping
<1>7. /\ UNCHANGED <<exit, auto, dir, sess, late, relay, user>>
      /\ thread' \in [Threads -> Thread] /\ \A v \in Threads : GoneOrStopping(v)
      /\ (row' = row /\ folder' = folder) \/ (row' = NoRow /\ folder' = "removed")
      /\ import' = import \/ import' = NoImport
  BY <1>1, <1>6
<1>8. /\ RowIsWhole' /\ ThreadsAreWhole' /\ LockIsExclusive' /\ RevisionsArePast'
      /\ StagingIsAlone' /\ CleanedIsQuiet' /\ DropsAreRecorded' /\ PayloadIsKept'
      /\ SessionIsSingle' /\ SessionsAreThere' /\ DeliveredIsSingle'
      /\ ReceiptIsDelivered'
  BY ONLY PhoneInv, <1>7, StopStep
<1> QED
  BY <1>4, <1>5, <1>8

\* WorkManager stops one thread.
LEMMA StopJobKeeps == ASSUME PhoneInv, NEW t \in Threads, StopJob(t) PROVE PhoneInv'
<1> USE DEF PhoneInv, phone, server, workers, control
<1>1. /\ UNCHANGED <<row, folder, exit, auto, dir, sess, late, relay, import, queue, exiter, user>>
      /\ thread[t] # Idle /\ thread' = [thread EXCEPT ![t] = [thread[t] EXCEPT !.stop = TRUE]]
  BY DEF StopJob
<1>2. fails' \in 0..MaxFails
  BY Bounds DEF StopJob, Failed, CanFail, TypeOK
<1>3. job' \in [WorkIds -> Job]
  <2>1. \A w \in WorkIds : job[w] \in Job
    BY DEF TypeOK
  <2>2. \A w \in WorkIds : [state |-> "enqueued", attempt |-> job[w].attempt + 1] \in Job
    BY <2>1 DEF Job
  <2> QED
    BY <2>1, <2>2 DEF StopJob, TypeOK
<1>4. /\ thread' \in [Threads -> Thread]
      /\ \A u \in Threads : u # t => thread'[u] = thread[u]
      /\ thread'[t] = [thread[t] EXCEPT !.stop = TRUE]
  BY <1>1, StoppedEffect DEF TypeOK
<1>5. TypeOK'
  BY <1>1, <1>2, <1>3, <1>4, StoppedEffect DEF TypeOK
<1>6. \A u \in Threads : GoneOrStopping(u)
  BY <1>1, <1>4, StoppedEffect DEF ThreadsAreWhole, ThreadIsWhole, GoneOrStopping
<1>7. ExitIsOrdered' /\ AssignIsMeant'
  <2>1. Working' => Working
    BY <1>1, <1>6, InitialValues DEF Working, Importing, GoneOrStopping
  <2> QED
    BY <1>1, <2>1 DEF ExitIsOrdered, Cleaning, AssignIsMeant
<1>8. /\ UNCHANGED <<exit, auto, dir, sess, late, relay, user>>
      /\ thread' \in [Threads -> Thread] /\ \A v \in Threads : GoneOrStopping(v)
      /\ (row' = row /\ folder' = folder) \/ (row' = NoRow /\ folder' = "removed")
      /\ import' = import \/ import' = NoImport
  BY <1>1, <1>4, <1>6
<1>9. /\ RowIsWhole' /\ ThreadsAreWhole' /\ LockIsExclusive' /\ RevisionsArePast'
      /\ StagingIsAlone' /\ CleanedIsQuiet' /\ DropsAreRecorded' /\ PayloadIsKept'
      /\ SessionIsSingle' /\ SessionsAreThere' /\ DeliveredIsSingle'
      /\ ReceiptIsDelivered'
  BY ONLY PhoneInv, <1>8, StopStep
<1> QED
  BY <1>5, <1>7, <1>9


-----------------------------------------------------------------------------
(* The relay's clean exit, and the phone's cleanup after it *)

\* Closing the relay leaves every session as it was: what the invariant says of
\* an open relay becomes vacuous.
LEMMA RelayStep ==
  ASSUME PhoneInv, UNCHANGED <<row, folder, exit, auto, dir, import, queue, job, thread,
                               sess, late, user>>,
         relay' \in {relay, "purged"}, fails' \in 0..MaxFails,
         exiter' = exiter \/
         (exiter' = "idle") \/
         (exiter # "idle" /\ exiter' = "ack" /\ exit = "local_cleaned") \/
         (exiter # "idle" /\ exiter' = "gate" /\ exit # "local_cleaned"
                          /\ relay' = "purged")
  PROVE  PhoneInv'
<1> USE DEF PhoneInv
<1>1. exiter' \in {"idle", "stop", "cancel", "server", "gate", "files", "rows", "ack"}
  BY DEF TypeOK
<1>2. TypeOK'
  BY <1>1 DEF TypeOK
<1>3. ThreadsAreWhole'
  <2> SUFFICES ASSUME NEW t \in Threads PROVE ThreadIsWhole(t)'
    BY Zenon DEF ThreadsAreWhole
  <2> QED
    BY DEF ThreadsAreWhole, ThreadIsWhole, MayGoOn, Allowed, Active
<1>4. RowIsWhole' /\ LockIsExclusive' /\ AssignIsMeant' /\ ReceiptIsDelivered'
      /\ DropsAreRecorded' /\ SessionsAreThere' /\ PayloadIsKept' /\ CleanedIsQuiet'
  BY DEF RowIsWhole, LockIsExclusive, Holding, AssignIsMeant, ReceiptIsDelivered,
      DropsAreRecorded, SessionsAreThere, PayloadIsKept, CleanedIsQuiet, Quiet
<1>5. RevisionsArePast'
  BY DEF RevisionsArePast
<1>6. relay' = "open" => relay = "open"
  OBVIOUS
<1>7. StagingIsAlone'
  BY <1>6 DEF StagingIsAlone, Quiet
<1>8. ExitIsOrdered'
  BY DEF ExitIsOrdered, Cleaning, Working, Importing, TypeOK
<1>9. SessionIsSingle'
  BY <1>6 DEF SessionIsSingle, OneLive, LiveIsNamed, Looked, Live, Sessions
<1>10. DeliveredIsSingle'
  BY DEF DeliveredIsSingle, Sessions
<1> QED
  BY <1>2, <1>3, <1>4, <1>5, <1>7, <1>8, <1>9, <1>10

LEMMA PeerExitKeeps == ASSUME PhoneInv, PeerExit PROVE PhoneInv'
<1>1. fails' \in 0..MaxFails
  BY Bounds DEF PhoneInv, PeerExit, Failed, CanFail, TypeOK
<1> QED
  BY <1>1, RelayStep DEF PeerExit, phone, workers, control

LEMMA ExitServerKeeps == ASSUME PhoneInv, ExitServer PROVE PhoneInv'
<1>1. UNCHANGED <<row, folder, exit, auto, dir, import, queue, job, thread,
                  sess, late, user>> /\ exiter = "server"
  BY DEF ExitServer, phone, workers, control
<1>2. CASE /\ relay' = "purged" /\ UNCHANGED fails
           /\ exiter' = IF exit = "local_cleaned" THEN "ack" ELSE "gate"
  <2>1. fails' \in 0..MaxFails
    BY <1>2 DEF PhoneInv, TypeOK
  <2> QED
    BY <1>1, <1>2, <2>1, RelayStep
<1>3. CASE relay' \in {relay, "purged"} /\ exiter' = "idle" /\ Failed
  <2>1. fails' \in 0..MaxFails
    BY <1>3, Bounds DEF PhoneInv, Failed, CanFail, TypeOK
  <2> QED
    BY <1>1, <1>3, <2>1, RelayStep
<1> QED
  BY <1>2, <1>3 DEF ExitServer

\* The gate is closed: no thread runs, nothing is staged, and no session counts.
LEMMA GateIsClosed ==
  ASSUME PhoneInv, Cleaning
  PROVE  /\ relay = "purged" /\ exit = "pending" /\ folder = "pending"
         /\ ~Working /\ import.at \notin Staging
         /\ \A t \in Threads : thread[t] = Idle
<1>1. ~Working /\ relay = "purged" /\ exit = "pending" /\ folder = "pending"
  BY DEF PhoneInv, ExitIsOrdered, Cleaning
<1>2. \A t \in Threads : thread[t] = Idle
  BY <1>1 DEF Working, PhoneInv, ThreadsAreWhole, ThreadIsWhole
<1> QED
  BY <1>1, <1>2 DEF Working, Importing, Staging

\* A step of the cleanup, behind the gate.
LEMMA CleaningStep ==
  ASSUME PhoneInv, Cleaning,
         UNCHANGED <<folder, import, queue, job, thread, sess, late, relay, fails, user>>,
         row' \in {row, NoRow}, dir' \in Dir, dir'.resume \in {0, dir.resume},
         auto' \in Source, auto'.rev = auto.rev
  PROVE  /\ RowIsWhole' /\ ThreadsAreWhole' /\ LockIsExclusive' /\ RevisionsArePast'
         /\ StagingIsAlone' /\ AssignIsMeant' /\ DropsAreRecorded'
         /\ SessionIsSingle' /\ SessionsAreThere' /\ DeliveredIsSingle'
         /\ ReceiptIsDelivered'
         /\ row' \in Row /\ row'.receipt <= Len(sess') /\ dir'.resume <= Len(sess')
<1> USE DEF PhoneInv
<1>1. /\ relay' = "purged" /\ import'.at \notin Staging
      /\ \A t \in Threads : thread'[t] = Idle
  BY GateIsClosed
<1>2. RowIsWhole' /\ AssignIsMeant' /\ ReceiptIsDelivered'
  BY InitialValues DEF RowIsWhole, AssignIsMeant, ReceiptIsDelivered
<1>3. ThreadsAreWhole' /\ LockIsExclusive' /\ DropsAreRecorded' /\ SessionsAreThere'
  BY <1>1, InitialValues DEF ThreadsAreWhole, ThreadIsWhole, LockIsExclusive, Holding,
      Requesting, Dropping, DropsAreRecorded, SessionsAreThere
<1>4. RevisionsArePast'
  BY InitialValues, TypedNumbers DEF RevisionsArePast
<1>5. StagingIsAlone'
  BY <1>1 DEF StagingIsAlone, Quiet, Staging
<1>6. SessionIsSingle' /\ DeliveredIsSingle'
  BY <1>1 DEF SessionIsSingle, DeliveredIsSingle, Sessions
<1>7. row' \in Row /\ row'.receipt <= Len(sess') /\ dir'.resume <= Len(sess')
  BY InitialValues, TypedNumbers DEF TypeOK
<1> QED
  BY <1>2, <1>3, <1>4, <1>5, <1>6, <1>7

LEMMA ExitFilesKeeps == ASSUME PhoneInv, ExitFiles PROVE PhoneInv'
<1> USE DEF PhoneInv, phone, server, workers, control
<1>1. /\ UNCHANGED <<row, folder, exit, auto, import, queue, job, thread, sess, late,
                     relay, fails, user>>
      /\ exiter = "files" /\ Cleaning
  BY DEF ExitFiles, Cleaning
<1>2. dir \in Dir /\ row \in Row /\ auto \in Source
  BY DEF TypeOK
<1>3. /\ dir' \in Dir /\ dir'.resume \in {0, dir.resume}
      /\ exiter' = "files" \/ (exiter' = "rows" /\ dir' = EmptyDir)
  <2>1. /\ [dir EXCEPT !.bytes = "none"] \in Dir /\ [dir EXCEPT !.resume = 0] \in Dir
        /\ [dir EXCEPT !.bytes = "none"].resume = dir.resume
        /\ [dir EXCEPT !.resume = 0].resume = 0
    BY <1>2 DEF Dir
  <2> QED
    BY <1>1, <2>1, InitialValues DEF ExitFiles
<1>4. /\ RowIsWhole' /\ ThreadsAreWhole' /\ LockIsExclusive' /\ RevisionsArePast'
      /\ StagingIsAlone' /\ AssignIsMeant' /\ DropsAreRecorded'
      /\ SessionIsSingle' /\ SessionsAreThere' /\ DeliveredIsSingle'
      /\ ReceiptIsDelivered'
      /\ row' \in Row /\ row'.receipt <= Len(sess') /\ dir'.resume <= Len(sess')
  <2>1. row' \in {row, NoRow} /\ auto' \in Source /\ auto'.rev = auto.rev
    BY <1>1, <1>2
  <2> QED
    BY ONLY PhoneInv, <1>1, <1>3, <2>1, CleaningStep
<1>5. TypeOK'
  BY <1>1, <1>3, <1>4 DEF TypeOK
<1>6. ~Working' /\ exit' = "pending" /\ folder' = "pending" /\ relay' = "purged"
  BY <1>1, GateIsClosed DEF Working, Importing
<1>7. ExitIsOrdered' /\ CleanedIsQuiet' /\ PayloadIsKept'
  BY <1>3, <1>6 DEF ExitIsOrdered, CleanedIsQuiet, PayloadIsKept, Cleaning
<1> QED
  BY <1>4, <1>5, <1>7

LEMMA ExitRowsKeeps == ASSUME PhoneInv, ExitRows PROVE PhoneInv'
<1> USE DEF PhoneInv, phone, server, workers, control
<1>1. /\ UNCHANGED <<folder, dir, import, queue, job, thread, sess, late,
                     relay, fails, user>>
      /\ exiter = "rows" /\ Cleaning /\ row' = NoRow /\ exit' = "local_cleaned"
      /\ exiter' = "ack"
  BY DEF ExitRows, Cleaning
<1>2. dir \in Dir /\ auto \in Source /\ dir = EmptyDir
  BY <1>1 DEF TypeOK, ExitIsOrdered
<1>3. auto' \in Source /\ auto'.rev = auto.rev
  BY <1>2 DEF Source, ExitRows
<1>4. /\ RowIsWhole' /\ ThreadsAreWhole' /\ LockIsExclusive' /\ RevisionsArePast'
      /\ StagingIsAlone' /\ AssignIsMeant' /\ DropsAreRecorded'
      /\ SessionIsSingle' /\ SessionsAreThere' /\ DeliveredIsSingle'
      /\ ReceiptIsDelivered'
      /\ row' \in Row /\ row'.receipt <= Len(sess') /\ dir'.resume <= Len(sess')
  <2>1. row' \in {row, NoRow} /\ dir' \in Dir /\ dir'.resume \in {0, dir.resume}
    BY <1>1, <1>2
  <2> QED
    BY ONLY PhoneInv, <1>1, <1>3, <2>1, CleaningStep
<1>5. TypeOK'
  BY <1>1, <1>3, <1>4 DEF TypeOK
<1>6. /\ import'.at \notin Staging /\ folder' = "pending"
      /\ \A t \in Threads : thread'[t] = Idle
  BY <1>1, GateIsClosed
<1>7. ExitIsOrdered' /\ CleanedIsQuiet' /\ PayloadIsKept'
  BY <1>1, <1>2, <1>6, InitialValues DEF ExitIsOrdered, CleanedIsQuiet, PayloadIsKept,
      Cleaning, Quiet
<1> QED
  BY <1>4, <1>5, <1>7

-----------------------------------------------------------------------------
(* Steps of a thread *)

\* One thread moves, and keeps what it knew at its start, or ends.
ThreadMoves(t) ==
  /\ thread[t].at # "idle"
  /\ thread' \in [Threads -> Thread]
  /\ \A u \in Threads : u # t => thread'[u] = thread[u]
  /\ \/ thread'[t] = Idle
     \/ /\ thread'[t].at # "idle" /\ thread'[t].work = thread[t].work
        /\ thread'[t].rev = thread[t].rev /\ thread'[t].stop = thread[t].stop

\* A thread changes the row only while it owns it, and never pauses it.
RowMoves ==
  /\ row' \in Row /\ row'.work = row.work /\ row'.rev = row.rev
  /\ \/ row' = row
     \/ row.status \notin {"none", "UPLOADED"} /\ row'.status \notin {"none", "PAUSED"}

\* A running thread keeps the gate open and the file out of staging.
LEMMA RunningThread ==
  ASSUME PhoneInv, NEW t \in Threads, thread[t].at # "idle"
  PROVE  /\ ~Quiet /\ Working /\ ~Cleaning /\ import.at \notin Staging
         /\ row # NoRow \/ folder = "removed"
         /\ exit \notin {"local_cleaned", "complete"}
         /\ ThreadIsWhole(t) /\ thread[t] \in Thread /\ thread[t].work \in WorkIds
         /\ thread[t].ses \in Nat /\ thread[t].ses <= Len(sess)
<1>1. ~Quiet
  BY InitialValues DEF Quiet
<1>2. Working
  BY DEF Working
<1>3. ThreadIsWhole(t) /\ thread[t] \in Thread /\ thread[t].ses <= Len(sess)
  BY DEF PhoneInv, TypeOK, ThreadsAreWhole
<1>4. thread[t].work \in 0..MaxWorks /\ thread[t].work # 0 /\ thread[t].ses \in Nat
  BY <1>3 DEF Thread, ThreadIsWhole
<1>5. thread[t].work \in WorkIds
  BY ONLY <1>4, Bounds DEF WorkIds
<1>6. ~Cleaning /\ import.at \notin Staging /\ (row # NoRow \/ folder = "removed")
      /\ exit \notin {"local_cleaned", "complete"}
  BY <1>1, <1>2 DEF PhoneInv, ExitIsOrdered, StagingIsAlone, CleanedIsQuiet
<1> QED
  BY <1>1, <1>2, <1>3, <1>4, <1>5, <1>6

\* What such a step leaves alone, given what it makes of the thread itself.
LEMMA ThreadStep ==
  ASSUME PhoneInv, NEW t \in Threads, ThreadMoves(t), RowMoves,
         UNCHANGED <<folder, exit, auto, import, queue, exiter, user, relay>>,
         ThreadIsWhole(t)',
         Holding(t)' => Holding(t) \/ \A u \in Threads : ~Holding(u),
         thread'[t].at \in Dropping => row'.status \in {"UPLOADED", "none"},
         thread'[t].at = "drop_resume" => dir'.bytes = "none",
         \/ dir'.bytes = dir.bytes
         \/ row' = row /\ row.status \in {"UPLOADED", "none"} /\ dir'.bytes = "none"
  PROVE  /\ RowIsWhole' /\ ThreadsAreWhole' /\ LockIsExclusive' /\ RevisionsArePast'
         /\ StagingIsAlone' /\ ExitIsOrdered' /\ CleanedIsQuiet' /\ AssignIsMeant'
         /\ DropsAreRecorded' /\ PayloadIsKept'
<1> USE DEF PhoneInv, ThreadMoves, RowMoves
<1>1. RowIsWhole' /\ AssignIsMeant'
  BY DEF RowIsWhole, AssignIsMeant
<1>2. ThreadsAreWhole'
  <2> SUFFICES ASSUME NEW u \in Threads, u # t PROVE ThreadIsWhole(u)'
    BY Zenon DEF ThreadsAreWhole
  <2>1. ThreadIsWhole(u) /\ thread'[u] = thread[u]
    BY DEF ThreadsAreWhole
  <2>2. MayGoOn(u)' <=> MayGoOn(u)
    BY <2>1 DEF MayGoOn, Allowed, Active
  <2> QED
    BY <2>1, <2>2 DEF ThreadIsWhole
<1>3. LockIsExclusive'
  <2> SUFFICES ASSUME NEW u \in Threads, NEW v \in Threads, Holding(u)', Holding(v)'
               PROVE  u = v
    BY Zenon DEF LockIsExclusive
  <2>1. \A x \in Threads : x # t => (Holding(x)' <=> Holding(x))
    BY DEF Holding
  <2> QED
    BY <2>1 DEF LockIsExclusive
<1>4. RevisionsArePast'
  <2>1. \A u \in Threads : thread'[u].rev <= auto.rev
    BY InitialValues, TypedNumbers DEF RevisionsArePast
  <2> QED
    BY <2>1 DEF RevisionsArePast
<1>5. /\ ~Cleaning /\ import.at \notin Staging /\ (row # NoRow \/ folder = "removed")
      /\ exit \notin {"local_cleaned", "complete"}
  BY RunningThread
<1>6. StagingIsAlone'
  <2>1. import'.at \notin Staging /\ (row' # NoRow \/ folder' = "removed")
    BY <1>5, RunningThread, InitialValues DEF RowIsWhole
  <2> QED
    BY <2>1 DEF StagingIsAlone, Staging
<1>7. ExitIsOrdered' /\ CleanedIsQuiet'
  BY RunningThread DEF ExitIsOrdered, CleanedIsQuiet, Cleaning
<1>8. DropsAreRecorded'
  <2> SUFFICES ASSUME NEW u \in Threads PROVE DropsAreRecorded!(u)'
    BY Zenon DEF DropsAreRecorded
  <2>1. CASE u = t
    BY <2>1
  <2>2. CASE u # t
    BY <2>2 DEF DropsAreRecorded, Dropping
  <2> QED
    BY <2>1, <2>2
<1>9. PayloadIsKept'
  BY DEF PayloadIsKept
<1> QED
  BY <1>1, <1>2, <1>3, <1>4, <1>6, <1>7, <1>8, <1>9

\* What a thread knows of its session, and the row of the receipt, survive
\* while what is delivered stays so.
LEMMA ResultStep ==
  ASSUME PhoneInv, NEW t \in Threads, ThreadMoves(t), RowMoves,
         \A k \in Sessions : sess[k].state = "delivered" => sess'[k].state = "delivered",
         SessionsAreThere!(t)',
         \/ row'.receipt = row.receipt /\ (row' = row \/ row'.status # "UPLOADED")
         \/ row'.receipt # 0 /\ sess'[row'.receipt].state = "delivered"
  PROVE  SessionsAreThere' /\ ReceiptIsDelivered'
<1> USE DEF PhoneInv, ThreadMoves, RowMoves
<1>1. SessionsAreThere'
  <2> SUFFICES ASSUME NEW u \in Threads PROVE SessionsAreThere!(u)'
    BY Zenon DEF SessionsAreThere
  <2>1. CASE u = t
    BY <2>1, Zenon
  <2>2. CASE u # t
    <3>1. thread'[u] = thread[u] /\ SessionsAreThere!(u)
      BY <2>2 DEF SessionsAreThere
    <3>2. thread[u].ses # 0 => thread[u].ses \in Sessions
      BY TypedNumbers DEF TypeOK, Sessions, Thread
    <3> QED
      BY <3>1, <3>2
  <2> QED
    BY <2>1, <2>2
<1>2. row.receipt # 0 => row.receipt \in Sessions
  BY TypedNumbers DEF TypeOK, Sessions, Row
<1>3. ReceiptIsDelivered'
  BY <1>2 DEF ReceiptIsDelivered
<1> QED
  BY <1>1, <1>3

\* The three ways a step leaves its thread.
LEMMA AtEffect ==
  ASSUME PhoneInv, NEW t \in Threads, thread[t].at # "idle",
         NEW s \in {"lock", "recheck", "record"} \cup Requesting \cup Dropping,
         At(t, s)
  PROVE  /\ ThreadMoves(t) /\ job' \in [WorkIds -> Job]
         /\ thread'[t].at = s /\ thread'[t].ses = thread[t].ses
         /\ thread'[t].ans = thread[t].ans /\ thread'[t].work = thread[t].work
         /\ thread'[t].rev = thread[t].rev /\ thread'[t].stop = thread[t].stop
<1>1. thread \in [Threads -> Thread] /\ thread[t] \in Thread /\ job \in [WorkIds -> Job]
  BY DEF PhoneInv, TypeOK
<1>2. thread' = [thread EXCEPT ![t] = [thread[t] EXCEPT !.at = s]]
  BY DEF At
<1>3. [thread[t] EXCEPT !.at = s] \in Thread
  BY <1>1 DEF Thread
<1>4. s # "idle"
  BY DEF Requesting, Dropping
<1>5. /\ thread' \in [Threads -> Thread] /\ thread'[t] = [thread[t] EXCEPT !.at = s]
      /\ \A u \in Threads : u # t => thread'[u] = thread[u]
  BY <1>1, <1>2, <1>3
<1>6. /\ thread'[t].at = s /\ thread'[t].ses = thread[t].ses
      /\ thread'[t].ans = thread[t].ans /\ thread'[t].work = thread[t].work
      /\ thread'[t].rev = thread[t].rev /\ thread'[t].stop = thread[t].stop
  BY <1>1, <1>5 DEF Thread
<1> QED
  BY <1>1, <1>4, <1>5, <1>6 DEF ThreadMoves, At

LEMMA AnswerEffect ==
  ASSUME PhoneInv, NEW t \in Threads, thread[t].at # "idle",
         NEW a \in {"delivered", "paused", "retry", "error"},
         Answer(t, a)
  PROVE  /\ ThreadMoves(t) /\ job' \in [WorkIds -> Job]
         /\ thread'[t].at = "recheck" /\ thread'[t].ans = a
         /\ thread'[t].work = thread[t].work /\ thread'[t].rev = thread[t].rev
         /\ thread'[t].stop = thread[t].stop
         /\ thread'[t].ses = IF a = "delivered" THEN thread[t].ses ELSE 0
<1> DEFINE r == [thread[t] EXCEPT !.at = "recheck", !.ans = a, !.off = 0,
                   !.ses = IF a = "delivered" THEN thread[t].ses ELSE 0]
<1>1. thread \in [Threads -> Thread] /\ thread[t] \in Thread /\ job \in [WorkIds -> Job]
  BY DEF PhoneInv, TypeOK
<1>2. thread' = [thread EXCEPT ![t] = r]
  BY Zenon DEF Answer
<1>3. 0 \in 0..(Length - 1)
  BY Bounds
<1>4. r \in Thread /\ r.at = "recheck" /\ r.ans = a /\ r.work = thread[t].work
      /\ r.rev = thread[t].rev /\ r.stop = thread[t].stop
      /\ r.ses = IF a = "delivered" THEN thread[t].ses ELSE 0
  BY <1>1, <1>3 DEF Thread
<1> HIDE DEF r
<1>5. /\ thread' \in [Threads -> Thread] /\ thread'[t] = r
      /\ \A u \in Threads : u # t => thread'[u] = thread[u]
  BY <1>1, <1>2, <1>4
<1> QED
  BY <1>1, <1>4, <1>5 DEF ThreadMoves, Answer

LEMMA FinishEffect ==
  ASSUME PhoneInv, NEW t \in Threads, thread[t].at # "idle",
         NEW state \in {"enqueued", "finished"}, Finish(t, state)
  PROVE  ThreadMoves(t) /\ job' \in [WorkIds -> Job] /\ thread'[t] = Idle
<1>1. thread \in [Threads -> Thread] /\ job \in [WorkIds -> Job]
  BY DEF PhoneInv, TypeOK
<1>2. /\ thread' \in [Threads -> Thread] /\ thread'[t] = Idle
      /\ \A u \in Threads : u # t => thread'[u] = thread[u]
  BY <1>1, InitialValues DEF Finish
<1>3. job' \in [WorkIds -> Job]
  <2>1. /\ thread[t].work \in WorkIds /\ job[thread[t].work] \in Job
    BY <1>1, RunningThread
  <2>2. [state |-> "enqueued", attempt |-> job[thread[t].work].attempt + 1] \in Job
    BY <2>1 DEF Job
  <2>3. \/ job' = job
        \/ job' = [job EXCEPT ![thread[t].work] =
                     [state |-> "enqueued", attempt |-> job[thread[t].work].attempt + 1]]
        \/ job' = [job EXCEPT ![thread[t].work] = Done]
    BY <1>1, <2>1 DEF Finish
  <2> QED
    BY <1>1, <2>1, <2>2, <2>3, InitialValues
<1> QED
  BY <1>2, <1>3 DEF ThreadMoves

\* A thread that ended asks for nothing, and one that was answered holds nothing.
LEMMA FreeThread ==
  ASSUME PhoneInv, NEW t \in Threads, ThreadMoves(t),
         \/ thread'[t] = Idle
         \/ /\ thread'[t].at = "recheck" /\ thread'[t].ans \in {"delivered", "retry", "error"}
            /\ thread'[t].ans = "delivered" =>
                 thread'[t].ses # 0 /\ sess'[thread'[t].ses].state = "delivered"
  PROVE  /\ ThreadIsWhole(t)' /\ ~Holding(t)' /\ thread'[t].at \notin Dropping
         /\ SessionsAreThere!(t)' /\ Looked(t)'
<1>1. thread[t].work # 0
  BY RunningThread DEF ThreadMoves, WorkIds
<1>2. CASE thread'[t] = Idle
  BY <1>2, InitialValues DEF ThreadIsWhole, Holding, Requesting, Dropping,
      SessionsAreThere, Looked
<1>3. CASE thread'[t] # Idle
  <2>1. thread'[t].at = "recheck" /\ thread'[t].work # 0
    BY <1>1, <1>3 DEF ThreadMoves
  <2> QED
    BY <1>3, <2>1 DEF ThreadIsWhole, Holding, Requesting, Dropping, SessionsAreThere, Looked
<1> QED
  BY <1>2, <1>3

\* A step that changes no session.
LEMMA SessionsStay ==
  ASSUME PhoneInv, NEW t \in Threads, ThreadMoves(t), UNCHANGED <<sess, late, relay>>,
         relay = "open" => Looked(t)',
         dir'.resume = dir.resume, dir'.bytes = dir.bytes \/ dir'.bytes = "none"
  PROVE  SessionIsSingle' /\ DeliveredIsSingle'
<1> USE DEF PhoneInv
<1>1. Sessions' = Sessions /\ \A k \in Sessions : Live(k)' <=> Live(k)
  BY DEF Sessions, Live
<1>2. DeliveredIsSingle'
  BY <1>1 DEF DeliveredIsSingle
<1>3. SessionIsSingle'
  <2> SUFFICES ASSUME relay = "open"
               PROVE  OneLive' /\ LiveIsNamed' /\ \A u \in Threads : Looked(u)'
    BY Zenon DEF SessionIsSingle
  <2>1. OneLive' /\ LiveIsNamed'
    BY <1>1 DEF OneLive, LiveIsNamed, SessionIsSingle
  <2>2. ASSUME NEW u \in Threads, u # t PROVE Looked(u)'
    <3>1. thread'[u] = thread[u]
      BY <2>2 DEF ThreadMoves
    <3> QED
      BY <1>1, <3>1 DEF SessionIsSingle, Looked
  <2> QED
    BY <2>1, <2>2
<1> QED
  BY <1>2, <1>3

\* The same of the whole invariant: what is left to show of a step that touches
\* neither sessions nor files is what it makes of its thread and the row.
LEMMA QuietStep ==
  ASSUME PhoneInv, NEW t \in Threads, ThreadMoves(t), RowMoves,
         UNCHANGED <<folder, exit, auto, dir, sess, late, relay, import, queue, exiter, user>>,
         job' \in [WorkIds -> Job], fails' \in 0..MaxFails,
         thread'[t].ses \in {0, thread[t].ses, dir.resume},
         ThreadIsWhole(t)', SessionsAreThere!(t)', relay = "open" => Looked(t)',
         Holding(t)' => Holding(t) \/ \A u \in Threads : ~Holding(u),
         thread'[t].at \in Dropping => row'.status \in {"UPLOADED", "none"},
         thread'[t].at # "drop_resume",
         \/ row'.receipt = row.receipt /\ (row' = row \/ row'.status # "UPLOADED")
         \/ /\ row'.receipt # 0 /\ row'.receipt = thread[t].ses
            /\ sess'[row'.receipt].state = "delivered"
  PROVE  PhoneInv'
<1>1. TypeOK'
  <2>1. \A u \in Threads : thread'[u].ses <= Len(sess)
    BY TypedNumbers DEF PhoneInv, TypeOK, ThreadMoves
  <2>2. row'.receipt <= Len(sess)
    BY DEF PhoneInv, TypeOK
  <2> QED
    BY <2>1, <2>2 DEF PhoneInv, TypeOK, ThreadMoves, RowMoves
<1>2. /\ RowIsWhole' /\ ThreadsAreWhole' /\ LockIsExclusive' /\ RevisionsArePast'
      /\ StagingIsAlone' /\ ExitIsOrdered' /\ CleanedIsQuiet' /\ AssignIsMeant'
      /\ DropsAreRecorded' /\ PayloadIsKept'
  BY ThreadStep
<1>3. SessionIsSingle' /\ DeliveredIsSingle'
  BY SessionsStay
<1>4. SessionsAreThere' /\ ReceiptIsDelivered'
  BY ResultStep
<1> QED
  BY <1>1, <1>2, <1>3, <1>4 DEF PhoneInv

\* WorkManager starts a job; one that no longer owns the transfer is done.
LEMMA StartKeeps ==
  ASSUME PhoneInv, NEW w \in WorkIds, NEW t \in Threads, Start(w, t) PROVE PhoneInv'
<1> USE DEF PhoneInv
<1>1. /\ UNCHANGED <<row, folder, exit, auto, dir, sess, late, relay, import, queue,
                     exiter, fails, user>>
      /\ thread[t] = Idle /\ ~Cleaning /\ job \in [WorkIds -> Job] /\ job[w] \in Job
      /\ thread \in [Threads -> Thread] /\ row \in Row
  BY DEF Start, phone, server, control, TypeOK
<1>2. CASE job' = [job EXCEPT ![w] = Done] /\ UNCHANGED thread
  <2>1. job' \in [WorkIds -> Job]
    BY <1>1, <1>2, InitialValues
  <2>2. TypeOK'
    BY <1>1, <1>2, <2>1 DEF TypeOK
  <2>3. ExitIsOrdered' /\ AssignIsMeant'
    BY <1>1 DEF ExitIsOrdered, Cleaning, AssignIsMeant
  <2>4. /\ UNCHANGED <<exit, auto, dir, sess, late, relay, user>>
        /\ thread' \in [Threads -> Thread] /\ \A v \in Threads : GoneOrStopping(v)
        /\ (row' = row /\ folder' = folder) \/ (row' = NoRow /\ folder' = "removed")
        /\ import' = import \/ import' = NoImport
    BY <1>1, <1>2 DEF GoneOrStopping, ThreadsAreWhole, ThreadIsWhole
  <2>5. /\ RowIsWhole' /\ ThreadsAreWhole' /\ LockIsExclusive' /\ RevisionsArePast'
        /\ StagingIsAlone' /\ CleanedIsQuiet' /\ DropsAreRecorded' /\ PayloadIsKept'
        /\ SessionIsSingle' /\ SessionsAreThere' /\ DeliveredIsSingle'
        /\ ReceiptIsDelivered'
    BY ONLY PhoneInv, <2>4, StopStep
  <2> QED
    BY <2>2, <2>3, <2>5
<1>3. CASE /\ Owns(w) /\ job' = [job EXCEPT ![w].state = "running"]
           /\ thread' = [thread EXCEPT ![t] = [Idle EXCEPT !.at = "own", !.work = w,
                                                                        !.rev = row.rev]]
  <2>1. /\ thread' \in [Threads -> Thread] /\ thread'[t].at = "own"
        /\ thread'[t].ans = "none" /\ thread'[t].work = w /\ thread'[t].rev = row.rev
        /\ thread'[t].ses = 0
        /\ \A u \in Threads : u # t => thread'[u] = thread[u]
    <3> DEFINE r == [Idle EXCEPT !.at = "own", !.work = w, !.rev = row.rev]
    <3>1. row.rev \in Revisions /\ w \in 0..MaxWorks
      BY <1>1, Bounds DEF Row, WorkIds
    <3>2. /\ r \in Thread /\ r.at = "own" /\ r.ans = "none" /\ r.work = w /\ r.ses = 0
          /\ r.rev = row.rev
      BY <3>1, InitialValues DEF Thread
    <3> HIDE DEF r
    <3>3. thread' = [thread EXCEPT ![t] = r]
      BY <1>3 DEF r
    <3> QED
      BY <1>1, <3>2, <3>3
  <2>2. job' \in [WorkIds -> Job]
    <3>1. [job[w] EXCEPT !.state = "running"] \in Job
      BY <1>1 DEF Job
    <3> QED
      BY <1>1, <1>3, <3>1
  <2>3. TypeOK'
    <3>1. \A u \in Threads : thread'[u].ses <= Len(sess)
      BY <2>1, TypedNumbers DEF TypeOK
    <3> QED
      BY <1>1, <2>1, <2>2, <3>1 DEF TypeOK
  <2>4. /\ row.status \notin {"none", "UPLOADED"} /\ row # NoRow /\ folder = "open"
        /\ exit = "none" /\ exiter = "idle" /\ import.at \notin Staging
    BY <1>3, InitialValues DEF Owns, Permitted, Allowed, ExitIsOrdered, TypeOK, StagingIsAlone
  <2>5. ThreadsAreWhole'
    <3> SUFFICES ASSUME NEW u \in Threads PROVE ThreadIsWhole(u)'
      BY Zenon DEF ThreadsAreWhole
    <3>1. CASE u = t
      <4>1. w # 0
        BY Bounds DEF WorkIds
      <4> QED
        BY <2>1, <3>1, <4>1 DEF ThreadIsWhole, Requesting, Dropping
    <3>2. CASE u # t
      BY <1>1, <2>1, <3>2 DEF ThreadsAreWhole, ThreadIsWhole, MayGoOn, Allowed, Active
    <3> QED
      BY <3>1, <3>2
  <2>6. LockIsExclusive'
    <3>1. \A u \in Threads : Holding(u)' => Holding(u)
      BY <2>1 DEF Holding, Requesting
    <3> QED
      BY <3>1 DEF LockIsExclusive
  <2>7. RowIsWhole' /\ AssignIsMeant' /\ ReceiptIsDelivered' /\ PayloadIsKept'
    BY <1>1 DEF RowIsWhole, AssignIsMeant, ReceiptIsDelivered, PayloadIsKept
  <2>8. RevisionsArePast'
    BY <1>1, <2>1, TypedNumbers DEF RevisionsArePast
  <2>9. StagingIsAlone' /\ ExitIsOrdered' /\ CleanedIsQuiet'
    BY <1>1, <2>4 DEF StagingIsAlone, Staging, ExitIsOrdered, CleanedIsQuiet, Cleaning
  <2>10. DropsAreRecorded'
    <3> SUFFICES ASSUME NEW u \in Threads PROVE DropsAreRecorded!(u)'
      BY Zenon DEF DropsAreRecorded
    <3> QED
      BY <1>1, <2>1 DEF DropsAreRecorded, Dropping
  <2>11. SessionsAreThere'
    <3> SUFFICES ASSUME NEW u \in Threads PROVE SessionsAreThere!(u)'
      BY Zenon DEF SessionsAreThere
    <3> QED
      BY <1>1, <2>1 DEF SessionsAreThere
  <2>12. DeliveredIsSingle'
    BY <1>1 DEF DeliveredIsSingle, Sessions
  <2>13. SessionIsSingle'
    <3> SUFFICES ASSUME relay = "open"
                 PROVE  OneLive' /\ LiveIsNamed' /\ \A u \in Threads : Looked(u)'
      BY <1>1, Zenon DEF SessionIsSingle
    <3>1. Sessions' = Sessions /\ \A k \in Sessions : Live(k)' <=> Live(k)
      BY <1>1 DEF Sessions, Live
    <3>2. OneLive' /\ LiveIsNamed'
      BY <1>1, <3>1 DEF SessionIsSingle, OneLive, LiveIsNamed
    <3>3. ASSUME NEW u \in Threads PROVE Looked(u)'
      BY <1>1, <2>1, <3>1 DEF SessionIsSingle, Looked
    <3> QED
      BY <3>2, <3>3
  <2> QED
    BY <2>3, <2>5, <2>6, <2>7, <2>8, <2>9, <2>10, <2>11, <2>12, <2>13
<1> QED
  BY <1>2, <1>3, Zenon DEF Start

\* What the report of progress makes of the row.
LEMMA UploadingRow ==
  ASSUME PhoneInv, NEW w \in WorkIds,
         row' = row \/ (Owns(w) /\ row' = [row EXCEPT !.status = "UPLOADING"])
  PROVE  /\ RowMoves /\ row'.receipt = row.receipt
         /\ row' = row \/ (row'.status = "UPLOADING" /\ row.status \notin {"none", "UPLOADED"})
<1>1. row \in Row
  BY DEF PhoneInv, TypeOK
<1>2. CASE row' = row
  BY <1>1, <1>2 DEF RowMoves
<1>3. CASE Owns(w) /\ row' = [row EXCEPT !.status = "UPLOADING"]
  BY <1>1, <1>3 DEF Owns, RowMoves, Row
<1> QED
  BY <1>2, <1>3

LEMMA OwnKeeps == ASSUME PhoneInv, NEW t \in Threads, Own(t) PROVE PhoneInv'
<1>1. /\ thread[t].at = "own" /\ thread[t].at # "idle" /\ fails' \in 0..MaxFails
      /\ UNCHANGED <<folder, exit, auto, dir, sess, late, relay, import, queue, exiter, user>>
  BY DEF Own, server, control, PhoneInv, TypeOK
<1>2. thread[t].work \in WorkIds /\ ThreadIsWhole(t) /\ thread[t].work # 0
  BY <1>1, RunningThread DEF ThreadIsWhole
<1>3. CASE UNCHANGED row /\ Finish(t, "finished")
  <2>1. ThreadMoves(t) /\ job' \in [WorkIds -> Job] /\ thread'[t] = Idle
    BY <1>1, <1>3, FinishEffect
  <2>2. RowMoves
    BY <1>3 DEF RowMoves, PhoneInv, TypeOK
  <2>3. /\ ThreadIsWhole(t)' /\ ~Holding(t)' /\ thread'[t].at \notin Dropping
        /\ SessionsAreThere!(t)' /\ Looked(t)'
    BY <2>1, FreeThread
  <2>4. thread'[t].ses = 0 /\ thread'[t].at # "drop_resume"
    BY <2>1, InitialValues
  <2> QED
    BY <1>1, <1>3, <2>1, <2>2, <2>3, <2>4, QuietStep
<1>4. CASE /\ Owns(thread[t].work) /\ row' = [row EXCEPT !.status = "UPLOADING"]
           /\ At(t, "lock")
  <2>1. /\ ThreadMoves(t) /\ job' \in [WorkIds -> Job]
        /\ thread'[t].at = "lock" /\ thread'[t].ses = thread[t].ses
        /\ thread'[t].ans = thread[t].ans /\ thread'[t].work = thread[t].work
    BY <1>1, <1>4, AtEffect
  <2>2. RowMoves /\ row'.receipt = row.receipt /\ row'.status = "UPLOADING"
    BY <1>2, <1>4, UploadingRow DEF Owns
  <2>3. thread'[t].ans = "none"
    BY <1>1, <1>2, <2>1 DEF ThreadIsWhole
  <2>4. /\ ThreadIsWhole(t)' /\ ~Holding(t)' /\ thread'[t].at \notin Dropping
        /\ SessionsAreThere!(t)' /\ Looked(t)'
    BY <1>2, <2>1, <2>3 DEF ThreadIsWhole, Holding, Requesting, Dropping,
        SessionsAreThere, Looked
  <2> QED
    BY <1>1, <2>1, <2>2, <2>4, QuietStep
<1> QED
  BY <1>3, <1>4, Zenon DEF Own

\* A thread that lost its transfer leaves, so "paused" is never recorded.
LEMMA RecheckKeeps == ASSUME PhoneInv, NEW t \in Threads, Recheck(t) PROVE PhoneInv'
<1>1. /\ thread[t].at = "recheck" /\ thread[t].at # "idle" /\ fails' \in 0..MaxFails
      /\ UNCHANGED <<row, folder, exit, auto, dir, sess, late, relay, import, queue, exiter, user>>
  BY DEF Recheck, phone, server, control, PhoneInv, TypeOK
<1>2. thread[t].work # 0 /\ ThreadIsWhole(t) /\ thread[t] \in Thread
  BY <1>1, RunningThread DEF ThreadIsWhole
<1>3. RowMoves
  BY <1>1 DEF RowMoves, PhoneInv, TypeOK
<1>4. CASE Finish(t, "finished")
  <2>1. ThreadMoves(t) /\ job' \in [WorkIds -> Job] /\ thread'[t] = Idle
    BY <1>1, <1>4, FinishEffect
  <2>2. /\ ThreadIsWhole(t)' /\ ~Holding(t)' /\ thread'[t].at \notin Dropping
        /\ SessionsAreThere!(t)' /\ Looked(t)'
    BY <2>1, FreeThread
  <2>3. thread'[t].ses = 0 /\ thread'[t].at # "drop_resume"
    BY <2>1, InitialValues
  <2> QED
    BY <1>1, <1>3, <2>1, <2>2, <2>3, QuietStep
<1>5. CASE MayGoOn(t) /\ At(t, "record")
  <2>1. /\ ThreadMoves(t) /\ job' \in [WorkIds -> Job]
        /\ thread'[t].at = "record" /\ thread'[t].ses = thread[t].ses
        /\ thread'[t].ans = thread[t].ans /\ thread'[t].work = thread[t].work
    BY <1>1, <1>5, AtEffect
  <2>2. SessionsAreThere!(t) /\ thread[t].ans # "paused"
    BY <1>2, <1>5 DEF PhoneInv, SessionsAreThere, ThreadIsWhole
  <2>3. thread[t].ans # "none"
    BY <1>1, <1>2 DEF ThreadIsWhole
  <2>4. thread[t].ans \in {"delivered", "retry", "error"}
    BY <1>2, <2>2, <2>3 DEF Thread
  <2>5. /\ ThreadIsWhole(t)' /\ ~Holding(t)' /\ thread'[t].at \notin Dropping
        /\ SessionsAreThere!(t)' /\ Looked(t)'
    BY <1>1, <1>2, <2>1, <2>2, <2>4 DEF ThreadIsWhole, Holding, Requesting, Dropping,
        SessionsAreThere, Looked
  <2> QED
    BY <1>1, <1>3, <2>1, <2>5, QuietStep
<1> QED
  BY <1>4, <1>5, Zenon DEF Recheck

\* The result is recorded by the owner, and the files go only after that.
LEMMA RecordKeeps == ASSUME PhoneInv, NEW t \in Threads, Record(t) PROVE PhoneInv'
<1>1. /\ thread[t].at = "record" /\ thread[t].at # "idle" /\ fails' \in 0..MaxFails
      /\ UNCHANGED <<folder, exit, auto, dir, sess, late, relay, import, queue, exiter, user>>
  BY DEF Record, server, control, PhoneInv, TypeOK
<1>2. /\ thread[t].work # 0 /\ ThreadIsWhole(t) /\ thread[t].work \in WorkIds
      /\ thread[t].ses \in Nat
  BY <1>1, RunningThread DEF ThreadIsWhole
<1>3. thread[t].ans \in {"delivered", "retry", "error"} /\ SessionsAreThere!(t)
  BY <1>1, <1>2 DEF ThreadIsWhole, PhoneInv, SessionsAreThere
<1>4. /\ NewStatus(t) \in {"QUEUED", "FAILED", "UPLOADED"}
      /\ NewStatus(t) = "UPLOADED" <=> thread[t].ans = "delivered"
  BY <1>3 DEF NewStatus, Retries
<1>5. row \in Row /\ row.receipt \in Nat
  BY DEF PhoneInv, TypeOK, Row
<1>6. CASE Owns(thread[t].work) /\ NewStatus(t) = "UPLOADED"
  <2>1. /\ row' = [row EXCEPT !.status = "UPLOADED", !.receipt = thread[t].ses]
        /\ At(t, "drop_payload")
    BY <1>6 DEF Record
  <2>2. RowMoves /\ row'.status = "UPLOADED" /\ row'.receipt = thread[t].ses
    BY <1>2, <1>5, <1>6, <2>1 DEF Owns, RowMoves, Row
  <2>3. /\ ThreadMoves(t) /\ job' \in [WorkIds -> Job]
        /\ thread'[t].at = "drop_payload" /\ thread'[t].ses = thread[t].ses
        /\ thread'[t].ans = thread[t].ans /\ thread'[t].work = thread[t].work
    BY <1>1, <2>1, AtEffect DEF Dropping
  <2>4. /\ thread[t].ans = "delivered" /\ thread[t].ses # 0
        /\ sess[thread[t].ses].state = "delivered"
    BY <1>3, <1>4, <1>6
  <2>5. ThreadIsWhole(t)' /\ ~Holding(t)' /\ SessionsAreThere!(t)' /\ Looked(t)'
    BY <1>1, <1>2, <2>3, <2>4 DEF ThreadIsWhole, Holding, Requesting, Dropping,
        SessionsAreThere, Looked
  <2> QED
    BY <1>1, <2>2, <2>3, <2>4, <2>5, QuietStep
<1>7. CASE ~(Owns(thread[t].work) /\ NewStatus(t) = "UPLOADED")
  <2>1. RowMoves /\ row'.receipt = row.receipt /\ (row' = row \/ row'.status # "UPLOADED")
    <3>1. CASE Owns(thread[t].work)
      <4>1. NewStatus(t) \in {"QUEUED", "FAILED"}
        BY <1>4, <1>7, <3>1
      <4>2. row' = [row EXCEPT !.status = NewStatus(t), !.receipt = row.receipt]
        BY <1>5, <3>1, <4>1 DEF Record
      <4> QED
        BY <1>5, <3>1, <4>1, <4>2 DEF Owns, RowMoves, Row
    <3>2. CASE ~Owns(thread[t].work)
      BY <1>5, <3>2 DEF Record, RowMoves
    <3> QED
      BY <3>1, <3>2
  <2>2. Finish(t, IF Retries(t) THEN "enqueued" ELSE "finished")
    BY <1>7, Zenon DEF Record
  <2>3. ThreadMoves(t) /\ job' \in [WorkIds -> Job] /\ thread'[t] = Idle
    BY <1>1, <2>2, FinishEffect
  <2>4. /\ ThreadIsWhole(t)' /\ ~Holding(t)' /\ thread'[t].at \notin Dropping
        /\ SessionsAreThere!(t)' /\ Looked(t)'
    BY <2>3, FreeThread
  <2>5. thread'[t].ses = 0 /\ thread'[t].at # "drop_resume"
    BY <2>3, InitialValues
  <2> QED
    BY <1>1, <2>1, <2>3, <2>4, <2>5, QuietStep
<1> QED
  BY <1>6, <1>7

\* The lock is taken by one thread, which looks at resume.json under it.
LEMMA LockKeeps == ASSUME PhoneInv, NEW t \in Threads, Lock(t) PROVE PhoneInv'
<1>1. /\ thread[t].at = "lock" /\ thread[t].at # "idle" /\ fails' \in 0..MaxFails
      /\ UNCHANGED <<row, folder, exit, auto, dir, sess, late, relay, import, queue, exiter, user>>
      /\ \A u \in Threads : ~Holding(u)
  BY DEF Lock, phone, server, control, PhoneInv, TypeOK
<1>2. thread[t].work # 0 /\ ThreadIsWhole(t) /\ thread[t] \in Thread
  BY <1>1, RunningThread DEF ThreadIsWhole
<1>3. RowMoves
  BY <1>1 DEF RowMoves, PhoneInv, TypeOK
<1>4. CASE Answer(t, "error")
  <2>1. /\ ThreadMoves(t) /\ job' \in [WorkIds -> Job]
        /\ thread'[t].at = "recheck" /\ thread'[t].ans = "error" /\ thread'[t].ses = 0
    BY <1>1, <1>4, AnswerEffect
  <2>2. /\ ThreadIsWhole(t)' /\ ~Holding(t)' /\ thread'[t].at \notin Dropping
        /\ SessionsAreThere!(t)' /\ Looked(t)'
    BY <2>1, FreeThread
  <2> QED
    BY <1>1, <1>3, <2>1, <2>2, QuietStep
<1>5. CASE /\ SourceMatches /\ UNCHANGED job
           /\ thread' = [thread EXCEPT ![t].at = IF dir.resume = 0 THEN "create" ELSE "head",
                                       ![t].ses = dir.resume]
  <2> DEFINE s == IF dir.resume = 0 THEN "create" ELSE "head"
             r == [thread[t] EXCEPT !.at = s, !.ses = dir.resume]
  <2>1. /\ thread \in [Threads -> Thread] /\ dir \in Dir /\ job' \in [WorkIds -> Job]
        /\ dir.resume \in Nat
    BY <1>1, <1>5 DEF PhoneInv, TypeOK, Dir
  <2>2. thread' = [thread EXCEPT ![t] = r]
    BY <1>5, <2>1
  <2>3. /\ r \in Thread /\ r.at = s /\ r.ses = dir.resume /\ r.ans = thread[t].ans
        /\ r.work = thread[t].work /\ r.rev = thread[t].rev /\ r.stop = thread[t].stop
    BY <1>2, <2>1 DEF Thread, Requesting
  <2> HIDE DEF r
  <2>4. thread' \in [Threads -> Thread] /\ thread'[t] = r
        /\ \A u \in Threads : u # t => thread'[u] = thread[u]
    BY <2>1, <2>2, <2>3
  <2>5. ThreadMoves(t)
    BY <1>1, <2>3, <2>4 DEF ThreadMoves
  <2>6. thread[t].ans = "none"
    BY <1>1, <1>2 DEF ThreadIsWhole
  <2>7. ThreadIsWhole(t)' /\ SessionsAreThere!(t)' /\ thread'[t].at \notin Dropping
    BY <1>2, <2>3, <2>4, <2>6 DEF ThreadIsWhole, SessionsAreThere, Dropping, Requesting
  <2>8. relay = "open" => Looked(t)'
    <3> SUFFICES ASSUME relay = "open" PROVE Looked(t)'
      OBVIOUS
    <3>1. LiveIsNamed /\ dir.bytes = "full"
      BY <1>5 DEF PhoneInv, SessionIsSingle, SourceMatches
    <3>2. dir.resume = 0 => \A k \in Sessions : ~Live(k)
      BY <3>1 DEF LiveIsNamed, Sessions
    <3>3. Sessions' = Sessions /\ \A k \in Sessions : Live(k)' <=> Live(k)
      BY <1>1 DEF Sessions, Live
    <3> QED
      BY <1>1, <2>3, <2>4, <3>2, <3>3 DEF Looked
  <2>9. thread'[t].ses = dir.resume /\ thread'[t].at # "drop_resume"
    BY <2>3, <2>4
  <2> QED
    BY <1>1, <1>3, <2>1, <2>5, <2>7, <2>8, <2>9, QuietStep DEF Dropping
<1> QED
  BY <1>4, <1>5, Zenon DEF Lock

\* The last callback decides: on, or the client's "paused" for a thread that may
\* not go on.
LEMMA ProgressKeeps == ASSUME PhoneInv, NEW t \in Threads, Progress(t) PROVE PhoneInv'
<1>1. /\ thread[t].at = "loop" /\ thread[t].at # "idle" /\ fails' \in 0..MaxFails
      /\ UNCHANGED <<folder, exit, auto, dir, sess, late, relay, import, queue, exiter, user>>
  BY DEF Progress, server, control, PhoneInv, TypeOK
<1>2. /\ thread[t].work # 0 /\ ThreadIsWhole(t) /\ thread[t].work \in WorkIds
      /\ Holding(t) /\ SessionsAreThere!(t)
  BY <1>1, RunningThread DEF ThreadIsWhole, Holding, Requesting, PhoneInv, SessionsAreThere
<1>3. /\ RowMoves /\ row'.receipt = row.receipt
      /\ row' = row \/ (row'.status = "UPLOADING" /\ row.status \notin {"none", "UPLOADED"})
  <2>1. row' = row \/ (Owns(thread[t].work) /\ row' = [row EXCEPT !.status = "UPLOADING"])
    BY DEF Progress, Reported
  <2> QED
    BY <1>2, <2>1, UploadingRow
<1>4. CASE At(t, "patch")
  <2>1. /\ ThreadMoves(t) /\ job' \in [WorkIds -> Job]
        /\ thread'[t].at = "patch" /\ thread'[t].ses = thread[t].ses
        /\ thread'[t].ans = thread[t].ans /\ thread'[t].work = thread[t].work
    BY <1>1, <1>4, AtEffect DEF Requesting
  <2>2. thread[t].ans = "none"
    BY <1>1, <1>2 DEF ThreadIsWhole, Requesting
  <2>3. ThreadIsWhole(t)' /\ SessionsAreThere!(t)' /\ thread'[t].at \notin Dropping
    BY <1>1, <1>2, <2>1, <2>2 DEF ThreadIsWhole, SessionsAreThere, Dropping, Requesting
  <2>4. relay = "open" => Looked(t)'
    BY <1>1, <2>1 DEF PhoneInv, SessionIsSingle, Looked
  <2> QED
    BY <1>1, <1>2, <1>3, <2>1, <2>3, <2>4, QuietStep
<1>5. CASE ~MayGoOn(t) /\ Answer(t, "paused")
  <2>1. /\ ThreadMoves(t) /\ job' \in [WorkIds -> Job]
        /\ thread'[t].at = "recheck" /\ thread'[t].ans = "paused"
        /\ thread'[t].work = thread[t].work /\ thread'[t].rev = thread[t].rev
        /\ thread'[t].stop = thread[t].stop /\ thread'[t].ses = 0
    BY <1>1, <1>5, AnswerEffect
  <2>2. ~MayGoOn(t)'
    BY <1>1, <1>3, <1>5, <2>1 DEF MayGoOn, Allowed, Active, RowMoves
  <2>3. /\ ThreadIsWhole(t)' /\ ~Holding(t)' /\ thread'[t].at \notin Dropping
        /\ SessionsAreThere!(t)' /\ Looked(t)'
    BY <1>2, <2>1, <2>2 DEF ThreadIsWhole, Holding, Requesting, Dropping,
        SessionsAreThere, Looked
  <2> QED
    BY <1>1, <1>3, <2>1, <2>3, QuietStep
<1> QED
  BY <1>4, <1>5, Zenon DEF Progress

\* A step that changes files: the parts of the invariant put together.
LEMMA FileStep ==
  ASSUME PhoneInv, NEW t \in Threads, ThreadMoves(t),
         UNCHANGED <<row, folder, exit, auto, sess, late, relay, import, queue, exiter,
                     fails, user>>,
         job' \in [WorkIds -> Job], dir' \in Dir, dir'.resume <= Len(sess),
         thread'[t].ses \in {0, thread[t].ses},
         ThreadIsWhole(t)', SessionsAreThere!(t)',
         Holding(t)' => Holding(t),
         thread'[t].at \in Dropping => row.status \in {"UPLOADED", "none"},
         thread'[t].at = "drop_resume" => dir'.bytes = "none",
         \/ dir'.bytes = dir.bytes
         \/ row.status \in {"UPLOADED", "none"} /\ dir'.bytes = "none",
         SessionIsSingle', DeliveredIsSingle'
  PROVE  PhoneInv'
<1>1. RowMoves
  BY DEF PhoneInv, TypeOK, RowMoves
<1>2. TypeOK'
  <2>1. \A u \in Threads : thread'[u].ses <= Len(sess)
    BY TypedNumbers DEF PhoneInv, TypeOK, ThreadMoves
  <2> QED
    BY <2>1 DEF PhoneInv, TypeOK, ThreadMoves
<1>3. /\ RowIsWhole' /\ ThreadsAreWhole' /\ LockIsExclusive' /\ RevisionsArePast'
      /\ StagingIsAlone' /\ ExitIsOrdered' /\ CleanedIsQuiet' /\ AssignIsMeant'
      /\ DropsAreRecorded' /\ PayloadIsKept'
  BY <1>1, ThreadStep
<1>4. SessionsAreThere' /\ ReceiptIsDelivered'
  BY <1>1, ResultStep
<1> QED
  BY <1>2, <1>3, <1>4 DEF PhoneInv

LEMMA DropPayloadKeeps == ASSUME PhoneInv, NEW t \in Threads, DropPayload(t) PROVE PhoneInv'
<1>1. /\ thread[t].at = "drop_payload" /\ thread[t].at # "idle" /\ At(t, "drop_resume")
      /\ UNCHANGED <<row, folder, exit, auto, sess, late, relay, import, queue, exiter,
                     fails, user>>
      /\ dir' = [dir EXCEPT !.bytes = "none"] /\ dir \in Dir /\ dir.resume <= Len(sess)
  BY DEF DropPayload, server, control, PhoneInv, TypeOK
<1>2. /\ thread[t].work # 0 /\ ThreadIsWhole(t) /\ SessionsAreThere!(t)
      /\ row.status \in {"UPLOADED", "none"}
  BY <1>1, RunningThread DEF ThreadIsWhole, PhoneInv, SessionsAreThere, DropsAreRecorded,
      Dropping
<1>3. dir' \in Dir /\ dir'.bytes = "none" /\ dir'.resume = dir.resume
  BY <1>1 DEF Dir
<1>4. /\ ThreadMoves(t) /\ job' \in [WorkIds -> Job]
      /\ thread'[t].at = "drop_resume" /\ thread'[t].ses = thread[t].ses
      /\ thread'[t].ans = thread[t].ans /\ thread'[t].work = thread[t].work
  BY <1>1, AtEffect DEF Dropping
<1>5. ThreadIsWhole(t)' /\ SessionsAreThere!(t)' /\ ~Holding(t)' /\ Looked(t)'
  BY <1>1, <1>2, <1>4 DEF ThreadIsWhole, SessionsAreThere, Dropping, Requesting, Holding,
      Looked
<1>6. SessionIsSingle' /\ DeliveredIsSingle'
  BY <1>1, <1>3, <1>4, <1>5, SessionsStay
<1> QED
  BY <1>1, <1>2, <1>3, <1>4, <1>5, <1>6, FileStep

\* The saved session goes last: whoever is at it works on what is delivered.
LEMMA DropResumeKeeps == ASSUME PhoneInv, NEW t \in Threads, DropResume(t) PROVE PhoneInv'
<1>1. /\ thread[t].at = "drop_resume" /\ thread[t].at # "idle" /\ Finish(t, "finished")
      /\ UNCHANGED <<row, folder, exit, auto, sess, late, relay, import, queue, exiter,
                     fails, user>>
      /\ dir' = [dir EXCEPT !.resume = 0] /\ dir \in Dir
  BY DEF DropResume, server, control, PhoneInv, TypeOK
<1>2. /\ ThreadIsWhole(t) /\ SessionsAreThere!(t) /\ dir.bytes = "none"
      /\ row.status \in {"UPLOADED", "none"} /\ thread[t].ses \in Nat
      /\ thread[t].ses <= Len(sess)
  BY <1>1, RunningThread DEF PhoneInv, SessionsAreThere, DropsAreRecorded, Dropping
<1>3. /\ dir' \in Dir /\ dir'.bytes = dir.bytes /\ dir'.resume = 0 /\ dir'.resume <= Len(sess)
  BY <1>1, TypedNumbers DEF Dir, PhoneInv
<1>4. ThreadMoves(t) /\ job' \in [WorkIds -> Job] /\ thread'[t] = Idle
  BY <1>1, FinishEffect
<1>5. /\ ThreadIsWhole(t)' /\ ~Holding(t)' /\ thread'[t].at \notin Dropping
      /\ SessionsAreThere!(t)' /\ Looked(t)' /\ thread'[t].ses = 0
  BY <1>4, FreeThread, InitialValues
<1>6. thread[t].ses \in Sessions /\ sess[thread[t].ses].state = "delivered"
  BY <1>1, <1>2, TypedNumbers DEF ThreadIsWhole, Dropping, Sessions, PhoneInv
<1>7. Sessions' = Sessions /\ \A k \in Sessions : Live(k)' <=> Live(k)
  BY <1>1 DEF Sessions, Live
<1>8. DeliveredIsSingle'
  BY <1>1, <1>7 DEF DeliveredIsSingle, PhoneInv
<1>9. SessionIsSingle'
  <2> SUFFICES ASSUME relay = "open"
               PROVE  OneLive' /\ LiveIsNamed' /\ \A u \in Threads : Looked(u)'
    BY <1>1, Zenon DEF SessionIsSingle
  <2>1. OneLive /\ LiveIsNamed /\ \A u \in Threads : Looked(u)
    BY DEF PhoneInv, SessionIsSingle
  <2>2. OneLive' /\ LiveIsNamed'
    BY <1>2, <1>3, <1>7, <2>1 DEF OneLive, LiveIsNamed
  <2>3. dir.resume \in {0, thread[t].ses}
    BY <1>6, <2>1 DEF LiveIsNamed, Live
  <2>4. ASSUME NEW u \in Threads, u # t PROVE Looked(u)'
    <3>1. thread'[u] = thread[u] /\ Looked(u) /\ SessionsAreThere!(u)
      BY <1>4, <2>1, <2>4 DEF ThreadMoves, PhoneInv, SessionsAreThere
    <3> QED
      BY <1>1, <1>3, <1>6, <1>7, <2>3, <3>1 DEF Looked
  <2> QED
    BY <1>5, <2>2, <2>4
<1> QED
  BY <1>1, <1>2, <1>3, <1>4, <1>5, <1>8, <1>9, FileStep DEF Dropping

\* Under the lock no other thread is at a session.
LEMMA OthersAreOut ==
  ASSUME PhoneInv, NEW t \in Threads, Holding(t), ThreadMoves(t)
  PROVE  \A u \in Threads : u # t => Looked(u)'
<1> SUFFICES ASSUME NEW u \in Threads, u # t PROVE Looked(u)'
  OBVIOUS
<1>1. ~Holding(u) /\ thread'[u] = thread[u]
  BY DEF PhoneInv, LockIsExclusive, ThreadMoves
<1> QED
  BY <1>1 DEF Looked, Holding, Requesting

\* resume.json is written while no session counts.
LEMMA SaveKeeps == ASSUME PhoneInv, NEW t \in Threads, Save(t) PROVE PhoneInv'
<1>1. /\ thread[t].at = "save" /\ thread[t].at # "idle" /\ At(t, "head")
      /\ UNCHANGED <<row, folder, exit, auto, sess, late, relay, import, queue, exiter,
                     fails, user>>
      /\ dir' = [dir EXCEPT !.resume = thread[t].ses] /\ dir \in Dir
  BY DEF Save, SaveState, server, control, PhoneInv, TypeOK
<1>2. /\ ThreadIsWhole(t) /\ SessionsAreThere!(t) /\ Holding(t) /\ thread[t].ses \in Nat
      /\ thread[t].ses <= Len(sess) /\ thread[t].work # 0
  BY <1>1, RunningThread DEF PhoneInv, SessionsAreThere, Holding, Requesting, ThreadIsWhole
<1>3. dir' \in Dir /\ dir'.bytes = dir.bytes /\ dir'.resume = thread[t].ses
  BY <1>1, <1>2 DEF Dir
<1>4. /\ ThreadMoves(t) /\ job' \in [WorkIds -> Job]
      /\ thread'[t].at = "head" /\ thread'[t].ses = thread[t].ses
      /\ thread'[t].ans = thread[t].ans /\ thread'[t].work = thread[t].work
  BY <1>1, AtEffect DEF Requesting
<1>5. ThreadIsWhole(t)' /\ SessionsAreThere!(t)' /\ thread'[t].at \notin Dropping
  BY <1>1, <1>2, <1>4 DEF ThreadIsWhole, SessionsAreThere, Dropping, Requesting
<1>6. Sessions' = Sessions /\ \A k \in Sessions : Live(k)' <=> Live(k)
  BY <1>1 DEF Sessions, Live
<1>7. DeliveredIsSingle'
  BY <1>1, <1>6 DEF DeliveredIsSingle, PhoneInv
<1>8. SessionIsSingle'
  <2> SUFFICES ASSUME relay = "open"
               PROVE  OneLive' /\ LiveIsNamed' /\ \A u \in Threads : Looked(u)'
    BY <1>1, Zenon DEF SessionIsSingle
  <2>1. \A k \in Sessions : ~Live(k)
    BY <1>1 DEF PhoneInv, SessionIsSingle, Looked
  <2>2. OneLive' /\ LiveIsNamed'
    BY <1>6, <2>1 DEF OneLive, LiveIsNamed
  <2>3. Looked(t)'
    BY <1>3, <1>4 DEF Looked
  <2> QED
    BY <1>2, <1>4, <2>2, <2>3, OthersAreOut
<1> QED
  BY <1>1, <1>2, <1>3, <1>4, <1>5, <1>7, <1>8, FileStep DEF Dropping

-----------------------------------------------------------------------------
(* Requests to the relay *)

\* What the relay makes of a session: it never goes back, and one with all its
\* bytes is delivered.
LEMMA ServedEffect ==
  ASSUME NEW s \in Session, NEW off \in 0..(Length - 1)
  PROVE  /\ Finalized(s) \in Session /\ Served(s, off) \in Session
         /\ s.state = "delivered" => /\ Finalized(s).state = "delivered"
                                     /\ Served(s, off).state = "delivered"
         /\ Finalized(s).offset = Length => Finalized(s).state = "delivered"
         /\ Served(s, off).offset = Length => Served(s, off).state = "delivered"
<1>1. \A r \in Session : /\ Finalized(r) \in Session
                         /\ r.state = "delivered" => Finalized(r).state = "delivered"
                         /\ Finalized(r).offset = Length => Finalized(r).state = "delivered"
  BY DEF Finalized, Session
<1>2. CASE s.state = "open" /\ s.offset = off
  <2> DEFINE r == [s EXCEPT !.offset = @ + 1]
  <2>1. r \in Session
    <3>1. off + 1 \in 0..Length
      BY Bounds
    <3> QED
      BY <1>2, <3>1 DEF Session
  <2>2. Served(s, off) = Finalized(r)
    BY <1>2 DEF Served
  <2> QED
    BY <1>1, <1>2, <2>1, <2>2
<1>3. CASE ~(s.state = "open" /\ s.offset = off)
  <2>1. Served(s, off) = Finalized(s)
    BY <1>3 DEF Served
  <2> QED
    BY <1>1, <2>1
<1> QED
  BY <1>2, <1>3

LEMMA StatusMeans ==
  ASSUME PhoneInv, NEW k \in Sessions
  PROVE  /\ Status(k) = "ok" => relay = "open" /\ sess[k].state # "gone"
         /\ Status(k) # "ok" /\ relay = "open" => sess[k].state = "gone"
<1>1. relay \in {"open", "purged"}
  BY DEF PhoneInv, TypeOK
<1> QED
  BY <1>1 DEF Status

\* A thread at a session: it has one.
LEMMA AtSession ==
  ASSUME PhoneInv, NEW t \in Threads, thread[t].at \in {"save", "head", "loop", "patch"}
  PROVE  /\ thread[t].ses \in Sessions /\ sess[thread[t].ses] \in Session
         /\ thread[t].off \in 0..(Length - 1)
         /\ Holding(t) /\ thread[t].at # "idle"
<1>1. /\ thread[t].ses \in Nat /\ thread[t].ses <= Len(sess) /\ thread[t] \in Thread
      /\ thread[t].at # "idle"
  BY RunningThread
<1>2. thread[t].ses # 0 /\ sess \in Seq(Session)
  BY DEF PhoneInv, SessionsAreThere, TypeOK
<1>3. thread[t].ses \in 1..Len(sess)
  BY <1>1, <1>2, LenProperties
<1>4. sess[thread[t].ses] \in Session
  BY <1>2, <1>3, ElementOfSeq
<1>5. thread[t].off \in 0..(Length - 1)
  BY <1>1 DEF Thread
<1> QED
  BY <1>1, <1>3, <1>4, <1>5 DEF Sessions, Holding, Requesting

\* The sessions after a request for the thread's own session: it is still the
\* only one that counts.
LEMMA SessionMoves ==
  ASSUME PhoneInv, NEW t \in Threads, ThreadMoves(t), relay = "open", relay' = relay,
         thread[t].at \in {"head", "patch"}, NEW k \in Sessions, k = thread[t].ses,
         Len(sess') = Len(sess),
         \A j \in Sessions : j # k => sess'[j] = sess[j],
         \A p \in late' : p \in late \/ p.ses = k,
         \/ dir' = dir
         \/ dir'.resume = 0 /\ sess'[k].state = "gone",
         Looked(t)'
  PROVE  SessionIsSingle' /\ DeliveredIsSingle'
<1>1. OneLive /\ LiveIsNamed /\ Looked(t)
  BY DEF PhoneInv, SessionIsSingle
<1>2. Sessions' = Sessions /\ k # 0
  BY DEF Sessions
<1>3. dir.resume = k \/ sess[k].state = "delivered"
  BY <1>1 DEF Looked
<1>4. \A j \in Sessions : Live(j) => j = k
  <2> SUFFICES ASSUME NEW j \in Sessions, Live(j), j # k PROVE FALSE
    OBVIOUS
  <2>1. dir.resume = j \/ dir.resume = 0
    BY <1>1 DEF LiveIsNamed
  <2>2. sess[k].state = "delivered"
    BY <1>2, <1>3, <2>1
  <2>3. Live(k)
    BY <2>2 DEF Live
  <2> QED
    BY <1>1, <2>3 DEF OneLive
<1>5. ASSUME NEW j \in Sessions, Live(j)' PROVE j = k
  <2> SUFFICES ASSUME j # k PROVE FALSE
    OBVIOUS
  <2>1. Live(j)
    BY <1>5 DEF Live
  <2> QED
    BY <1>4, <2>1
<1>6. OneLive'
  BY <1>2, <1>5 DEF OneLive
<1>7. LiveIsNamed'
  <2> SUFFICES ASSUME Live(k)'
               PROVE  dir'.resume = k \/ (dir'.resume = 0 /\ dir'.bytes # "full")
    BY <1>2, <1>5 DEF LiveIsNamed
  <2>1. dir' = dir
    BY DEF Live
  <2>2. CASE dir.resume = k
    BY <2>1, <2>2
  <2>3. CASE sess[k].state = "delivered"
    <3>1. Live(k)
      BY <2>3 DEF Live
    <3> QED
      BY <1>1, <2>1, <3>1 DEF LiveIsNamed
  <2> QED
    BY <1>3, <2>2, <2>3
<1>8. DeliveredIsSingle'
  BY <1>2, <1>6 DEF DeliveredIsSingle, OneLive, Live
<1>9. \A u \in Threads : Looked(u)'
  BY AtSession, OthersAreOut
<1> QED
  BY <1>6, <1>7, <1>8, <1>9 DEF SessionIsSingle

\* The other parts of the invariant after a request.
LEMMA RequestStep ==
  ASSUME PhoneInv, NEW t \in Threads, ThreadMoves(t), RowMoves, Holding(t),
         UNCHANGED <<folder, exit, auto, import, queue, exiter, user, relay>>,
         row'.receipt = row.receipt, row' = row \/ row'.status # "UPLOADED",
         job' \in [WorkIds -> Job], fails' \in 0..MaxFails,
         dir' \in Dir, dir'.resume \in {0, dir.resume}, dir'.bytes = dir.bytes,
         sess' \in Seq(Session), Len(sess') \in Nat, Len(sess) <= Len(sess'),
         late' \subseteq [ses : 1..Len(sess'), off : 0..(Length - 1)],
         thread'[t].ses <= Len(sess'),
         \A k \in Sessions : sess[k].state = "delivered" => sess'[k].state = "delivered",
         ThreadIsWhole(t)', SessionsAreThere!(t)', thread'[t].at \notin Dropping,
         SessionIsSingle', DeliveredIsSingle'
  PROVE  PhoneInv'
<1>1. TypeOK'
  <2>1. /\ \A u \in Threads : u # t => thread'[u].ses <= Len(sess)
        /\ \A u \in Threads : thread[u].ses \in Nat
        /\ row.receipt <= Len(sess) /\ dir.resume <= Len(sess)
        /\ row.receipt \in Nat /\ dir.resume \in Nat /\ Len(sess) \in Nat
    BY TypedNumbers DEF PhoneInv, TypeOK, ThreadMoves, Row, Dir, Thread
  <2>2. \A u \in Threads : thread'[u].ses <= Len(sess')
    BY <2>1 DEF ThreadMoves
  <2>3. row'.receipt <= Len(sess') /\ dir'.resume <= Len(sess')
    BY <2>1
  <2> QED
    BY <2>2, <2>3 DEF PhoneInv, TypeOK, ThreadMoves, RowMoves
<1>2. thread'[t].at # "drop_resume"
  BY DEF Dropping
<1>3. /\ RowIsWhole' /\ ThreadsAreWhole' /\ LockIsExclusive' /\ RevisionsArePast'
      /\ StagingIsAlone' /\ ExitIsOrdered' /\ CleanedIsQuiet' /\ AssignIsMeant'
      /\ DropsAreRecorded' /\ PayloadIsKept'
  BY <1>2, ThreadStep
<1>4. SessionsAreThere' /\ ReceiptIsDelivered'
  BY ResultStep
<1> QED
  BY <1>1, <1>3, <1>4 DEF PhoneInv

\* One session is written.
LEMMA SessionWritten ==
  ASSUME PhoneInv, NEW k \in Sessions, NEW s \in Session, sess' = [sess EXCEPT ![k] = s],
         sess[k].state = "delivered" => s.state = "delivered"
  PROVE  /\ sess' \in Seq(Session) /\ Len(sess') = Len(sess) /\ Len(sess') \in Nat
         /\ sess'[k] = s /\ \A j \in Sessions : j # k => sess'[j] = sess[j]
         /\ \A j \in Sessions : sess[j].state = "delivered" => sess'[j].state = "delivered"
<1>1. sess \in Seq(Session) /\ k \in 1..Len(sess) /\ Len(sess) \in Nat
  BY TypedNumbers DEF PhoneInv, TypeOK, Sessions
<1>2. /\ [sess EXCEPT ![k] = s] \in Seq(Session)
      /\ Len([sess EXCEPT ![k] = s]) = Len(sess)
      /\ \A j \in 1..Len(sess) : [sess EXCEPT ![k] = s][j] = IF j = k THEN s ELSE sess[j]
  BY <1>1, ExceptSeq
<1>3. \A j \in Sessions : sess'[j] = IF j = k THEN s ELSE sess[j]
  BY <1>2 DEF Sessions
<1> QED
  BY <1>1, <1>2, <1>3

\* How a thread takes a valid or invalid answer.
LEMMA AdvanceEffect ==
  ASSUME PhoneInv, NEW t \in Threads, thread[t].at \in {"head", "patch"},
         NEW s \in Session, s.offset = Length => s.state = "delivered",
         relay = "open", sess'[thread[t].ses] = s,
         sess[thread[t].ses].state = "delivered" => s.state = "delivered",
         Advance(t, s)
  PROVE  /\ ThreadMoves(t) /\ RowMoves /\ job' \in [WorkIds -> Job]
         /\ row'.receipt = row.receipt /\ (row' = row \/ row'.status # "UPLOADED")
         /\ UNCHANGED <<folder, exit, auto, dir>>
         /\ thread'[t].ses \in {0, thread[t].ses} /\ thread'[t].at \notin Dropping
         /\ ThreadIsWhole(t)' /\ SessionsAreThere!(t)' /\ Looked(t)'
<1>1. /\ thread[t].ses \in Sessions /\ Holding(t) /\ thread[t].at # "idle"
      /\ thread[t].ses # 0
  BY AtSession DEF Sessions
<1>2. /\ ThreadIsWhole(t) /\ thread[t] \in Thread /\ thread[t].work \in WorkIds
      /\ thread[t].work # 0 /\ thread[t].ans = "none"
  BY <1>1, RunningThread DEF ThreadIsWhole, Requesting
<1>3. UNCHANGED <<folder, exit, auto, dir>>
  BY DEF Advance
<1>4. row \in Row /\ thread \in [Threads -> Thread] /\ job \in [WorkIds -> Job]
  BY DEF PhoneInv, TypeOK
<1>5. CASE Answer(t, "error") /\ UNCHANGED row
  <2>1. /\ ThreadMoves(t) /\ job' \in [WorkIds -> Job]
        /\ thread'[t].at = "recheck" /\ thread'[t].ans = "error" /\ thread'[t].ses = 0
    BY <1>1, <1>5, AnswerEffect
  <2>2. /\ ThreadIsWhole(t)' /\ ~Holding(t)' /\ thread'[t].at \notin Dropping
        /\ SessionsAreThere!(t)' /\ Looked(t)'
    BY <2>1, FreeThread
  <2>3. RowMoves
    BY <1>4, <1>5 DEF RowMoves
  <2> QED
    BY <1>3, <1>5, <2>1, <2>2, <2>3
<1>6. CASE s.state = "delivered" /\ Answer(t, "delivered") /\ Reported(t)
  <2>1. /\ ThreadMoves(t) /\ job' \in [WorkIds -> Job]
        /\ thread'[t].at = "recheck" /\ thread'[t].ans = "delivered"
        /\ thread'[t].ses = thread[t].ses
    BY <1>1, <1>6, AnswerEffect
  <2>2. /\ ThreadIsWhole(t)' /\ ~Holding(t)' /\ thread'[t].at \notin Dropping
        /\ SessionsAreThere!(t)' /\ Looked(t)'
    BY <1>1, <1>6, <2>1, FreeThread
  <2>3. row' = row \/ (Owns(thread[t].work) /\ row' = [row EXCEPT !.status = "UPLOADING"])
    BY <1>6 DEF Reported
  <2>4. RowMoves /\ row'.receipt = row.receipt /\ (row' = row \/ row'.status = "UPLOADING")
    BY <1>2, <2>3, UploadingRow
  <2> QED
    BY <1>3, <2>1, <2>2, <2>4
<1>7. CASE /\ s.state # "delivered" /\ UNCHANGED <<job, row>>
           /\ thread' = [thread EXCEPT ![t].at = "loop", ![t].off = s.offset]
  <2> DEFINE r == [thread[t] EXCEPT !.at = "loop", !.off = s.offset]
  <2>1. thread' = [thread EXCEPT ![t] = r]
    BY <1>4, <1>7
  <2>2. s.offset \in 0..(Length - 1)
    <3>1. s.offset \in 0..Length /\ s.offset # Length
      BY <1>7 DEF Session
    <3> QED
      BY <3>1, Bounds
  <2>3. /\ r \in Thread /\ r.at = "loop" /\ r.ses = thread[t].ses /\ r.ans = thread[t].ans
        /\ r.work = thread[t].work /\ r.rev = thread[t].rev /\ r.stop = thread[t].stop
    BY <1>2, <2>2 DEF Thread, Requesting
  <2> HIDE DEF r
  <2>4. thread' \in [Threads -> Thread] /\ thread'[t] = r
        /\ \A u \in Threads : u # t => thread'[u] = thread[u]
    BY <1>4, <2>1, <2>3
  <2>5. ThreadMoves(t)
    BY <1>1, <2>3, <2>4 DEF ThreadMoves
  <2>6. ThreadIsWhole(t)' /\ SessionsAreThere!(t)' /\ thread'[t].at \notin Dropping
    BY <1>1, <1>2, <2>3, <2>4 DEF ThreadIsWhole, SessionsAreThere, Dropping, Requesting
  <2>7. Looked(t)'
    BY <1>3, <2>3, <2>4 DEF PhoneInv, SessionIsSingle, Looked
  <2>8. RowMoves /\ row' = row /\ job' \in [WorkIds -> Job]
    BY <1>4, <1>7 DEF RowMoves
  <2> QED
    BY <1>3, <2>3, <2>4, <2>5, <2>6, <2>7, <2>8
<1> QED
  BY <1>5, <1>6, <1>7 DEF Advance

\* A request that ends the upload without a delivery.
LEMMA GivenUp ==
  ASSUME PhoneInv, NEW t \in Threads, Holding(t), NEW a \in {"retry", "error"}, Answer(t, a)
  PROVE  /\ ThreadMoves(t) /\ job' \in [WorkIds -> Job]
         /\ ThreadIsWhole(t)' /\ SessionsAreThere!(t)' /\ Looked(t)'
         /\ thread'[t].at \notin Dropping /\ thread'[t].ses = 0 /\ ~Holding(t)'
<1>1. thread[t].at # "idle"
  BY DEF Holding, Requesting
<1>2. /\ ThreadMoves(t) /\ job' \in [WorkIds -> Job]
      /\ thread'[t].at = "recheck" /\ thread'[t].ans = a /\ thread'[t].ses = 0
  BY <1>1, AnswerEffect
<1>3. /\ ThreadIsWhole(t)' /\ ~Holding(t)' /\ thread'[t].at \notin Dropping
      /\ SessionsAreThere!(t)' /\ Looked(t)'
  BY <1>2, FreeThread
<1> QED
  BY <1>2, <1>3

\* The client gave up, and neither files nor sessions changed.
LEMMA GivenUpStep ==
  ASSUME PhoneInv, NEW t \in Threads, Holding(t), NEW a \in {"retry", "error"}, Answer(t, a),
         UNCHANGED <<row, folder, exit, auto, dir, sess, late, relay, import, queue,
                     exiter, user>>,
         fails' \in 0..MaxFails
  PROVE  PhoneInv'
<1>1. RowMoves
  BY DEF PhoneInv, TypeOK, RowMoves
<1>2. /\ ThreadMoves(t) /\ job' \in [WorkIds -> Job]
      /\ ThreadIsWhole(t)' /\ SessionsAreThere!(t)' /\ Looked(t)'
      /\ thread'[t].at \notin Dropping /\ thread'[t].ses = 0 /\ ~Holding(t)'
  BY GivenUp
<1>3. thread'[t].at # "drop_resume"
  BY <1>2 DEF Dropping
<1> QED
  BY <1>1, <1>2, <1>3, QuietStep

\* A new session does not count yet, and the thread that made it goes on to
\* save it while none does.
LEMMA CreateKeeps == ASSUME PhoneInv, NEW t \in Threads, Create(t) PROVE PhoneInv'
<1>1. /\ thread[t].at = "create" /\ thread[t].at # "idle" /\ Holding(t)
      /\ UNCHANGED <<row, folder, exit, auto, dir, late, relay, import, queue, exiter, user>>
  BY DEF Create, phone, control, Holding, Requesting
<1>2. fails' \in 0..MaxFails
  <2>1. fails \in 0..MaxFails /\ (fails' = fails \/ Failed)
    BY Zenon DEF PhoneInv, TypeOK, Create
  <2> QED
    BY <2>1, Bounds DEF Failed, CanFail
<1>3. CASE UNCHANGED sess /\ \E a \in {"retry", "error"} : Answer(t, a)
  BY <1>1, <1>2, <1>3, GivenUpStep
<1>4. CASE /\ relay = "open" /\ Created
           /\ \/ /\ thread' = [thread EXCEPT ![t].at = "save", ![t].ses = Len(sess) + 1]
                 /\ UNCHANGED job
              \/ Answer(t, "retry")
  <2> DEFINE new == [offset |-> 0, state |-> "open"]
  <2>1. new \in Session /\ new.state = "open" /\ new.offset = 0
    BY Bounds DEF Session
  <2> HIDE DEF new
  <2>2. /\ sess \in Seq(Session) /\ Len(sess) \in Nat /\ dir \in Dir
        /\ thread \in [Threads -> Thread] /\ thread[t] \in Thread
        /\ job \in [WorkIds -> Job] /\ dir.resume <= Len(sess)
        /\ late \subseteq [ses : 1..Len(sess), off : 0..(Length - 1)] /\ row \in Row
    BY TypedNumbers DEF PhoneInv, TypeOK
  <2>3. sess' = Append(sess, new)
    BY <1>4 DEF Created, new
  <2>4. /\ sess' \in Seq(Session) /\ Len(sess') = Len(sess) + 1
        /\ \A k \in 1..Len(sess) : sess'[k] = sess[k]
        /\ sess'[Len(sess) + 1] = new
    BY <2>1, <2>2, <2>3, AppendProperties
  <2>5. Len(sess') \in Nat /\ Len(sess) <= Len(sess') /\ 1..Len(sess) \subseteq 1..Len(sess')
    BY <2>2, <2>4
  <2>6. late' \subseteq [ses : 1..Len(sess'), off : 0..(Length - 1)]
    <3>1. ASSUME NEW p \in late PROVE p \in [ses : 1..Len(sess'), off : 0..(Length - 1)]
      BY <2>2, <2>5
    <3> QED
      BY <1>1, <3>1
  <2>7. dir.resume = 0 /\ \A k \in Sessions : ~Live(k)
    BY <1>1, <1>4 DEF PhoneInv, SessionIsSingle, Looked
  <2>8. \A k \in Sessions' : ~Live(k)'
    <3> SUFFICES ASSUME NEW k \in 1..Len(sess') PROVE ~Live(k)'
      BY DEF Sessions
    <3>1. CASE k \in 1..Len(sess)
      BY <1>1, <2>4, <2>7, <3>1 DEF Sessions, Live
    <3>2. CASE k = Len(sess) + 1
      <4>1. \A p \in late : p.ses # k
        BY <2>2, <3>2
      <4> QED
        BY <1>1, <2>1, <2>4, <3>2, <4>1 DEF Live
    <3> QED
      BY <2>2, <2>4, <3>1, <3>2
  <2>9. RowMoves
    BY <1>1, <2>2 DEF RowMoves
  <2>10. /\ ThreadMoves(t) /\ job' \in [WorkIds -> Job] /\ thread'[t].ses <= Len(sess')
         /\ ThreadIsWhole(t)' /\ SessionsAreThere!(t)' /\ Looked(t)'
         /\ thread'[t].at \notin Dropping
    <3>1. CASE Answer(t, "retry")
      BY <1>1, <2>5, <3>1, GivenUp
    <3>2. CASE /\ thread' = [thread EXCEPT ![t].at = "save", ![t].ses = Len(sess) + 1]
               /\ UNCHANGED job
      <4> DEFINE r == [thread[t] EXCEPT !.at = "save", !.ses = Len(sess) + 1]
      <4>1. thread' = [thread EXCEPT ![t] = r]
        BY <2>2, <3>2
      <4>2. /\ r \in Thread /\ r.at = "save" /\ r.ses = Len(sess) + 1
            /\ r.ans = thread[t].ans /\ r.work = thread[t].work
            /\ r.rev = thread[t].rev /\ r.stop = thread[t].stop
        <5>1. thread[t] \in Thread /\ Len(sess) + 1 \in Nat
          BY <2>2
        <5> QED
          BY ONLY <5>1 DEF Thread, Requesting
      <4> HIDE DEF r
      <4>3. thread' \in [Threads -> Thread] /\ thread'[t] = r
            /\ \A u \in Threads : u # t => thread'[u] = thread[u]
        BY <2>2, <4>1, <4>2
      <4>4. ThreadMoves(t)
        BY <1>1, <4>2, <4>3 DEF ThreadMoves
      <4>5. thread[t].ans = "none" /\ thread[t].work # 0
        BY <1>1, RunningThread DEF ThreadIsWhole, Requesting
      <4>6. Len(sess) + 1 # 0 /\ Len(sess) + 1 <= Len(sess')
        BY <2>2, <2>4
      <4>7. ThreadIsWhole(t)' /\ SessionsAreThere!(t)' /\ thread'[t].at \notin Dropping
        BY <4>2, <4>3, <4>5, <4>6 DEF ThreadIsWhole, SessionsAreThere, Dropping, Requesting
      <4>8. Looked(t)'
        BY <1>1, <2>7, <2>8, <4>2, <4>3 DEF Looked
      <4> QED
        BY <2>2, <3>2, <4>2, <4>3, <4>4, <4>6, <4>7, <4>8
    <3> QED
      BY <1>4, <3>1, <3>2
  <2>11. SessionIsSingle'
    <3>1. OneLive' /\ LiveIsNamed'
      BY <2>8 DEF OneLive, LiveIsNamed
    <3> QED
      BY <1>1, <2>10, <3>1, OthersAreOut DEF SessionIsSingle
  <2>12. DeliveredIsSingle'
    BY <2>8 DEF DeliveredIsSingle, Live
  <2>13. \A k \in Sessions : sess[k].state = "delivered" => sess'[k].state = "delivered"
    BY <2>4 DEF Sessions
  <2>14. dir' \in Dir /\ dir'.resume \in {0, dir.resume} /\ dir'.bytes = dir.bytes
    BY <1>1, <2>2
  <2> QED
    BY <1>1, <1>2, <2>4, <2>5, <2>6, <2>9, <2>10, <2>11, <2>12, <2>13, <2>14, RequestStep
<1> QED
  <2>1. relay \in {"open", "purged"}
    BY DEF PhoneInv, TypeOK
  <2> QED
    BY <1>3, <1>4, <2>1 DEF Create

\* A request for a saved session that the relay no longer has: no session counts,
\* so forgetting this one loses nothing.
LEMMA DiscardStep ==
  ASSUME PhoneInv, NEW t \in Threads, thread[t].at \in {"head", "patch"}, Discard(t),
         UNCHANGED <<late, relay, import, queue, exiter, user>>, fails' \in 0..MaxFails,
         NEW k \in Sessions, k = thread[t].ses,
         sess' \in Seq(Session), Len(sess') = Len(sess),
         \A j \in Sessions : j # k => sess'[j] = sess[j],
         sess[k].state = "delivered" => sess'[k].state = "delivered",
         relay = "open" => sess'[k].state = "gone",
         relay # "open" => sess' = sess
  PROVE  PhoneInv'
<1>1. Holding(t) /\ Answer(t, "error") /\ UNCHANGED <<row, folder, exit, auto>>
      /\ dir' = [dir EXCEPT !.resume = 0] /\ dir \in Dir /\ row \in Row
      /\ Len(sess) \in Nat /\ late \subseteq [ses : 1..Len(sess), off : 0..(Length - 1)]
  BY AtSession, TypedNumbers DEF Discard, RemoveState, PhoneInv, TypeOK
<1>2. /\ ThreadMoves(t) /\ job' \in [WorkIds -> Job]
      /\ ThreadIsWhole(t)' /\ SessionsAreThere!(t)' /\ Looked(t)'
      /\ thread'[t].at \notin Dropping /\ thread'[t].ses = 0
  BY <1>1, GivenUp
<1>3. dir' \in Dir /\ dir'.resume = 0 /\ dir'.bytes = dir.bytes
  BY <1>1 DEF Dir
<1>4. RowMoves
  BY <1>1 DEF RowMoves
<1>5. SessionIsSingle' /\ DeliveredIsSingle'
  <2>1. CASE relay = "open"
    BY <1>2, <1>3, <2>1, SessionMoves
  <2>2. CASE relay # "open"
    BY <2>2 DEF SessionIsSingle, DeliveredIsSingle, Sessions, PhoneInv
  <2> QED
    BY <2>1, <2>2
<1>6. \A j \in Sessions : sess[j].state = "delivered" => sess'[j].state = "delivered"
  OBVIOUS
<1>7. Len(sess') \in Nat /\ Len(sess) <= Len(sess') /\ 0 <= Len(sess')
  BY <1>1
<1> QED
  BY <1>1, <1>2, <1>3, <1>4, <1>5, <1>6, <1>7, RequestStep

\* A request for the thread's own session that the client takes further, or
\* gives up, with the relay open.
LEMMA OwnSessionStep ==
  ASSUME PhoneInv, NEW t \in Threads, thread[t].at \in {"head", "patch"}, relay = "open",
         UNCHANGED <<folder, exit, auto, dir, relay, import, queue, exiter, user>>,
         fails' \in 0..MaxFails,
         NEW k \in Sessions, k = thread[t].ses,
         NEW s \in Session, sess' = [sess EXCEPT ![k] = s],
         sess[k].state = "delivered" => s.state = "delivered",
         late' = late \/ late' = late \cup {[ses |-> k, off |-> thread[t].off]},
         ThreadMoves(t), RowMoves, row'.receipt = row.receipt,
         row' = row \/ row'.status # "UPLOADED",
         job' \in [WorkIds -> Job], thread'[t].ses \in {0, thread[t].ses},
         thread'[t].at \notin Dropping,
         ThreadIsWhole(t)', SessionsAreThere!(t)', Looked(t)'
  PROVE  PhoneInv'
<1>1. /\ sess' \in Seq(Session) /\ Len(sess') = Len(sess) /\ Len(sess') \in Nat
      /\ sess'[k] = s /\ \A j \in Sessions : j # k => sess'[j] = sess[j]
      /\ \A j \in Sessions : sess[j].state = "delivered" => sess'[j].state = "delivered"
  BY SessionWritten
<1>2. /\ Holding(t) /\ thread[t].off \in 0..(Length - 1) /\ k \in 1..Len(sess)
      /\ late \subseteq [ses : 1..Len(sess), off : 0..(Length - 1)] /\ dir \in Dir
      /\ Len(sess) \in Nat
  BY AtSession, TypedNumbers DEF PhoneInv, TypeOK, Sessions
<1>3. late' \subseteq [ses : 1..Len(sess'), off : 0..(Length - 1)]
  BY <1>1, <1>2
<1>4. \A p \in late' : p \in late \/ p.ses = k
  OBVIOUS
<1>5. SessionIsSingle' /\ DeliveredIsSingle'
  BY <1>1, <1>4, SessionMoves
<1>6. /\ Len(sess) <= Len(sess') /\ thread'[t].ses <= Len(sess')
      /\ dir' \in Dir /\ dir'.resume \in {0, dir.resume} /\ dir'.bytes = dir.bytes
  BY <1>1, <1>2
<1> QED
  BY <1>1, <1>2, <1>3, <1>5, <1>6, RequestStep

LEMMA QueryHeadKeeps == ASSUME PhoneInv, NEW t \in Threads, QueryHead(t) PROVE PhoneInv'
<1> DEFINE k == thread[t].ses
<1>1. /\ thread[t].at = "head" /\ UNCHANGED <<late, relay, import, queue, exiter, user>>
  BY DEF QueryHead, control
<1>2. /\ k \in Sessions /\ sess[k] \in Session /\ Holding(t) /\ fails \in 0..MaxFails
      /\ sess \in Seq(Session) /\ thread[t].off \in 0..(Length - 1)
  BY <1>1, AtSession DEF PhoneInv, TypeOK
<1>3. CASE Status(k) # "ok" /\ Discard(t) /\ UNCHANGED <<sess, fails>>
  BY <1>1, <1>2, <1>3, StatusMeans, DiscardStep
<1>4. CASE /\ Status(k) = "ok" /\ sess' = [sess EXCEPT ![k] = HeadOf(k)]
           /\ Advance(t, HeadOf(k)) /\ UNCHANGED fails
  <2> DEFINE s == HeadOf(k)
  <2>1. relay = "open"
    BY <1>2, <1>4, StatusMeans
  <2>2. /\ s \in Session /\ (sess[k].state = "delivered" => s.state = "delivered")
        /\ s.offset = Length => s.state = "delivered"
    BY <1>2, ServedEffect DEF HeadOf
  <2>3. sess' = [sess EXCEPT ![k] = s] /\ Advance(t, s) /\ fails' \in 0..MaxFails
    BY <1>2, <1>4
  <2> HIDE DEF s
  <2>4. sess'[k] = s
    BY <1>2, <2>2, <2>3, SessionWritten
  <2>5. /\ ThreadMoves(t) /\ RowMoves /\ job' \in [WorkIds -> Job]
        /\ row'.receipt = row.receipt /\ (row' = row \/ row'.status # "UPLOADED")
        /\ UNCHANGED <<folder, exit, auto, dir>>
        /\ thread'[t].ses \in {0, thread[t].ses} /\ thread'[t].at \notin Dropping
        /\ ThreadIsWhole(t)' /\ SessionsAreThere!(t)' /\ Looked(t)'
    BY <1>1, <2>1, <2>2, <2>3, <2>4, AdvanceEffect
  <2> QED
    BY <1>1, <1>2, <2>1, <2>2, <2>3, <2>5, OwnSessionStep
<1>5. CASE Failed /\ Answer(t, "retry") /\ UNCHANGED <<phone, sess>>
  <2>1. fails' \in 0..MaxFails
    BY <1>2, <1>5, Bounds DEF Failed, CanFail
  <2> QED
    BY <1>1, <1>2, <1>5, <2>1, GivenUpStep DEF phone
<1> QED
  BY <1>3, <1>4, <1>5, Zenon DEF QueryHead

LEMMA PatchAnsweredKeeps ==
  ASSUME PhoneInv, NEW t \in Threads, PatchAnswered(t) PROVE PhoneInv'
<1> DEFINE k == thread[t].ses
           s == Served(sess[k], thread[t].off)
<1>1. /\ thread[t].at = "patch" /\ UNCHANGED <<late, relay, import, queue, exiter, user, fails>>
  BY DEF PatchAnswered, control
<1>2. /\ k \in Sessions /\ sess[k] \in Session /\ Holding(t) /\ fails' \in 0..MaxFails
      /\ sess \in Seq(Session) /\ thread[t].off \in 0..(Length - 1) /\ row \in Row
  BY <1>1, AtSession DEF PhoneInv, TypeOK
<1>3. /\ s \in Session /\ (sess[k].state = "delivered" => s.state = "delivered")
      /\ s.offset = Length => s.state = "delivered"
  BY <1>2, ServedEffect
<1>4. \/ Status(k) # "ok" /\ Discard(t) /\ UNCHANGED sess
      \/ /\ Status(k) = "ok" /\ sess' = [sess EXCEPT ![k] = s]
         /\ (Answer(t, "error") /\ UNCHANGED phone) \/ Advance(t, s)
  BY Zenon DEF PatchAnswered
<1> HIDE DEF s
<1>5. CASE Status(k) # "ok" /\ Discard(t) /\ UNCHANGED sess
  BY <1>1, <1>2, <1>5, StatusMeans, DiscardStep
<1>6. CASE /\ Status(k) = "ok" /\ sess' = [sess EXCEPT ![k] = s]
           /\ (Answer(t, "error") /\ UNCHANGED phone) \/ Advance(t, s)
  <2>1. relay = "open"
    BY <1>2, <1>6, StatusMeans
  <2>2. sess'[k] = s
    BY <1>2, <1>3, <1>6, SessionWritten
  <2>3. CASE Advance(t, s)
    <3>1. /\ ThreadMoves(t) /\ RowMoves /\ job' \in [WorkIds -> Job]
          /\ row'.receipt = row.receipt /\ (row' = row \/ row'.status # "UPLOADED")
          /\ UNCHANGED <<folder, exit, auto, dir>>
          /\ thread'[t].ses \in {0, thread[t].ses} /\ thread'[t].at \notin Dropping
          /\ ThreadIsWhole(t)' /\ SessionsAreThere!(t)' /\ Looked(t)'
      BY <1>1, <1>3, <2>1, <2>2, <2>3, AdvanceEffect
    <3> QED
      BY <1>1, <1>2, <1>3, <1>6, <2>1, <3>1, OwnSessionStep
  <2>4. CASE Answer(t, "error") /\ UNCHANGED phone
    <3>1. /\ ThreadMoves(t) /\ job' \in [WorkIds -> Job]
          /\ ThreadIsWhole(t)' /\ SessionsAreThere!(t)' /\ Looked(t)'
          /\ thread'[t].at \notin Dropping /\ thread'[t].ses = 0
      BY <1>2, <2>4, GivenUp
    <3>2. RowMoves
      BY <1>2, <2>4 DEF RowMoves, phone
    <3> QED
      BY <1>1, <1>2, <1>3, <1>6, <2>1, <2>4, <3>1, <3>2, OwnSessionStep DEF phone
  <2> QED
    BY <1>6, <2>3, <2>4
<1> QED
  BY <1>4, <1>5, <1>6

\* Whatever part of a lost exchange took effect, the session stays the saved one.
LEMMA PatchFailedKeeps ==
  ASSUME PhoneInv, NEW t \in Threads, PatchFailed(t) PROVE PhoneInv'
<1> DEFINE k == thread[t].ses
           s == Served(sess[k], thread[t].off)
<1>1. /\ thread[t].at = "patch" /\ Status(k) = "ok" /\ Answer(t, "retry")
      /\ UNCHANGED <<row, folder, exit, auto, dir, relay, import, queue, exiter, user>>
  BY DEF PatchFailed, phone, control
<1>2. fails' \in 0..MaxFails
  BY Bounds DEF PhoneInv, TypeOK, PatchFailed, Failed, CanFail
<1>3. /\ k \in Sessions /\ sess[k] \in Session /\ Holding(t)
      /\ sess \in Seq(Session) /\ thread[t].off \in 0..(Length - 1) /\ row \in Row
  BY <1>1, AtSession DEF PhoneInv, TypeOK
<1>4. relay = "open" /\ RowMoves
  BY <1>1, <1>3, StatusMeans DEF RowMoves
<1>5. /\ s \in Session /\ (sess[k].state = "delivered" => s.state = "delivered")
  BY <1>3, ServedEffect
<1>6. PICK r \in Session :
        /\ sess' = [sess EXCEPT ![k] = r] /\ (sess[k].state = "delivered" => r.state = "delivered")
        /\ late' = late \/ late' = late \cup {[ses |-> k, off |-> thread[t].off]}
  <2> DEFINE o == [sess[k] EXCEPT !.offset = s.offset]
  <2>1. o \in Session /\ (sess[k].state = "delivered" => o.state = "delivered")
    BY <1>3, <1>5 DEF Session
  <2>2. sess = [sess EXCEPT ![k] = sess[k]]
    BY <1>3, LenProperties
  <2>3. \/ sess' = sess
        \/ sess' = [sess EXCEPT ![k] = s]
        \/ sess' = [sess EXCEPT ![k].offset = s.offset]
    BY Zenon DEF PatchFailed
  <2>4. late' = late \/ late' = late \cup {[ses |-> k, off |-> thread[t].off]}
    BY Zenon DEF PatchFailed
  <2>5. \/ sess' = [sess EXCEPT ![k] = sess[k]]
        \/ sess' = [sess EXCEPT ![k] = s]
        \/ sess' = [sess EXCEPT ![k] = o]
    BY <2>2, <2>3, Zenon
  <2> QED
    BY <1>3, <1>5, <2>1, <2>4, <2>5, Zenon
<1>7. /\ ThreadMoves(t) /\ job' \in [WorkIds -> Job]
      /\ ThreadIsWhole(t)' /\ SessionsAreThere!(t)' /\ Looked(t)'
      /\ thread'[t].at \notin Dropping /\ thread'[t].ses = 0
  BY <1>1, <1>3, GivenUp
<1> QED
  BY <1>1, <1>2, <1>3, <1>4, <1>6, <1>7, OwnSessionStep

\* A rejected file: its session is gone whether or not the client hears of it.
LEMMA PatchRejectedKeeps ==
  ASSUME PhoneInv, NEW t \in Threads, PatchRejected(t) PROVE PhoneInv'
<1> DEFINE k == thread[t].ses
           g == [sess[k] EXCEPT !.state = "gone"]
<1>1. /\ thread[t].at = "patch" /\ relay = "open" /\ sess[k].state = "open"
      /\ UNCHANGED <<late, relay, import, queue, exiter, user>>
      /\ Discard(t) \/ (Answer(t, "retry") /\ UNCHANGED phone)
      /\ sess' = [sess EXCEPT ![k] = g]
  BY DEF PatchRejected, control
<1>2. fails' \in 0..MaxFails
  BY Bounds DEF PhoneInv, TypeOK, PatchRejected, Failed, CanFail
<1>3. k \in Sessions /\ sess[k] \in Session /\ Holding(t) /\ row \in Row
  BY <1>1, AtSession DEF PhoneInv, TypeOK
<1>4. g \in Session /\ g.state = "gone"
  BY <1>3 DEF Session
<1> HIDE DEF g
<1>5. /\ sess' \in Seq(Session) /\ Len(sess') = Len(sess) /\ sess'[k] = g
      /\ \A j \in Sessions : j # k => sess'[j] = sess[j]
  BY <1>1, <1>3, <1>4, SessionWritten
<1>6. CASE Discard(t)
  BY <1>1, <1>2, <1>3, <1>4, <1>5, <1>6, DiscardStep
<1>7. CASE Answer(t, "retry") /\ UNCHANGED phone
  <2>1. /\ ThreadMoves(t) /\ job' \in [WorkIds -> Job]
        /\ ThreadIsWhole(t)' /\ SessionsAreThere!(t)' /\ Looked(t)'
        /\ thread'[t].at \notin Dropping /\ thread'[t].ses = 0
    BY <1>3, <1>7, GivenUp
  <2>2. RowMoves
    BY <1>3, <1>7 DEF RowMoves, phone
  <2> QED
    BY <1>1, <1>2, <1>3, <1>4, <1>7, <2>1, <2>2, OwnSessionStep DEF phone
<1> QED
  BY <1>1, <1>6, <1>7

-----------------------------------------------------------------------------
(* A request that is served late *)

\* Its session counted already, and still does unless it was rejected.
LEMMA LatePatchKeeps == ASSUME PhoneInv, LatePatch PROVE PhoneInv'
<1> USE DEF phone, workers, control
<1>1. PICK p \in late :
        /\ late' = late \ {p}
        /\ \/ /\ sess' = IF relay = "open" /\ sess[p.ses].state # "gone"
                         THEN [sess EXCEPT ![p.ses] = Served(@, p.off)] ELSE sess
              /\ UNCHANGED fails
           \/ /\ relay = "open" /\ sess[p.ses].state = "open"
              /\ Failed
              /\ sess' = [sess EXCEPT ![p.ses].state = "gone"]
        /\ UNCHANGED <<row, folder, exit, auto, dir, relay, job, thread, import, queue,
                       exiter, user>>
  BY Zenon DEF LatePatch
<1> DEFINE k == p.ses
<1>2. /\ sess \in Seq(Session) /\ Len(sess) \in Nat /\ fails \in 0..MaxFails
      /\ late \subseteq [ses : 1..Len(sess), off : 0..(Length - 1)]
      /\ relay \in {"open", "purged"}
  BY TypedNumbers DEF PhoneInv, TypeOK
<1>3. k \in Sessions /\ p.off \in 0..(Length - 1)
  BY <1>2 DEF Sessions
<1>4. sess[k] \in Session
  BY <1>2, <1>3, ElementOfSeq DEF Sessions
<1>5. fails' \in 0..MaxFails
  <2>1. fails' = fails \/ Failed
    BY <1>1, Zenon
  <2> QED
    BY <1>2, <2>1, Bounds DEF Failed, CanFail
<1>6. \/ sess' = sess
      \/ /\ relay = "open" /\ sess[k].state # "gone"
         /\ \E s \in Session : /\ sess' = [sess EXCEPT ![k] = s]
                               /\ sess[k].state = "delivered" => s.state = "delivered"
  <2>1. CASE sess' = [sess EXCEPT ![k] = Served(sess[k], p.off)]
             /\ relay = "open" /\ sess[k].state # "gone"
    <3>1. /\ Served(sess[k], p.off) \in Session
          /\ sess[k].state = "delivered" => Served(sess[k], p.off).state = "delivered"
      BY <1>3, <1>4, ServedEffect
    <3> QED
      BY <2>1, <3>1
  <2>2. CASE sess' = [sess EXCEPT ![k] = [sess[k] EXCEPT !.state = "gone"]]
             /\ relay = "open" /\ sess[k].state = "open"
    <3>1. [sess[k] EXCEPT !.state = "gone"] \in Session
      BY <1>4 DEF Session
    <3> QED
      BY <2>2, <3>1
  <2> QED
    BY <1>1, <2>1, <2>2, Zenon
<1>7. /\ sess' \in Seq(Session) /\ Len(sess') = Len(sess)
      /\ \A j \in Sessions : j # k => sess'[j] = sess[j]
      /\ \A j \in Sessions : sess[j].state = "delivered" => sess'[j].state = "delivered"
      /\ sess' = sess \/ (relay = "open" /\ sess[k].state # "gone")
  <2>1. CASE sess' = sess
    BY <1>2, <2>1
  <2>2. CASE /\ relay = "open" /\ sess[k].state # "gone"
             /\ \E s \in Session : /\ sess' = [sess EXCEPT ![k] = s]
                                   /\ sess[k].state = "delivered" => s.state = "delivered"
    <3>1. PICK s \in Session : /\ sess' = [sess EXCEPT ![k] = s]
                               /\ sess[k].state = "delivered" => s.state = "delivered"
      BY <2>2, Zenon
    <3> HIDE DEF k
    <3> QED
      BY <1>3, <2>2, <3>1, SessionWritten
  <2> QED
    BY <1>6, <2>1, <2>2, Zenon
<1> HIDE DEF k
<1>8. sess' # sess => Live(k)
  <2>1. sess[k].state \in {"open", "delivered", "gone"}
    BY <1>4 DEF Session
  <2> QED
    BY <1>7, <2>1 DEF Live, k
<1>9. TypeOK'
  <2>1. late' \subseteq [ses : 1..Len(sess'), off : 0..(Length - 1)]
    BY <1>1, <1>2, <1>7
  <2> QED
    BY <1>1, <1>5, <1>7, <2>1 DEF PhoneInv, TypeOK
<1>10. ThreadsAreWhole'
  <2> SUFFICES ASSUME NEW t \in Threads PROVE ThreadIsWhole(t)'
    BY Zenon DEF ThreadsAreWhole
  <2> QED
    BY <1>1 DEF PhoneInv, ThreadsAreWhole, ThreadIsWhole, MayGoOn, Allowed, Active
<1>11. RowIsWhole' /\ LockIsExclusive' /\ AssignIsMeant' /\ DropsAreRecorded'
       /\ PayloadIsKept' /\ CleanedIsQuiet' /\ RevisionsArePast'
  BY <1>1 DEF PhoneInv, RowIsWhole, LockIsExclusive, Holding, AssignIsMeant,
      DropsAreRecorded, PayloadIsKept, CleanedIsQuiet, Quiet, RevisionsArePast
<1>12. ExitIsOrdered'
  BY <1>1 DEF PhoneInv, ExitIsOrdered, Cleaning, Working, Importing
<1>13. StagingIsAlone'
  <2>1. relay = "open" /\ sess = <<>> => sess' = <<>>
    BY <1>3, <1>7 DEF Sessions
  <2> QED
    BY <1>1, <2>1 DEF PhoneInv, StagingIsAlone, Quiet
<1>14. SessionsAreThere'
  <2> SUFFICES ASSUME NEW t \in Threads PROVE SessionsAreThere!(t)'
    BY Zenon DEF SessionsAreThere
  <2>1. thread[t].ses # 0 => thread[t].ses \in Sessions
    BY <1>2 DEF PhoneInv, TypeOK, Thread, Sessions
  <2> QED
    BY <1>1, <1>7, <2>1 DEF PhoneInv, SessionsAreThere
<1>15. ReceiptIsDelivered'
  <2>1. row.receipt # 0 => row.receipt \in Sessions
    BY <1>2 DEF PhoneInv, TypeOK, Row, Sessions
  <2> QED
    BY <1>1, <1>7, <2>1 DEF PhoneInv, ReceiptIsDelivered
<1>16. Sessions' = Sessions
  BY <1>7 DEF Sessions
<1>17. SessionIsSingle'
  <2> SUFFICES ASSUME relay = "open"
               PROVE  OneLive' /\ LiveIsNamed' /\ \A t \in Threads : Looked(t)'
    BY <1>1, Zenon DEF SessionIsSingle
  <2>1. OneLive /\ LiveIsNamed /\ \A t \in Threads : Looked(t)
    BY DEF PhoneInv, SessionIsSingle
  <2>2. ASSUME NEW j \in Sessions, Live(j)' PROVE Live(j)
    <3>1. CASE j = k /\ sess' # sess
      BY <1>8, <3>1
    <3>2. CASE sess'[j] = sess[j]
      BY <1>1, <2>2, <3>2 DEF Live
    <3> QED
      BY <1>7, <3>1, <3>2
  <2>3. OneLive' /\ LiveIsNamed'
    BY <1>1, <1>16, <2>1, <2>2 DEF OneLive, LiveIsNamed
  <2>4. ASSUME NEW t \in Threads PROVE Looked(t)'
    <3>1. /\ thread[t].at \in {"head", "loop", "patch"} => thread[t].ses \in Sessions
      BY AtSession
    <3> QED
      BY <1>1, <1>7, <1>16, <2>1, <2>2, <3>1 DEF Looked
  <2> QED
    BY <2>3, <2>4
<1>18. DeliveredIsSingle'
  <2>1. CASE relay = "open"
    BY <1>1, <1>17, <2>1 DEF SessionIsSingle, OneLive, Live, DeliveredIsSingle
  <2>2. CASE relay # "open"
    BY <1>7, <1>16, <2>2 DEF PhoneInv, DeliveredIsSingle
  <2> QED
    BY <2>1, <2>2
<1> QED
  BY <1>9, <1>10, <1>11, <1>12, <1>13, <1>14, <1>15, <1>17, <1>18 DEF PhoneInv

-----------------------------------------------------------------------------
(* The theorems *)

\* Every step of the system keeps the invariant.
LEMMA StepKeeps == ASSUME PhoneInv, [Next]_vars PROVE PhoneInv'
<1>1. CASE Import
  BY <1>1, ImportBeginKeeps, StageKeeps, ImportCommitKeeps, ImportEnqueueKeeps, Zenon
     DEF Import
<1>2. CASE Recover \/ FinishDisconnect \/ RemoveFolder
  BY <1>2, RecoverKeeps, FinishDisconnectKeeps, RemoveFolderKeeps, Zenon
<1>3. CASE Queue
  BY <1>3, QueueReadKeeps, QueueAssignKeeps, QueueSubmitKeeps, QueueCancelKeeps, Zenon
     DEF Queue
<1>4. CASE User
  BY <1>4, RetryKeeps, PauseKeeps, PauseAutomaticKeeps, EnableAutoKeeps,
     ResumeDirectoryKeeps, DisconnectKeeps, Zenon DEF User
<1>5. CASE Exit
  BY <1>5, ExitBeginKeeps, ExitStopKeeps, ExitServerKeeps, ExitGateKeeps, ExitFilesKeeps,
     ExitRowsKeeps, ExitAckKeeps, Zenon DEF Exit
<1>6. CASE \E w \in WorkIds, t \in Threads : Start(w, t)
  BY <1>6, StartKeeps, Zenon
<1>7. ASSUME NEW t \in Threads, Worker(t) PROVE PhoneInv'
  <2>1. CASE Client(t)
    BY <2>1, LockKeeps, CreateKeeps, SaveKeeps, QueryHeadKeeps, ProgressKeeps,
       PatchAnsweredKeeps, PatchFailedKeeps, PatchRejectedKeeps, Zenon DEF Client
  <2> QED
    BY <1>7, <2>1, OwnKeeps, RecheckKeeps, RecordKeeps, DropPayloadKeeps, DropResumeKeeps,
       Zenon DEF Worker
<1>8. ASSUME NEW t \in Threads, StopJob(t) PROVE PhoneInv'
  BY <1>8, StopJobKeeps
<1>9. CASE LatePatch \/ PeerExit \/ Crash
  BY <1>9, LatePatchKeeps, PeerExitKeeps, CrashKeeps, Zenon
<1>10. CASE UNCHANGED vars
  <2>1. UNCHANGED <<row, folder, exit, auto, dir, import, job, queue, thread, sess, late,
                    relay, exiter, fails, user>>
    BY <1>10 DEF vars
  <2>2. relay' \in {relay, "purged"} /\ fails' \in 0..MaxFails
    BY <2>1 DEF PhoneInv, TypeOK
  <2> QED
    BY <2>1, <2>2, RelayStep
<1> QED
  BY <1>1, <1>2, <1>3, <1>4, <1>5, <1>6, <1>7, <1>8, <1>9, <1>10, Zenon DEF Next

\* The inductive invariant, for any number of threads, work ids, chunks, failures
\* and taps: every step of the phone and the relay keeps it.
THEOREM PhoneInvariance == Spec => []PhoneInv
<1>1. Init => PhoneInv
  BY InitEstablishes
<1>2. PhoneInv /\ [Next]_vars => PhoneInv'
  BY StepKeeps
<1> QED
  BY <1>1, <1>2, PTL DEF Spec

\* The records of UploadQueue, UploadWorker and the upload client stay in their
\* types, and no session or request is named that does not exist.
THEOREM PhoneTyped == Spec => []TypeOK
<1>1. PhoneInv => TypeOK
  BY DEF PhoneInv
<1> QED
  BY <1>1, PhoneInvariance, PTL

\* UploadWorker and upload_with_events deliver a file at most once, whatever
\* threads, answers and processes are lost, and an uploaded transfer names the
\* delivery.
THEOREM FileDeliveredOnce == Spec => []DeliveredOnce
<1>1. ASSUME PhoneInv PROVE DeliveredOnce
  <2> DEFINE D == {k \in 1..Len(sess) : sess[k].state = "delivered"}
  <2>1. \A j, k \in D : j = k
    BY <1>1 DEF PhoneInv, DeliveredIsSingle, Sessions
  <2>2. Cardinality(D) <= 1
    <3>1. CASE D = {}
      BY <3>1, FS_EmptySet
    <3>2. CASE D # {}
      <4>1. PICK d \in D : TRUE
        BY <3>2
      <4>2. D = {d}
        BY <2>1, <4>1
      <4> HIDE DEF D
      <4> QED
        BY <4>2, FS_Singleton
    <3> QED
      BY <3>1, <3>2
  <2> QED
    BY <1>1, <2>2 DEF DeliveredOnce, PhoneInv, ReceiptIsDelivered
<1> QED
  BY <1>1, PhoneInvariance, PTL

\* As long as a transfer is not uploaded its staged payload is there, until a
\* clean exit removes both: it goes only after updateOwned recorded the receipt.
THEOREM PayloadKept == Spec => []PayloadIsKept
<1>1. PhoneInv => PayloadIsKept
  BY DEF PhoneInv
<1> QED
  BY <1>1, PhoneInvariance, PTL

\* FolderExit's local cleanup is final: neither an import nor a worker that was
\* still stopping puts the row or the staged files back.
THEOREM CleanedForGood == Spec => []CleanedStaysClean
<1>1. PhoneInv => CleanedStaysClean
  BY DEF PhoneInv, CleanedIsQuiet, CleanedStaysClean
<1> QED
  BY <1>1, PhoneInvariance, PTL

\* A thread never owns a paused transfer.
LEMMA PausedIsUnowned ==
  ASSUME PhoneInv, row.status = "PAUSED", NEW t \in Threads, thread[t].at # "idle"
  PROVE  ~Owns(thread[t].work)
BY RunningThread DEF PhoneInv, RowIsWhole, ThreadIsWhole, Owns

\* A paused transfer stays paused until it goes with its Folder, or the user resumes
\* it or its directory: recover() and threads that lost their work id never
\* act like the Resume button.
THEOREM UserResumes == Spec => OnlyTheUserResumes
<1> DEFINE Resumed ==
      row.status = "PAUSED" /\ row'.status # "PAUSED" =>
        \/ row'.status = "none"
        \/ queue.at = "assign" /\ queue.manual
        \/ row.tree /\ auto'.rev > auto.rev
<1>1. ASSUME PhoneInv, [Next]_vars PROVE Resumed
  <2> SUFFICES ASSUME row.status = "PAUSED", row'.status # "PAUSED",
                      row'.status # "none", ~(queue.at = "assign" /\ queue.manual)
               PROVE  row.tree /\ auto'.rev > auto.rev
    OBVIOUS
  <2> USE <1>1
  <2>1. row \in Row /\ row # NoRow /\ row' # row /\ auto \in Source
    BY InitialValues DEF PhoneInv, TypeOK
  <2>2. ~Waiting(row) /\ Paused(row) = row
    BY DEF Waiting, Paused
  <2>3. [row EXCEPT !.rev = 0].status = "PAUSED" /\ [row EXCEPT !.work = 0].status = "PAUSED"
    BY <2>1 DEF Row
  <2>4. \A t \in Threads : thread[t].at # "idle" => ~Owns(thread[t].work)
    BY PausedIsUnowned
  <2>5. ~Import
    <3>1. ~ImportCommit
      BY <2>1 DEF PhoneInv, StagingIsAlone, Staging, ImportCommit
    <3> QED
      BY <2>1, <3>1 DEF Import, ImportBegin, ImportMark, ImportCopy, ImportRename,
          ImportUndo, ImportUnmark, ImportEnqueue, phone
  <2>6. ~Recover /\ ~FinishDisconnect /\ ~RemoveFolder
    BY <2>1, <2>2, InitialValues DEF Recover, FinishDisconnect, RemoveFolder
  <2>7. ~Queue
    <3>1. queue.at # "assign"
      BY Zenon DEF PhoneInv, AssignIsMeant
    <3>2. ~QueueAssign
      BY <3>1, Zenon DEF QueueAssign
    <3> QED
      BY <2>1, <3>2 DEF Queue, QueueRead, QueueSubmit, QueueCancel, phone
  <2>8. ~Barrier
    BY <2>2, <2>3 DEF Barrier
  <2>9. User => ResumeDirectory
    BY <2>1, <2>2, <2>3, <2>8 DEF User, Retry, Pause, PauseAutomatic, EnableAuto, Disconnect
  <2>10. ~Exit
    <3>1. ~ExitStop /\ ~ExitRows
      BY <2>8, InitialValues DEF ExitStop, ExitRows
    <3>2. ~ExitBegin /\ ~ExitServer /\ ~ExitGate /\ ~ExitFiles /\ ~ExitAck
      BY <2>1 DEF ExitBegin, ExitServer, ExitGate, ExitFiles, ExitAck, phone
    <3> QED
      BY <3>1, <3>2, Zenon DEF Exit
  <2>11. ASSUME NEW w \in WorkIds, NEW t \in Threads PROVE ~Start(w, t)
    BY <2>1 DEF Start, phone
  <2>12. ASSUME NEW t \in Threads PROVE ~Worker(t) /\ ~StopJob(t)
    <3>1. ~StopJob(t)
      BY <2>1 DEF StopJob, phone
    <3>2. ~Own(t) /\ ~Recheck(t) /\ ~Record(t) /\ ~DropPayload(t) /\ ~DropResume(t)
      BY <2>1, <2>4 DEF Own, Recheck, Record, DropPayload, DropResume, phone
    <3>3. ~Lock(t) /\ ~Create(t) /\ ~Save(t) /\ ~PatchFailed(t)
      BY <2>1 DEF Lock, Create, Save, PatchFailed, phone
    <3>4. ~Discard(t)
      BY <2>1 DEF Discard
    <3>5. thread[t].at # "idle" => ~Reported(t)
      BY <2>1, <2>4 DEF Reported
    <3>6. \A s : thread[t].at # "idle" => ~Advance(t, s)
      BY <2>1, <3>5 DEF Advance
    <3>7. ~QueryHead(t) /\ ~Progress(t)
      BY <2>1, <3>4, <3>5, <3>6 DEF QueryHead, Progress, phone
    <3>8. ~PatchAnswered(t) /\ ~PatchRejected(t)
      BY <2>1, <3>4, <3>6 DEF PatchAnswered, PatchRejected, phone
    <3> QED
      BY <3>1, <3>2, <3>3, <3>7, <3>8 DEF Worker, Client
  <2>13. ~LatePatch /\ ~PeerExit /\ ~Crash /\ ~UNCHANGED vars
    BY <2>1 DEF LatePatch, PeerExit, Crash, vars, phone
  <2>14. ResumeDirectory
    BY <2>5, <2>6, <2>7, <2>9, <2>10, <2>11, <2>12, <2>13, Zenon DEF Next
  <2>15. row.tree
    BY <2>1, <2>14 DEF ResumeDirectory
  <2>16. auto'.rev = auto.rev + 1 /\ auto.rev \in Nat
    BY <2>1, <2>14, TypedNumbers DEF ResumeDirectory, Source, PhoneInv
  <2> QED
    BY <2>15, <2>16
<1>2. PhoneInv /\ [Next]_vars => [Resumed]_vars
  BY <1>1
<1> QED
  BY <1>2, PhoneInvariance, PTL DEF Spec, OnlyTheUserResumes
=============================================================================
