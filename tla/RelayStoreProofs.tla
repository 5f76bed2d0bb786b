-------------------------- MODULE RelayStoreProofs --------------------------
(***************************************************************************)
(* The safety properties of RelayStore hold for any number of workers,     *)
(* Folders, deliveries, digests and paths.  StoreInv is inductive: what a  *)
(* worker learned under the content lock (StillTrue) cannot be changed by  *)
(* another one, because every step that could change it needs the lock.    *)
(***************************************************************************)
EXTENDS RelayStore, TLAPS

USE StoreAssumption
USE DEF damage

\* The empty relay satisfies the invariant.
LEMMA InitInv == Init => StoreInv
<1> SUFFICES ASSUME Init PROVE StoreInv
  OBVIOUS
<1>0. fragment \in BOOLEAN
  BY DEF Init
<1>1. TypeOK
  BY <1>0 DEF Init, TypeOK, Steps
<1>2. LockDiscipline /\ JobTyped /\ StillTrue
  BY DEF Init, LockDiscipline, JobTyped, StillTrue, HoldsContent
<1>3. PendingHasContent /\ CleanedOwnsNothing /\ AckedIsDownwardClosed
  BY DEF Init, PendingHasContent, CleanedOwnsNothing, AckedIsDownwardClosed
<1> QED
  BY <1>1, <1>2, <1>3 DEF StoreInv

\* Taking the uploads lock or starting the enqueue command changes no row,
\* no object and no content lock.
LEMMA StartEnqueueInv ==
  ASSUME StoreInv, NEW w \in Workers, NEW d \in Deliveries,
         FinalizeUpload(w, d) \/ EnqueueCommand(w, d)
  PROVE  StoreInv'
<1> USE DEF StoreInv
<1>1. TypeOK'
  BY DEF TypeOK, Steps, FinalizeUpload, EnqueueCommand, Goto, store, locks
<1>2. LockDiscipline'
  BY DEF TypeOK, LockDiscipline, HoldsContent, FinalizeUpload, EnqueueCommand,
         Goto, locks
<1>3. JobTyped'
  BY DEF TypeOK, JobTyped, FinalizeUpload, EnqueueCommand, Goto, store
<1>4. StillTrue'
  BY DEF TypeOK, StillTrue, Pending, FinalizeUpload, EnqueueCommand, Goto, store
<1>5. PendingHasContent' /\ CleanedOwnsNothing' /\ AckedIsDownwardClosed'
  BY DEF PendingHasContent, CleanedOwnsNothing, AckedIsDownwardClosed,
         FinalizeUpload, EnqueueCommand, store, SamePath, IsDirectory
<1> QED
  BY <1>1, <1>2, <1>3, <1>4, <1>5

\* Taking the content lock for a receive (store.rs, enqueue_directory_with_id)
\* gives the lock to an operation that did not hold it and changes nothing else.
LEMMA EnqueueLockInv ==
  ASSUME StoreInv, NEW w \in Workers, EnqueueLock(w)
  PROVE  StoreInv'
<1> USE DEF StoreInv
<1>0. job[w] \in Deliveries
  BY DEF EnqueueLock, JobTyped
<1>1. TypeOK'
  BY <1>0 DEF TypeOK, Steps, EnqueueLock, Enqueued, Return, Without, Goto, store
<1>2. LockDiscipline'
  BY <1>0 DEF TypeOK, LockDiscipline, HoldsContent, EnqueueLock, Enqueued, Return,
         Without, Goto
<1>3. JobTyped'
  BY <1>0 DEF TypeOK, JobTyped, EnqueueLock, Enqueued, Return, Goto, store
<1>4. StillTrue'
  BY <1>0 DEF TypeOK, StillTrue, Pending, EnqueueLock, Enqueued, Return, Goto, store
<1>5. PendingHasContent' /\ CleanedOwnsNothing' /\ AckedIsDownwardClosed'
  BY DEF PendingHasContent, CleanedOwnsNothing, AckedIsDownwardClosed,
         EnqueueLock, store, SamePath, IsDirectory
<1> QED
  BY <1>1, <1>2, <1>3, <1>4, <1>5

\* Receiving the payload adds its object to the library: no row loses content,
\* and a planned removal of another digest stays justified.
LEMMA EnqueueReceiveInv ==
  ASSUME StoreInv, NEW w \in Workers, EnqueueReceive(w)
  PROVE  StoreInv'
<1> USE DEF StoreInv
<1>0. job[w] \in Deliveries
  BY DEF EnqueueReceive, JobTyped
<1>1. TypeOK'
  BY <1>0 DEF TypeOK, Steps, EnqueueReceive, locks
<1>2. LockDiscipline'
  BY <1>0 DEF TypeOK, LockDiscipline, HoldsContent, EnqueueReceive, locks
<1>3. JobTyped'
  BY <1>0 DEF TypeOK, JobTyped, EnqueueReceive
<1>4. StillTrue'
  BY <1>0 DEF TypeOK, StillTrue, Pending, EnqueueReceive
<1>5. PendingHasContent' /\ CleanedOwnsNothing' /\ AckedIsDownwardClosed'
  BY DEF PendingHasContent, CleanedOwnsNothing, AckedIsDownwardClosed,
         EnqueueReceive, SamePath, IsDirectory
<1> QED
  BY <1>1, <1>2, <1>3, <1>4, <1>5

\* The insert: the new row's object is there, and its version is either the
\* newest of its path or acknowledged at birth.
LEMMA EnqueueInsertInv ==
  ASSUME StoreInv, NEW w \in Workers, EnqueueInsert(w)
  PROVE  StoreInv'
<1> USE DEF StoreInv
<1> DEFINE d == job[w]
<1>0. /\ d \in Deliveries /\ pc[w] = "enq_insert" /\ contentLock = w
      /\ row[d] = "absent" /\ exit[DeviceOf[d]] # "cleaned"
      /\ DigestOf[d] \in objects
  BY DEF EnqueueInsert, JobTyped, StillTrue, LockDiscipline, HoldsContent
<1>a. \/ row' = row
      \/ /\ ~Collides(d)
         /\ row' = [row EXCEPT ![d] = IF Superseded(d) THEN "acked"
                                                       ELSE "pending"]
  BY DEF EnqueueInsert
<1>b. \A u \in Workers \ {w} :
        /\ pc'[u] = pc[u] /\ job'[u] = job[u] /\ todo'[u] = todo[u]
        /\ pc[u] \notin HoldsContent
  BY <1>0 DEF EnqueueInsert, Enqueued, Return, Goto, TypeOK, LockDiscipline
<1>c. pc'[w] \in {"idle", "gc_lock"}
  BY DEF EnqueueInsert, Enqueued, Return, Goto, TypeOK
<1>1. TypeOK'
  BY <1>0 DEF TypeOK, Steps, EnqueueInsert, Enqueued, Return, Without, Goto
<1>2. LockDiscipline'
  BY <1>b, <1>c DEF LockDiscipline, HoldsContent
<1>3. JobTyped'
  BY <1>b, <1>c DEF JobTyped, EnqueueInsert
<1>4. StillTrue'
  BY <1>b, <1>c DEF StillTrue, HoldsContent
<1>5. PendingHasContent'
  BY <1>0, <1>a DEF PendingHasContent, EnqueueInsert, TypeOK
<1>6. CleanedOwnsNothing'
  BY <1>0, <1>a DEF CleanedOwnsNothing, EnqueueInsert, TypeOK
<1>7. AckedIsDownwardClosed'
  <2> SUFFICES ASSUME NEW x \in Deliveries, NEW e \in Deliveries,
                      SamePath(x, e), VersionOf[e] <= VersionOf[x],
                      row'[x] = "acked", row'[e] = "pending"
               PROVE  FALSE
    BY DEF AckedIsDownwardClosed, SamePath, IsDirectory
  <2>0. row' # row /\ x # e
    BY DEF AckedIsDownwardClosed
  <2>1. CASE e = d
    <3>1. x # d /\ row[x] = "acked"
      BY <2>0, <2>1, <1>a, <1>0 DEF TypeOK
    <3>2. SamePath(d, x) /\ VersionOf[x] \in Nat /\ VersionOf[d] \in Nat
      BY <2>1, <1>0 DEF SamePath, IsDirectory
    <3>3. ~(VersionOf[x] > VersionOf[d])
      BY <2>0, <2>1, <3>1, <3>2, <1>a, <1>0 DEF TypeOK, Superseded
    <3>4. VersionOf[x] = VersionOf[d]
      BY <3>2, <3>3, <2>1
    <3> QED
      BY <3>1, <3>2, <3>4, <2>0, <1>a, <1>0 DEF Collides, SamePath, IsDirectory
  <2>2. CASE x = d
    <3>1. e # d /\ row[e] = "pending"
      BY <2>0, <2>2, <1>a, <1>0 DEF TypeOK
    <3>2. PICK f \in Deliveries : SamePath(d, f) /\ VersionOf[f] > VersionOf[d]
                                  /\ row[f] = "acked"
      BY <2>0, <2>2, <1>a, <1>0 DEF TypeOK, Superseded
    <3>3. SamePath(f, e)
      BY <3>2, <2>2 DEF SamePath, IsDirectory
    <3>4. VersionOf[e] <= VersionOf[f]
      BY <3>2, <2>2, <1>0
    <3> QED
      BY <3>1, <3>2, <3>3, <3>4 DEF AckedIsDownwardClosed
  <2>3. CASE x # d /\ e # d
    BY <2>3, <2>0, <1>a, <1>0 DEF AckedIsDownwardClosed, TypeOK
  <2> QED
    BY <2>1, <2>2, <2>3
<1> QED
  BY <1>1, <1>2, <1>3, <1>4, <1>5, <1>6, <1>7

\* A receipt only turns pending rows of one path into acknowledged ones.
LEMMA AcknowledgeInv ==
  ASSUME StoreInv, NEW w \in Workers, NEW d \in Deliveries, Acknowledge(w, d)
  PROVE  StoreInv'
<1> USE DEF StoreInv
<1>1. TypeOK'
  BY DEF TypeOK, Steps, Acknowledge, Goto, locks
<1>2. LockDiscipline'
  BY DEF TypeOK, LockDiscipline, HoldsContent, Acknowledge, Goto, locks
<1>3. JobTyped'
  BY DEF TypeOK, JobTyped, Acknowledge, Goto
<1>4. StillTrue'
  BY DEF TypeOK, StillTrue, JobTyped, Pending, Acknowledge, Goto
<1>5. PendingHasContent' /\ CleanedOwnsNothing'
  BY DEF TypeOK, PendingHasContent, CleanedOwnsNothing, Acknowledge
<1>6. AckedIsDownwardClosed'
  BY DEF TypeOK, AckedIsDownwardClosed, Acknowledge, SamePath, IsDirectory
<1> QED
  BY <1>1, <1>2, <1>3, <1>4, <1>5, <1>6

\* A directory receipt (server/directory.rs, ack_directory) acknowledges every
\* pending version of the path up to its own, so the prefix stays closed.
LEMMA AckDirectoryInv ==
  ASSUME StoreInv, NEW w \in Workers, NEW d \in Deliveries,
         NEW conflict \in BOOLEAN, AckDirectory(w, d, conflict)
  PROVE  StoreInv'
<1> USE DEF StoreInv
<1>0. /\ UpTo(d) \subseteq Deliveries /\ row[d] # "absent"
      /\ row' = [e \in Deliveries |-> IF e \in UpTo(d) THEN "acked" ELSE row[e]]
      /\ \A e \in UpTo(d) : row[e] # "absent"
  BY DEF AckDirectory, UpTo
<1>1. TypeOK'
  BY <1>0 DEF TypeOK, Steps, AckDirectory, Goto, locks
<1>2. LockDiscipline'
  BY DEF TypeOK, LockDiscipline, HoldsContent, AckDirectory, Goto, locks
<1>3. JobTyped'
  BY DEF TypeOK, JobTyped, AckDirectory, Goto
<1>4. StillTrue'
  <2> SUFFICES ASSUME NEW u \in Workers
               PROVE  /\ pc'[u] \in {"enq_receive", "enq_insert"} =>
                           row'[job'[u]] = "absent"
                             /\ exit'[DeviceOf[job'[u]]] # "cleaned"
                      /\ pc'[u] = "enq_insert" => DigestOf[job'[u]] \in objects'
                      /\ pc'[u] = "gc_remove" => Pending(job[u])' = {}
                      /\ pc'[u] = "rec_purge" =>
                           \A g \in todo'[u] : Pending(g)' = {}
    BY DEF StillTrue, Pending
  <2>1. CASE u = w
    BY <2>1 DEF TypeOK, AckDirectory, Goto
  <2>2. CASE u # w
    BY <2>2, <1>0 DEF TypeOK, AckDirectory, Goto, StillTrue, JobTyped, Pending
  <2> QED
    BY <2>1, <2>2
<1>5. PendingHasContent' /\ CleanedOwnsNothing'
  BY <1>0 DEF TypeOK, PendingHasContent, CleanedOwnsNothing, AckDirectory
<1>6. AckedIsDownwardClosed'
  <2> SUFFICES ASSUME NEW x \in Deliveries, NEW e \in Deliveries,
                      SamePath(x, e), VersionOf[e] <= VersionOf[x],
                      row'[x] = "acked", row'[e] = "pending"
               PROVE  FALSE
    BY DEF AckedIsDownwardClosed, SamePath, IsDirectory
  <2>1. row[e] = "pending" /\ e \notin UpTo(d)
    BY <1>0
  <2>2. x \in UpTo(d)
    BY <1>0, <2>1 DEF AckedIsDownwardClosed
  <2>3. SamePath(d, e) /\ VersionOf[e] <= VersionOf[d]
    BY <2>2 DEF UpTo, SamePath, IsDirectory
  <2> QED
    BY <2>1, <2>3 DEF UpTo
<1> QED
  BY <1>1, <1>2, <1>3, <1>4, <1>5, <1>6

\* The collector's look-up (store.rs, garbage_collect_digest) takes the content
\* lock and goes on only when no pending row names the digest.
LEMMA GcLockInv ==
  ASSUME StoreInv, NEW w \in Workers, GcLock(w)
  PROVE  StoreInv'
<1> USE DEF StoreInv
<1>1. TypeOK'
  BY DEF TypeOK, Steps, GcLock, NextDigest, Return, Without, Goto, store
<1>2. LockDiscipline'
  BY DEF TypeOK, LockDiscipline, HoldsContent, GcLock, NextDigest, Return,
         Without, Goto
<1>3. JobTyped'
  BY DEF TypeOK, JobTyped, GcLock, NextDigest, Return, Goto, store
<1>4. StillTrue'
  BY DEF TypeOK, StillTrue, Pending, GcLock, NextDigest, Return, Goto, store
<1>5. PendingHasContent' /\ CleanedOwnsNothing' /\ AckedIsDownwardClosed'
  BY DEF PendingHasContent, CleanedOwnsNothing, AckedIsDownwardClosed,
         GcLock, store, SamePath, IsDirectory
<1> QED
  BY <1>1, <1>2, <1>3, <1>4, <1>5

\* Removal: the digest was unreferenced when it was looked up, and no insert
\* has happened since.
LEMMA GcRemoveInv ==
  ASSUME StoreInv, NEW w \in Workers, GcRemove(w)
  PROVE  StoreInv'
<1> USE DEF StoreInv
<1>0. pc[w] = "gc_remove" /\ contentLock = w /\ Pending(job[w]) = {}
  BY DEF GcRemove, LockDiscipline, HoldsContent, StillTrue
<1>b. \A u \in Workers \ {w} :
        /\ pc'[u] = pc[u] /\ job'[u] = job[u] /\ todo'[u] = todo[u]
        /\ pc[u] \notin HoldsContent
  BY <1>0 DEF GcRemove, NextDigest, Return, Goto, TypeOK, LockDiscipline
<1>c. pc'[w] \in {"idle", "gc_lock"}
  BY DEF GcRemove, NextDigest, Return, Goto, TypeOK
<1>1. TypeOK'
  BY DEF TypeOK, Steps, GcRemove, NextDigest, Return, Without, Goto
<1>2. LockDiscipline'
  BY <1>b, <1>c DEF LockDiscipline, HoldsContent
<1>3. JobTyped'
  BY <1>b, <1>c DEF JobTyped, GcRemove
<1>4. StillTrue'
  BY <1>b, <1>c DEF StillTrue, HoldsContent
<1>5. PendingHasContent'
  BY <1>0 DEF PendingHasContent, GcRemove, Pending
<1>6. CleanedOwnsNothing' /\ AckedIsDownwardClosed'
  BY DEF CleanedOwnsNothing, AckedIsDownwardClosed, GcRemove, SamePath,
         IsDirectory
<1> QED
  BY <1>1, <1>2, <1>3, <1>4, <1>5, <1>6

\* Reconciliation (store.rs, reconcile_content) removes, under the lock, objects
\* that no pending row names and leaves the rows as they are.
LEMMA ReconcileInv ==
  ASSUME StoreInv, NEW w \in Workers, ReconcileLock(w) \/ ReconcileRemove(w)
  PROVE  StoreInv'
<1> USE DEF StoreInv
<1>1. CASE ReconcileLock(w)
  <2>1. TypeOK'
    BY <1>1 DEF TypeOK, Steps, ReconcileLock, Goto, store
  <2>2. LockDiscipline'
    BY <1>1 DEF TypeOK, LockDiscipline, HoldsContent, ReconcileLock, Goto
  <2>3. JobTyped'
    BY <1>1 DEF TypeOK, JobTyped, ReconcileLock, Goto, store
  <2>4. StillTrue'
    BY <1>1 DEF TypeOK, StillTrue, Pending, ReconcileLock, Goto, store
  <2>5. PendingHasContent' /\ CleanedOwnsNothing' /\ AckedIsDownwardClosed'
    BY <1>1 DEF PendingHasContent, CleanedOwnsNothing, AckedIsDownwardClosed,
           ReconcileLock, store, SamePath, IsDirectory
  <2> QED
    BY <2>1, <2>2, <2>3, <2>4, <2>5
<1>2. CASE ReconcileRemove(w)
  <2>0. /\ pc[w] = "rec_purge" /\ contentLock = w
        /\ \A g \in todo[w] : Pending(g) = {}
    BY <1>2 DEF ReconcileRemove, LockDiscipline, HoldsContent, StillTrue
  <2>b. \A u \in Workers \ {w} :
          /\ pc'[u] = pc[u] /\ job'[u] = job[u] /\ todo'[u] = todo[u]
          /\ pc[u] \notin HoldsContent
    BY <1>2, <2>0 DEF ReconcileRemove, Return, Goto, TypeOK, LockDiscipline
  <2>c. \/ pc'[w] = "idle"
        \/ /\ pc'[w] = "rec_purge" /\ contentLock' = w
           /\ todo'[w] \subseteq todo[w]
    BY <1>2, <2>0 DEF ReconcileRemove, Return, Goto, TypeOK, locks
  <2>1. TypeOK'
    BY <1>2 DEF TypeOK, Steps, ReconcileRemove, Return, Without, Goto, locks
  <2>2. LockDiscipline'
    BY <2>b, <2>c DEF LockDiscipline, HoldsContent
  <2>3. JobTyped'
    BY <1>2, <2>b, <2>c DEF JobTyped, ReconcileRemove
  <2>4. StillTrue'
    BY <1>2, <2>0, <2>b, <2>c DEF StillTrue, HoldsContent, ReconcileRemove, Pending
  <2>5. PendingHasContent'
    BY <1>2, <2>0 DEF PendingHasContent, ReconcileRemove, Pending
  <2>6. CleanedOwnsNothing' /\ AckedIsDownwardClosed'
    BY <1>2 DEF CleanedOwnsNothing, AckedIsDownwardClosed, ReconcileRemove,
           SamePath, IsDirectory
  <2> QED
    BY <2>1, <2>2, <2>3, <2>4, <2>5, <2>6
<1> QED
  BY <1>1, <1>2

\* Up to the open transaction an exit changes no row and no object.
LEMMA ExitStartInv ==
  ASSUME StoreInv, NEW w \in Workers, NEW v \in Devices,
         ExitRevoke(w, v)
  PROVE  StoreInv'
<1> USE DEF StoreInv
<1>1. TypeOK'
  BY DEF TypeOK, Steps, ExitRevoke, Goto, locks
<1>2. LockDiscipline'
  BY DEF TypeOK, LockDiscipline, HoldsContent, ExitRevoke, Goto, locks
<1>3. JobTyped'
  BY DEF TypeOK, JobTyped, ExitRevoke, Goto
<1>4. StillTrue'
  BY DEF TypeOK, StillTrue, JobTyped, Pending, ExitRevoke, Goto
<1>5. PendingHasContent' /\ CleanedOwnsNothing' /\ AckedIsDownwardClosed'
  BY DEF TypeOK, PendingHasContent, CleanedOwnsNothing, AckedIsDownwardClosed,
         ExitRevoke, SamePath, IsDirectory
<1> QED
  BY <1>1, <1>2, <1>3, <1>4, <1>5

\* Taking the uploads lock, the content lock and the write transaction of an
\* exit, or refusing it for a part without a record (exit.rs, clean_exit),
\* changes no row; the objects planned are its own.
LEMMA ExitDrainInv ==
  ASSUME StoreInv, NEW w \in Workers,
         \/ ExitLockUploads(w) \/ ExitLockContent(w)
         \/ ExitPurgeUploads(w) \/ ExitBegin(w)
  PROVE  StoreInv'
<1> USE DEF StoreInv, ExitLockUploads, ExitLockContent, ExitPurgeUploads, ExitBegin
<1>1. TypeOK'
  BY DEF TypeOK, Steps, Return, Without, Goto, store, locks
<1>2. LockDiscipline'
  BY DEF TypeOK, LockDiscipline, HoldsContent, Return, Without, Goto, locks
<1>3. JobTyped'
  BY DEF TypeOK, JobTyped, Return, Goto, store
<1>4. StillTrue'
  BY DEF TypeOK, StillTrue, Pending, Return, Goto, store
<1>5. PendingHasContent' /\ CleanedOwnsNothing' /\ AckedIsDownwardClosed'
  BY DEF PendingHasContent, CleanedOwnsNothing, AckedIsDownwardClosed,
         store, SamePath, IsDirectory
<1> QED
  BY <1>1, <1>2, <1>3, <1>4, <1>5

\* A removed object is pending for the exiting Folder at most.
LEMMA ExitRemoveInv ==
  ASSUME StoreInv, NEW w \in Workers, ExitRemove(w)
  PROVE  StoreInv'
<1> USE DEF StoreInv
<1>0. /\ pc[w] = "exit_purge" /\ contentLock = w
      /\ job[w] \in Devices /\ exit[job[w]] # "open"
  BY DEF ExitRemove, LockDiscipline, HoldsContent, JobTyped
<1>b. \A u \in Workers \ {w} :
        /\ pc'[u] = pc[u] /\ job'[u] = job[u] /\ todo'[u] = todo[u]
        /\ pc[u] \notin HoldsContent
  BY <1>0 DEF ExitRemove, TypeOK, LockDiscipline
<1>1. TypeOK'
  BY DEF TypeOK, Steps, ExitRemove, locks
<1>2. LockDiscipline' /\ JobTyped'
  BY DEF LockDiscipline, JobTyped, ExitRemove, locks
<1>4. StillTrue'
  BY <1>0, <1>b DEF StillTrue, HoldsContent, ExitRemove
<1>5. PendingHasContent'
  BY <1>0 DEF PendingHasContent, ExitRemove, Shared, Pending
<1>6. CleanedOwnsNothing' /\ AckedIsDownwardClosed'
  BY DEF CleanedOwnsNothing, AckedIsDownwardClosed, ExitRemove, SamePath,
         IsDirectory
<1> QED
  BY <1>1, <1>2, <1>4, <1>5, <1>6

\* The commit of an exit drops every row of the Folder and only then calls it
\* cleaned, so a cleaned Folder owns nothing.
LEMMA ExitCommitInv ==
  ASSUME StoreInv, NEW w \in Workers, ExitCommit(w)
  PROVE  StoreInv'
<1> USE DEF StoreInv
<1>0. /\ pc[w] = "exit_purge" /\ contentLock = w /\ job[w] \in Devices
      /\ exit[job[w]] # "open"
  BY DEF ExitCommit, LockDiscipline, HoldsContent, JobTyped
<1>b. \A u \in Workers \ {w} :
        /\ pc'[u] = pc[u] /\ job'[u] = job[u] /\ todo'[u] = todo[u]
        /\ pc[u] \notin HoldsContent
  BY <1>0 DEF ExitCommit, Return, Goto, TypeOK, LockDiscipline
<1>c. pc'[w] = "idle"
  BY DEF ExitCommit, Return, Goto, TypeOK
<1>1. TypeOK'
  BY <1>0 DEF TypeOK, Steps, ExitCommit, Return, Without, Goto
<1>2. LockDiscipline'
  BY <1>b, <1>c DEF LockDiscipline, HoldsContent
<1>3. JobTyped'
  BY <1>0, <1>b, <1>c DEF JobTyped, ExitCommit, TypeOK, HoldsContent
<1>4. StillTrue'
  BY <1>b, <1>c DEF StillTrue, HoldsContent
<1>5. PendingHasContent' /\ CleanedOwnsNothing'
  BY <1>0 DEF PendingHasContent, CleanedOwnsNothing, ExitCommit, TypeOK
<1>6. AckedIsDownwardClosed'
  BY DEF AckedIsDownwardClosed, ExitCommit, TypeOK, SamePath, IsDirectory
<1> QED
  BY <1>1, <1>2, <1>3, <1>4, <1>5, <1>6

\* A failed operation leaves everything it had done on disk, and no claim.
LEMMA FailInv ==
  ASSUME StoreInv, NEW w \in Workers, Fail(w)
  PROVE  StoreInv'
<1> USE DEF StoreInv
<1>1. TypeOK'
  BY DEF TypeOK, Steps, Fail, Return, Without, Goto, store
<1>2. LockDiscipline'
  BY DEF TypeOK, LockDiscipline, HoldsContent, Fail, Return, Without, Goto
<1>3. JobTyped'
  BY DEF TypeOK, JobTyped, Fail, Return, Goto, store
<1>4. StillTrue'
  BY DEF TypeOK, StillTrue, Pending, Fail, Return, Goto, store
<1>5. PendingHasContent' /\ CleanedOwnsNothing' /\ AckedIsDownwardClosed'
  BY DEF PendingHasContent, CleanedOwnsNothing, AckedIsDownwardClosed,
         Fail, store, SamePath, IsDirectory
<1> QED
  BY <1>1, <1>2, <1>3, <1>4, <1>5

\* A part that lost its record, or that the administrator removed, is no part of
\* the store (tus_store.rs, discard_upload).
LEMMA FragmentInv ==
  ASSUME StoreInv, (\E v \in Devices : DiscardTorn(v)) \/ Review
  PROVE  StoreInv'
<1> USE DEF StoreInv
<1>1. UNCHANGED <<store, locks, pc, job, todo>>
  BY DEF DiscardTorn, Review
<1>2. fails' \in 0..MaxFails /\ fragment' \in BOOLEAN
  <2>1. fails' = fails \/ (fails < MaxFails /\ fails' = fails + 1)
    BY DEF DiscardTorn, Review
  <2>2. fragment' = TRUE \/ fragment' = FALSE
    BY DEF DiscardTorn, Review
  <2>3. fails \in 0..MaxFails
    BY DEF TypeOK
  <2>4. fails' \in 0..MaxFails
    BY <2>1, <2>3
  <2>5. fragment' \in BOOLEAN
    BY <2>2, Zenon
  <2> QED
    BY <2>4, <2>5
<1>3. TypeOK' /\ LockDiscipline' /\ JobTyped'
  BY <1>1, <1>2 DEF TypeOK, LockDiscipline, JobTyped, store, locks
<1>4. StillTrue'
  BY <1>1 DEF StillTrue, Pending, store
<1>5. PendingHasContent' /\ CleanedOwnsNothing' /\ AckedIsDownwardClosed'
  BY <1>1 DEF PendingHasContent, CleanedOwnsNothing, AckedIsDownwardClosed,
     store, SamePath, IsDirectory
<1> QED
  BY <1>3, <1>4, <1>5

\* The invariant holds in every reachable state of the relay store.
THEOREM StoreInvariance == Spec => []StoreInv
<1>1. Init => StoreInv
  BY InitInv
<1>2. StoreInv /\ [Next]_vars => StoreInv'
  <2> SUFFICES ASSUME StoreInv, [Next]_vars PROVE StoreInv'
    OBVIOUS
  <2>1. CASE UNCHANGED vars
    BY <2>1 DEF vars, StoreInv, TypeOK, LockDiscipline, JobTyped, StillTrue,
       Pending, PendingHasContent, CleanedOwnsNothing, AckedIsDownwardClosed,
       SamePath, IsDirectory
  <2>2. ASSUME NEW w \in Workers, Start(w) PROVE StoreInv'
    BY <2>2, StartEnqueueInv, AcknowledgeInv, AckDirectoryInv, ExitStartInv,
       ReconcileInv DEF Start, ExitResume
  <2>3. ASSUME NEW w \in Workers, Continue(w) PROVE StoreInv'
    BY <2>3, EnqueueLockInv, EnqueueReceiveInv, EnqueueInsertInv, GcLockInv,
       GcRemoveInv, ReconcileInv, ExitDrainInv, ExitRemoveInv, ExitCommitInv
       DEF Continue
  <2> QED
    BY <2>1, <2>2, <2>3, FailInv, FragmentInv DEF Next
<1> QED
  BY <1>1, <1>2, PTL DEF Spec

\* Type correctness of the store.
THEOREM StoreTyped == Spec => []TypeOK
BY StoreInvariance, PTL DEF StoreInv

\* No collection, reconciliation or foreign exit removes content that is owed.
THEOREM OwedContentIsKept == Spec => []PendingHasContent
BY StoreInvariance, PTL DEF StoreInv

\* A cleaned Folder owns nothing, whatever was in flight at its revocation.
THEOREM CleanExitIsClean == Spec => []CleanedOwnsNothing
BY StoreInvariance, PTL DEF StoreInv

\* No superseded directory version is offered once a later one is receipted.
THEOREM NoResurrection == Spec => []AckedIsDownwardClosed
BY StoreInvariance, PTL DEF StoreInv

\* Steps that leave the rows and the exits alone satisfy the action property;
\* the other four are looked at one by one.
THEOREM RowsAdvance == Spec => RowsOnlyAdvance
<1> DEFINE A == \A d \in Deliveries :
       /\ row[d] = "absent" /\ Drained(DeviceOf[d]) => row'[d] = "absent"
       /\ row[d] = "acked" => row'[d] # "pending"
       /\ row[d] # "absent" /\ row'[d] = "absent" =>
             exit'[DeviceOf[d]] = "cleaned"
<1>1. StoreInv /\ [Next]_vars => [A]_vars
  <2> SUFFICES ASSUME StoreInv, Next PROVE A
    OBVIOUS
  <2> USE DEF StoreInv
  <2>1. CASE row' = row
    BY <2>1
  <2>2. ASSUME NEW w \in Workers, EnqueueInsert(w), row' # row PROVE A
    <3>1. /\ job[w] \in Deliveries /\ row[job[w]] = "absent"
          /\ exit[DeviceOf[job[w]]] # "cleaned" /\ contentLock = w
          /\ pc[w] = "enq_insert"
      BY <2>2 DEF EnqueueInsert, JobTyped, StillTrue, LockDiscipline, HoldsContent
    <3>2. ~Drained(DeviceOf[job[w]])
      BY <3>1 DEF Drained, LockDiscipline, HoldsContent
    <3>3. /\ row'[job[w]] \in {"pending", "acked"}
          /\ \A d \in Deliveries : d # job[w] => row'[d] = row[d]
      BY <2>2, <3>1 DEF EnqueueInsert, TypeOK
    <3> QED
      BY <3>1, <3>2, <3>3
  <2>3. ASSUME NEW w \in Workers, NEW d \in Deliveries, Acknowledge(w, d) PROVE A
    BY <2>3 DEF Acknowledge, TypeOK
  <2>4. ASSUME NEW w \in Workers, NEW d \in Deliveries, NEW c \in BOOLEAN,
               AckDirectory(w, d, c)
        PROVE  A
    BY <2>4 DEF AckDirectory, UpTo, TypeOK
  <2>5. ASSUME NEW w \in Workers, ExitCommit(w) PROVE A
    BY <2>5 DEF ExitCommit, TypeOK
  <2>6. ASSUME NEW v \in Devices, DiscardTorn(v) PROVE A
    BY <2>1, <2>6 DEF DiscardTorn, store
  <2>7. ASSUME NEW w \in Workers, Start(w) PROVE A
    BY <2>1, <2>3, <2>4, <2>7 DEF Start, FinalizeUpload, EnqueueCommand,
       ExitResume, ExitRevoke, ReconcileLock, store
  <2>8. ASSUME NEW w \in Workers, Continue(w) PROVE A
    BY <2>1, <2>2, <2>5, <2>8 DEF Continue, EnqueueLock, EnqueueReceive, GcLock,
       GcRemove, ReconcileRemove, ExitLockUploads, ExitLockContent,
       ExitPurgeUploads, ExitBegin, ExitRemove, store
  <2>9. ASSUME NEW w \in Workers, Fail(w) PROVE A
    BY <2>1, <2>9 DEF Fail, store
  <2>10. CASE Review
    BY <2>1, <2>10 DEF Review, store
  <2> QED
    BY <2>6, <2>7, <2>8, <2>9, <2>10 DEF Next
<1> QED
  BY <1>1, StoreInvariance, PTL DEF Spec, RowsOnlyAdvance
=============================================================================
