----------------------------- MODULE RelayStore -----------------------------
(***************************************************************************)
(* The relay's delivery store: SQLite rows, content-addressed objects on   *)
(* disk, the two advisory file locks, and the operations that run on them  *)
(* concurrently (src/server/store.rs, directory.rs, exit.rs and the ACK    *)
(* handler of api.rs).                                                     *)
(*                                                                         *)
(* A worker is one execution of a store operation: a request thread, the   *)
(* startup pass of the service, or a `mirelay-server` command in a process *)
(* of its own.  Locks are flock files, so all of them obey the same        *)
(* discipline.  Each operation is split where another worker can observe   *)
(* or change what it is working on: at lock acquisition, at every change   *)
(* of a file, and at every SQLite commit.                                  *)
(***************************************************************************)
EXTENDS Integers, FiniteSets

CONSTANTS
  Workers,      \* operations that may be in progress at the same time
  Devices,      \* owners of deliveries: one per paired Folder
  Deliveries,   \* delivery ids; an id fixes owner, content and path/version
  Digests,      \* SHA-256 values of payloads
  DeviceOf,     \* [Deliveries -> Devices]
  DigestOf,     \* [Deliveries -> Digests]
  Paths,        \* relative paths of directory deliveries
  NoPath,       \* the path of a delivery that belongs to no directory
  PathOf,       \* [Deliveries -> Paths \cup {NoPath}]
  VersionOf,    \* [Deliveries -> Nat]: source version of a directory delivery
  Nested,       \* pairs of paths, one of which is a parent of the other
  Nobody,       \* value of a free lock, and of an empty job
  MaxFails      \* bound: how many operations may fail or crash half-way

ASSUME StoreAssumption ==
  /\ DeviceOf \in [Deliveries -> Devices]
  /\ DigestOf \in [Deliveries -> Digests]
  /\ PathOf \in [Deliveries -> Paths \cup {NoPath}]
  /\ VersionOf \in [Deliveries -> Nat]
  /\ Nested \subseteq Paths \X Paths
  /\ NoPath \notin Paths
  /\ Nobody \notin Workers \cup Devices \cup Deliveries
  /\ MaxFails \in Nat

VARIABLES
  row,          \* deliveries table: "absent", "pending" or "acked"
  conflicted,   \* directory_versions.conflict: deliveries reported as conflict
  exit,         \* folder_exits: "open" (no row), "begun", "cleaned"
  objects,      \* digests whose object file exists in the content directory
  uploadLock,   \* holder of the uploads_dir lock
  contentLock,  \* holder of the content_dir lock
  writer,       \* holder of an open SQLite write transaction
  pc,           \* what each worker does next
  job,          \* the delivery or device a worker works on
  todo,         \* digests a worker still has to look at
  fails,        \* failed operations so far
  fragment      \* the uploads directory holds a part without a record

store == <<row, conflicted, exit, objects>>
locks == <<uploadLock, contentLock, writer>>
damage == <<fails, fragment>>
vars == <<row, conflicted, exit, objects, uploadLock, contentLock, writer,
          pc, job, todo, fails, fragment>>

Steps == {"idle",
          "enq_lock", "enq_receive", "enq_insert",
          "gc_lock", "gc_remove",
          "exit_uploads", "exit_content", "exit_fragments", "exit_begin",
          "exit_purge", "rec_purge"}

TypeOK ==
  /\ row \in [Deliveries -> {"absent", "pending", "acked"}]
  /\ conflicted \subseteq Deliveries
  /\ exit \in [Devices -> {"open", "begun", "cleaned"}]
  /\ objects \subseteq Digests
  /\ uploadLock \in Workers \cup {Nobody}
  /\ contentLock \in Workers \cup {Nobody}
  /\ writer \in Workers \cup {Nobody}
  /\ pc \in [Workers -> Steps]
  /\ job \in [Workers -> Deliveries \cup Devices \cup Digests \cup {Nobody}]
  /\ todo \in [Workers -> SUBSET Digests]
  /\ fails \in 0..MaxFails
  /\ fragment \in BOOLEAN

Init ==
  /\ row = [d \in Deliveries |-> "absent"]
  /\ conflicted = {}
  /\ exit = [v \in Devices |-> "open"]
  /\ objects = {}
  /\ uploadLock = Nobody
  /\ contentLock = Nobody
  /\ writer = Nobody
  /\ pc = [w \in Workers |-> "idle"]
  /\ job = [w \in Workers |-> Nobody]
  /\ todo = [w \in Workers |-> {}]
  /\ fails = 0
  /\ fragment = FALSE

-----------------------------------------------------------------------------
(* Rows *)

Pending(g) == {d \in Deliveries : row[d] = "pending" /\ DigestOf[d] = g}

IsDirectory(d) == PathOf[d] # NoPath

SamePath(d, e) ==
  /\ IsDirectory(d)
  /\ DeviceOf[d] = DeviceOf[e]
  /\ PathOf[d] = PathOf[e]

\* directory_versions rows live exactly as long as their delivery row.
Collides(d) ==
  \E e \in Deliveries \ {d} :
    /\ row[e] # "absent"
    /\ IsDirectory(d) /\ IsDirectory(e)
    /\ DeviceOf[d] = DeviceOf[e]
    /\ \/ PathOf[d] = PathOf[e] /\ VersionOf[d] = VersionOf[e]
       \/ <<PathOf[d], PathOf[e]>> \in Nested
       \/ <<PathOf[e], PathOf[d]>> \in Nested

\* Mutant: a slow upload of an old version is always offered.
SupersededNever(d) == FALSE

\* A later version of the same path has already been acknowledged.
Superseded(d) ==
  \E e \in Deliveries :
    SamePath(d, e) /\ VersionOf[e] > VersionOf[d] /\ row[e] = "acked"

\* The versions a directory receipt for d covers.
UpTo(d) ==
  {e \in Deliveries :
     SamePath(d, e) /\ VersionOf[e] <= VersionOf[d] /\ row[e] # "absent"}

Shared(g, v) == \E d \in Pending(g) : DeviceOf[d] # v

-----------------------------------------------------------------------------
(* Workers *)

Goto(w, step, j, t) ==
  /\ pc' = [pc EXCEPT ![w] = step]
  /\ job' = [job EXCEPT ![w] = j]
  /\ todo' = [todo EXCEPT ![w] = t]

Without(lock, w) == IF lock = w THEN Nobody ELSE lock

\* The operation returns: guards are dropped, an open transaction rolls back.
Return(w) ==
  /\ Goto(w, "idle", Nobody, {})
  /\ uploadLock' = Without(uploadLock, w)
  /\ contentLock' = Without(contentLock, w)
  /\ writer' = Without(writer, w)

Idle(w) == pc[w] = "idle"

\* An I/O or database error is propagated, or the process dies.
Fail(w) ==
  /\ ~Idle(w)
  /\ fails < MaxFails
  /\ fails' = fails + 1
  /\ Return(w)
  /\ UNCHANGED <<store, fragment>>

\* discard_upload, of an upload that failed its verification, removes the
\* record and stops before the part, all under the uploads lock.
DiscardTorn(v) ==
  /\ uploadLock = Nobody
  /\ exit[v] = "open"
  /\ fails < MaxFails
  /\ fails' = fails + 1
  /\ fragment' = TRUE
  /\ UNCHANGED <<store, locks, pc, job, todo>>

\* Nothing in the service removes such a part: the administrator does.
Review ==
  /\ fragment
  /\ fragment' = FALSE
  /\ UNCHANGED <<store, locks, pc, job, todo, fails>>

-----------------------------------------------------------------------------
(* enqueue_directory_with_id *)

\* Tus finalization: the caller took the uploads lock and found the device
\* open.  It may run any number of times for one upload (HEAD, PATCH, retry).
FinalizeUpload(w, d) ==
  /\ Idle(w)
  /\ uploadLock = Nobody
  /\ exit[DeviceOf[d]] = "open"
  /\ uploadLock' = w
  /\ Goto(w, "enq_lock", d, {})
  /\ UNCHANGED <<store, contentLock, writer, damage>>

\* The `enqueue` command: a fresh id, and no uploads lock.
EnqueueCommand(w, d) ==
  /\ Idle(w)
  /\ ~IsDirectory(d)
  /\ row[d] = "absent"
  /\ Goto(w, "enq_lock", d, {})
  /\ UNCHANGED <<store, locks, damage>>

\* What finalization does with an enqueued delivery: the digest of a directory
\* delivery may be collectable at once, so it is looked at again.
Enqueued(w, d) ==
  IF uploadLock = w /\ IsDirectory(d)
  THEN /\ Goto(w, "gc_lock", Nobody, {DigestOf[d]})
       /\ contentLock' = Nobody
       /\ UNCHANGED <<uploadLock, writer>>
  ELSE Return(w)

\* Mutant: the device is not looked up under the lock.
EnqueueLockUnchecked(w) ==
  /\ pc[w] = "enq_lock"
  /\ contentLock = Nobody
  /\ IF row[job[w]] # "absent"
     THEN Enqueued(w, job[w])
     ELSE /\ contentLock' = w
          /\ Goto(w, "enq_receive", job[w], {})
          /\ UNCHANGED <<uploadLock, writer>>
  /\ UNCHANGED <<store, damage>>

\* Under the content lock: refuse an exiting Folder, recognise a replay.
EnqueueLock(w) ==
  /\ pc[w] = "enq_lock"
  /\ contentLock = Nobody
  /\ LET d == job[w] IN
       \/ /\ exit[DeviceOf[d]] # "open"
          /\ Return(w)
       \/ /\ exit[DeviceOf[d]] = "open"
          /\ row[d] # "absent"
          /\ Enqueued(w, d)
       \/ /\ exit[DeviceOf[d]] = "open"
          /\ row[d] = "absent"
          /\ contentLock' = w
          /\ Goto(w, "enq_receive", d, {})
          /\ UNCHANGED <<uploadLock, writer>>
  /\ UNCHANGED <<store, damage>>

\* storage::receive: the object is durable, or was there already.
EnqueueReceive(w) ==
  /\ pc[w] = "enq_receive"
  /\ objects' = objects \cup {DigestOf[job[w]]}
  /\ pc' = [pc EXCEPT ![w] = "enq_insert"]
  /\ UNCHANGED <<row, conflicted, exit, locks, job, todo, damage>>

\* One transaction inserts the delivery and its directory version.
EnqueueInsert(w) ==
  /\ pc[w] = "enq_insert"
  /\ writer = Nobody
  /\ LET d == job[w] IN
       \/ /\ Collides(d)
          /\ Return(w)
          /\ UNCHANGED row
       \/ /\ ~Collides(d)
          /\ row' = [row EXCEPT ![d] = IF Superseded(d) THEN "acked"
                                                        ELSE "pending"]
          /\ Enqueued(w, d)
  /\ UNCHANGED <<conflicted, exit, objects, damage>>

-----------------------------------------------------------------------------
(* Receipts *)

\* acknowledge_delivery: a repeated receipt still collects; a directory
\* delivery needs a directory receipt.
Acknowledge(w, d) ==
  /\ Idle(w)
  /\ writer = Nobody
  /\ row[d] # "absent"
  /\ ~IsDirectory(d)
  /\ row' = [row EXCEPT ![d] = "acked"]
  /\ Goto(w, "gc_lock", Nobody, {DigestOf[d]})
  /\ UNCHANGED <<conflicted, exit, objects, locks, damage>>

\* ack_directory: a receipt covers every earlier version of the path.
AckDirectory(w, d, conflict) ==
  /\ Idle(w)
  /\ writer = Nobody
  /\ row[d] # "absent"
  /\ IsDirectory(d)
  /\ row' = [e \in Deliveries |-> IF e \in UpTo(d) THEN "acked" ELSE row[e]]
  /\ conflicted' = IF conflict THEN conflicted \cup {d} ELSE conflicted
  /\ Goto(w, "gc_lock", Nobody, {DigestOf[e] : e \in UpTo(d)})
  /\ UNCHANGED <<exit, objects, locks, damage>>

-----------------------------------------------------------------------------
(* garbage_collect_digest, for each digest the caller has left to look at *)

NextDigest(w, rest) ==
  IF rest = {} THEN Return(w)
  ELSE /\ Goto(w, "gc_lock", Nobody, rest)
       /\ contentLock' = Without(contentLock, w)
       /\ UNCHANGED <<uploadLock, writer>>

\* Mutant: the references are counted, and the lock is dropped before the file
\* is removed.
GcLockReleased(w) ==
  /\ pc[w] = "gc_lock"
  /\ contentLock = Nobody
  /\ \E g \in todo[w] :
       IF Pending(g) = {}
       THEN Goto(w, "gc_remove", g, todo[w] \ {g}) /\ UNCHANGED locks
       ELSE NextDigest(w, todo[w] \ {g})
  /\ UNCHANGED <<store, damage>>

\* Take the content lock and count the references.
GcLock(w) ==
  /\ pc[w] = "gc_lock"
  /\ contentLock = Nobody
  /\ \E g \in todo[w] :
       LET known == \E d \in Deliveries : row[d] # "absent" /\ DigestOf[d] = g
       IN  \/ /\ Pending(g) = {} /\ known
              /\ contentLock' = w
              /\ Goto(w, "gc_remove", g, todo[w] \ {g})
              /\ UNCHANGED <<uploadLock, writer>>
           \/ /\ Pending(g) # {} \/ ~known
              /\ NextDigest(w, todo[w] \ {g})
  /\ UNCHANGED <<store, damage>>

GcRemove(w) ==
  /\ pc[w] = "gc_remove"
  /\ objects' = objects \ {job[w]}
  /\ NextDigest(w, todo[w])
  /\ UNCHANGED <<row, conflicted, exit, damage>>

-----------------------------------------------------------------------------
(* reconcile_content: objects no pending row refers to are removed *)

ReconcileLock(w) ==
  /\ Idle(w)
  /\ contentLock = Nobody
  /\ contentLock' = w
  /\ Goto(w, "rec_purge", Nobody, {g \in objects : Pending(g) = {}})
  /\ UNCHANGED <<store, uploadLock, writer, damage>>

ReconcileRemove(w) ==
  /\ pc[w] = "rec_purge"
  /\ \/ /\ todo[w] = {}
        /\ Return(w)
        /\ UNCHANGED objects
     \/ \E g \in todo[w] :
          /\ objects' = objects \ {g}
          /\ todo' = [todo EXCEPT ![w] = @ \ {g}]
          /\ UNCHANGED <<locks, pc, job>>
  /\ UNCHANGED <<row, conflicted, exit, damage>>

-----------------------------------------------------------------------------
(* clean_exit *)

\* Mutant: an exit that was requested before is not carried on.
ExitRevokeOnce(w, v) ==
  /\ Idle(w)
  /\ writer = Nobody
  /\ exit[v] = "open"
  /\ exit' = [exit EXCEPT ![v] = "begun"]
  /\ Goto(w, "exit_uploads", v, {})
  /\ UNCHANGED <<row, conflicted, objects, locks, damage>>

\* The durable revocation.  A repeated request runs the whole exit again.
ExitRevoke(w, v) ==
  /\ Idle(w)
  /\ writer = Nobody
  /\ exit' = [exit EXCEPT ![v] = IF @ = "open" THEN "begun" ELSE @]
  /\ Goto(w, "exit_uploads", v, {})
  /\ UNCHANGED <<row, conflicted, objects, locks, damage>>

\* resume_exits: the service at startup, or the `reconcile` command.
ExitResume(w, v) ==
  /\ exit[v] = "begun"
  /\ ExitRevoke(w, v)

ExitLockUploads(w) ==
  /\ pc[w] = "exit_uploads"
  /\ uploadLock = Nobody
  /\ uploadLock' = w
  /\ pc' = [pc EXCEPT ![w] = "exit_content"]
  /\ UNCHANGED <<store, contentLock, writer, job, todo, damage>>

ExitLockContent(w) ==
  /\ pc[w] = "exit_content"
  /\ contentLock = Nobody
  /\ contentLock' = w
  /\ pc' = [pc EXCEPT ![w] = "exit_fragments"]
  /\ UNCHANGED <<store, uploadLock, writer, job, todo, damage>>

\* purge_folder_uploads_locked: a part nobody owns stops the exit of every
\* Folder.  What it removes otherwise is TusUpload's.
ExitPurgeUploads(w) ==
  /\ pc[w] = "exit_fragments"
  /\ \/ /\ fragment
        /\ Return(w)
     \/ /\ ~fragment
        /\ pc' = [pc EXCEPT ![w] = "exit_begin"]
        /\ UNCHANGED <<locks, job, todo>>
  /\ UNCHANGED <<store, damage>>

\* Open the write transaction and list the Folder's objects.
ExitBegin(w) ==
  /\ pc[w] = "exit_begin"
  /\ writer = Nobody
  /\ writer' = w
  /\ Goto(w, "exit_purge", job[w],
          {DigestOf[d] : d \in {e \in Deliveries :
                                  row[e] # "absent" /\ DeviceOf[e] = job[w]}})
  /\ UNCHANGED <<store, uploadLock, contentLock, damage>>

\* Files go one by one; an object another Folder waits for stays.
ExitRemove(w) ==
  /\ pc[w] = "exit_purge"
  /\ \E g \in todo[w] :
       /\ objects' = IF Shared(g, job[w]) THEN objects ELSE objects \ {g}
       /\ todo' = [todo EXCEPT ![w] = @ \ {g}]
  /\ UNCHANGED <<row, conflicted, exit, locks, pc, job, damage>>

\* Only then are the rows deleted, in the transaction opened before.
ExitCommit(w) ==
  /\ pc[w] = "exit_purge"
  /\ todo[w] = {}
  /\ LET own == {d \in Deliveries : DeviceOf[d] = job[w]} IN
       /\ row' = [d \in Deliveries |-> IF d \in own THEN "absent" ELSE row[d]]
       /\ conflicted' = conflicted \ own
  /\ exit' = [exit EXCEPT ![job[w]] = "cleaned"]
  /\ Return(w)
  /\ UNCHANGED <<objects, damage>>

-----------------------------------------------------------------------------
Start(w) ==
  \/ \E d \in Deliveries :
       \/ FinalizeUpload(w, d)
       \/ EnqueueCommand(w, d)
       \/ Acknowledge(w, d)
       \/ \E conflict \in BOOLEAN : AckDirectory(w, d, conflict)
  \/ \E v \in Devices : ExitRevoke(w, v) \/ ExitResume(w, v)
  \/ ReconcileLock(w)

Continue(w) ==
  \/ EnqueueLock(w) \/ EnqueueReceive(w) \/ EnqueueInsert(w)
  \/ GcLock(w) \/ GcRemove(w)
  \/ ReconcileRemove(w)
  \/ ExitLockUploads(w) \/ ExitLockContent(w) \/ ExitPurgeUploads(w)
  \/ ExitBegin(w) \/ ExitRemove(w) \/ ExitCommit(w)

Next ==
  \/ \E w \in Workers : Start(w) \/ Continue(w) \/ Fail(w)
  \/ \E v \in Devices : DiscardTorn(v)
  \/ Review

Spec == Init /\ [][Next]_vars

\* Threads run, the kernel wakes a waiter of a lock that keeps being released,
\* and an exit left unfinished is picked up again (service startup, the
\* `reconcile` command, or the client's own retry).
Fairness ==
  /\ \A w \in Workers : SF_vars(Continue(w))
  /\ \A v \in Devices : SF_vars(\E w \in Workers : ExitResume(w, v))

FairSpec == Spec /\ Fairness

-----------------------------------------------------------------------------
(* Properties *)

\* A delivery the relay still owes to an open Folder's receiver has its
\* content: no collection, reconciliation or exit of another Folder removes
\* the object under it (garbage_collect_digest, reconcile_content, clean_exit).
PendingHasContent ==
  \A d \in Deliveries :
    row[d] = "pending" /\ exit[DeviceOf[d]] = "open" => DigestOf[d] \in objects

\* Once an exit is confirmed as cleaned, the Folder owns no delivery row, and
\* no operation admitted before the revocation brings one back (clean_exit
\* drains the lock holders; require_device_open turns later ones away).
CleanedOwnsNothing ==
  \A d \in Deliveries :
    exit[DeviceOf[d]] = "cleaned" => row[d] = "absent" /\ d \notin conflicted

\* Receipts of a path are downward closed: no version older than an
\* acknowledged one is ever offered again (ack_directory, and the update at
\* the end of insert_directory_version).
AckedIsDownwardClosed ==
  \A d, e \in Deliveries :
    /\ SamePath(d, e)
    /\ VersionOf[e] <= VersionOf[d]
    /\ row[d] = "acked"
    => row[e] # "pending"

\* The exit of Folder v has drained the writers admitted before its revocation.
Drained(v) ==
  \/ exit[v] = "cleaned"
  \/ \E w \in Workers :
       pc[w] \in {"exit_fragments", "exit_begin", "exit_purge"} /\ job[w] = v

\* What no step may do: add a row to a Folder whose exit has drained its
\* writers; offer an acknowledged delivery again; drop a row other than by
\* the commit that confirms the exit.
RowsOnlyAdvance ==
  [][\A d \in Deliveries :
       /\ row[d] = "absent" /\ Drained(DeviceOf[d]) => row'[d] = "absent"
       /\ row[d] = "acked" => row'[d] # "pending"
       /\ row[d] # "absent" /\ row'[d] = "absent" =>
             exit'[DeviceOf[d]] = "cleaned"]_vars

\* Whatever failed or crashed on the way, a requested exit is eventually
\* cleaned, unless a part without an owner turns up, which blocks every exit:
\* once the administrator has removed it the exits go on by themselves
\* (clean_exit, resume_exits, purge_folder_uploads_locked).
ExitCompletes ==
  \A v \in Devices :
    exit[v] = "begun" /\ ~fragment ~> exit[v] = "cleaned" \/ fragment

-----------------------------------------------------------------------------
(* The inductive invariant behind the safety properties *)

\* Whoever changes objects, or inserts or deletes rows, holds the content lock.
HoldsContent ==
  {"enq_receive", "enq_insert", "gc_remove", "exit_fragments", "exit_begin",
   "exit_purge", "rec_purge"}

LockDiscipline ==
  \A w \in Workers :
    /\ pc[w] \in HoldsContent => contentLock = w
    /\ pc[w] = "exit_purge" => writer = w

JobTyped ==
  \A w \in Workers :
    /\ pc[w] \in {"enq_lock", "enq_receive", "enq_insert"} =>
         job[w] \in Deliveries
    /\ pc[w] \in {"exit_uploads", "exit_content", "exit_fragments", "exit_begin",
                  "exit_purge"} =>
         job[w] \in Devices /\ exit[job[w]] # "open"
    /\ pc[w] = "gc_remove" => job[w] \in Digests

\* What a worker found out under the content lock is still true when it acts.
StillTrue ==
  \A w \in Workers :
    /\ pc[w] \in {"enq_receive", "enq_insert"} =>
         row[job[w]] = "absent" /\ exit[DeviceOf[job[w]]] # "cleaned"
    /\ pc[w] = "enq_insert" => DigestOf[job[w]] \in objects
    /\ pc[w] = "gc_remove" => Pending(job[w]) = {}
    /\ pc[w] = "rec_purge" => \A g \in todo[w] : Pending(g) = {}

StoreInv ==
  /\ TypeOK
  /\ LockDiscipline
  /\ JobTyped
  /\ StillTrue
  /\ PendingHasContent
  /\ CleanedOwnsNothing
  /\ AckedIsDownwardClosed
=============================================================================
