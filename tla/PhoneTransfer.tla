---------------------------- MODULE PhoneTransfer ----------------------------
(***************************************************************************)
(* One file on its way from a phone to the relay: FileImporter stages it,  *)
(* UploadQueue hands it to a work id of WorkManager, threads of            *)
(* UploadWorker run the upload client (src/tus_client.rs) on it, and       *)
(* FolderExit removes what is left of it.  Pausing and replacing a job     *)
(* takes the transfer away from its thread but does not end the thread,    *)
(* the process may die anywhere, and the relay's answers may be lost.      *)
(*                                                                         *)
(* A session of the relay is one step per request here; TusUpload has its  *)
(* detail.  WorkManager is external and modelled from how it is used.      *)
(***************************************************************************)
EXTENDS Integers, Sequences, FiniteSets

CONSTANTS
  MaxWorks,     \* bound: work ids in use at the same time
  Threads,      \* bound: worker threads alive at the same time
  Length,       \* size of the file, in chunks
  MaxAttempts,  \* runs of a work id that end in a retry
  MaxFails,     \* bound: process deaths, lost answers, stopped jobs, peer exits
  MaxUser       \* bound: taps on Pause, Retry, Disconnect and Auto

ASSUME PhoneAssumption ==
  /\ MaxWorks \in Nat \ {0} /\ Length \in Nat \ {0}
  /\ {MaxAttempts, MaxFails, MaxUser} \subseteq Nat
  /\ IsFiniteSet(Threads)

VARIABLES
  row,      \* the transfers row; "status" is "none" when there is no row
  folder,   \* pairing_state: "open", "pending", "closed", "removed"
  exit,     \* exit_phase: "none", "pending", "local_cleaned", "complete"
  auto,     \* auto_sources: current revision, and whether it is enabled
  dir,      \* the staging directory: owner marker, payload, resume.json
  import,   \* the import: its step, and the kind of transfer it makes
  job,      \* WorkManager's jobs, by work id
  queue,    \* what the holder of UploadQueue's monitor does next
  thread,   \* worker threads
  sess,     \* the relay's upload sessions of this file
  late,     \* PATCH requests given up by the client and not yet served
  relay,    \* "open", or "purged" once the relay confirmed the clean exit
  exiter,   \* the next step of FolderExit.run
  fails, user

vars == <<row, folder, exit, auto, dir, import, job, queue, thread,
          sess, late, relay, exiter, fails, user>>

WorkIds == 1..MaxWorks
Revisions == 0..(MaxUser + 1)
NoRow == [status |-> "none", work |-> 0, rev |-> 0, tree |-> FALSE, receipt |-> 0]
Idle == [at |-> "idle", work |-> 0, rev |-> 0, ses |-> 0, off |-> 0, ans |-> "none", stop |-> FALSE]
Done == [state |-> "finished", attempt |-> 0]
FreeQueue == [at |-> "free", manual |-> FALSE, work |-> 0]
NoImport == [at |-> "idle", rev |-> 0, tree |-> FALSE]
EmptyDir == [owner |-> FALSE, bytes |-> "none", resume |-> 0]

Row == [status : {"none", "QUEUED", "UPLOADING", "PAUSED", "FAILED", "UPLOADED"},
        work : 0..MaxWorks, rev : Revisions, tree : BOOLEAN, receipt : Nat]
Source == [rev : Revisions, on : BOOLEAN, tree : BOOLEAN]
Dir == [owner : BOOLEAN, bytes : {"none", "part", "full"}, resume : Nat]
Staging == {"mark", "copy", "rename", "commit", "undo", "unmark"}
Staged == [at : {"idle", "enqueue"} \cup Staging, rev : Revisions, tree : BOOLEAN]
Monitor == [at : {"free", "read", "assign", "submit", "cancel"}, manual : BOOLEAN,
            work : 0..MaxWorks]
Job == [state : {"enqueued", "running", "finished"}, attempt : Nat]
Requesting == {"create", "save", "head", "loop", "patch"}
Dropping == {"drop_payload", "drop_resume"}
Thread == [at : {"idle", "own", "lock", "recheck", "record"} \cup Requesting \cup Dropping,
           work : 0..MaxWorks, rev : Revisions, ses : Nat, off : 0..(Length - 1),
           ans : {"none", "delivered", "paused", "retry", "error"}, stop : BOOLEAN]
Session == [offset : 0..Length, state : {"open", "delivered", "gone"}]

\* What the variables range over.
TypeOK ==
  /\ row \in Row /\ row.receipt <= Len(sess)
  /\ folder \in {"open", "pending", "closed", "removed"}
  /\ exit \in {"none", "pending", "local_cleaned", "complete"}
  /\ auto \in Source
  /\ dir \in Dir /\ dir.resume <= Len(sess)
  /\ import \in Staged
  /\ job \in [WorkIds -> Job]
  /\ queue \in Monitor
  /\ thread \in [Threads -> Thread]
  /\ \A t \in Threads : thread[t].ses <= Len(sess)
  /\ sess \in Seq(Session)
  /\ late \subseteq [ses : 1..Len(sess), off : 0..(Length - 1)]
  /\ relay \in {"open", "purged"}
  /\ exiter \in {"idle", "stop", "cancel", "server", "gate", "files", "rows", "ack"}
  /\ fails \in 0..MaxFails /\ user \in 0..MaxUser

Init ==
  /\ row = NoRow /\ folder = "open" /\ exit = "none"
  \* no source yet, or a directory that was confirmed earlier
  /\ auto \in {[rev |-> 0, on |-> FALSE, tree |-> FALSE],
              [rev |-> 1, on |-> TRUE, tree |-> TRUE]}
  /\ dir = EmptyDir
  /\ import = NoImport
  /\ job = [w \in WorkIds |-> Done]
  /\ queue = FreeQueue
  /\ thread = [t \in Threads |-> Idle]
  /\ sess = <<>> /\ late = {} /\ relay = "open"
  /\ exiter = "idle"
  /\ fails = 0 /\ user = 0

-----------------------------------------------------------------------------
(* What the store allows *)

Active(rev) == auto.on /\ auto.rev = rev

\* ALLOWED_TRANSFER and AutoStore.permits: the Folder is open and, for an
\* automatic transfer, its own revision of the source is enabled.
Allowed(rev) == folder = "open" /\ (rev = 0 \/ Active(rev))

Permitted(r) == Allowed(r.rev)

Waiting(r) == r.status \in {"QUEUED", "UPLOADING"}

Paused(r) == IF Waiting(r) THEN [r EXCEPT !.status = "PAUSED", !.work = 0] ELSE r

\* updateOwned: the caller's work id still owns the row.
Owns(w) == row.work = w /\ row.status \notin {"none", "UPLOADED"} /\ Permitted(row)

Unfinished(w) == job[w].state \in {"enqueued", "running"}

\* FolderWorkGate: workers and imports share it, cleaning excludes them.
\* Only Auto's scan enqueues inside the gate.
Importing == import.at # "idle" /\ (import.at = "enqueue" => import.rev # 0)
Working == Importing \/ \E t \in Threads : thread[t].at # "idle"
Cleaning == exiter \in {"files", "rows"}

CanFail == fails < MaxFails
Failed == CanFail /\ fails' = fails + 1
Tap == user < MaxUser /\ user' = user + 1

phone == <<row, folder, exit, auto, dir>>
server == <<sess, late, relay>>
workers == <<job, thread>>
control == <<import, queue, exiter>>

-----------------------------------------------------------------------------
(* FileImporter.stage, for a shared file, or for an automatic source *)

\* Mutant: the connection is checked before the gate is entered.
ImportBeginUnchecked ==
  /\ import.at = "idle" /\ row = NoRow /\ dir = EmptyDir /\ ~Cleaning
  /\ import' = [at |-> "mark", rev |-> 0, tree |-> FALSE]
  /\ UNCHANGED <<phone, server, workers, queue, exiter, fails, user>>

\* Auto's scan stages for the revision it started with; a directory source
\* makes directory transfers, which stay bound to the source.
ImportBegin ==
  /\ import.at = "idle" /\ row = NoRow /\ dir = EmptyDir
  /\ folder = "open" /\ ~Cleaning
  /\ \/ ~auto.tree /\ import' = [at |-> "mark", rev |-> 0, tree |-> FALSE]
     \/ auto.on /\ import' = [at |-> "mark", rev |-> auto.rev, tree |-> auto.tree]
  /\ UNCHANGED <<phone, server, workers, queue, exiter, fails, user>>

\* The owner marker is durable before any payload byte.
ImportMark ==
  /\ import.at = "mark"
  /\ dir' = [dir EXCEPT !.owner = TRUE]
  /\ import' = [import EXCEPT !.at = "copy"]
  /\ UNCHANGED <<row, folder, exit, auto, server, workers, queue, exiter, fails, user>>

ImportCopy ==
  /\ import.at = "copy"
  /\ dir' = [dir EXCEPT !.bytes = "part"]
  /\ import' = [import EXCEPT !.at = "rename"]
  /\ UNCHANGED <<row, folder, exit, auto, server, workers, queue, exiter, fails, user>>

\* The copy is renamed into place; a source that changed or a cancelled
\* session makes it fail instead.
ImportRename ==
  /\ import.at = "rename"
  /\ \/ dir' = [dir EXCEPT !.bytes = "full"] /\ import' = [import EXCEPT !.at = "commit"]
        /\ UNCHANGED fails
     \/ Failed /\ import' = [import EXCEPT !.at = "undo"] /\ UNCHANGED dir
  /\ UNCHANGED <<row, folder, exit, auto, server, workers, queue, exiter, user>>

\* addTransfer and the automatic commits: one transaction that looks again
\* whether the Folder is open and the revision enabled.
ImportCommit ==
  /\ import.at = "commit"
  /\ IF Allowed(import.rev)
     THEN /\ row' = [NoRow EXCEPT !.status = "QUEUED", !.rev = import.rev,
                                  !.tree = import.tree]
          /\ import' = [import EXCEPT !.at = "enqueue"]
     ELSE UNCHANGED row /\ import' = [import EXCEPT !.at = "undo"]
  /\ UNCHANGED <<folder, exit, auto, dir, server, workers, queue, exiter, fails, user>>

\* Not recorded: the bytes go first, then the marker.
ImportUndo ==
  /\ import.at = "undo"
  /\ dir' = [dir EXCEPT !.bytes = "none"]
  /\ import' = [import EXCEPT !.at = "unmark"]
  /\ UNCHANGED <<row, folder, exit, auto, server, workers, queue, exiter, fails, user>>

ImportUnmark ==
  /\ import.at = "unmark"
  /\ dir' = [dir EXCEPT !.owner = FALSE]
  /\ import' = NoImport
  /\ UNCHANGED <<row, folder, exit, auto, server, workers, queue, exiter, fails, user>>

\* The caller enqueues what was recorded.
ImportEnqueue ==
  /\ import.at = "enqueue"
  /\ queue.at = "free"
  /\ queue' = [FreeQueue EXCEPT !.at = "read"]
  /\ import' = NoImport
  /\ UNCHANGED <<phone, server, workers, exiter, fails, user>>

-----------------------------------------------------------------------------
(* UploadQueue.  Its methods are synchronized: one at a time *)

\* Retry: enqueue(id, manual).  makeManual frees the transfer from Auto,
\* unless it belongs to a directory.
Retry ==
  /\ queue.at = "free" /\ row.status # "none" /\ folder = "open"
  /\ row.tree => Permitted(row)
  /\ Tap
  /\ row' = IF ~row.tree /\ row.status \in {"PAUSED", "FAILED"}
            THEN [row EXCEPT !.rev = 0] ELSE row
  /\ queue' = [FreeQueue EXCEPT !.at = "read", !.manual = TRUE]
  /\ UNCHANGED <<folder, exit, auto, dir, server, workers, import, exiter, fails>>

\* Mutant: only interrupted uploads are taken up again.
RecoverUploading ==
  /\ queue.at = "free" /\ row.status = "UPLOADING"
  /\ IF Permitted(row)
     THEN /\ \A w \in WorkIds : ~Unfinished(w)
          /\ queue' = [FreeQueue EXCEPT !.at = "read"]
          /\ UNCHANGED row
     ELSE row' = Paused(row) /\ UNCHANGED queue
  /\ UNCHANGED <<folder, exit, auto, dir, server, workers, import, exiter, fails, user>>

\* recover(), when the application starts and after a scan.
Recover ==
  /\ queue.at = "free" /\ Waiting(row)
  /\ IF Permitted(row)
     THEN /\ \A w \in WorkIds : ~Unfinished(w)
          /\ queue' = [FreeQueue EXCEPT !.at = "read"]
          /\ UNCHANGED row
     ELSE row' = Paused(row) /\ UNCHANGED queue
  /\ UNCHANGED <<folder, exit, auto, dir, server, workers, import, exiter, fails, user>>

\* enqueue: only an explicit Retry starts what is paused or failed.
QueueRead ==
  /\ queue.at = "read"
  /\ queue' = IF (queue.manual \/ Waiting(row)) /\ Permitted(row) /\ row.status # "none"
              THEN [queue EXCEPT !.at = "assign"] ELSE FreeQueue
  /\ UNCHANGED <<phone, server, workers, import, exiter, fails, user>>

\* A work id is a fresh UUID: one that nothing refers to stands for it.
Fresh(w) == ~Unfinished(w) /\ row.work # w /\ \A t \in Threads : thread[t].work # w

\* assign: the new work id owns the transfer before its job exists.
QueueAssign ==
  /\ queue.at = "assign"
  /\ IF row.status \notin {"none", "UPLOADED"} /\ Permitted(row)
     THEN \E w \in WorkIds :
            /\ Fresh(w) /\ \A v \in 1..(w - 1) : ~Fresh(v)
            /\ row' = [row EXCEPT !.status = "QUEUED", !.work = w]
            /\ queue' = [queue EXCEPT !.at = "submit", !.work = w]
     ELSE UNCHANGED row /\ queue' = FreeQueue
  /\ UNCHANGED <<folder, exit, auto, dir, server, workers, import, exiter, fails, user>>

\* Cancelling a job marks it finished and its thread stopped; the thread
\* itself goes on until it looks.
Ended(w) == IF Unfinished(w) THEN Done ELSE job[w]
Stopped(t) == IF thread[t] = Idle THEN Idle ELSE [thread[t] EXCEPT !.stop = TRUE]

Cancelled ==
  /\ job' = [w \in WorkIds |-> Ended(w)]
  /\ thread' = [t \in Threads |-> Stopped(t)]

\* enqueueUniqueWork with REPLACE.
QueueSubmit ==
  /\ queue.at = "submit"
  /\ job' = [w \in WorkIds |->
       IF w = queue.work THEN [state |-> "enqueued", attempt |-> 0] ELSE Ended(w)]
  /\ thread' = [t \in Threads |-> Stopped(t)]
  /\ queue' = FreeQueue
  /\ UNCHANGED <<phone, server, import, exiter, fails, user>>

\* Mutant: the job is cancelled and the transfer keeps its owner.
PauseKeepsOwner ==
  /\ queue.at = "free" /\ row.status # "none"
  /\ Tap
  /\ row' = IF Waiting(row) THEN [row EXCEPT !.status = "PAUSED"] ELSE row
  /\ queue' = [FreeQueue EXCEPT !.at = "cancel"]
  /\ UNCHANGED <<folder, exit, auto, dir, server, workers, import, exiter, fails>>

\* pause: ownership is gone before the cancellation reaches the worker.
Pause ==
  /\ queue.at = "free" /\ row.status # "none"
  /\ Tap
  /\ row' = Paused(row)
  /\ queue' = [FreeQueue EXCEPT !.at = "cancel"]
  /\ UNCHANGED <<folder, exit, auto, dir, server, workers, import, exiter, fails>>

\* pauseAutomatic and AutoStore.disable.
PauseAutomatic ==
  /\ queue.at = "free" /\ auto.on
  /\ auto' = [auto EXCEPT !.on = FALSE]
  /\ row' = IF row.rev # 0 THEN Paused(row) ELSE row
  /\ queue' = IF row.rev # 0 THEN [FreeQueue EXCEPT !.at = "cancel"] ELSE queue
  /\ UNCHANGED <<folder, exit, dir, server, workers, import, exiter, fails, user>>

QueueCancel ==
  /\ queue.at = "cancel"
  /\ Cancelled
  /\ queue' = FreeQueue
  /\ exiter' = IF exiter = "cancel" THEN "server" ELSE exiter
  /\ UNCHANGED <<phone, server, import, fails, user>>

\* AutoStore.enable and DirectorySyncStore.confirm: a new revision, which
\* no existing transfer has.
EnableAuto ==
  /\ folder = "open" /\ ~auto.on /\ ~auto.tree
  /\ Tap
  /\ \E tree \in BOOLEAN :
       /\ tree => row.status \in {"none", "UPLOADED"}
       /\ auto' = [rev |-> auto.rev + 1, on |-> TRUE, tree |-> tree]
  /\ UNCHANGED <<row, folder, exit, dir, server, workers, control, fails>>

\* DirectorySyncStore.resume: the directory's transfers move to the new
\* revision, and the unfinished ones are queued again.
ResumeDirectory ==
  /\ folder = "open" /\ ~auto.on /\ auto.tree
  /\ Tap
  /\ auto' = [auto EXCEPT !.rev = @ + 1, !.on = TRUE]
  /\ row' = IF row.tree /\ row.status \in {"PAUSED", "QUEUED", "UPLOADING"}
            THEN [row EXCEPT !.status = "QUEUED", !.work = 0, !.rev = auto.rev + 1]
            ELSE IF row.tree /\ row.status = "FAILED"
            THEN [row EXCEPT !.rev = auto.rev + 1] ELSE row
  /\ UNCHANGED <<folder, exit, dir, server, workers, control, fails>>

-----------------------------------------------------------------------------
(* Disconnecting, and FolderExit.run *)

\* beginDisconnect: the durable barrier before the relay is asked and before
\* workers are cancelled.
Barrier ==
  /\ folder' = "pending"
  /\ auto' = [auto EXCEPT !.on = FALSE]
  /\ row' = [Paused(row) EXCEPT !.work = 0]
  /\ queue' = [FreeQueue EXCEPT !.at = "cancel"]

Disconnect ==
  /\ queue.at = "free" /\ folder \in {"open", "pending"} /\ exit = "none"
  /\ Tap
  /\ Barrier
  /\ UNCHANGED <<exit, dir, server, workers, import, exiter, fails>>

\* The relay confirmed.
FinishDisconnect ==
  /\ queue.at # "cancel" /\ folder = "pending" /\ exit = "none"
  /\ folder' = "closed"
  /\ UNCHANGED <<row, exit, auto, dir, server, workers, control, fails, user>>

\* Work is cancelled once more, then metadata goes: staged bytes stay, even
\* if a thread still uses them.
RemoveFolder ==
  /\ queue.at = "free" /\ folder = "closed" /\ exit \in {"none", "complete"}
  /\ folder' = "removed"
  /\ row' = NoRow
  /\ Cancelled
  /\ UNCHANGED <<exit, auto, dir, server, control, fails, user>>

ExitBegin ==
  /\ exiter = "idle" /\ folder \in {"open", "pending"} /\ exit # "complete"
  /\ exit' = IF exit = "none" THEN "pending" ELSE exit
  /\ folder' = "pending"
  /\ exiter' = "stop"
  /\ UNCHANGED <<row, auto, dir, server, workers, import, queue, fails, user>>

ExitStop ==
  /\ exiter = "stop" /\ queue.at = "free"
  /\ Barrier
  /\ exiter' = "cancel"
  /\ UNCHANGED <<exit, dir, server, workers, import, fails, user>>

\* clean_exit on the relay; its answer may be lost.
ExitServer ==
  /\ exiter = "server"
  /\ \/ /\ relay' = "purged" /\ UNCHANGED fails
        /\ exiter' = IF exit = "local_cleaned" THEN "ack" ELSE "gate"
     \/ relay' \in {relay, "purged"} /\ exiter' = "idle" /\ Failed
  /\ UNCHANGED <<phone, sess, late, workers, import, queue, user>>

\* FolderWorkGate.clean gives up while work is stopping; cleanupTransfers
\* refuses staged data that nobody owns.
ExitGate ==
  /\ exiter = "gate"
  /\ exiter' = IF \/ Working
                  \/ row = NoRow /\ ~dir.owner /\ (dir.bytes # "none" \/ dir.resume # 0)
               THEN "idle" ELSE "files"
  /\ UNCHANGED <<phone, server, workers, import, queue, fails, user>>

\* One file after another, the owner marker last.
ExitFiles ==
  /\ exiter = "files"
  /\ \/ dir.bytes # "none" /\ dir' = [dir EXCEPT !.bytes = "none"] /\ UNCHANGED exiter
     \/ dir.resume # 0 /\ dir' = [dir EXCEPT !.resume = 0] /\ UNCHANGED exiter
     \/ /\ dir.bytes = "none" /\ dir.resume = 0
        /\ dir' = EmptyDir
        /\ exiter' = "rows"
  /\ UNCHANGED <<row, folder, exit, auto, server, workers, import, queue, fails, user>>

ExitRows ==
  /\ exiter = "rows"
  /\ row' = NoRow
  /\ auto' = [auto EXCEPT !.on = FALSE, !.tree = FALSE]
  /\ exit' = "local_cleaned"
  /\ exiter' = "ack"
  /\ UNCHANGED <<folder, dir, server, workers, import, queue, fails, user>>

\* The phone's receipt; the exit is complete when the receiver has its own.
ExitAck ==
  /\ exiter = "ack"
  /\ exiter' = "idle"
  /\ \/ exit' = "complete" /\ folder' = "closed"
     \/ UNCHANGED <<exit, folder>>
  /\ UNCHANGED <<row, auto, dir, server, workers, import, queue, fails, user>>

-----------------------------------------------------------------------------
(* UploadWorker *)

\* The result of a stopped thread is ignored: its job is finished, or was
\* enqueued again.
Finish(t, state) ==
  LET w == thread[t].work
  IN /\ thread' = [thread EXCEPT ![t] = Idle]
     /\ job' = IF thread[t].stop THEN job
               ELSE [job EXCEPT ![w] = IF state = "enqueued"
                       THEN [state |-> "enqueued", attempt |-> @.attempt + 1] ELSE Done]

\* What the thread asks again and again, of the transfer it read at its start.
MayGoOn(t) ==
  /\ ~thread[t].stop
  /\ row.work = thread[t].work
  /\ Allowed(thread[t].rev)

At(t, s) == thread' = [thread EXCEPT ![t].at = s] /\ UNCHANGED job

Start(w, t) ==
  /\ job[w].state = "enqueued" /\ thread[t] = Idle /\ ~Cleaning
  /\ IF Owns(w)
     THEN /\ job' = [job EXCEPT ![w].state = "running"]
          /\ thread' = [thread EXCEPT ![t] = [Idle EXCEPT !.at = "own", !.work = w,
                                                                       !.rev = row.rev]]
     ELSE job' = [job EXCEPT ![w] = Done] /\ UNCHANGED thread
  /\ UNCHANGED <<phone, server, control, fails, user>>

Own(t) ==
  /\ thread[t].at = "own"
  /\ IF Owns(thread[t].work)
     THEN row' = [row EXCEPT !.status = "UPLOADING"] /\ At(t, "lock")
     ELSE UNCHANGED row /\ Finish(t, "finished")
  /\ UNCHANGED <<folder, exit, auto, dir, server, control, fails, user>>

\* After the upload: a thread that was stopped or lost its transfer leaves.
Recheck(t) ==
  /\ thread[t].at = "recheck"
  /\ IF MayGoOn(t) THEN At(t, "record") ELSE Finish(t, "finished")
  /\ UNCHANGED <<phone, server, control, fails, user>>

Retries(t) == thread[t].ans = "retry" /\ job[thread[t].work].attempt < MaxAttempts

NewStatus(t) ==
  CASE thread[t].ans = "delivered" -> "UPLOADED"
    [] thread[t].ans = "paused" -> "PAUSED"
    [] Retries(t) -> "QUEUED"
    [] OTHER -> "FAILED"

\* Mutant: the payload goes although the receipt was not recorded.
RecordDropsAnyway(t) ==
  /\ thread[t].at = "record"
  /\ row' = IF Owns(thread[t].work) 
            THEN [row EXCEPT !.status = NewStatus(t),
                    !.receipt = IF NewStatus(t) = "UPLOADED" THEN thread[t].ses ELSE @]
            ELSE row
  /\ IF NewStatus(t) = "UPLOADED" THEN At(t, "drop_payload")
     ELSE Finish(t, IF Retries(t) THEN "enqueued" ELSE "finished")
  /\ UNCHANGED <<folder, exit, auto, dir, server, control, fails, user>>

\* updateOwned with the result.
Record(t) ==
  /\ thread[t].at = "record"
  /\ row' = IF Owns(thread[t].work)
            THEN [row EXCEPT !.status = NewStatus(t),
                    !.receipt = IF NewStatus(t) = "UPLOADED" THEN thread[t].ses ELSE @]
            ELSE row
  /\ IF Owns(thread[t].work) /\ NewStatus(t) = "UPLOADED"
     THEN At(t, "drop_payload")
     ELSE Finish(t, IF Retries(t) THEN "enqueued" ELSE "finished")
  /\ UNCHANGED <<folder, exit, auto, dir, server, control, fails, user>>

\* The receipt is durable: the payload goes, then the session.
DropPayload(t) ==
  /\ thread[t].at = "drop_payload"
  /\ dir' = [dir EXCEPT !.bytes = "none"]
  /\ At(t, "drop_resume")
  /\ UNCHANGED <<row, folder, exit, auto, server, control, fails, user>>

DropResume(t) ==
  /\ thread[t].at = "drop_resume"
  /\ dir' = [dir EXCEPT !.resume = 0]
  /\ Finish(t, "finished")
  /\ UNCHANGED <<row, folder, exit, auto, server, control, fails, user>>

-----------------------------------------------------------------------------
(* The upload client, upload_with_events *)

\* It runs under an exclusive lock on resume.json.lock.
Holding(t) == thread[t].at \in Requesting

Answer(t, a) ==
  /\ thread' = [thread EXCEPT ![t] = [thread[t] EXCEPT !.at = "recheck", !.ans = a,
                  !.off = 0, !.ses = IF a = "delivered" THEN thread[t].ses ELSE 0]]
  /\ UNCHANGED job

\* The relay's side of a request: finalization is part of HEAD and PATCH.
Finalized(s) == IF s.offset = Length THEN [s EXCEPT !.state = "delivered"] ELSE s

Served(s, off) ==
  Finalized(IF s.state = "open" /\ s.offset = off THEN [s EXCEPT !.offset = @ + 1] ELSE s)

\* require_status: after the clean exit every request is answered 410, and a
\* session the relay discarded is not found.
Status(k) == CASE relay = "purged" -> "gone"
               [] relay = "open" /\ sess[k].state = "gone" -> "not_found"
               [] OTHER -> "ok"

\* validate_remote_upload
ValidRemote(s) == s.offset <= Length /\ (s.state = "delivered" => s.offset = Length)

\* validate_source_state: the payload is still the file that was inspected.
SourceMatches == dir.bytes = "full"

\* save_state and remove_state: resume.json
SaveState(k) == dir' = [dir EXCEPT !.resume = k]
RemoveState == dir' = [dir EXCEPT !.resume = 0]

\* Without the payload the file can be neither inspected nor created.
Lock(t) ==
  /\ thread[t].at = "lock"
  /\ \A v \in Threads : ~Holding(v)
  /\ IF ~SourceMatches THEN Answer(t, "error")
     ELSE /\ thread' = [thread EXCEPT ![t].at = IF dir.resume = 0 THEN "create" ELSE "head",
                                      ![t].ses = dir.resume]
          /\ UNCHANGED job
  /\ UNCHANGED <<phone, server, control, fails, user>>

\* The relay's side of the POST (TusUpload).
Created == sess' = Append(sess, [offset |-> 0, state |-> "open"])

Create(t) ==
  /\ thread[t].at = "create"
  /\ IF relay = "purged"
     THEN Answer(t, "error") /\ UNCHANGED <<sess, fails>>
     ELSE \/ /\ Created
             /\ \/ /\ thread' = [thread EXCEPT ![t].at = "save", ![t].ses = Len(sess) + 1]
                   /\ UNCHANGED <<job, fails>>
                \/ Failed /\ Answer(t, "retry")
          \/ Failed /\ Answer(t, "retry") /\ UNCHANGED sess
  /\ UNCHANGED <<phone, late, relay, control, user>>

Save(t) ==
  /\ thread[t].at = "save"
  /\ SaveState(thread[t].ses)
  /\ At(t, "head")
  /\ UNCHANGED <<row, folder, exit, auto, server, control, fails, user>>

\* 404, 410 or 422: the saved session is useless.
Discard(t) ==
  /\ RemoveState
  /\ Answer(t, "error")
  /\ UNCHANGED <<row, folder, exit, auto>>

\* The progress callback: updateOwned, while the thread may go on.
Reported(t) ==
  row' = IF MayGoOn(t) /\ Owns(thread[t].work) THEN [row EXCEPT !.status = "UPLOADING"] ELSE row

\* A valid answer: done, with a last call of the callback whose verdict is
\* ignored, or go on from the relay's offset.
Advance(t, s) ==
  /\ CASE ~ValidRemote(s) -> Answer(t, "error") /\ UNCHANGED row
       [] ValidRemote(s) /\ s.state = "delivered" -> Answer(t, "delivered") /\ Reported(t)
       [] OTHER -> /\ thread' = [thread EXCEPT ![t].at = "loop", ![t].off = s.offset]
                   /\ UNCHANGED <<job, row>>
  /\ UNCHANGED <<folder, exit, auto, dir>>

\* The relay's side of a HEAD: what it reports, after finishing what it can.
HeadOf(k) == Finalized(sess[k])

QueryHead(t) ==
  LET k == thread[t].ses
  IN /\ thread[t].at = "head"
     /\ \/ /\ Status(k) # "ok"
           /\ Discard(t) /\ UNCHANGED <<sess, fails>>
        \/ /\ Status(k) = "ok"
           /\ sess' = [sess EXCEPT ![k] = HeadOf(k)]
           /\ Advance(t, HeadOf(k)) /\ UNCHANGED fails
        \/ Failed /\ Answer(t, "retry") /\ UNCHANGED <<phone, sess>>
     /\ UNCHANGED <<late, relay, control, user>>

\* The callback before each request decides whether to go on.
Progress(t) ==
  /\ thread[t].at = "loop"
  /\ Reported(t)
  /\ IF MayGoOn(t) THEN At(t, "patch") ELSE Answer(t, "paused")
  /\ UNCHANGED <<folder, exit, auto, dir, server, control, fails, user>>

\* PATCH, and after a 409 the HEAD that follows it.
PatchAnswered(t) ==
  LET k == thread[t].ses
      s == Served(sess[k], thread[t].off)
  IN /\ thread[t].at = "patch"
     /\ \/ /\ Status(k) # "ok"
           /\ Discard(t) /\ UNCHANGED sess
        \/ /\ Status(k) = "ok"
           /\ sess' = [sess EXCEPT ![k] = s]
           /\ IF s.offset <= thread[t].off THEN Answer(t, "error") /\ UNCHANGED phone
              ELSE Advance(t, s)
     /\ UNCHANGED <<late, relay, control, fails, user>>

\* Mutant: a lost answer makes the client forget its session.
PatchFailedForgets(t) ==
  LET k == thread[t].ses
      s == Served(sess[k], thread[t].off)
  IN /\ thread[t].at = "patch" /\ Status(k) = "ok"
     /\ Failed
     /\ Answer(t, "retry")
     /\ dir' = [dir EXCEPT !.resume = 0]
     /\ sess' \in {sess, [sess EXCEPT ![k] = s]}
     /\ UNCHANGED <<row, folder, exit, auto, late, relay, control, user>>

\* The request or its answer is lost, the relay is late, or it fails to
\* finalize (a 5xx answer).
PatchFailed(t) ==
  LET k == thread[t].ses
      s == Served(sess[k], thread[t].off)
  IN /\ thread[t].at = "patch" /\ Status(k) = "ok"
     /\ Failed
     /\ Answer(t, "retry")
     /\ \/ UNCHANGED <<sess, late>>
        \/ sess' = [sess EXCEPT ![k] = s] /\ UNCHANGED late
        \/ sess' = [sess EXCEPT ![k].offset = s.offset] /\ UNCHANGED late
        \/ late' = late \cup {[ses |-> k, off |-> thread[t].off]} /\ UNCHANGED sess
     /\ UNCHANGED <<phone, relay, control, user>>

\* The relay rejects the assembled file and discards the session; the 422
\* may be lost.
PatchRejected(t) ==
  LET k == thread[t].ses
      s == Served(sess[k], thread[t].off)
  IN /\ thread[t].at = "patch" /\ relay = "open"
     /\ sess[k].state = "open" /\ s.offset = Length
     /\ Failed
     /\ sess' = [sess EXCEPT ![k].state = "gone"]
     /\ Discard(t) \/ (Answer(t, "retry") /\ UNCHANGED phone)
     /\ UNCHANGED <<late, relay, control, user>>

\* The other device asks the relay for the clean exit.
PeerExit ==
  /\ relay = "open"
  /\ Failed
  /\ relay' = "purged"
  /\ UNCHANGED <<phone, sess, late, workers, control, user>>

\* A request its client gave up on is served after all, or rejected.
LatePatch ==
  \E p \in late :
    /\ late' = late \ {p}
    /\ \/ /\ sess' = IF relay = "open" /\ sess[p.ses].state # "gone"
                     THEN [sess EXCEPT ![p.ses] = Served(@, p.off)] ELSE sess
          /\ UNCHANGED fails
       \/ /\ relay = "open" /\ sess[p.ses].state = "open"
          /\ Served(sess[p.ses], p.off).offset = Length
          /\ Failed
          /\ sess' = [sess EXCEPT ![p.ses].state = "gone"]
    /\ UNCHANGED <<phone, relay, workers, control, user>>

-----------------------------------------------------------------------------
(* The environment *)

\* The process dies.  WorkManager runs its running jobs again.
Crash ==
  /\ Failed
  /\ thread' = [t \in Threads |-> Idle]
  /\ job' = [w \in WorkIds |-> IF job[w].state = "running"
               THEN [state |-> "enqueued", attempt |-> job[w].attempt + 1] ELSE job[w]]
  /\ queue' = FreeQueue /\ import' = NoImport /\ exiter' = "idle"
  /\ UNCHANGED <<phone, server, user>>

\* WorkManager stops a job whose constraints no longer hold and enqueues it
\* again, under the same work id, while its thread may still run.
StopJob(t) ==
  /\ thread[t] # Idle /\ ~thread[t].stop
  /\ Failed
  /\ thread' = [thread EXCEPT ![t].stop = TRUE]
  /\ job' = [job EXCEPT ![thread[t].work] =
               [state |-> "enqueued", attempt |-> @.attempt + 1]]
  /\ UNCHANGED <<phone, server, control, user>>

Import ==
  \/ ImportBegin \/ ImportMark \/ ImportCopy \/ ImportRename \/ ImportCommit
  \/ ImportUndo \/ ImportUnmark \/ ImportEnqueue

Queue == QueueRead \/ QueueAssign \/ QueueSubmit \/ QueueCancel

User == Retry \/ Pause \/ PauseAutomatic \/ EnableAuto \/ ResumeDirectory \/ Disconnect

Client(t) ==
  \/ Lock(t) \/ Create(t) \/ Save(t) \/ QueryHead(t) \/ Progress(t)
  \/ PatchAnswered(t) \/ PatchFailed(t) \/ PatchRejected(t)

Worker(t) ==
  \/ Own(t) \/ Client(t) \/ Recheck(t) \/ Record(t) \/ DropPayload(t) \/ DropResume(t)

Exit ==
  \/ ExitBegin \/ ExitStop \/ ExitServer \/ ExitGate \/ ExitFiles \/ ExitRows \/ ExitAck

Next ==
  \/ Import \/ Recover \/ Queue \/ User \/ Exit
  \/ FinishDisconnect \/ RemoveFolder
  \/ \E w \in WorkIds, t \in Threads : Start(w, t)
  \/ \E t \in Threads : Worker(t) \/ StopJob(t)
  \/ LatePatch \/ PeerExit \/ Crash

Spec == Init /\ [][Next]_vars

\* Threads and jobs run; the application is opened again (Recover).
System ==
  \/ Queue \/ Recover \/ LatePatch
  \/ \E t \in Threads : Worker(t)
  \/ \E w \in WorkIds, t \in Threads : Start(w, t)

FairSpec == Spec /\ WF_vars(System)

-----------------------------------------------------------------------------
(* Properties *)

\* However often threads, answers and processes are lost, the file becomes at
\* most one delivery, and a transfer shown as uploaded names it: the saved
\* session survives until the receipt is durable (keep_completed_state), and
\* goes only after the payload.
DeliveredOnce ==
  /\ Cardinality({k \in 1..Len(sess) : sess[k].state = "delivered"}) <= 1
  /\ row.status = "UPLOADED" => row.receipt # 0 /\ sess[row.receipt].state = "delivered"

\* A transfer that is not uploaded can still be sent: its payload is there,
\* until a clean exit removes both (it goes only after updateOwned).
PayloadIsKept ==
  row.status \notin {"none", "UPLOADED"} /\ exit = "none"
    => dir.bytes = "full"

\* Once the phone reports its local cleanup nothing of the file is left, and
\* no thread that was still stopping puts it back.
CleanedStaysClean ==
  exit \in {"local_cleaned", "complete"} => dir = EmptyDir /\ row = NoRow

\* A paused transfer stays paused until the user resumes it: neither recovery
\* nor a thread that lost its ownership acts like the Resume button.
OnlyTheUserResumes ==
  [][row.status = "PAUSED" /\ row'.status # "PAUSED" =>
       \/ row'.status = "none"
       \/ queue.at = "assign" /\ queue.manual
       \/ row.tree /\ auto'.rev > auto.rev]_vars

\* A queued transfer is settled: no crash between the commit of the row, the
\* assignment of its work id and the submission of the job strands it.
QueuedIsSettled == Waiting(row) ~> ~Waiting(row)
-----------------------------------------------------------------------------
(* Inductive invariant *)

Quiet == \A t \in Threads : thread[t] = Idle

\* A row is absent as a whole, and a paused one has no owner.
RowIsWhole ==
  /\ row.status = "none" => row = NoRow
  /\ row.status = "PAUSED" => row.work = 0

\* What a thread has at each step: an answer only after the upload, and the
\* client's "paused" never survives the check that follows it.
ThreadIsWhole(t) ==
  /\ thread[t].at = "idle" => thread[t] = Idle
  /\ thread[t].at # "idle" => thread[t].work # 0
  /\ thread[t].at \in {"own", "lock"} \cup Requesting => thread[t].ans = "none"
  /\ thread[t].at = "recheck" => thread[t].ans # "none"
  /\ thread[t].at = "record" => thread[t].ans \in {"delivered", "retry", "error"}
  /\ thread[t].at \in Dropping => thread[t].ans = "delivered"
  /\ thread[t].ans = "paused" => ~MayGoOn(t)

ThreadsAreWhole == \A t \in Threads : ThreadIsWhole(t)

\* resume.json.lock has one holder.
LockIsExclusive == \A t, u \in Threads : Holding(t) /\ Holding(u) => t = u

\* No transfer has a revision that is still to come.
RevisionsArePast ==
  /\ auto.rev <= user + 1
  /\ row.rev <= auto.rev /\ import.rev <= auto.rev
  /\ \A t \in Threads : thread[t].rev <= auto.rev

\* A file is staged for no row, while no thread runs and before any session.
StagingIsAlone ==
  /\ (import.at \in Staging) \/ (row = NoRow /\ folder # "removed")
     => Quiet /\ (relay = "open" => sess = <<>>)
  /\ import.at \in Staging => row = NoRow
  /\ import.at = "commit" => dir.bytes = "full"

\* A clean exit closes the Folder first, then the relay, then the gate.
ExitIsOrdered ==
  /\ exit # "none" => folder # "open"
  /\ exiter # "idle" => folder = "pending" /\ exit \in {"pending", "local_cleaned"}
  /\ exiter \in {"gate", "files", "rows"} => exit = "pending" /\ relay = "purged"
  /\ exiter = "ack" => exit = "local_cleaned"
  /\ Cleaning => ~Working
  /\ exiter = "rows" => dir = EmptyDir

\* Nothing that could write is left after the cleanup.
CleanedIsQuiet ==
  exit \in {"local_cleaned", "complete"}
    => dir = EmptyDir /\ row = NoRow /\ Quiet /\ import.at \notin Staging

\* Without a tap on Retry only a waiting transfer is assigned.
AssignIsMeant == queue.at = "assign" /\ ~queue.manual => row.status # "PAUSED"

\* Files go after the receipt is recorded, the payload first.
DropsAreRecorded ==
  \A t \in Threads :
    /\ thread[t].at \in Dropping => row.status \in {"UPLOADED", "none"}
    /\ thread[t].at = "drop_resume" => dir.bytes = "none"

\* A session that is delivered, or may become so without a thread.
Live(k) ==
  \/ sess[k].state = "delivered"
  \/ sess[k].state = "open" /\ (sess[k].offset > 0 \/ \E p \in late : p.ses = k)

Sessions == 1..Len(sess)

\* There is one such session.
OneLive == \A j, k \in Sessions : Live(j) /\ Live(k) => j = k

\* resume.json names it until the payload is gone.
LiveIsNamed ==
  \A k \in Sessions : Live(k) => dir.resume = k \/ (dir.resume = 0 /\ dir.bytes # "full")

\* Who makes a new session has looked, and who uses one uses the saved one.
Looked(t) ==
  /\ thread[t].at \in {"create", "save"} => dir.resume = 0 /\ \A k \in Sessions : ~Live(k)
  /\ thread[t].at \in {"head", "loop", "patch"} =>
       dir.resume = thread[t].ses \/ sess[thread[t].ses].state = "delivered"

\* All of this while the relay is open.
SessionIsSingle ==
  relay = "open" => OneLive /\ LiveIsNamed /\ \A t \in Threads : Looked(t)

\* A thread at a session has one, and its result names a delivered one.
SessionsAreThere ==
  \A t \in Threads :
    /\ thread[t].at \in {"save", "head", "loop", "patch"} => thread[t].ses # 0
    /\ thread[t].ans = "delivered"
       => thread[t].ses # 0 /\ sess[thread[t].ses].state = "delivered"

DeliveredIsSingle ==
  \A j, k \in Sessions :
    sess[j].state = "delivered" /\ sess[k].state = "delivered" => j = k

ReceiptIsDelivered ==
  row.status = "UPLOADED" => row.receipt # 0 /\ sess[row.receipt].state = "delivered"

PhoneInv ==
  /\ TypeOK
  /\ RowIsWhole /\ ThreadsAreWhole /\ LockIsExclusive /\ RevisionsArePast
  /\ StagingIsAlone /\ ExitIsOrdered /\ CleanedIsQuiet
  /\ AssignIsMeant /\ DropsAreRecorded /\ PayloadIsKept
  /\ SessionIsSingle /\ SessionsAreThere /\ DeliveredIsSingle /\ ReceiptIsDelivered
=============================================================================
