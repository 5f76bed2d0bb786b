# Mi Relay in TLA+

Mi Relay carries files one way, from a sender (an Android phone, or a
computer) to a receiver (a computer), through a relay server that keeps every
file until the receiver has it. This directory holds TLA+ models of that
system, the TLC configurations that check them on small instances, and TLAPS
proofs about eight of the eleven components: the relay's store, uploads and
pairing, both receivers and the sources they read from, the phone's transfers and a
Folder on the desktop. Line numbers in `PROJECT.json` ("map") tie every definition to
the code it models.

    tlc -workers 2 -config RelayStore.cfg MCRelayStore      # one run
    tlapm RelayStoreProofs.tla                              # the proofs

## 1. The system

| Part | State it keeps | Operations | Modelled in |
|---|---|---|---|
| Relay delivery store (`server/store.rs`) | SQLite `deliveries`; content-addressed objects; two `flock` files | enqueue, acknowledge, collect a digest, reconcile, list, download | RelayStore, PendingScan (list, download) |
| Directory versions on the relay (`server/directory.rs`) | `directory_versions`, the published inventory of the receiver | insert a version, directory receipt, state, publish | RelayStore, DirectorySender, FolderRegistry (first index) |
| Clean exit on the relay (`server/exit.rs`) | `folder_exits`, receipts of both roles | clean exit, resume at startup, status, receipt | RelayStore, TusUpload, FolderPairing |
| Resumable uploads (`server/tus_store.rs`, `tus_api.rs`) | `{id}.json` record and `{id}.part` bytes per upload | create, append, finalize, discard, purge | TusUpload |
| Folder pairing (`server/folders.rs`) | `folders`: invitation, sender, ready, disconnected | create, claim, confirm, renew, disconnect, authorize | FolderPairing |
| Flat receiver (`sync.rs`, `state.rs`, `storage.rs`, `wallpaper.rs`) | `state.json`, the library, a running command | sync, retry, receive, quarantine, receipts, wallpaper queue | SyncReceiver |
| Directory receiver (`directory/receiver.rs`) | ledger, journal, target directory, history | open, recover, synchronise, apply, receipts | DirectoryReceiver |
| Directory sender (`directory/sender.rs`, `directory.rs`) | ledger with baseline and one pending job, staged copy | preview, initialize, send, flush | DirectorySender |
| Upload client (`tus_client.rs`) | `resume.json` | create, resume, verify, finish | PhoneTransfer |
| HTTP client of the receiver (`http_source.rs`) | none between calls | scan with pages and a deadline, download, acknowledge | PendingScan |
| Filesystem source (`source.rs`) | an inbox of manifests, payloads and markers | enqueue, scan, open, acknowledge | PendingScan |
| Android transfer queue (`UploadQueue.kt`, `UploadWorker.kt`, `RelayStore.kt`, `FileImporter.kt`) | SQLite transfers with a work id; staged files | enqueue, pause, recover, upload, import | PhoneTransfer |
| Android automatic sources (`AutoCoordinator.kt`, `AutoStore.kt`, `DirectorySyncStore.kt`) | sources with a revision, known files, directory versions | enable, scan, stage, commit, pause, settle | PhoneTransfer (enable, commit, pause, resume) |
| Clean exit on the devices (`FolderExit.kt`, `FolderWorkGate.kt`, `desktop/clean_exit.rs`) | exit phase of a Folder, operation locks | request, clean locally, receipt | PhoneTransfer (phone), DesktopFolder (desktop) |
| A Folder on the desktop (`desktop.rs`, `desktop/clean_exit.rs`, `connection.rs`) | its configuration's connection state; three locks | receive, edit, disconnect, clean exit, remove | DesktopFolder |
| Registry (`bridge_registry.rs`), configurations (`config.rs`), `directory_panel.rs` | `bridges.toml`, one file per Folder, the resources they claim | create, import, edit, review a directory, remove | FolderRegistry |
| Pairing panel (`pairing_panel.rs`, `pairing.rs`) | the dialog's step, requests on their way | create, check, confirm, renew | FolderPairing |
| Window (`desktop.rs`, `desktop/files.rs`, `sidebar.rs`, `navigation.rs`, `sorting.rs`) | the view state, a worker thread and its channel | load, receive, select, filter, page, timers | DesktopUi |
| User interfaces, appearance, previews, JNI glue | none that decides a delivery | - | no |

### How the parts interact

A **sender** opens a session on the relay (TusUpload), appends chunks, and the
last chunk makes the relay enqueue a delivery (RelayStore). A **receiver** lists
pending deliveries, downloads, verifies and stores the bytes, records that
durably, and only then acknowledges; the receipt lets the relay collect the
content. For a directory Folder the unit is a version of a path: the receiver
acknowledges a version together with all older ones of the path, projects it
into a user's directory, and publishes an inventory that the sender compares its
source with. All of it happens in the scope of a **Folder**, which two devices
pair (FolderPairing) and either may end; ending it revokes the credentials,
removes what the Folder left on the relay, and collects a receipt from each side.

### What is hard in it

* The relay's operations run concurrently, in threads and in separate processes
  (`mirelay-server reconcile`), over a file system and a database that cannot
  change together. Two advisory locks and SQLite's single writer order them.
* Every durable change of more than one file has crash points between them.
* Receipts are the only thing that lets bytes disappear, and the answer to a
  receipt can be lost.
* A request reads the database in one call and writes in another.
* The receiver's directory belongs to its user, who changes it at any moment.
* A wallpaper command has an effect that cannot be undone or observed.
* Several desktop processes and the command line work on the same files, each
  holding only some of three locks.
* The window's thread learns of a file by an event, by the result that follows and
  by a reload, in any mixture with the user's input.
* A phone's upload outlives the decision to stop it: cancelling a job marks it, the
  thread goes on until it looks, and the same work id can run twice at once.

### What makes each part correct

* Store: content that is owed exists; a superseded version never returns; a
  cleaned Folder owns nothing; a requested exit completes once no part without an owner is left.
* Uploads: an offset that was reported is on disk; an upload is published only
  when verified; a retrying client finishes.
* Source: a scan mentions all that was owed throughout and nothing that never was;
  a receipt that was reported stays.
* Pairing: only a sender whose code the user compared becomes ready; ending is
  final; receipts are given by the device that did the work.
* Receivers: a receipt is backed by durable bytes and a durable record; no user
  data is lost; everything on the relay is eventually received.
* Sender: what it takes as already delivered really is; every file arrives.
* Phone: a file is delivered once whatever is lost; its bytes stay until the
  receipt is recorded; only the user resumes; a clean exit leaves nothing.
* Desktop: a configuration says what is true of relay and disk; a stop is final; a
  pending exit ends; no file has two owners; an idle window shows what was loaded,
  and no new file goes unmarked.

`PROJECT.json` lists the places where these can go wrong ("hazards") with the
properties that would notice.

## 2. Modules

Eleven component modules, each with an `MC` module that fixes constants for TLC,
one abstract specification (DeliverySource), and for eight of the components a module of
theorems and proofs, `...Proofs`. Constants named `Max...` are bounds: they limit how often
something outside the program's control happens (failures, user edits, new
ledgers) and never what the program itself does with what it has.

### RelayStore

`row` is the `deliveries` table (absent, pending, acked), `objects` the content
directory, `exit` the `folder_exits` table, and `uploadLock`, `contentLock` and
`writer` the two lock files and SQLite's writer. A *worker* is one execution of
an operation in any thread or process; `pc`, `job` and `todo` are its place in
the code. Operations are split where another worker can see the difference:

| Action | Code |
|---|---|
| `FinalizeUpload`, `EnqueueCommand`, `EnqueueLock`, `EnqueueReceive`, `EnqueueInsert` | `enqueue_directory_with_id`, with `insert_directory_version` inside the insert |
| `Acknowledge`, `AckDirectory` | `acknowledge`, `ack_directory`, which continue into the collection of the digests they freed |
| `GcLock`, `GcRemove` | `garbage_collect_digest`, for each digest of `todo` |
| `ReconcileLock`, `ReconcileRemove` | `reconcile_content` |
| `ExitRevoke`, `ExitLockUploads`, `ExitLockContent`, `ExitPurgeUploads`, `ExitBegin`, `ExitRemove`, `ExitCommit`, `ExitResume` | `clean_exit`, `resume_exits`, the refusal of `purge_folder_uploads_locked` |
| `DiscardTorn` | `discard_upload`, stopped between the record and the part |
| `Review` | the administrator, who removes such a part |
| `Fail` | an error or a crash at any step: locks and transaction are released, files stay as they are |

The constants `DeviceOf`, `DigestOf`, `PathOf` and `VersionOf` give every
delivery id its owner, content, path and version; `Nested` tells which paths
cannot exist together. Of the uploads directory the module keeps one fact,
`fragment`: it holds a part without a record, whose owner nobody can tell, so
`purge_folder_uploads_locked` refuses the exit of every Folder. What an exit removes
from that directory is in TusUpload, the credentials are in FolderPairing.

### TusUpload

The record and the part file of each upload, the deliveries row that completion
makes, and the holder of the uploads lock step by step (`at`). Bytes are `"ok"`
(as announced) or `"bad"`, so that verification at completion is a real check on
what was appended. `Fail` may strike between any two durable steps: a chunk may be
written and not recorded, a record removed and its part not. `Revoke`,
`PurgeBegin`, `PurgePart`, `PurgeRecord` and `PurgeEnd` are the upload side of an exit.

### FolderPairing

One Folder, its receiver and competing senders. A request that looks up the
identity in one call and writes in another is a record in `inflight` between the
two (`ConfirmIdentify`/`ConfirmWrite`, and so for renewing, exits and receipts);
anything may happen in between, and `Drop` loses it. The desktop's panel is part
of the module: it creates the Folder, polls, shows a code, confirms or renews, one
request at a time (`Run`, `Answer`), and may stop waiting (`GiveUp`, the ten seconds
of the client) while the relay still carries the request out. Phones join with any
invitation they have seen. The ghosts `approved`,
`localDone` and `revoker` remember what users and devices really did, for the
properties; no guard of the relay reads them.

### DirectoryReceiver

The target directory of a user (`target`, where `mine` marks the inode that the
journal names), the staged file, `history`, the journal, and the ledger in memory
and on disk. Recovery is a chain of actions (`RecoverRename`, `RecoverExchange`,
`RecoverArchive`, `RecoverRecord`, `RecoverClear`), the same that a normal commit
runs through, as in the code. `UserChanges` replaces, rewrites or deletes a
file at any time; `Fail` is a crash or an error at any step; `SenderStores` adds a
version on the relay.

### SyncReceiver

`state.json` on disk and in memory, the library's objects (good, damaged or
missing), the deliveries the relay lists, and the wallpaper command. `Start(m)`
begins a synchronisation or one of the two retry commands; the state may hold
records of an earlier release (`Old`), which `Load` accepts and the queue migrates. Every save may fail,
which leaves memory ahead of the disk, and `Crash` may strike anywhere; a command
that was started survives its parent. An acknowledgement may be taken by the
relay although the call reports an error. Two variables only record history, and no
guard reads them: `released` holds the deliveries that a retry took up while no command
was configured, `cleared` the uncertain ones that a retry took up and could not start.

### DirectorySender

The sender's ledger (baseline `files`, `next` version, one pending `job`), its
staged copy, the relay's rows and the receiver's published index, and a receiver
that fetches, applies, acknowledges and publishes in its own time. The user edits
the source, and the Folder may get a sender with a new ledger.

### PhoneTransfer

One file of one Folder of a phone, from staging to the receipt, and out again by a
clean exit. `row`, `folder`, `exit` and `auto` are the phone's database, `dir` the
staging directory with owner marker, payload and `resume.json`, `sess` and `late` the
relay's sessions and the requests it may still serve.

| Actions | Code |
|---|---|
| `Import...` | `FileImporter.stageLocked`, the commit of the row, the caller's enqueue |
| `Retry`, `Recover`, `Pause`, `PauseAutomatic`, `Queue...` | `UploadQueue`, whose monitor is `queue`: the row is read, the work id assigned and the job submitted in three steps |
| `EnableAuto`, `ResumeDirectory` | a new revision of the automatic source |
| `Start`, `Own`, `Recheck`, `Record`, `DropPayload`, `DropResume` | `UploadWorker.workLocked` in one of `Threads` |
| `Lock`, `Create`, `Save`, `QueryHead`, `Progress`, `Patch...` | `upload_with_events`, under its lock file |
| `Disconnect`, `FinishDisconnect`, `RemoveFolder`, `Exit...` | disconnection and `FolderExit.run` with the work gate |
| `Crash`, `StopJob`, `LatePatch`, `PeerExit` | what the environment does |

WorkManager is external and taken for what the code relies on: `REPLACE` and
cancellation finish a job and flag its thread, which keeps running; a job whose
constraints fail, or whose process dies, is enqueued again under the same work id,
so that two threads can own the transfer. A work id is a UUID; the model reuses
one that nothing refers to any more. A request to the relay is one step, or one that fails with any of its
outcomes; what happens inside is TusUpload's subject. The relay's refusal of a Folder
that left is `relay = "purged"`; it makes the client discard `resume.json`.

### DeliverySource and PendingScan

DeliverySource states what `sync.rs` may expect of the trait of that name. A scan has
a set that it must mention (owed for as long as it runs) and one that it may mention
(owed at some time while it runs); only refused deliveries may be reported as issues
instead of listed; a confirmed acknowledgement stays.

PendingScan holds both implementations, `kind` says which one is configured, and
drives them as `sync.rs` does: settle old receipts, scan, open, read, acknowledge.

| Actions | Code |
|---|---|
| `ListSnapshot`, `ListContinue`, `ListSelect` | `list_pending`: the snapshot of the first page, the cursor of the others, the page |
| `ReadPage`, `PageLost`, `PageCutShort`, `Finish` | `HttpSource::scan_pending`: pages, retries, the page limit, duplicates |
| `OpenPayload`, `OpenMissing`, `OpenLost`, `ReadPayload`, `BodyLost` | the download, with a row or an object that another receiver's receipt removed |
| `AckCommit`, `AckCollect`, `AckAnswer`, `AckLost` | the receipt as the relay serves it: commit, collection, answer |
| `ReadDirectory`, `ReadManifest`, `ManifestsRead`, `OpenFile` | `FilesystemSource::scan_pending` and `open_payload` |
| `AckReadMarker`, `AckPersist`, `AckSync` | `FilesystemSource::acknowledge`; a marker is not durable before its directory is synced |

`Refines` says that PendingScan implements DeliverySource; the refinement maps `owed`
to `Owed` (rows of the list, or manifests, without a receipt) and the rest to itself.
Only inbox markers can be undone by a power failure: the relay's database runs with
`synchronous = FULL`.

### DesktopFolder

One Folder on one machine, with several desktop processes (`--new-instance`) and
`mirelay sync` on the same files. `conf` is the Folder's configuration file, `files`
its `state.json` with the retirement marker, `regLock`, `opLock` and `stateLock` the
three locks. Disconnection, clean exit, editing, receiving and removal are sequences of
actions that stop where a lock is taken or released, a file written, or a request sent.
Clean exit saves under the operation lock, everything else under the registry lock; what
keeps them apart is that each compares the file with what it read.

### FolderRegistry

`bridges.toml` and the configurations of all Folders, and the resources they claim.
Paths are sequences of names, `Canon` resolves symlinks, and `ResourceProblem` is the
code's comparison of two Folders: overlapping trees, a state file inside a library, one
device, one relay queue. Creation checks, writes the configuration, and checks again
under the registry lock; import reads the bootstrap configuration; a directory Folder is
reviewed first, claims its relay queue and publishes the first index.

### DesktopUi

The window's state is the record `ui`: views, selection, marks, filters, page, the rows
that are drawn. The handlers are operators on that record, named after the methods; `Batch`
folds them over the messages a timer tick takes from the channel, and the worker's steps
(`Work`) load the registry or receive for a list of Folders and send what the code sends.
`Elsewhere` is what other processes do to the files. A clean exit is split where the
files or the view can differ: `BeginExit` and `FinishExit` save the configuration,
`ReloadExited` reads it again for the view, `ExitStaysPending` and `ExitOvertaken` are
the runs that end otherwise (the phone's receipt is missing, or another process was
first, `OtherFinishesExit`). `ExitPending` stands for `ExitLocalCleaned` too;
DesktopFolder has the steps in between. A missing receipt counts as a fault under `MaxFaults`.

### Composition

The modules meet at the relay's rows: TusUpload's `Enqueue` is RelayStore's
enqueue seen from a session; the receivers' acknowledgements are RelayStore's
receipts; the rule that a directory receipt covers all older versions is used as
an assumption in DirectoryReceiver and DirectorySender (`Received`,
`ReceiverApplies`) and is what `AckDirectory` does and `AckedIsDownwardClosed`
states in RelayStore. PhoneTransfer's `Served` and `Finalized` are TusUpload's append and
completion as a client sees them, and rest on its `OffsetIsDurable`. SyncReceiver takes
a scan as one step, which is what DeliverySource allows it and PendingScan shows;
DesktopFolder's requests to the relay are FolderPairing's, and its clean exit is the
receiver's half of FolderPairing's receipts. `ReceiptIsBacked` in both receivers is the other half of
RelayStore's right to collect: the relay forgets content only after a receipt, and
a receipt is only given for bytes that are durable elsewhere.

## 3. Runs

State counts are those of distinct states.

| Run | What it shows | Instance |
|---|---|---|
| `relay_store` | owed content exists, a cleaned Folder owns nothing, receipts of a path are downward closed, in every interleaving; every requested exit completes, unless a part without an owner blocks it | 2 workers, 2 Folders that share a digest, a path with 2 versions and one nested below it, 1 failure (258k states; safety also with 2 failures, 571k) |
| `tus_upload` | offsets durable, only verified bytes published, exits leave nothing; a client that keeps resuming finishes | 2 uploads of 2 Folders, 2 bytes, 2 failures, one colliding upload (226k states) |
| `folder_pairing` | a stale or late confirmation cannot confirm a replacement; ending is final; receipts honest | 2 senders, 3 invitations, 2 requests on their way, the panel (1.35M states) |
| `delivery_source` | both sources implement DeliverySource; the page limit stops no scan that fits; what is owed is acknowledged | 3 deliveries and a directory version, pages of 1, 2 pages, 2 attempts, 1 fault (694k states) |
| `directory_receiver` | nothing of the user's is lost, receipts are backed, conflicts honest, recovery possible; every version gets its receipt | 1 path, 2 versions, 2 edits, 2 failures (156k states) |
| `directory_sender` | the baseline is true; every source file arrives | 1 path, 2 contents, 1 edit, 1 failure, 1 new ledger (356k states) |
| `directory_stale_baseline` | *violation*, see findings | 1 path, 2 edits |
| `sync_receiver` | receipts backed, no replay without a request; deliveries settle, damage is repaired | an image and another file, 2 failures, 1 damage, 2 retries, an old record (291k states) |
| `phone_transfer` | one delivery per file, payload kept, nothing after a clean exit, no resumption but the user's; a queued transfer is settled | 1 file of one chunk, 2 threads, 1 failure, 1 tap (904k states) |
| `desktop_folder` | the configuration is true of relay and disk, removal follows revocation, a stop is final; an exit ends | 2 desktops, 1 command line, 2 relay addresses, 1 failure (224k states) |
| `folder_registry` | no two owners of a file, device or queue; every entry has its configuration | 2 processes, 2 new Folders and the bootstrap one, 4 places that overlap (847k states, Folders and addresses symmetric) |
| `desktop_ui` | an idle screen is true, new files are marked; an exit shown as pending is carried to its end | 2 Folders, one of them a directory, 2 files, pages of 1, 2 inputs, 1 receive, 1 fault (449k states) |

Every module has a `TypeOK` that says what its variables range over. In the eight modules
of section 5 it is proved; elsewhere it documents the state, and holds when it is
added to the run's cfg. The inductive invariants of the proofs are stated in the component
modules, so that TLC can check them as well: each was an invariant of its run's
instance before it was proved.

### Why the bounds are enough

Two workers are the smallest number in which one operation can act on what
another has found out; a third would have to be blocked by the same lock that
already excludes the second, and the theorems of section 5 hold for any number.
What section 5 proves does not depend on any bound of this section.
Two Folders with a common digest make a removal for one a danger for the other.
Two versions of a path are what "older than an acknowledged one" needs. Failures
are bounded by two where a failure can hit the recovery from a failure (uploads, both
receivers, and the store's safety), and by one elsewhere. One path suffices where the code handles paths independently of each
other; the runs about colliding paths use two. Two bytes per upload give a chunk
boundary in the middle and at both ends. In PhoneTransfer two threads are
what a job that is stopped and enqueued again can have at once; three work ids (1.18M states), a file of
two chunks (1.26M states) and two taps of the user (4.2M states) were each checked for the
safety properties. In DirectorySender the versions (4)
outnumber what one edit and one new ledger can use, so the version bound never
stops a file from arriving; with 2 edits and 2 failures, and 2 versions, the
safety properties were also checked (2.3M states). In PendingScan three deliveries on pages of one are
one more than a scan of two pages can hold, so the limit is met and passed; deliveries that
arrive during the scan fall behind its snapshot. In DesktopFolder two desktops and a command
line are one process more than any pair of conflicting operations needs, and the second
relay address is what an edit would switch to. In FolderRegistry two processes race, and
the four places overlap in each way the code distinguishes. In DesktopUi one file fits on a
page and the second does not, and the filters are the two that hide something; all
filters together were also checked for the safety properties (792k states).

### Deadlock

TLC checks for deadlock except in runs whose system may really stop: TusUpload (the
uploads are done, or their Folders have left), FolderPairing (a disconnected Folder
with both receipts, or no invitation left under its bound), DirectorySender (no
version left under its bound while the source is up to date), PhoneTransfer (the file
is uploaded, or the Folder was removed), FolderRegistry (all Folders created and nothing
left to do), DesktopUi (an idle window without automatic Folders).

### Fairness

* RelayStore: strong fairness of every worker's next step. Locks are `flock`s that
  block until they are granted, and a lock that is released again and again is
  eventually granted. An exit that was left unfinished is resumed: by the service
  at startup (`resume_exits`), by the `reconcile` command, and by the client, which
  repeats its request. Nobody makes the administrator act: `Review` is not fair, and
  `ExitCompletes` promises nothing while a part without an owner is there.
* TusUpload: the holder of the lock goes on, and a client keeps resuming from the
  offset the relay reported. Nothing is assumed about how much of its body arrives.
* Receivers: synchronisation is started again and again (the desktop's automatic
  receiving, a timer, or the user), which the code does by polling; a step of a
  running process is taken. Nothing is assumed about failures, except that they
  are finitely many (the bound).
* DirectorySender: sending and synchronising are repeated. Previewing and
  confirming are the user's decisions and are not fair: `SourceArrives` speaks of
  an initialised sender.
* PendingScan: the receiver's next step is taken (every request returns, if only with a
  time-out, and runs are repeated). What the relay's other clients do is not fair.
* DesktopFolder: strong fairness of a desktop's operation and of its timer's retry,
  because both wait for locks that others take and release again; the phone cleans up
  once it hears of the exit (`PeerCleaned`), for Folders whose phone is active.
* DesktopUi: the timer that drains the channel runs (`TimerRuns`, weak fairness written
  out), the worker and the automatic check run, a setup task ends and nobody leaves the
  settings open for good: automatic checks wait for that dialog.
* PhoneTransfer: threads and the holder of the queue go on, jobs are run, a request
  still on its way is served or dropped, and the application is opened again, which
  runs `recover()`. Taps, imports and exits are not fair: `QueuedIsSettled` promises
  that a queued transfer ends uploaded, failed, paused or removed, not uploaded.

## 4. Findings

`directory_stale_baseline` expects TLC's counterexample to a statement of the
repository: a comment in `directory.rs` says that an old
pending upload cannot undo an apparently identical baseline. Between a
receiver's acknowledgement of a version and the publication of its index, the
version is in neither of the two things `compare_remote` looks at. A sender
whose ledger is initialised in that window can take a path as identical that
the receiver has already overwritten, and then never sends it.
`BaselineIsTrueUnlessStale` shows that this window is the only way.

Further disagreements between text and code that modelling brought up, without a run of
their own:

* `docs/folder-clean-exit.md:15-17` says that the relay removes content with no
  pending references from another Folder. A payload is stored before its row is
  inserted; if the insert is refused (a path or version conflict), the object has no
  row, the search of `clean_exit` (`server/exit.rs:148`) goes through rows, and the object
  stays after the exit is reported as cleaned, until the next reconciliation.
* A comment in `tus_store.rs:87-88` says that a crash never turns an owned part into an
  orphan. `discard_upload` (`tus_store.rs:350-376`) removes the record first and the
  part second. From then on the purge of any exiting Folder meets a part whose owner it
  cannot tell, and refuses, on every retry, until an administrator removes the part
  (`docs/folder-clean-exit.md:79-80`). RelayStore has both steps, and `ExitCompletes` exempts the time
  in between.
* `docs/desktop.md:51,79` says that newly received files in another Folder are marked,
  and that a refresh detects new deliveries. A load replaces the selection by the one its thread read from the registry; a
  Folder selected while the load ran is deselected by it, and what arrived in it during
  the load gets no mark. `NewFilesAreNoticed` therefore excludes the Folder that was
  selected before the step.
* A comment at `desktop.rs:2523` says that a refresh establishes the persisted truth.
  After a receive that ended in an error the rows of the Folder are only rebuilt when
  their entries differ, so the button for a retained copy can be missing until then.
  `IdleScreenIsTrue` compares whole rows only where the last receive did not fail.
* A Folder whose configuration cannot be read stops every other one
  (`ensure_resources_unique` reads all), and the message says to repair or remove it
  first, while `confirm_remove_bridge` refuses to remove it for the same reason.

Observations that contradict no text of the repository:

* A retry command that runs while no wallpaper command is configured turns failed
  and uncertain records into `not_configured`, and the next automatic run after a
  command is configured takes those up. `ReplayIsExplicit` therefore counts that
  retry as the explicit request.
* `README.md:258-260` keeps uncertain records for `retry --include-uncertain`. When that
  command meets an uncertain record whose file is damaged, or cannot spawn the wallpaper
  command, it records `failed`; the next plain `retry` then replays it, although the
  first attempt may have taken effect. The proof of `ReplayIsExplicit` brought this up: it
  needs a second retry, so the run has two, and the property counts the first one
  as the explicit request.
* A new delivery whose object is already in the library, and damaged, is refused
  by `receive` on every synchronisation: only deliveries that have a record get
  their damaged file moved away. `DeliveriesSettle` excludes this case;
  `DamageIsRepaired` covers the recorded one.
* While more than `MAX_PAGES_PER_SCAN` pages are pending, every scan of the HTTP source
  fails and nothing is received; `OwedIsAcked` excludes a backlog that stays so.
* The inbox source checks a manifest before it looks for its marker, so a damaged
  manifest is reported even after its delivery was acknowledged; a list page whose body
  is cut short ends the scan, although a lost one is retried.
* The window may show a clean exit as pending after it is over: another process finished
  it, or the reload after the window's own run failed (`desktop.rs:2423-2432`). From then on
  `automatic_sync_requests` (`desktop.rs:4128-4131`) passes over the Folder, whose configuration says
  `Exited`, and the view stays as it is until a refresh. `PendingExitEnds` therefore
  speaks of the configuration.
* A second process that is about to save `Exited` writes the configuration again after
  `forget_receipt` removed it; the file is then left without an entry (`StopIsFinal`).

## 5. Proofs

Eight modules hold theorems. Each proves, for every value of the constants that its
component's assumption allows, that `Spec` keeps an inductive invariant, and derives
from it every safety invariant the component's run checks and, where the run has one,
its safety action property. The assumptions say that the constants have the right
kind (`DeviceOf` is a function, a bound is a natural number, a file has at least one
byte) and that the values for "nothing" are not values of something; none limits the number of
workers, devices, files, versions, failures or edits.

| Module | Theorem | Statement |
|---|---|---|
| RelayStoreProofs | `StoreTyped` | `[]TypeOK` |
| | `OwedContentIsKept` | `[]PendingHasContent` |
| | `CleanExitIsClean` | `[]CleanedOwnsNothing` |
| | `NoResurrection` | `[]AckedIsDownwardClosed` |
| | `RowsAdvance` | `RowsOnlyAdvance`, an action property |
| TusUploadProofs | `UploadTyped` | `[]TypeOK` |
| | `ReportedBytesAreDurable` | `[]OffsetIsDurable` |
| | `RowsWereVerified` | `[]DeliveredWasVerified` |
| | `CleanExitHasNoUpload` | `[]CleanedHasNoUpload` |
| FolderPairingProofs | `PairingTyped` | `[]TypeOK` |
| | `ReadyNeedsApproval` | `[]ReadyWasApproved` |
| | `OnlyPartiesRevoke` | `[]RevokedByParty` |
| | `ReceiptsHonest` | `[]ReceiptsAreHonest` |
| | `DisconnectionIsFinal` | `DisconnectIsFinal`, an action property |
| DirectoryReceiverProofs | `ReceiverTyped` | `[]TypeOK` |
| | `ReceiptsBacked` | `[]ReceiptIsBacked` |
| | `ConflictsHonest` | `[]ConflictsAreHonest` |
| | `RecoveryPossible` | `[]RecoveryIsPossible` |
| | `NothingLost` | `NothingIsLost`, an action property |
| SyncReceiverProofs | `SyncTyped` | `[]TypeOK` |
| | `ReceiptsBacked` | `[]ReceiptIsBacked` |
| | `NoSilentReplay` | `ReplayIsExplicit`, an action property |
| PendingScanProofs | `ScanTyped` | `[]TypeOK` |
| | `ScanFits` | `[]ScanFitsBacklog` |
| | `ScanRefines` | `Refines`, that is DeliverySource's `Spec` |
| PhoneTransferProofs | `PhoneTyped` | `[]TypeOK` |
| | `FileDeliveredOnce` | `[]DeliveredOnce` |
| | `PayloadKept` | `[]PayloadIsKept` |
| | `CleanedForGood` | `[]CleanedStaysClean` |
| | `UserResumes` | `OnlyTheUserResumes`, an action property |
| DesktopFolderProofs | `DesktopTyped` | `[]TypeOK` |
| | `ConfigurationTrue` | `[]ConfigurationIsTrue` |
| | `RemovedRevoked` | `[]RemovedWasRevoked` |
| | `StopFinal` | `StopIsFinal`, an action property |

A module has one lemma per operation, or per group of operations that disturb
the same parts, with one step per conjunct of the invariant that it can disturb; a lemma
about the steps that leave a group of variables alone takes care of the rest. Almost no
property is inductive alone; what each invariant adds is the argument of the
proof.

**RelayStore, `StoreInv`.** A collector about to remove an object is harmless only
because nothing became pending since it looked.

* `LockDiscipline`: who changes objects, or inserts or deletes rows, holds the
  content lock, and who empties a Folder holds the writer too.
* `JobTyped`: what a worker's job is at each step, and that an exit in progress has
  revoked its Folder.
* `StillTrue`: what a worker found out under the lock (the row is absent, the object
  is there, the digest is not referenced) is still true when it acts. Another worker
  could only falsify it by inserting a row, for which it would need the lock as well.

**TusUpload, `UploadInv`.** The uploads lock serialises requests, but a Folder's exit
begins, and rows are acknowledged, without it. `HolderKnows` says what the holder has
established and keeps (the record it read, the bytes it synced, that the payload was
verified), `HolderTyped` what it works on, and `RowsAreComplete` that an upload
with a row has nothing left to append, so a repeated request cannot roll it back.

**FolderPairing, `PairingInv`.** A request is authorised in one database call and
writes in another. `RequestsKeepTheirGround` keeps the part of its ground that cannot
be undone (a code the user accepted, a device that cleaned up, the role of a
credential); what can be undone, the `UPDATE` checks again. `ExitDisconnects` freezes the
sender that the receipts of an exit are about.

**DirectoryReceiver, `ReceiverInv`.** The journal, the ledger in memory, the ledger on
disk and four names in the file system change one at a time, and the user changes the
target between any two. Three groups of conjuncts:

* where the bytes are: `JournalIsThere`, `InodeHasOneName` (the journal's inode is
  staged, at its target or archived, never twice), `FilesAreUntouched`,
  `SameIsUntouched`, `ReplacedIsKept`. They give `NothingIsLost` and
  `RecoveryIsPossible`.
* in which order they are recorded: `LedgersAreOrdered`, `JournalIsNext`, `LedgerIsSaved`,
  `EntryIsNew`. They give `ReceiptIsBacked`.
* whose bytes they were: `DigestsAreKnown`, `JournalIsKnown`, `CommitsAreMarked`,
  `MemoryIsHonest`. They give `ConflictsAreHonest`.

**SyncReceiver, `SyncInv`.** `MemoryIsAhead` relates memory and `state.json`
after saves that failed; `ReceiptIsPrepared` says what the steps before a receipt have made durable;
`CurrentIsRecorded` and `CurrentIsVisited` tie the delivery at hand to the loop. For the
wallpaper command, `RecordsAreEarned` says what each recorded status means for
what the command may have done, and `QueueIsEligible` that `running` is on disk before
the command starts, so that a crash leaves it uncertain, not fresh.

**PendingScan, `ScanInv`.** A scan is many requests, each answered from another state of
the relay; both results rest on what its pages have in common.

* `PagesCover`: what was owed since the scan began is mentioned already, is on the page
  at hand, or lies behind the cursor and inside the snapshot. Rows keep their sequence
  numbers (`SourceIsSound`), so neither arrivals nor receipts of others move a row
  across the cursor. `ManifestsCover` says the same of the inbox, whose names are read
  once, and that only a copied manifest names a delivery twice.
* `PagesAreFull`: each page before the present one named `PageSize` deliveries that were
  owed at the snapshot, each for the first time. With `MAX_PAGES_PER_SCAN` of them and a
  row to spare the snapshot held more than that: `ScanFitsBacklog`.
* `ScanIsWatched` ties the scan to the window DeliverySource watches, and
  `ReceiptsStay` says that what was confirmed is synced, so that a power failure
  cannot undo it.
* `WorkIsListed`: what is opened was listed and is not in hand yet; what is
  acknowledged is in hand.

`ScanRefines` maps `owed` to `Owed` and the other variables to themselves. An arriving
row or the first manifest of a delivery is `Offer`, a marker or a committed receipt is
`Acknowledge`, or nothing if another receiver was first. The last page and the end of
the inbox are `EndScan`, whose condition `PagesCover` and `ManifestsCover` discharge;
stopping for whatever reason is `Abandon`, with the unsynced markers a power failure
takes. Everything else, such as pages, retries, collections and copies, stutters.

**PhoneTransfer, `PhoneInv`.** `DeliveredOnce` is about the relay's sessions, which
outlive the process, the work id and the thread that made them.

* One live session, that is one that is delivered, or holds bytes or a request that
  the relay may still serve: `OneLive`; `LiveIsNamed` (`resume.json` names it until
  the payload is gone); `Looked` (a thread about to create or save one has found none, and
  one that sends uses the saved one). A session created by a thread that died before
  saving it is not live, and nobody sends to it. With `DeliveredIsSingle`, which also
  covers a relay that has closed the Folder, they give `DeliveredOnce`.
* Order of deletion: `DropsAreRecorded`, `ReceiptIsDelivered`, `StagingIsAlone`.
  They give `PayloadIsKept`.
* Exit: `ExitIsOrdered` (Folder, then relay, then gate) and `CleanedIsQuiet` (no
  thread, job or import is left that could write).
* Ownership: `RowIsWhole`, `ThreadsAreWhole`, `LockIsExclusive`, `SessionsAreThere`,
  and for resumption `AssignIsMeant` and `RevisionsArePast`: an assignment
  under way was made for a waiting row or by a tap, and a transfer of an automatic source
  carries a revision no later one can equal.

**DesktopFolder, `DesktopInv`.** Clean exit saves the configuration without the
registry lock that every other save holds. `UpdateIsCurrent` and
`ExitIsCurrent` say why this is safe: it changes only a configuration that is already
exiting, and never its relay; and only the call with the operation lock moves an exit on.
`HoldsItsLocks` and `CarriesConf` say what a call has, `RelayHasSaid` and `RelayInOrder`
that an answer of the relay stays true, `FilesStayClean` that no receive writes behind
the retirement marker.

Only model-checked: all liveness properties (fairness is outside the proof
system's reach here), and the properties of DirectorySender, FolderRegistry and
DesktopUi.

## 6. Not modelled, and why

* Hashing, sniffing of media types, descriptors and path checks: their outcome
  is an input ("verified", "collides").
* Parsing and formatting of requests, headers, cursors, configuration.
* Schema migrations of the relay's database.
* Two receivers of one Folder that publish successors of one index: the
  compare-and-swap of `publish_directory` loses only for a first index (FolderRegistry).
* A file whose path is a directory in another inventory (`compare`).
* Legacy device tokens (`server/mod.rs`), TLS, rate and size limits.
* On the phone: other files than the one followed, access to a source that the user
  revokes (it pauses Auto, as `PauseAutomatic` does), duplicate detection by hash, a
  change of the directory filter, photo previews, URI grants. On the command line: the
  completed session is forgotten at once, and `--max-chunks`.
* Desktop widgets, dialogs and drawing; the desktop's smoke tests; Android screens,
  previews, JNI conversions.

## 7. Plan

In this order; the modules written first are those where bytes can be lost for
everybody, then the ways in and out of the relay, then the desktop around them.

1. Done: RelayStore with its proofs, TusUpload, FolderPairing with the pairing panel,
   DirectoryReceiver, SyncReceiver, DirectorySender, PhoneTransfer, DeliverySource and
   PendingScan, DesktopFolder, FolderRegistry, DesktopUi.
2. Theorems. Done: every safety invariant, and the safety action properties listed in
   section 5, of RelayStore, TusUpload, FolderPairing, DesktopFolder, both receivers,
   PendingScan and PhoneTransfer; that PendingScan implements DeliverySource. Next:
   `BaselineIsTrueUnlessStale` of DirectorySender; then `OwnersAreDisjoint` and
   `EntriesAreUsable` of FolderRegistry and `IdleScreenIsTrue` of DesktopUi.
3. `AutoScan`: scan, stable files, duplicates, and the directory ledger of the phone.
4. An abstract `Mailbox` specification (offered, received, confirmed, forgotten) that
   RelayStore composed with a receiver implements.
5. Two receivers of one directory Folder.
