------------------------------ MODULE DesktopUi ------------------------------
(***************************************************************************)
(* The desktop window: one GTK thread that owns all of the view state, one *)
(* worker thread at a time, and the FIFO channel between them.  The worker *)
(* loads the registry or receives for a list of Folders and sends file     *)
(* progress and its result; the GTK thread drains the channel in batches   *)
(* from a timer and redraws.  User input (selecting, refreshing, opening   *)
(* the settings) and other processes' changes fall anywhere in between.    *)
(*                                                                         *)
(* The handlers are operators on the record `ui`, named after the methods  *)
(* of DesktopUi; a batch folds them over the messages it takes.            *)
(***************************************************************************)
EXTENDS Naturals, SequencesExt

CONSTANTS Folders,      \* registered Folder ids
          Directories,  \* the directory-sync ones
          Files,        \* delivery ids, numbered in the order they arrive
          PageSize,     \* FILE_PAGE_SIZE
          FileFilters,  \* the filters a user turns to
          FolderFilters,
          MaxInputs,    \* bound on what the user does
          MaxReceives,  \* bound on files the worker settles
          MaxFaults,    \* bound on failed calls and other processes' changes
          None

ASSUME UiAssumption ==
  /\ Directories \subseteq Folders /\ None \notin Folders
  /\ Files \subseteq Nat \ {0}
  /\ PageSize \in Nat \ {0}
  /\ FileFilters \subseteq {"All", "InProgress", "Attention", "Completed"}
  /\ FolderFilters \subseteq {"All", "Attention", "Pending", "NewFiles"}
  /\ {MaxInputs, MaxReceives, MaxFaults} \subseteq Nat

VARIABLES
  registry, \* bridges.toml: the Folders in order, the selected one, Auto, kinds
  disk,     \* per Folder: its configuration's state and health, its records
  ui,       \* DesktopUi, with what is drawn on the screen
  worker,   \* the running thread
  queue,    \* the mpsc channel of WorkerMessage
  budget    \* what the bounds leave

vars == <<registry, disk, ui, worker, queue, budget>>

\* A flat record whose acknowledgement failed has an error; one of a directory
\* is pending without an error, or acknowledged as a conflict.
Records == [id : Files, state : {"acked", "pending", "error", "conflict"}]
Ids(recs) == {r.id : r \in recs}

Resting == [task |-> "none", todo |-> <<>>, step |-> "start", file |-> 0,
            issues |-> FALSE, seen |-> {}, read |-> None, done |-> <<>>]

-----------------------------------------------------------------------------
(* Snapshots.  A retained copy (Applied.history) comes with the snapshot   *)
(* of a directory Folder and with nothing else; every version of the one   *)
(* path of such a Folder is a record id of its own.                        *)

\* An exiting Folder is no longer read as a directory.
IsDirectory(f, conn) == f \in Directories /\ conn = "Connected"

DirectorySnapshot(f, conn) ==
  [recs |-> disk[f].recs, conn |-> conn, kept |-> Ids(disk[f].recs)]

\* A directory Folder has no deliveries in its flat state.
SnapshotFromConfig(f, conn) ==
  IF IsDirectory(f, conn) THEN DirectorySnapshot(f, conn)
  ELSE [recs |-> IF f \in Directories THEN {} ELSE disk[f].recs, conn |-> conn, kept |-> {}]

LoadSnapshot(f) ==
  IF disk[f].health = "broken" THEN None ELSE SnapshotFromConfig(f, disk[f].conn)

\* mark_resource_conflicts leaves the snapshot and adds an error.
Conflicts(f) == disk[f].health = "conflict"

\* load_registry_snapshot for one registration.
LoadView(r, f) ==
  [id |-> f, auto |-> r.auto[f], album |-> r.album[f],
   snap |-> LoadSnapshot(f), error |-> LoadSnapshot(f) = None \/ Conflicts(f)]

Has(u, f) == \E i \in DOMAIN u.bridges : u.bridges[i].id = f
View(u, f) == LET i == CHOOSE j \in DOMAIN u.bridges : u.bridges[j].id = f
              IN  u.bridges[i]
HasSnap(u, f) == Has(u, f) /\ View(u, f).snap # None
Snap(u, f) == View(u, f).snap

SetView(u, f, v) ==
  [u EXCEPT !.bridges = [i \in DOMAIN @ |-> IF @[i].id = f THEN v ELSE @[i]]]

-----------------------------------------------------------------------------
(* What is drawn.                                                          *)

Quiet == [x \in Files |-> "none"]

Live(u, f) == {[id |-> x, live |-> TRUE, status |-> u.activity[f][x]] :
                 x \in {y \in Files : u.activity[f][y] # "none"}}

SavedEntry(r) == [id |-> r.id, live |-> FALSE, status |-> r.state]

IsActive(e) == e.live /\ e.status = "active"
NeedsAttention(e) == e.status \in {"error", "conflict"}
IsPending(e) == IsActive(e) \/ (~e.live /\ e.status \in {"pending", "error"})
IsComplete(e) == ~e.live /\ e.status = "acked"
Matches(e, filter) ==
  CASE filter = "All" -> TRUE
    [] filter = "InProgress" -> IsPending(e)
    [] filter = "Attention" -> NeedsAttention(e)
    [] filter = "Completed" -> IsComplete(e)

ReceivedAt(e) == IF e.live THEN 0 ELSE e.id

\* Candidate::compare with FileSort::Newest.
Before(e, g) ==
  IF IsActive(e) # IsActive(g) THEN IsActive(e)
  ELSE IF ReceivedAt(e) # ReceivedAt(g) THEN ReceivedAt(e) > ReceivedAt(g)
  ELSE e.id < g.id

\* FileHistory::page: live activity overrides the saved record with its id.
Page(u, f) ==
  LET live == Live(u, f)
      saved == {SavedEntry(r) : r \in {s \in Snap(u, f).recs : s.id \notin {e.id : e \in live}}}
      view == u.views[f]
      visible == {e \in live \cup saved : Matches(e, view.filter)}
      sorted == SetToSortSeq(visible, Before)
  IN  SubSeq(sorted, 1, IF view.limit < Len(sorted) THEN view.limit ELSE Len(sorted))

\* delivery_row_with_directory: a row offers the retained copy it knows of.
RowOf(u, e) == [entry |-> e, kept |-> e.id \in Snap(u, u.selected).kept]

\* The phase of a running transfer, or the state of the connection.
StateLabel(u, f) ==
  IF Snap(u, f).conn # "Connected" THEN Snap(u, f).conn
  ELSE IF \E x \in Files : u.activity[f][x] = "active" THEN "phase" ELSE "Ready"

\* What may be clicked.
Sensitivity(u) ==
  LET snap == HasSnap(u, u.selected) IN
  [idle |-> ~u.busy,
   valid |-> snap /\ ~View(u, u.selected).error,
   connected |-> snap /\ Snap(u, u.selected).conn = "Connected"]
UpdateActionSensitivity(u) == [u EXCEPT !.controls = Sensitivity(u)]

\* In the list only the rows whose entry changed are replaced; an album is
\* rebuilt as soon as one of them did.
RenderFileList(u) ==
  LET f == u.selected
      context == <<f, View(u, f).album>>
      v == IF u.context = context THEN u
           ELSE [u EXCEPT !.rows = <<>>, !.rendered = <<>>, !.context = context]
      entries == Page(u, f)
      Unchanged(i) == i \in DOMAIN v.rendered /\ v.rendered[i] = entries[i]
      rows == IF v.rendered = entries THEN v.rows
              ELSE [i \in DOMAIN entries |->
                      IF Unchanged(i) /\ ~View(u, f).album THEN v.rows[i]
                      ELSE RowOf(u, entries[i])]
  IN  [v EXCEPT !.pending = FALSE, !.page = "files", !.rendered = entries, !.rows = rows,
                !.label = StateLabel(u, f)]

RenderEmptyState(u) ==
  UpdateActionSensitivity(
    [u EXCEPT !.context = None, !.rows = <<>>, !.rendered = <<>>, !.page = "empty"])

\* "Every 60 seconds" is promised only while the Folder is connected.
AutoLabel(u, f) == View(u, f).auto /\ Snap(u, f).conn = "Connected"

RenderSnapshot(u) == RenderFileList([u EXCEPT !.every = AutoLabel(u, u.selected)])

RenderCurrentBridge(u) ==
  IF ~Has(u, u.selected) THEN RenderEmptyState(u)
  ELSE UpdateActionSensitivity(
         IF View(u, u.selected).error \/ View(u, u.selected).snap = None
         THEN [u EXCEPT !.context = None, !.page = "error"]
         ELSE RenderSnapshot(u))

FolderNeedsAttention(u, v) ==
  \/ v.error \/ v.id \in u.failed \/ v.snap = None
  \/ \E r \in v.snap.recs : NeedsAttention(SavedEntry(r))
HasPending(v) == v.snap # None /\ \E r \in v.snap.recs : IsPending(SavedEntry(r))

\* folder_notice: attention before pending work before new files.
Notice(u, f) ==
  IF FolderNeedsAttention(u, View(u, f)) THEN "attention"
  ELSE IF HasPending(View(u, f)) THEN "pending"
  ELSE IF f \in u.unread THEN "new"
  ELSE "quiet"

\* visible_folder_ids, in registry order, with the notice each row draws.
Sidebar(u) ==
  LET Listed(v) == CASE u.only = "All" -> TRUE
                     [] u.only = "Attention" -> FolderNeedsAttention(u, v)
                     [] u.only = "Pending" -> HasPending(v)
                     [] u.only = "NewFiles" -> v.id \in u.unread
      shown == SelectSeq(u.bridges, Listed)
  IN  [i \in DOMAIN shown |-> [id |-> shown[i].id, notice |-> Notice(u, shown[i].id)]]

RenderBridgeList(u) ==
  LET first == IF u.bridges = <<>> THEN None ELSE Head(u.bridges).id
      selected == IF Has(u, u.selected) THEN u.selected ELSE first
      v == [u EXCEPT !.selected = selected, !.unread = @ \ {selected}]
      w == [v EXCEPT !.sidebar = Sidebar(v)]
  IN  IF w.bridges = <<>> THEN RenderEmptyState(w) ELSE RenderCurrentBridge(w)

Flush(u) ==
  IF u.pending /\ HasSnap(u, u.selected) THEN RenderFileList(u)
  ELSE [u EXCEPT !.pending = FALSE]

-----------------------------------------------------------------------------
(* The handlers of worker messages.                                        *)

Touched(u, f) == IF u.selected = f THEN [u EXCEPT !.pending = TRUE] ELSE u

\* FileHistory::upsert.
Upsert(snap, rec) == [snap EXCEPT !.recs = {r \in @ : r.id # rec.id} \cup {rec}]

HandleFileActive(u, m) ==
  IF u.activity[m.folder][m.file] = "active" THEN u
  ELSE Touched([u EXCEPT !.activity[m.folder][m.file] = "active"], m.folder)

\* Bug: a settled file of another Folder is stored without marking it.
HandleFileSettledQuietly(u, m) ==
  LET f == m.folder
      v == [u EXCEPT !.activity[f][m.file] = IF m.error THEN "error" ELSE "none"]
  IN  Touched(IF m.rec # None /\ HasSnap(v, f)
              THEN SetView(v, f, [View(v, f) EXCEPT !.snap = Upsert(@, m.rec)]) ELSE v, f)

HandleFileSettled(u, m) ==
  LET f == m.folder
      known == u.activity[f][m.file] # "none" \/ m.rec # None
      v == [u EXCEPT !.activity[f][m.file] = IF m.error /\ known THEN "error" ELSE "none"]
      stored == m.rec # None /\ HasSnap(v, f)
      new == m.rec.id \notin Ids(Snap(v, f).recs)
      w == IF ~stored THEN v
           ELSE [SetView(v, f, [View(v, f) EXCEPT !.snap = Upsert(@, m.rec)])
                 EXCEPT !.unread = IF new /\ u.selected # f THEN @ \cup {f} ELSE @]
  IN  Touched(w, f)

HandleFileProgress(u, m) ==
  IF ~Has(u, m.folder) THEN u
  ELSE IF m.kind = "active" THEN HandleFileActive(u, m)
  ELSE HandleFileSettled(u, m)

HasNewDeliveries(previous, next) == ~(Ids(next.recs) \subseteq Ids(previous.recs))

NoteNewDeliveries(u, f, previous, next) ==
  IF u.selected # f /\ HasNewDeliveries(previous, next)
  THEN [u EXCEPT !.unread = @ \cup {f}] ELSE u

\* Initial load is the baseline; later ones compare with the view they
\* replace, under the selection they are about to replace too.
HandleLoaded(u, m) ==
  IF m.views = None
  THEN LET v == [u EXCEPT !.busy = FALSE]
       IN  IF v.bridges = <<>> THEN RenderEmptyState(v) ELSE UpdateActionSensitivity(v)
  ELSE LET Note(v, next) ==
             IF HasSnap(u, next.id) /\ next.snap # None
             THEN NoteNewDeliveries(v, next.id, Snap(u, next.id), next.snap) ELSE v
           noted == FoldLeft(Note, [u EXCEPT !.busy = FALSE], m.views)
           kept == {m.views[i].id : i \in DOMAIN m.views}
       IN  RenderBridgeList(
             [noted EXCEPT !.unread = @ \cap kept, !.failed = @ \cap kept,
                           !.views = [f \in Folders |-> IF f \in kept THEN @[f]
                                        ELSE [filter |-> "All", limit |-> PageSize]],
                           !.activity = [f \in Folders |-> Quiet],
                           !.bridges = m.views, !.selected = m.selected])

\* Bug: the drawn rows of a directory Folder are taken to be up to date.
UpdateBridgeSnapshotLazily(u, f, snap) ==
  IF ~Has(u, f) THEN u
  ELSE LET old == View(u, f)
           w == IF old.snap = None THEN u ELSE NoteNewDeliveries(u, f, old.snap, snap)
       IN  SetView(w, f, [old EXCEPT !.snap = snap, !.error = FALSE])

\* The rows of a directory Folder are rebuilt: the snapshot brings the
\* retained copies the settled events did not carry.
UpdateBridgeSnapshot(u, f, snap) ==
  LET v == IF IsDirectory(f, snap.conn) /\ u.selected = f
           THEN [u EXCEPT !.rendered = <<>>] ELSE u
  IN  IF ~Has(v, f) THEN v
      ELSE LET old == View(v, f)
               w == IF old.snap = None THEN v ELSE NoteNewDeliveries(v, f, old.snap, snap)
           IN  SetView(w, f, [old EXCEPT !.snap = snap, !.error = FALSE])

\* An outcome ends every phase its file's settled event did not end.
HandleOutcome(u, o) ==
  LET f == o.folder
      v == [u EXCEPT !.activity[f] = [x \in Files |-> IF @[x] = "active" THEN "error" ELSE @[x]]]
  IN  IF o.snap = None THEN [v EXCEPT !.failed = @ \cup {f}]
      ELSE UpdateBridgeSnapshot(
             [v EXCEPT !.failed = IF o.issues THEN @ \cup {f} ELSE @ \ {f}], f, o.snap)

HandleSyncOutcomes(u, m) ==
  RenderBridgeList(FoldLeft(HandleOutcome, [u EXCEPT !.busy = FALSE], m.outcomes))

HandleWorkerMessage(u, m) ==
  CASE m.kind \in {"active", "settled"} -> HandleFileProgress(u, m)
    [] m.kind = "loaded" -> HandleLoaded(u, m)
    [] m.kind = "synced" -> HandleSyncOutcomes(u, m)

\* The 75 ms timer: as many messages as fit in the batch, then one redraw.
Batch ==
  /\ \E k \in 1..Len(queue) :
       /\ ui' = Flush(FoldLeft(HandleWorkerMessage, ui, SubSeq(queue, 1, k)))
       /\ queue' = SubSeq(queue, k + 1, Len(queue))
  /\ UNCHANGED <<registry, disk, worker, budget>>

-----------------------------------------------------------------------------
(* Tasks.                                                                  *)

\* begin_task takes the buttons away; start_load_all spawns a thread.
BeginTask(u) == [u EXCEPT !.busy = TRUE, !.controls.idle = FALSE]
StartLoadAll(u) == BeginTask(u)
Loading == [Resting EXCEPT !.task = "load"]

\* start_sync_requests: the requested Folders' live activity is dropped, the
\* rows stay as they are until something else redraws them.
StartSyncRequests(u, requests) ==
  [BeginTask(u) EXCEPT
            !.activity = [f \in Folders |-> IF f \in ToSet(requests) THEN Quiet ELSE @[f]]]
Receiving(requests) == [Resting EXCEPT !.task = "sync", !.todo = requests]

Exiting(f) == disk[f].health # "broken" /\ disk[f].conn = "ExitPending"

\* Bug: only connected Folders are worth a request.
AutomaticConnected(v) == ~v.error /\ v.snap # None /\ v.snap.conn = "Connected" /\ v.auto

\* automatic_sync_requests, with the credential at hand.
Automatic(v) ==
  /\ ~v.error /\ v.snap # None
  /\ \/ v.snap.conn = "Connected" /\ v.auto
     \/ v.snap.conn = "ExitPending" /\ Exiting(v.id)

AutomaticSyncRequests ==
  LET views == SelectSeq(ui.bridges, Automatic)
  IN  [i \in DOMAIN views |-> views[i].id]

StartAutoSync ==
  /\ ~ui.busy /\ ui.editor = "closed"
  /\ AutomaticSyncRequests # <<>>
  /\ ui' = StartSyncRequests(ui, AutomaticSyncRequests)
  /\ worker' = Receiving(AutomaticSyncRequests)
  /\ UNCHANGED <<registry, disk, queue, budget>>

Init ==
  /\ \E order \in SetToSeqs(Folders) :
       registry = [ids |-> order, selected |-> Head(order),
                   auto |-> [f \in Folders |-> TRUE], album |-> [f \in Folders |-> FALSE]]
  /\ disk = [f \in Folders |-> [recs |-> {}, conn |-> "Connected", health |-> "ok"]]
  /\ ui = StartLoadAll(
       [busy |-> FALSE, editor |-> "closed", bridges |-> <<>>, selected |-> None,
        unread |-> {}, failed |-> {}, only |-> "All", sidebar |-> <<>>,
        views |-> [f \in Folders |-> [filter |-> "All", limit |-> PageSize]],
        activity |-> [f \in Folders |-> Quiet],
        context |-> None, rendered |-> <<>>, rows |-> <<>>, pending |-> FALSE, page |-> "empty",
        label |-> None, every |-> FALSE,
        controls |-> [idle |-> TRUE, valid |-> FALSE, connected |-> FALSE]])
  /\ worker = Loading
  /\ queue = <<>>
  /\ budget = [inputs |-> MaxInputs, receives |-> MaxReceives, faults |-> MaxFaults]

Spend(what) == budget[what] > 0 /\ budget' = [budget EXCEPT ![what] = @ - 1]

-----------------------------------------------------------------------------
(* The worker.                                                             *)

\* load_registry_snapshot reads the registry, then every Folder.
LoadRegistry ==
  /\ worker.task = "load" /\ worker.read = None
  /\ worker' = [worker EXCEPT !.read = registry]
  /\ UNCHANGED <<registry, disk, ui, queue, budget>>

LoadViews ==
  /\ worker.task = "load" /\ worker.read # None
  /\ LET r == worker.read
         views == [i \in DOMAIN r.ids |-> LoadView(r, r.ids[i])]
     IN  queue' = Append(queue, [kind |-> "loaded", views |-> views, selected |-> r.selected])
  /\ worker' = Resting
  /\ UNCHANGED <<registry, disk, ui, budget>>

LoadFails ==
  /\ worker.task = "load" /\ worker.read = None
  /\ Spend("faults")
  /\ queue' = Append(queue, [kind |-> "loaded", views |-> None, selected |-> None])
  /\ worker' = Resting
  /\ UNCHANGED <<registry, disk, ui>>

Current == Head(worker.todo)

\* The result of the current request; the last one is followed by Synced.
Conclude(outcome) ==
  LET done == Append(worker.done, outcome) IN
  IF Len(worker.todo) = 1
  THEN /\ worker' = Resting
       /\ queue' = Append(queue, [kind |-> "synced", outcomes |-> done])
  ELSE /\ worker' = [Receiving(Tail(worker.todo)) EXCEPT !.done = done]
       /\ UNCHANGED queue

\* The snapshot has the connection state of the configuration the request
\* began with, not of the one on disk.
Succeeded(conn, issues) ==
  [folder |-> Current, snap |-> SnapshotFromConfig(Current, conn), issues |-> issues]
Failed == [folder |-> Current, snap |-> None, issues |-> TRUE]

Registered(f) == f \in ToSet(registry.ids)

\* load_registered_config: ensure_resources_unique reads every other Folder.
Loadable(f) ==
  /\ Registered(f) /\ disk[f].health = "ok"
  /\ \A g \in Folders : Registered(g) => disk[g].health # "broken"

At(step) == worker.task = "sync" /\ worker.step = step

\* resume_if_requested, for a pending clean exit or one the phone asked the
\* relay for, and the first update of clean_exit::run.
BeginExit ==
  /\ At("start") /\ Loadable(Current)
  /\ \/ disk[Current].conn = "ExitPending" /\ UNCHANGED budget
     \/ disk[Current].conn = "Connected" /\ Spend("faults")
  /\ disk' = [disk EXCEPT ![Current].conn = "ExitPending"]
  /\ registry' = [registry EXCEPT !.auto[Current] = FALSE]
  /\ worker' = [worker EXCEPT !.step = "exit"]
  /\ UNCHANGED <<ui, queue>>

\* Under the operation lock: the local state is removed, the receipt is sent,
\* and complete when the phone has sent its own.
FinishExit ==
  /\ At("exit") /\ Loadable(Current) /\ disk[Current].conn = "ExitPending"
  /\ disk' = [disk EXCEPT ![Current].conn = "Exited", ![Current].recs = {}]
  /\ worker' = [worker EXCEPT !.step = "reload"]
  /\ UNCHANGED <<registry, ui, queue, budget>>

\* The receipt is refused, or the phone's is missing.
ExitStaysPending ==
  /\ At("exit") /\ Loadable(Current) /\ disk[Current].conn = "ExitPending"
  /\ Spend("faults")
  /\ disk' = [disk EXCEPT ![Current].recs = {}]
  /\ \/ Conclude(Failed)
     \/ worker' = [worker EXCEPT !.step = "reload"] /\ UNCHANGED queue
  /\ UNCHANGED <<registry, ui>>

\* Another process has finished the exit: "changed during exit", or the run
\* began after that.
ExitOvertaken ==
  /\ At("exit")
  /\ \/ /\ Loadable(Current) => disk[Current].conn = "Exited"
        /\ Conclude(Failed)
     \/ /\ Loadable(Current) /\ disk[Current].conn = "Exited"
        /\ worker' = [worker EXCEPT !.step = "reload"] /\ UNCHANGED queue
  /\ UNCHANGED <<registry, disk, ui, budget>>

\* The configuration and the snapshot are read again.
ReloadExited ==
  /\ At("reload")
  /\ Conclude(IF Loadable(Current) THEN Succeeded(disk[Current].conn, FALSE) ELSE Failed)
  /\ UNCHANGED <<registry, disk, ui, budget>>

\* load_registered_config or require_connected refuses.
Refused ==
  /\ At("start")
  /\ Loadable(Current) => disk[Current].conn = "Exited"
  /\ Conclude(Failed)
  /\ UNCHANGED <<registry, disk, ui, budget>>

BeginReceive ==
  /\ At("start") /\ Loadable(Current) /\ disk[Current].conn = "Connected"
  /\ worker' = [worker EXCEPT !.step = "files"]
  /\ UNCHANGED <<registry, disk, ui, queue, budget>>

\* FileProgress::phase, before the blocking work on a file.
ReceiveFile ==
  /\ At("files") /\ worker.file = 0
  /\ Spend("receives")
  /\ \E x \in Files \ worker.seen :
       /\ \A r \in disk[Current].recs :
            r.id < x \/ (r.id = x /\ IsPending(SavedEntry(r)))
       /\ worker' = [worker EXCEPT !.file = x, !.seen = @ \cup {x}]
       /\ queue' = Append(queue, [kind |-> "active", folder |-> Current, file |-> x])
  /\ UNCHANGED <<registry, disk, ui>>

\* The record of the file, as it is saved.  A directory keeps one version per
\* path.
Recorded(rec) ==
  [disk EXCEPT ![Current].recs =
     {r \in @ : r.id # rec.id /\ Current \notin Directories} \cup {rec}]

\* FileProgress::settle, after the record was saved: acknowledged, or a flat
\* one with the acknowledgement failed.
SettleFile ==
  /\ At("files") /\ worker.file # 0
  /\ \E state \in {"acked", IF Current \in Directories THEN "conflict" ELSE "error"} :
       LET rec == [id |-> worker.file, state |-> state]
           error == state = "error"
       IN  /\ IF error THEN Spend("faults") ELSE UNCHANGED budget
           /\ disk' = Recorded(rec)
           /\ queue' = Append(queue, [kind |-> "settled", folder |-> Current, file |-> worker.file,
                                      rec |-> rec, error |-> error])
           /\ worker' = [worker EXCEPT !.file = 0, !.issues = @ \/ error]
  /\ UNCHANGED <<registry, ui>>

\* A flat receiver settles a file it could not store; the next one follows.
FileFails ==
  /\ At("files") /\ worker.file # 0 /\ Current \notin Directories
  /\ Spend("faults")
  /\ queue' = Append(queue, [kind |-> "settled", folder |-> Current, file |-> worker.file,
                             rec |-> None, error |-> TRUE])
  /\ worker' = [worker EXCEPT !.file = 0, !.issues = TRUE]
  /\ UNCHANGED <<registry, disk, ui>>

\* Fatal for the request: no snapshot, and no settled event for a file in
\* flight.
RequestFails ==
  /\ worker.task = "sync"
  /\ Spend("faults")
  /\ Conclude(Failed)
  /\ UNCHANGED <<registry, disk, ui>>

\* A directory receiver fails before or after it applied the version.
DirectoryFails ==
  /\ At("files") /\ worker.file # 0 /\ Current \in Directories
  /\ Spend("faults")
  /\ \/ UNCHANGED disk
     \/ disk' = Recorded([id |-> worker.file, state |-> "pending"])
  /\ worker' = [worker EXCEPT !.step = "summary"]
  /\ UNCHANGED <<registry, ui, queue>>

\* directory_panel::receive reports the failed pass in its summary and takes
\* the snapshot all the same.
DirectoryStops ==
  /\ At("summary")
  /\ Conclude(Succeeded("Connected", TRUE))
  /\ UNCHANGED <<registry, disk, ui, budget>>

EndRequest ==
  /\ At("files") /\ worker.file = 0
  /\ Conclude(Succeeded("Connected", worker.issues))
  /\ UNCHANGED <<registry, disk, ui, budget>>

-----------------------------------------------------------------------------
(* The user.  The settings window is modal: while it is open the main      *)
(* window takes no input.                                                  *)

Input == ui.editor = "closed" /\ Spend("inputs")

Refresh ==
  /\ Input /\ ~ui.busy
  /\ ui' = StartLoadAll(ui) /\ worker' = Loading
  /\ UNCHANGED <<registry, disk, queue>>

\* start_sync
Receive ==
  /\ Input /\ ~ui.busy
  /\ HasSnap(ui, ui.selected) /\ ~View(ui, ui.selected).error
  /\ Snap(ui, ui.selected).conn = "Connected"
  /\ ui' = StartSyncRequests(ui, <<ui.selected>>)
  /\ worker' = Receiving(<<ui.selected>>)
  /\ UNCHANGED <<registry, disk, queue>>

\* select_current_row selects it again, which draws it again.
SelectedIsListed == \E i \in DOMAIN ui.sidebar : ui.sidebar[i].id = ui.selected

\* select_bridge_at saves the choice in the registry, busy or not.
SelectBridgeAt(i) ==
  LET f == ui.sidebar[i].id
      v == [ui EXCEPT !.selected = f, !.unread = @ \ {f}]
  IN  /\ Input /\ f # ui.selected
      /\ IF Registered(f)
         THEN /\ registry' = [registry EXCEPT !.selected = f]
              /\ ui' = IF f \in ui.unread THEN RenderBridgeList(v) ELSE RenderCurrentBridge(v)
         ELSE /\ ui' = IF SelectedIsListed THEN RenderCurrentBridge(ui) ELSE ui
              /\ UNCHANGED registry
      /\ UNCHANGED <<disk, worker, queue>>

\* The folder-filter action.
ChangeFolderFilter(filter) ==
  /\ Input /\ filter # ui.only
  /\ ui' = RenderBridgeList([ui EXCEPT !.only = filter])
  /\ UNCHANGED <<registry, disk, worker, queue>>

\* change_file_view; the controls are on the files page.
ChangeFileView(view) ==
  /\ Input /\ ui.page = "files" /\ view # ui.views[ui.selected]
  /\ ui' = RenderFileList([ui EXCEPT !.views[ui.selected] = view])
  /\ UNCHANGED <<registry, disk, worker, queue>>
FilterFiles(filter) == ChangeFileView([filter |-> filter, limit |-> PageSize])
MoreFiles == ChangeFileView([ui.views[ui.selected] EXCEPT !.limit = @ + PageSize])

\* The category drop-down, offered while idle on a usable Folder.
ChangeCategory ==
  LET f == ui.selected
      album == ~View(ui, f).album
      v == [SetView(ui, f, [View(ui, f) EXCEPT !.album = album])
            EXCEPT !.rendered = <<>>, !.rows = <<>>]
  IN  /\ Input /\ ui.controls.idle /\ ui.controls.valid /\ Registered(f)
      /\ registry' = [registry EXCEPT !.album[f] = album]
      /\ ui' = RenderCurrentBridge(RenderBridgeList(v))
      /\ UNCHANGED <<disk, worker, queue>>

ShowBridgeEditor ==
  /\ Input /\ ~ui.busy
  /\ Has(ui, ui.selected)
  /\ ui' = [ui EXCEPT !.editor = "open"]
  /\ UNCHANGED <<registry, disk, worker, queue>>

\* Saving, disconnecting and clean exit run on SetupTask, which keeps the
\* settings from closing; Cancel and removal do not wait for a thread.
SetupRun ==
  /\ ui.editor = "open"
  /\ ui' = [ui EXCEPT !.editor = "task"]
  /\ UNCHANGED <<registry, disk, worker, queue, budget>>

CloseEditor ==
  /\ ui.editor = "open"
  /\ ui' = [ui EXCEPT !.editor = "closed"]
  /\ UNCHANGED <<registry, disk, worker, queue, budget>>

\* The settings close and everything is loaded again.
Reload == ui' = StartLoadAll([ui EXCEPT !.editor = "closed"]) /\ worker' = Loading

SettingsSaved ==
  /\ ui.editor = "task" /\ Registered(ui.selected)
  /\ registry' = [registry EXCEPT !.auto[ui.selected] = ~@]
  /\ Reload
  /\ UNCHANGED <<disk, queue, budget>>

\* clean_exit::run from the settings stopped halfway; transfers stay stopped.
ExitStarted ==
  /\ ui.editor = "task" /\ Loadable(ui.selected) /\ disk[ui.selected].conn = "Connected"
  /\ registry' = [registry EXCEPT !.auto[ui.selected] = FALSE]
  /\ disk' = [disk EXCEPT ![ui.selected].conn = "ExitPending"]
  /\ Reload
  /\ UNCHANGED <<queue, budget>>

SetupFailed ==
  /\ ui.editor = "task"
  /\ ui' = [ui EXCEPT !.editor = "open"]
  /\ Spend("faults")
  /\ UNCHANGED <<registry, disk, worker, queue>>

\* BridgeRegistry::remove moves the selection to the first one left.
Unregister(f) ==
  LET ids == SelectSeq(registry.ids, LAMBDA g : g # f) IN
  [registry EXCEPT !.ids = ids,
                   !.selected = IF @ # f THEN @ ELSE IF ids = <<>> THEN None ELSE Head(ids)]

RemoveBridge ==
  /\ ui.editor = "open" /\ Registered(ui.selected) /\ disk[ui.selected].conn = "Exited"
  /\ disk[ui.selected].health # "broken"
  /\ registry' = Unregister(ui.selected)
  /\ Reload
  /\ UNCHANGED <<disk, queue, budget>>

-----------------------------------------------------------------------------
(* Other processes: a second window, the command line, an editor.          *)

OtherReceives(f, x, state) ==
  /\ ~(At("files") /\ Current = f)   \* the receiver's lock
  /\ disk[f].conn = "Connected" /\ x \notin Ids(disk[f].recs)
  /\ \A r \in disk[f].recs : r.id < x
  /\ Spend("faults")
  /\ disk' = [disk EXCEPT ![f].recs = (IF f \in Directories THEN {} ELSE @)
                                      \cup {[id |-> x, state |-> state]}]
  /\ UNCHANGED <<registry, ui, worker, queue>>

OtherStartsExit(f) ==
  /\ disk[f].conn = "Connected" /\ Registered(f) /\ disk[f].health = "ok"
  /\ Spend("faults")
  /\ disk' = [disk EXCEPT ![f].conn = "ExitPending"]
  /\ registry' = [registry EXCEPT !.auto[f] = FALSE]
  /\ UNCHANGED <<ui, worker, queue>>

\* The receiver's lock and the operation lock keep it from a running receive.
OtherFinishesExit(f) ==
  /\ disk[f].conn = "ExitPending" /\ Registered(f) /\ disk[f].health = "ok"
  /\ ~(\E step \in {"files", "summary"} : At(step) /\ Current = f)
  /\ Spend("faults")
  /\ disk' = [disk EXCEPT ![f].conn = "Exited", ![f].recs = {}]
  /\ UNCHANGED <<registry, ui, worker, queue>>

OtherSelects(f) ==
  /\ Registered(f) /\ registry.selected # f
  /\ Spend("faults")
  /\ registry' = [registry EXCEPT !.selected = f]
  /\ UNCHANGED <<disk, ui, worker, queue>>

OtherRemoves(f) ==
  /\ Registered(f) /\ disk[f].conn = "Exited"
  /\ Spend("faults")
  /\ registry' = Unregister(f)
  /\ UNCHANGED <<disk, ui, worker, queue>>

ConfigChanges(f, health) ==
  /\ disk[f].health # health
  /\ Spend("faults")
  /\ disk' = [disk EXCEPT ![f].health = health]
  /\ UNCHANGED <<registry, ui, worker, queue>>

Work ==
  \/ LoadRegistry \/ LoadViews \/ LoadFails
  \/ BeginExit \/ FinishExit \/ ExitStaysPending \/ ExitOvertaken \/ ReloadExited
  \/ Refused \/ BeginReceive \/ ReceiveFile \/ SettleFile \/ FileFails
  \/ RequestFails \/ DirectoryFails \/ DirectoryStops \/ EndRequest

User ==
  \/ Refresh \/ Receive \/ MoreFiles \/ ChangeCategory
  \/ \E filter \in FolderFilters : ChangeFolderFilter(filter)
  \/ \E i \in DOMAIN ui.sidebar : SelectBridgeAt(i)
  \/ \E filter \in FileFilters : FilterFiles(filter)
  \/ ShowBridgeEditor \/ SetupRun \/ CloseEditor \/ RemoveBridge

SetupDone == SettingsSaved \/ ExitStarted \/ SetupFailed

Elsewhere ==
  \E f \in Folders :
    \/ \E x \in Files, state \in {"acked", "pending"} : OtherReceives(f, x, state)
    \/ OtherStartsExit(f) \/ OtherFinishesExit(f) \/ OtherSelects(f) \/ OtherRemoves(f)
    \/ \E health \in {"ok", "broken", "conflict"} : ConfigChanges(f, health)

Next == Work \/ Batch \/ StartAutoSync \/ User \/ SetupDone \/ Elsewhere

Spec == Init /\ [][Next]_vars

\* Weak fairness of Batch, whose guard is a message in the channel.
TimerRuns == []<>(queue = <<>>) \/ []<><<Batch>>_vars

\* The worker thread and the timers run; a setup task ends, and nobody
\* leaves the settings open for good.
FairSpec ==
  /\ Spec
  /\ TimerRuns
  /\ WF_vars(Work) /\ WF_vars(StartAutoSync)
  /\ WF_vars(SetupDone) /\ WF_vars(CloseEditor)

-----------------------------------------------------------------------------
TypeOK ==
  /\ ToSet(registry.ids) \subseteq Folders /\ registry.selected \in Folders \cup {None}
  /\ \A f \in Folders : /\ disk[f].recs \subseteq Records
                        /\ disk[f].conn \in {"Connected", "ExitPending", "Exited"}
                        /\ disk[f].health \in {"ok", "broken", "conflict"}
  /\ ui.busy \in BOOLEAN /\ ui.editor \in {"closed", "open", "task"}
  /\ ui.page \in {"files", "error", "empty"}
  /\ ui.unread \cup ui.failed \subseteq Folders
  /\ worker.task \in {"none", "load", "sync"}

\* What the list has on view: without entries its placeholder covers it.
Shown == IF ui.rendered = <<>> THEN <<>> ELSE ui.rows

\* Between tasks the screen tells the truth about the view state: the buttons
\* and labels, each notice, every entry of the page in its order, no phase still
\* running, and every retained copy on its row (desktop.rs "Never leave a
\* spinner running", the diff of render_file_list, the rebuild of
\* update_bridge_snapshot).  A Folder marked as failed may miss a retained
\* copy: its settled rows were never rebuilt with a snapshot.
IdleScreenIsTrue ==
  ~ui.busy =>
    /\ \A f \in Folders : Has(ui, f) => \A x \in Files : ui.activity[f][x] # "active"
    /\ ui.sidebar = Sidebar(ui) /\ ui.controls = Sensitivity(ui)
    /\ ui.page = "files" =>
         /\ ui.label = StateLabel(ui, ui.selected) /\ ui.every = AutoLabel(ui, ui.selected)
         /\ [i \in DOMAIN Shown |-> Shown[i].entry] = Page(ui, ui.selected)
         /\ ui.selected \notin ui.failed =>
              \A i \in DOMAIN Shown : Shown[i] = RowOf(ui, Shown[i].entry)

\* A file that reaches a loaded Folder by any route (settled event, receive
\* snapshot, refresh) marks it as having new files unless it is the Folder on
\* screen, and only opening or losing the Folder takes the mark away.
NewFilesAreNoticed ==
  [][\A f \in Folders :
       /\ (HasSnap(ui, f) /\ HasSnap(ui', f) /\ HasNewDeliveries(Snap(ui, f), Snap(ui', f)))
            => f \in ui'.unread \cup {ui.selected, ui'.selected}
       /\ f \in ui.unread \ ui'.unread => f = ui'.selected \/ ~Has(ui', f)]_vars

\* As long as the configurations can be read, a clean exit that a loaded Folder
\* shows as pending is carried to its end, by this window or by another process
\* and whatever Auto says (start_auto_sync, automatic_sync_requests).  The view
\* may go on showing it as pending: the reload may fail, and a tick passes over
\* a Folder whose configuration says that the exit is over.
PendingExitEnds ==
  LET Pending(f) == HasSnap(ui, f) /\ ~View(ui, f).error /\ Snap(ui, f).conn = "ExitPending"
      Healthy == \A f \in Folders : disk[f].health = "ok"
  IN  []Healthy => \A f \in Folders : Pending(f) ~> disk[f].conn = "Exited"
=============================================================================
