--------------------------- MODULE DirectorySender ---------------------------
(***************************************************************************)
(* The sending side of directory sync (src/directory/sender.rs, compare in *)
(* src/directory.rs): the user reviews a preview, confirms it, and from    *)
(* then on every changed file is staged, given the next version and        *)
(* uploaded.  A ledger on disk says what each path last held.              *)
(*                                                                         *)
(* Every command is one process: an error ends it, and so does a crash, at *)
(* any step.  The relay is reduced to its versions and the receiver's      *)
(* index (RelayStore); the receiver to what it holds (DirectoryReceiver).  *)
(***************************************************************************)
EXTENDS Integers, FiniteSetsExt

CONSTANTS
  Paths,       \* relative paths of the Folder
  Data,        \* file contents, told apart by their SHA-256
  None,        \* no file, no index, no preview, no job
  MaxVersion,  \* bound: versions given to the files of a Folder
  MaxEdits,    \* bound: changes of the source by its user
  MaxFails,    \* bound: crashes and errors, of the sender or the receiver
  MaxResets,   \* bound: times the sender starts over with a new ledger
  MaxIndexes   \* bound: identities told apart of published indexes

ASSUME SenderAssumption ==
  /\ MaxVersion \in Nat \ {0}
  /\ MaxEdits \in Nat /\ MaxFails \in Nat /\ MaxResets \in Nat
  /\ MaxIndexes \in Nat \ {0}
  /\ None \notin Paths \cup Data

VARIABLES
  source,    \* the synchronized directory
  disk,      \* sender.json
  mem,       \* the same ledger in the running command
  preview,   \* preview.json
  payload,   \* the staged copy of the ledger's job
  rows,      \* relay: versions
  index,     \* relay: the receiver's published inventory
  held,      \* the receiver's directory
  fetched,   \* versions the receiver's synchronisation has still to apply
  syncing,   \* the receiver is synchronising
  snap,      \* the inventory taken by the running command
  todo,      \* paths the running send has still to look at
  pc, ret,   \* the sender's next step, and what follows a flush
  jobs,      \* jobs staged so far
  edits, fails, resets,
  stale      \* history: initialised on an index that misses applied versions

sender == <<disk, mem, preview, payload, snap, todo, pc, ret, jobs>>
relay == <<rows, index>>
receiver == <<held, fetched, syncing>>
vars == <<source, disk, mem, preview, payload, rows, index, held, fetched, syncing,
          snap, todo, pc, ret, jobs, edits, fails, resets, stale>>

Files == [Paths -> Data \cup {None}]
Job == [path : Paths, version : 1..MaxVersion, data : Data, id : Nat]
Row == [path : Paths, version : 1..MaxVersion, data : Data, id : Nat,
        acknowledged : BOOLEAN]
Ledger == [initialized : BOOLEAN, next : 1..MaxVersion + 1, files : Files,
           job : Job \cup {None}]
Index == [id : 1..MaxIndexes, files : Files]

\* What the variables range over.
TypeOK ==
  /\ source \in Files /\ held \in Files /\ snap \in Files
  /\ disk \in Ledger /\ mem \in Ledger
  /\ preview # None => /\ preview.source \in Files
                       /\ preview.index \in Index
                       /\ preview.rows \subseteq Row
  /\ payload \in Data \cup {None}
  /\ rows \subseteq Row
  /\ index \in Index \cup {None}
  /\ fetched \subseteq Row
  /\ syncing \in BOOLEAN
  /\ todo \subseteq Paths
  /\ pc \in {"closed", "open", "compare", "flush", "uploaded", "cleanup", "scan",
             "remote", "loop"}
  /\ ret \in {"scan", "loop"}
  /\ jobs \in Nat
  /\ edits \in 0..MaxEdits /\ fails \in 0..MaxFails /\ resets \in 0..MaxResets
  /\ stale \in BOOLEAN

NoFiles == [p \in Paths |-> None]
NewLedger == [initialized |-> FALSE, next |-> 1, files |-> NoFiles, job |-> None]

\* Both directories may hold files before the Folder is first used.
Init ==
  /\ source \in Files /\ held \in Files
  /\ disk = NewLedger /\ mem = NewLedger
  /\ preview = None /\ payload = None
  /\ rows = {} /\ index = None
  /\ fetched = {} /\ syncing = FALSE
  /\ snap = NoFiles /\ todo = {} /\ pc = "closed" /\ ret = "scan"
  /\ jobs = 0 /\ edits = 0 /\ fails = 0 /\ resets = 0
  /\ stale = FALSE

-----------------------------------------------------------------------------
(* Helpers *)

\* directory_state: of each path the row with the highest version.
Latest == {r \in rows : \A s \in rows : s.path = r.path => s.version <= r.version}

HighestVersion == Max({0} \cup {r.version : r \in rows})

\* Mutant: versions still on their way are not considered.
ExpectedIndexOnly == index.files

\* What compare_remote expects the receiver to hold: its index, overlaid with
\* the versions it has not acknowledged yet.
Expected ==
  [p \in Paths |->
     LET waiting == {r \in Latest : r.path = p /\ ~r.acknowledged}
     IN IF waiting # {} THEN (CHOOSE r \in waiting : TRUE).data ELSE index.files[p]]

\* Mutant: missing paths are taken into the baseline.
IdenticalOrMissing(files) ==
  {p \in Paths : files[p] # None /\ Expected[p] \in {None, files[p]}}

\* compare: the paths both sides agree on (neither missing nor different).
Identical(files) == {p \in Paths : files[p] # None /\ files[p] = Expected[p]}

\* save: sender.json becomes the ledger in memory, or the command fails.
Save(next) ==
  \/ disk' = mem' /\ pc' = next /\ UNCHANGED fails
  \/ fails < MaxFails /\ fails' = fails + 1 /\ pc' = "closed" /\ UNCHANGED disk

-----------------------------------------------------------------------------
(* Commands *)

\* open: the ledger is loaded, or a new one is written.
Open ==
  /\ pc = "closed"
  /\ mem' = disk
  /\ pc' = "open"
  /\ UNCHANGED <<source, disk, preview, payload, relay, receiver, snap, todo, ret, jobs,
                 edits, fails, resets, stale>>

Preview ==
  /\ pc = "open"
  /\ ~mem.initialized
  /\ index # None
  /\ preview' = [source |-> source, index |-> index, rows |-> Latest]
  /\ pc' = "closed"
  /\ UNCHANGED <<source, disk, mem, payload, relay, receiver, snap, todo, ret, jobs, edits,
                 fails, resets, stale>>

\* initialize: the source is scanned, and must be as it was previewed,
InitializeScan ==
  /\ pc = "open"
  /\ ~mem.initialized
  /\ preview # None
  /\ preview.source = source
  /\ snap' = source
  /\ pc' = "compare"
  /\ UNCHANGED <<source, disk, mem, preview, payload, relay, receiver, todo, ret, jobs,
                 edits, fails, resets, stale>>

\* and so must the relay's state.  Paths that agree become the baseline.
InitializeCommit ==
  /\ pc = "compare"
  /\ \/ /\ preview.index = index /\ preview.rows = Latest
        /\ mem' = [mem EXCEPT !.initialized = TRUE,
                              !.next = HighestVersion + 1,
                              !.files = [p \in Paths |->
                                IF p \in Identical(snap) THEN snap[p] ELSE None]]
        /\ Save("closed")
        /\ stale' = (stale \/ \E r \in Latest : r.acknowledged
                                               /\ index.files[r.path] # held[r.path])
     \/ /\ preview.index # index \/ preview.rows # Latest
        /\ pc' = "closed"
        /\ UNCHANGED <<disk, mem, fails, stale>>
  /\ UNCHANGED <<source, preview, payload, relay, receiver, snap, todo, ret, jobs, edits,
                 resets>>

SendStart ==
  /\ pc = "open"
  /\ mem.initialized
  /\ pc' = "flush" /\ ret' = "scan"
  /\ UNCHANGED <<source, disk, mem, preview, payload, relay, receiver, snap, todo, jobs,
                 edits, fails, resets, stale>>

-----------------------------------------------------------------------------
(* flush *)

\* Another upload of the same version is refused (DirectoryConflict).
Refused(job) ==
  \E r \in rows : r.path = job.path /\ r.version = job.version /\ r.id # job.id

\* The job is uploaded, or found completed by an earlier attempt.  With another
\* payload, or with a version that is taken, the command could only fail.
Flush ==
  /\ pc = "flush"
  /\ LET job == mem.job
     IN \/ /\ job = None
           /\ pc' = ret
           /\ UNCHANGED rows
        \/ /\ job # None
           /\ payload = job.data /\ ~Refused(job)
           /\ rows' = IF \E r \in rows : r.id = job.id THEN rows
                      ELSE rows \cup {[path |-> job.path, version |-> job.version,
                                       data |-> job.data, id |-> job.id,
                                       acknowledged |-> FALSE]}
           /\ pc' = "uploaded"
  /\ UNCHANGED <<source, disk, mem, preview, payload, index, receiver, snap, todo, ret,
                 jobs, edits, fails, resets, stale>>

Uploaded ==
  /\ pc = "uploaded"
  /\ mem' = [mem EXCEPT !.files[mem.job.path] = mem.job.data, !.job = None]
  /\ Save("cleanup")
  /\ UNCHANGED <<source, preview, payload, relay, receiver, snap, todo, ret, jobs, edits,
                 resets, stale>>

\* The staged copy goes only after the ledger has forgotten the job.
Cleanup ==
  /\ pc = "cleanup"
  /\ payload' = None
  /\ pc' = "flush"
  /\ UNCHANGED <<source, disk, mem, preview, relay, receiver, snap, todo, ret, jobs, edits,
                 fails, resets, stale>>

-----------------------------------------------------------------------------
(* send, after its first flush *)

Scan ==
  /\ pc = "scan"
  /\ snap' = source
  /\ pc' = "remote"
  /\ UNCHANGED <<source, disk, mem, preview, payload, relay, receiver, todo, ret, jobs,
                 edits, fails, resets, stale>>

\* The relay's versions are never used again.
Remote ==
  /\ pc = "remote"
  /\ mem' = [mem EXCEPT !.next = Max({@, HighestVersion + 1})]
  /\ todo' = {p \in Paths : snap[p] # None}
  /\ pc' = "loop" /\ ret' = "loop"
  /\ UNCHANGED <<source, disk, preview, payload, relay, receiver, snap, jobs, edits, fails,
                 resets, stale>>

SkipSame(p) ==
  /\ pc = "loop"
  /\ p \in todo
  /\ mem.files[p] = snap[p]
  /\ todo' = todo \ {p}
  /\ UNCHANGED <<source, disk, mem, preview, payload, relay, receiver, snap, pc, ret, jobs,
                 edits, fails, resets, stale>>

\* The file is copied as it is now, and must still be what the scan saw.
Stage(p) ==
  /\ pc = "loop"
  /\ p \in todo
  /\ mem.files[p] # snap[p]
  /\ mem.next <= MaxVersion
  /\ todo' = todo \ {p}
  /\ \/ /\ source[p] = snap[p]
        /\ payload' = source[p]
        /\ jobs' = jobs + 1
        /\ mem' = [mem EXCEPT !.next = @ + 1,
                              !.job = [path |-> p, version |-> mem.next,
                                       data |-> snap[p], id |-> jobs']]
        /\ Save("flush")
     \/ /\ source[p] # snap[p]
        /\ pc' = "closed"
        /\ UNCHANGED <<disk, mem, payload, jobs, fails>>
  /\ UNCHANGED <<source, preview, relay, receiver, snap, ret, edits, resets, stale>>

SendEnd ==
  /\ pc = "loop"
  /\ todo = {}
  /\ pc' = "closed"
  /\ UNCHANGED <<source, disk, mem, preview, payload, relay, receiver, snap, todo, ret,
                 jobs, edits, fails, resets, stale>>

-----------------------------------------------------------------------------
(* The receiver, as far as the sender depends on it, and the environment *)

IndexId == IF index = None THEN 0 ELSE index.id

ReceiverFetch ==
  /\ ~syncing
  /\ syncing' = TRUE
  /\ fetched' = {r \in Latest : ~r.acknowledged}
  /\ UNCHANGED <<source, sender, relay, held, edits, fails, resets, stale>>

\* A version is projected and acknowledged, with the earlier ones of its path.
ReceiverApplies(r) ==
  /\ r \in fetched
  /\ fetched' = fetched \ {r}
  /\ held' = [held EXCEPT ![r.path] = r.data]
  /\ rows' = {IF s.path = r.path /\ s.version <= r.version
              THEN [s EXCEPT !.acknowledged = TRUE] ELSE s : s \in rows}
  /\ UNCHANGED <<source, sender, index, syncing, edits, fails, resets, stale>>

\* publish_directory, at the end of a synchronisation.
ReceiverPublishes ==
  /\ syncing
  /\ fetched = {}
  /\ syncing' = FALSE
  /\ index' = [id |-> Min({IndexId + 1, MaxIndexes}), files |-> held]
  /\ UNCHANGED <<source, sender, rows, held, fetched, edits, fails, resets, stale>>

\* A synchronisation ends early: a crash, a lost answer, a file that cannot be
\* acknowledged.
ReceiverFails ==
  /\ syncing
  /\ fails < MaxFails
  /\ fails' = fails + 1
  /\ syncing' = FALSE /\ fetched' = {}
  /\ UNCHANGED <<source, sender, relay, held, edits, resets, stale>>

UserEdits(p) ==
  /\ edits < MaxEdits
  /\ edits' = edits + 1
  /\ \E d \in Data \cup {None} : source' = [source EXCEPT ![p] = d]
  /\ UNCHANGED <<sender, relay, receiver, fails, resets, stale>>

SenderFails ==
  /\ pc # "closed"
  /\ fails < MaxFails
  /\ fails' = fails + 1
  /\ pc' = "closed"
  /\ UNCHANGED <<source, disk, mem, preview, payload, relay, receiver, snap, todo, ret,
                 jobs, edits, resets, stale>>

\* The Folder gets a sender with a new ledger: another device or state directory.
NewSender ==
  /\ pc = "closed"
  /\ resets < MaxResets
  /\ resets' = resets + 1
  /\ disk' = NewLedger /\ mem' = NewLedger /\ preview' = None /\ payload' = None
  /\ UNCHANGED <<source, relay, receiver, snap, todo, pc, ret, jobs, edits, fails, stale>>

Continue ==
  \/ InitializeCommit \/ Flush \/ Uploaded \/ Cleanup \/ Scan \/ Remote \/ SendEnd
  \/ \E p \in Paths : SkipSame(p) \/ Stage(p)

Next ==
  \/ Open \/ Preview \/ InitializeScan \/ SendStart \/ Continue
  \/ ReceiverFetch \/ ReceiverPublishes \/ ReceiverFails
  \/ \E r \in fetched : ReceiverApplies(r)
  \/ \E p \in Paths : UserEdits(p)
  \/ SenderFails \/ NewSender

Spec == Init /\ [][Next]_vars

\* The user, or Auto, keeps sending, and the receiver keeps synchronising.
FairSpec ==
  /\ Spec
  /\ WF_vars(Open) /\ SF_vars(SendStart) /\ WF_vars(Continue)
  /\ WF_vars(ReceiverFetch) /\ SF_vars(ReceiverPublishes)
  /\ WF_vars(\E r \in fetched : ReceiverApplies(r))

-----------------------------------------------------------------------------
(* Properties *)

\* What the relay will make the receiver hold, once everything is applied.
Arriving(p) ==
  LET waiting == {r \in Latest : r.path = p /\ ~r.acknowledged}
  IN IF waiting # {} THEN (CHOOSE r \in waiting : TRUE).data ELSE held[p]

\* "An old pending upload cannot later undo an apparently identical baseline":
\* what the ledger says a path held last is what the receiver has, or will have
\* once it has applied the relay's versions, unless an upload of it is pending.
BaselineIsTrue ==
  \A p \in Paths :
    disk.files[p] # None /\ (disk.job = None \/ disk.job.path # p)
      => Arriving(p) = disk.files[p]

\* The same, unless the sender was initialised while the receiver had applied a
\* version that its published index did not show yet.
BaselineIsTrueUnlessStale == stale \/ BaselineIsTrue

\* Once initialised, and whatever fails on the way, every file of the source
\* ends up in the receiver's directory (deletions are not sent).
SourceArrives ==
  \A p \in Paths :
    <>[](\/ stale \/ ~disk.initialized \/ source[p] = None
         \/ held[p] = source[p])
=============================================================================
