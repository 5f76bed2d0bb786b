-------------------------- MODULE DirectoryReceiver --------------------------
(***************************************************************************)
(* The Linux directory projection (src/directory/receiver.rs): versions of *)
(* files are fetched from the relay, written into a directory that its     *)
(* user goes on editing, and acknowledged.  A journal names the incoming   *)
(* inode; the target is replaced by an atomic exchange and the replaced    *)
(* inode is kept as history.  The receiver may die or meet an I/O error    *)
(* between any two of its file operations.                                 *)
(*                                                                         *)
(* The relay is reduced to the latest version of each path and the         *)
(* receipts it holds (RelayStore); locks keep a second receiver out, so    *)
(* there is one.  The user edits files, not the receiver's dot files.      *)
(***************************************************************************)
EXTENDS Integers

CONSTANTS
  Paths,        \* relative paths of the Folder
  Data,         \* file contents, told apart by their SHA-256
  DataOf,       \* [Paths -> [1..MaxVersion -> Data]]: what the sender sends
  None,         \* no file, no journal, no ledger entry
  MaxVersion,   \* bound: source versions of a path
  MaxEdits,     \* bound: changes made by the user
  MaxFails      \* bound: crashes and propagated I/O errors

\* mine: the file is the inode the journal names.
File == [data : Data, mine : BOOLEAN]
Applied == [version : 1..MaxVersion, data : Data, conflict : BOOLEAN,
            acknowledged : BOOLEAN]
Journal == [path : Paths, version : 1..MaxVersion, previous : Data \cup {None}]
Entry == [version : 0..MaxVersion, acknowledged : BOOLEAN]

ASSUME ReceiverAssumption ==
  /\ MaxVersion \in Nat \ {0}
  /\ MaxEdits \in Nat
  /\ MaxFails \in Nat
  /\ DataOf \in [Paths -> [1..MaxVersion -> Data]]
  /\ None \notin Paths \cup Data \cup File \cup Applied \cup Journal

VARIABLES
  target,    \* the file at each path, or None
  stage,     \* the file at the journal's incoming name
  archive,   \* bytes of the file at the journal's history name
  history,   \* bytes retained by earlier commits, per path
  journal,   \* journal.json
  disk,      \* receiver.json: what was applied, per path
  mem,       \* the same ledger in the running receiver
  latest,    \* relay: the newest version of each path; 0: none
  receipts,  \* relay: directory receipts <<path, version, conflict>>
  view,      \* the relay's entries as fetched by this synchronisation
  left,      \* paths this synchronisation has still to handle
  cur,       \* the path being handled
  pc,        \* what the receiver does next
  ret,       \* what it does once recovery is done
  edits,     \* user changes so far
  fails,     \* crashes and errors so far
  \* what happened, kept for the properties only:
  late,      \* the user changed a file between its commit and its receipt
  edited,    \* paths whose file was last written by the user
  known,     \* bytes the receiver has put, or found identical, at each path
  foreign,   \* <<path, version>> whose commit replaced bytes unknown to it
  own        \* <<path, version>> whose commit replaced its own, untouched file

files == <<target, stage, archive, history>>
relay == <<latest, receipts>>
control == <<view, left, cur, ret>>
replaced == <<edited, known, foreign, own>>
ghosts == <<late, replaced>>
vars == <<target, stage, archive, history, journal, disk, mem, latest, receipts,
          view, left, cur, pc, ret, edits, fails, late, edited, known, foreign,
          own>>

Steps == {"stopped", "idle", "recover", "exchange", "archive", "record", "clear",
          "fetch", "loop", "apply", "same", "verify", "send", "settle"}

\* What the variables range over.
TypeOK ==
  /\ target \in [Paths -> File \cup {None}]
  /\ stage \in File \cup {None}
  /\ archive \in Data \cup {None}
  /\ history \in [Paths -> SUBSET Data]
  /\ journal \in Journal \cup {None}
  /\ disk \in [Paths -> Applied \cup {None}]
  /\ mem \in [Paths -> Applied \cup {None}]
  /\ latest \in [Paths -> 0..MaxVersion]
  /\ receipts \subseteq Paths \X (1..MaxVersion) \X BOOLEAN
  /\ view \in [Paths -> Entry]
  /\ left \subseteq Paths
  /\ cur \in Paths \cup {None}
  /\ pc \in Steps
  /\ ret \in {"idle", "fetch", "apply", "verify"}
  /\ edits \in 0..MaxEdits
  /\ fails \in 0..MaxFails
  /\ late \in BOOLEAN
  /\ edited \subseteq Paths
  /\ known \in [Paths -> SUBSET Data]
  /\ foreign \subseteq Paths \X (1..MaxVersion)
  /\ own \subseteq Paths \X (1..MaxVersion)

NoEntry == [version |-> 0, acknowledged |-> FALSE]

\* Files of the user.
Theirs == [data : Data, mine : {FALSE}]

\* The directory may already hold some.
Init ==
  /\ target \in [Paths -> Theirs \cup {None}]
  /\ stage = None /\ archive = None
  /\ history = [p \in Paths |-> {}]
  /\ journal = None
  /\ disk = [p \in Paths |-> None]
  /\ mem = [p \in Paths |-> None]
  /\ latest = [p \in Paths |-> 0]
  /\ receipts = {}
  /\ view = [p \in Paths |-> NoEntry]
  /\ left = {} /\ cur = None /\ pc = "stopped" /\ ret = "idle"
  /\ edits = 0 /\ fails = 0
  /\ late = FALSE /\ edited = Paths
  /\ known = [p \in Paths |-> {}] /\ foreign = {} /\ own = {}

-----------------------------------------------------------------------------
(* Helpers *)

\* A receipt covers every earlier version of its path (RelayStore!UpTo).
Received(p, v) == \E r \in receipts : r[1] = p /\ r[2] >= v

\* Open cannot return a receiver whose recovery failed; elsewhere the error
\* ends the synchronisation and the receiver may be used again.
AbortTo == IF ret = "idle" THEN "stopped" ELSE "idle"

Holds(p, d) == target[p] # None /\ target[p].data = d

Incoming(f) == f # None /\ f.mine

Put(p, applied) == mem' = [mem EXCEPT ![p] = applied]

\* save: the whole ledger is written, or the step fails and memory is ahead.
Saved(next) ==
  \/ disk' = mem' /\ pc' = next /\ UNCHANGED fails
  \/ fails < MaxFails /\ fails' = fails + 1 /\ pc' = AbortTo /\ UNCHANGED disk

Open ==
  /\ pc = "stopped"
  /\ mem' = disk
  /\ pc' = "recover" /\ ret' = "idle"
  /\ UNCHANGED <<files, journal, disk, relay, view, left, cur, edits, fails, ghosts>>

Close ==
  /\ pc = "idle"
  /\ pc' = "stopped"
  /\ UNCHANGED <<files, journal, disk, mem, relay, control, edits, fails, ghosts>>

-----------------------------------------------------------------------------
(* recover *)

\* The incoming file takes the target's name.
Commit(p) ==
  /\ target' = [target EXCEPT ![p] = stage]
  /\ edited' = edited \ {p}
  /\ known' = [known EXCEPT ![p] = @ \cup {stage.data}]

\* Mutant: a plain rename, which replaces whatever is at the target.
RecoverRenameOver ==
  /\ pc = "recover"
  /\ \/ /\ journal # None
        /\ Incoming(stage)
        /\ Commit(journal.path)
        /\ stage' = None
        /\ pc' = "archive"
     \/ /\ journal = None \/ ~Incoming(stage)
        /\ pc' = IF journal = None THEN ret ELSE "archive"
        /\ UNCHANGED <<target, stage, edited, known>>
  /\ UNCHANGED <<archive, history, journal, disk, mem, relay, control, edits, fails,
                 late, foreign, own>>

\* Move the incoming file to the target, unless that would replace a file.
RecoverRename ==
  /\ pc = "recover"
  /\ \/ /\ journal = None
        /\ pc' = ret
        /\ UNCHANGED <<target, stage, edited, known>>
     \/ /\ journal # None
        /\ Incoming(stage)
        /\ target[journal.path] = None
        /\ Commit(journal.path)
        /\ stage' = None
        /\ pc' = "archive"
     \/ /\ journal # None
        /\ Incoming(stage)
        /\ target[journal.path] # None
        /\ pc' = "exchange"
        /\ UNCHANGED <<target, stage, edited, known>>
     \/ /\ journal # None
        /\ ~Incoming(stage)
        /\ pc' = "archive"
        /\ UNCHANGED <<target, stage, edited, known>>
  /\ UNCHANGED <<archive, history, journal, disk, mem, relay, control, edits, fails,
                 late, foreign, own>>

\* Exchange the two names.  The target may have gone in the meantime.
RecoverExchange ==
  /\ pc = "exchange"
  /\ LET p == journal.path
         commit == {<<p, journal.version>>}
     IN \/ /\ target[p] = None
           /\ pc' = AbortTo
           /\ UNCHANGED <<target, stage, replaced>>
        \/ /\ target[p] # None
           /\ Commit(p)
           /\ stage' = target[p]
           /\ foreign' = IF target[p].data \in known[p] THEN foreign
                                                        ELSE foreign \cup commit
           /\ own' = IF p \in edited THEN own ELSE own \cup commit
           /\ pc' = "archive"
  /\ UNCHANGED <<archive, history, journal, disk, mem, relay, control, edits, fails,
                 late>>

\* A file left at the incoming name is the replaced one: it becomes history.
RecoverArchive ==
  /\ pc = "archive"
  /\ archive' = IF stage = None THEN archive ELSE stage.data
  /\ stage' = None
  /\ pc' = "record"
  /\ UNCHANGED <<target, history, journal, disk, mem, relay, control, edits, fails,
                 ghosts>>

CommitProved == archive # None \/ Incoming(target[journal.path])

RecoverRecord ==
  /\ pc = "record"
  /\ \/ /\ ~CommitProved
        /\ pc' = AbortTo
        /\ UNCHANGED <<mem, disk, fails>>
     \/ /\ CommitProved
        /\ Put(journal.path,
               [version |-> journal.version,
                data |-> DataOf[journal.path][journal.version],
                conflict |-> archive # None /\ archive # journal.previous,
                acknowledged |-> FALSE])
        /\ Saved("clear")
  /\ UNCHANGED <<files, journal, relay, control, edits, ghosts>>

\* With the journal gone, its inode and its history name mean nothing special.
RecoverClear ==
  /\ pc = "clear"
  /\ journal' = None
  /\ history' = [history EXCEPT ![journal.path] =
                   IF archive = None THEN @ ELSE @ \cup {archive}]
  /\ archive' = None
  /\ target' = [target EXCEPT ![journal.path] =
                  IF @ = None THEN None ELSE [@ EXCEPT !.mine = FALSE]]
  /\ pc' = ret
  /\ UNCHANGED <<stage, disk, mem, relay, control, edits, fails, ghosts>>

-----------------------------------------------------------------------------
(* sync_with_events *)

Sync ==
  /\ pc = "idle"
  /\ pc' = "recover" /\ ret' = "fetch"
  /\ UNCHANGED <<files, journal, disk, mem, relay, view, left, cur, edits, fails,
                 ghosts>>

\* directory_state: the latest version of every path.
Fetch ==
  /\ pc = "fetch"
  /\ view' = [p \in Paths |-> [version |-> latest[p],
                               acknowledged |-> Received(p, latest[p])]]
  /\ left' = {p \in Paths : latest[p] > 0}
  /\ pc' = "loop"
  /\ UNCHANGED <<files, journal, disk, mem, relay, cur, ret, edits, fails, ghosts>>

\* The entry is settled already; the ledger may not know it yet.
EntryAcknowledged(p) ==
  /\ pc = "loop"
  /\ p \in left
  /\ view[p].acknowledged
  /\ left' = left \ {p}
  /\ IF mem[p] # None /\ mem[p].version = view[p].version /\ ~mem[p].acknowledged
     THEN Put(p, [mem[p] EXCEPT !.acknowledged = TRUE]) /\ Saved("loop")
     ELSE UNCHANGED <<mem, disk, fails, pc>>
  /\ UNCHANGED <<files, journal, relay, view, cur, ret, edits, ghosts>>

\* Mutant: a version in the ledger is taken for settled.
EntryPendingSkipped(p) ==
  /\ pc = "loop"
  /\ p \in left
  /\ ~view[p].acknowledged
  /\ cur' = p
  /\ IF mem[p] # None /\ mem[p].version >= view[p].version
     THEN left' = left \ {p} /\ UNCHANGED <<pc, ret>>
     ELSE pc' = "recover" /\ ret' = "apply" /\ UNCHANGED left
  /\ UNCHANGED <<files, journal, disk, mem, relay, view, edits, fails, ghosts>>

EntryPending(p) ==
  /\ pc = "loop"
  /\ p \in left
  /\ ~view[p].acknowledged
  /\ cur' = p
  /\ IF mem[p] # None /\ mem[p].version >= view[p].version
     THEN pc' = "verify" /\ UNCHANGED ret
     ELSE pc' = "recover" /\ ret' = "apply"
  /\ UNCHANGED <<files, journal, disk, mem, relay, view, left, edits, fails, ghosts>>

\* Mutant: the previous digest is read from the file, not from the ledger.
ApplyPreviousOnDisk ==
  /\ pc = "apply"
  /\ LET v == view[cur].version
         d == DataOf[cur][v]
     IN IF Holds(cur, d)
        THEN pc' = "same" /\ UNCHANGED <<stage, journal, ret>>
        ELSE /\ stage' = [data |-> d, mine |-> TRUE]
             /\ journal' = [path |-> cur, version |-> v,
                            previous |-> IF target[cur] = None THEN None
                                                        ELSE target[cur].data]
             /\ pc' = "recover" /\ ret' = "verify"
  /\ UNCHANGED <<target, archive, history, disk, mem, relay, view, left, cur, edits,
                 fails, ghosts>>

\* Mutant: the journal is written before the bytes are staged.
ApplyJournalFirst ==
  /\ pc = "apply"
  /\ IF Holds(cur, DataOf[cur][view[cur].version])
     THEN pc' = "same" /\ UNCHANGED <<journal, ret>>
     ELSE /\ journal' = [path |-> cur, version |-> view[cur].version,
                         previous |-> IF mem[cur] = None THEN None
                                                         ELSE mem[cur].data]
          /\ pc' = "recover" /\ ret' = "verify"
  /\ UNCHANGED <<files, disk, mem, relay, view, left, cur, edits, fails, ghosts>>

\* apply: the payload is downloaded and verified in the receiver's own store.
\* A target that already has the bytes needs no commit; otherwise the bytes
\* are staged beside it and the journal is written.
Apply ==
  /\ pc = "apply"
  /\ LET v == view[cur].version
         d == DataOf[cur][v]
     IN IF Holds(cur, d)
        THEN pc' = "same" /\ UNCHANGED <<stage, journal, ret>>
        ELSE /\ stage' = [data |-> d, mine |-> TRUE]
             /\ journal' = [path |-> cur, version |-> v,
                            previous |-> IF mem[cur] = None THEN None
                                                            ELSE mem[cur].data]
             /\ pc' = "recover" /\ ret' = "verify"
  /\ UNCHANGED <<target, archive, history, disk, mem, relay, view, left, cur, edits,
                 fails, ghosts>>

ApplySame ==
  /\ pc = "same"
  /\ Put(cur, [version |-> view[cur].version,
               data |-> DataOf[cur][view[cur].version],
               conflict |-> FALSE, acknowledged |-> FALSE])
  /\ known' = [known EXCEPT ![cur] = @ \cup {DataOf[cur][view[cur].version]}]
  /\ Saved("verify")
  /\ UNCHANGED <<files, journal, relay, control, edits, late, edited, foreign, own>>

\* Mutant: the ledger is not written again before the receipt.
VerifyUnsaved ==
  /\ pc = "verify"
  /\ pc' = IF Holds(cur, mem[cur].data) THEN "send" ELSE "idle"
  /\ UNCHANGED <<files, journal, disk, mem, relay, control, edits, fails, ghosts>>

\* No receipt for a file that is missing or changed, and none from memory alone.
Verify ==
  /\ pc = "verify"
  /\ \/ /\ ~Holds(cur, mem[cur].data)
        /\ pc' = "idle"
        /\ UNCHANGED <<mem, disk, fails>>
     \/ /\ Holds(cur, mem[cur].data)
        /\ UNCHANGED mem
        /\ Saved("send")
  /\ UNCHANGED <<files, journal, relay, control, edits, ghosts>>

\* The relay takes the receipt; its answer may be lost (Fail).
Acknowledge ==
  /\ pc = "send"
  /\ receipts' = receipts \cup {<<cur, mem[cur].version, mem[cur].conflict>>}
  /\ pc' = "settle"
  /\ UNCHANGED <<files, journal, disk, mem, latest, control, edits, fails, ghosts>>

Settle ==
  /\ pc = "settle"
  /\ Put(cur, [mem[cur] EXCEPT !.acknowledged = TRUE])
  /\ Saved("loop")
  /\ left' = left \ {cur}
  /\ UNCHANGED <<files, journal, relay, view, cur, ret, edits, ghosts>>

\* All entries are handled: the inventory is published (DirectorySender).
Finish ==
  /\ pc = "loop"
  /\ left = {}
  /\ pc' = "idle"
  /\ UNCHANGED <<files, journal, disk, mem, relay, control, edits, fails, ghosts>>

-----------------------------------------------------------------------------
(* The environment *)

\* The sender's next version of a path is stored on the relay.
SenderStores(p) ==
  /\ latest[p] < MaxVersion
  /\ latest' = [latest EXCEPT ![p] = @ + 1]
  /\ UNCHANGED <<files, journal, disk, mem, receipts, control, pc, edits, fails, ghosts>>

\* Between the commit of a version and its receipt.
Unsettled(p) ==
  \/ journal # None /\ journal.path = p
  \/ \E ledger \in {disk, mem} : ledger[p] # None /\ ~ledger[p].acknowledged
  \/ cur = p /\ pc \in {"apply", "same", "verify", "send", "settle"}

\* The user saves a file over another, rewrites one in place, or deletes it.
UserChanges(p) ==
  /\ edits < MaxEdits
  /\ edits' = edits + 1
  /\ \/ \E d \in Data : target' = [target EXCEPT ![p] = [data |-> d, mine |-> FALSE]]
     \/ /\ target[p] # None
        /\ \E d \in Data : target' = [target EXCEPT ![p].data = d]
     \/ target' = [target EXCEPT ![p] = None]
  /\ late' = (late \/ Unsettled(p))
  /\ edited' = edited \cup {p}
  /\ UNCHANGED <<stage, archive, history, journal, disk, mem, relay, control, pc,
                 fails, known, foreign, own>>

\* The process dies, or an error ends the operation.
Fail ==
  /\ pc \notin {"stopped", "idle"}
  /\ fails < MaxFails
  /\ fails' = fails + 1
  /\ pc' \in {"stopped", AbortTo}
  /\ UNCHANGED <<files, journal, disk, mem, relay, control, edits, ghosts>>

Continue ==
  \/ RecoverRename \/ RecoverExchange \/ RecoverArchive \/ RecoverRecord
  \/ RecoverClear \/ Fetch \/ Apply \/ ApplySame \/ Verify \/ Acknowledge
  \/ Settle \/ Finish
  \/ \E p \in Paths : EntryAcknowledged(p) \/ EntryPending(p)

Next ==
  \/ Open \/ Close \/ Sync \/ Continue \/ Fail
  \/ \E p \in Paths : SenderStores(p) \/ UserChanges(p)

Spec == Init /\ [][Next]_vars

\* The receiver is started again and again, and keeps synchronising.
FairSpec ==
  Spec /\ WF_vars(Open) /\ SF_vars(Sync) /\ WF_vars(Continue)

-----------------------------------------------------------------------------
(* Properties *)

Retained(p) ==
  history[p]
    \cup (IF target[p] = None THEN {} ELSE {target[p].data})
    \cup (IF journal = None \/ journal.path # p THEN {}
          ELSE (IF stage = None THEN {} ELSE {stage.data})
                 \cup (IF archive = None THEN {} ELSE {archive}))

\* "No blind overwrite": no step of the receiver, and no crash or recovery,
\* makes bytes disappear that were in the directory; only the user does.
NothingIsLost ==
  [][edits' = edits => \A p \in Paths : Retained(p) \subseteq Retained(p)']_vars

\* A receipt on the relay, which lets it collect the content, is backed by the
\* ledger on disk, and the ledger claims no receipt the relay does not have
\* ("memory alone never authorizes remote GC").
ReceiptIsBacked ==
  \A p \in Paths :
    /\ \A r \in receipts : r[1] = p => disk[p] # None /\ disk[p].version >= r[2]
    /\ disk[p] # None /\ disk[p].acknowledged => Received(p, disk[p].version)

\* Conflict marks survive crashes: a version whose commit replaced bytes the
\* receiver did not know is recorded and reported as a conflict, and one that
\* replaced the receiver's own untouched file is not (previous_sha in the
\* journal, the digest of the history file in recover).
ConflictsAreHonest ==
  \A p \in Paths, v \in 1..MaxVersion, c \in BOOLEAN :
    \/ <<p, v, c>> \in receipts
    \/ disk[p] # None /\ disk[p].version = v /\ disk[p].conflict = c
    => /\ <<p, v>> \in foreign => c
       /\ <<p, v>> \in own => ~c

\* recover can finish a journalled commit after any crash; it stops with
\* "Cannot prove the directory commit completed" only if the user removed or
\* replaced the file while its commit was not yet recorded.
RecoveryIsPossible ==
  journal # None /\ ~late => stage # None \/ CommitProved

\* Every version the relay holds gets its receipt, whatever failed on the way,
\* unless the user changed the file between its commit and its receipt (which
\* deliberately blocks the receipt).
VersionsAreDelivered ==
  \A p \in Paths, v \in 1..MaxVersion :
    latest[p] >= v ~> Received(p, v) \/ late

-----------------------------------------------------------------------------
(* Inductive invariant *)

Recovering == {"exchange", "archive", "record", "clear"}
Working == {"fetch", "loop", "apply", "same", "verify", "send", "settle"}

\* The entries this synchronisation fetched are being handled.
Handling ==
  \/ pc \in Working \ {"fetch"}
  \/ pc \in Recovering \cup {"recover"} /\ ret \in {"apply", "verify"}

\* There is a journal when one is needed and none when nothing is left to
\* recover; it is the incoming file that is staged, or the replaced one.
JournalIsThere ==
  /\ pc \in Working => journal = None
  /\ pc \in Recovering => journal # None
  /\ pc \in Recovering \cup {"recover"} /\ ret = "apply" => journal = None
  /\ pc \in Recovering \cup {"recover"} /\ ret = "verify"
     => journal # None /\ journal.path = cur
  /\ journal = None => stage = None /\ archive = None
  /\ stage # None => archive = None
  /\ pc = "exchange" => Incoming(stage)
  /\ pc = "archive" => ~Incoming(stage)
  /\ pc \in {"record", "clear"} => stage = None

\* The journal's inode has one name, and until the commit its bytes are the
\* version's.
InodeHasOneName ==
  /\ \A p \in Paths : Incoming(target[p])
                      => journal # None /\ journal.path = p /\ ~Incoming(stage)
  /\ Incoming(stage) => stage.data = DataOf[journal.path][journal.version]

\* What is known of the entry at hand.
EntryIsNew ==
  /\ Handling => \A p \in left : view[p].version > 0
  /\ pc \in {"apply", "same"} \/ (pc = "recover" /\ ret = "apply")
     => /\ cur \in left
        /\ mem[cur] = None \/ mem[cur].version < view[cur].version
  /\ pc \in {"verify", "send", "settle"} => cur \in Paths /\ mem[cur] # None

\* Memory is ahead of the disk, and neither it nor what was fetched claims a
\* receipt that the relay does not have.
LedgersAreOrdered ==
  \A p \in Paths :
    /\ disk[p] # None => mem[p] # None /\ mem[p].version >= disk[p].version
    /\ mem[p] # None /\ mem[p].acknowledged => Received(p, mem[p].version)
    /\ view[p].acknowledged => Received(p, view[p].version)

\* The journal is ahead of memory until its commit is recorded.
JournalIsNext ==
  /\ journal # None /\ mem[journal.path] # None =>
       /\ mem[journal.path].version <= journal.version
       /\ Incoming(stage) => mem[journal.path].version < journal.version
  /\ pc = "clear" => /\ mem[journal.path] # None
                     /\ mem[journal.path].version = journal.version
                     /\ mem[journal.path].data = DataOf[journal.path][journal.version]

\* The ledger is on disk before the receipt is sent and the journal removed.
LedgerIsSaved ==
  /\ pc \in {"send", "settle", "clear"} => disk = mem
  /\ pc = "settle" => Received(cur, mem[cur].version)

\* The digests in the ledgers are of bytes the receiver put, or found there.
DigestsAreKnown ==
  \A p \in Paths : /\ disk[p] # None => disk[p].data \in known[p]
                   /\ mem[p] # None => mem[p].data \in known[p]

\* So is the journal's previous one, and the new one once it is committed.
JournalIsKnown ==
  journal # None =>
    /\ journal.previous \in known[journal.path] \cup {None}
    /\ ~Incoming(stage) => DataOf[journal.path][journal.version] \in known[journal.path]

\* An untouched file has the bytes of the ledger, of the journal's previous
\* version before a commit and of its new version after it.
Untouched(p) ==
  /\ target[p] # None
  /\ journal = None \/ journal.path # p =>
       /\ disk[p] # None /\ disk[p].data = target[p].data
       /\ mem[p] # None /\ mem[p].data = target[p].data
  /\ journal # None /\ journal.path = p =>
       /\ Incoming(stage) => target[p].data = journal.previous
       /\ ~Incoming(stage) => target[p].data = DataOf[p][journal.version]

FilesAreUntouched == \A p \in Paths : p \notin edited => Untouched(p)

\* A file that was found to have the bytes of its version has them still.
SameIsUntouched ==
  pc = "same" /\ cur \notin edited => Holds(cur, DataOf[cur][view[cur].version])

\* The commits of foreign and own are in the journal or in the ledger on disk.
CommitsAreMarked ==
  \A p \in Paths, v \in 1..MaxVersion :
    <<p, v>> \in foreign \cup own =>
      \/ journal # None /\ journal.path = p /\ journal.version = v /\ ~Incoming(stage)
      \/ disk[p] # None /\ disk[p].version >= v

\* The bytes that the journalled commit replaced, once it has happened.
Replaced == IF stage # None THEN stage.data ELSE archive

\* The bytes that decide about a conflict survive until it is recorded.
ReplacedIsKept ==
  journal # None /\ ~Incoming(stage) =>
    /\ <<journal.path, journal.version>> \in foreign
       => Replaced # None /\ Replaced # journal.previous
    /\ <<journal.path, journal.version>> \in own
       => Replaced \in {None, journal.previous}

\* The ledger in memory marks its conflicts like the one on disk.
MemoryIsHonest ==
  \A p \in Paths : mem[p] # None =>
    /\ <<p, mem[p].version>> \in foreign => mem[p].conflict
    /\ <<p, mem[p].version>> \in own => ~mem[p].conflict

ReceiverInv ==
  /\ TypeOK
  /\ JournalIsThere /\ InodeHasOneName /\ RecoveryIsPossible
  /\ EntryIsNew /\ LedgersAreOrdered /\ JournalIsNext /\ LedgerIsSaved
  /\ ReceiptIsBacked
  /\ DigestsAreKnown /\ JournalIsKnown
  /\ FilesAreUntouched /\ SameIsUntouched
  /\ CommitsAreMarked /\ ReplacedIsKept
  /\ MemoryIsHonest /\ ConflictsAreHonest
=============================================================================
