------------------------ MODULE DirectoryReceiverProofs ------------------------
(***************************************************************************)
(* Proofs about the directory projection, for any paths, versions, edits   *)
(* of the user, crashes and errors.                                        *)
(*                                                                         *)
(* The journal is what a crash leaves behind, so the argument follows it:  *)
(* JournalIsThere and InodeHasOneName say where the incoming and the       *)
(* replaced file are, LedgersAreOrdered that memory lies between the disk  *)
(* and the journal, CommitsAreMarked that the bytes which decide about a   *)
(* conflict survive until it is recorded.                                  *)
(***************************************************************************)
EXTENDS DirectoryReceiver, TLAPS

-----------------------------------------------------------------------------
(* Records, updates and saves *)

\* No record reads as its absence.
LEMMA SomeAreNotNone ==
  /\ \A f \in File : f # None
  /\ \A a \in Applied : a # None
  /\ \A j \in Journal : j # None
  /\ \A d \in Data : d # None
  /\ \A p \in Paths : p # None
BY ReceiverAssumption

\* Put writes one entry of the ledger and leaves the others alone.
LEMMA PutEffect ==
  ASSUME TypeOK, NEW p \in Paths, NEW a \in Applied, Put(p, a)
  PROVE  /\ mem' \in [Paths -> Applied \cup {None}]
         /\ mem'[p] = a /\ a # None
         /\ \A q \in Paths : q # p => mem'[q] = mem[q]
BY SomeAreNotNone DEF TypeOK, Put

\* An entry that is settled keeps the rest.
LEMMA AcknowledgedSet ==
  ASSUME NEW a \in Applied
  PROVE  LET b == [a EXCEPT !.acknowledged = TRUE]
         IN /\ b \in Applied /\ b.acknowledged
            /\ b.version = a.version /\ b.data = a.data /\ b.conflict = a.conflict
BY DEF Applied

\* Saved makes the disk equal to memory, or leaves it alone and ends the operation.
LEMMA SavedEffect ==
  ASSUME TypeOK, mem' \in [Paths -> Applied \cup {None}], NEW next, Saved(next)
  PROVE  /\ disk' \in [Paths -> Applied \cup {None}] /\ fails' \in 0..MaxFails
         /\ \/ pc' = next /\ disk' = mem'
            \/ pc' \in {"idle", "stopped"} /\ disk' = disk
BY ReceiverAssumption DEF TypeOK, Saved, AbortTo

-----------------------------------------------------------------------------
(* The initial states *)

LEMMA InitEstablishes == ASSUME Init PROVE ReceiverInv
<1>a. \A f \in Theirs : f \in File /\ ~f.mine
  BY DEF Theirs, File
<1>b. target \in [Paths -> Theirs \cup {None}]
  BY DEF Init
<1>c. target \in [Paths -> File \cup {None}]
  BY <1>a, <1>b
<1>d. view \in [Paths -> Entry]
  BY ReceiverAssumption DEF Init, Entry, NoEntry
<1>e. /\ stage = None /\ archive = None /\ history = [p \in Paths |-> {}]
      /\ journal = None /\ disk = [p \in Paths |-> None] /\ mem = [p \in Paths |-> None]
      /\ latest = [p \in Paths |-> 0] /\ receipts = {}
      /\ left = {} /\ cur = None /\ pc = "stopped" /\ ret = "idle"
      /\ edits = 0 /\ fails = 0 /\ late = FALSE /\ edited = Paths
      /\ known = [p \in Paths |-> {}] /\ foreign = {} /\ own = {}
  BY Zenon DEF Init
<1>1. TypeOK
  <2>1. /\ edits \in 0..MaxEdits /\ fails \in 0..MaxFails
        /\ latest \in [Paths -> 0..MaxVersion]
    BY <1>e, ReceiverAssumption
  <2>2. /\ receipts \subseteq Paths \X (1..MaxVersion) \X BOOLEAN
        /\ foreign \subseteq Paths \X (1..MaxVersion)
        /\ own \subseteq Paths \X (1..MaxVersion)
    BY <1>e
  <2>3. /\ history \in [Paths -> SUBSET Data] /\ known \in [Paths -> SUBSET Data]
        /\ disk \in [Paths -> Applied \cup {None}] /\ mem \in [Paths -> Applied \cup {None}]
    BY <1>e
  <2> QED
    BY <1>c, <1>d, <1>e, <2>1, <2>2, <2>3 DEF TypeOK, Steps
<1>2. /\ JournalIsThere /\ RecoveryIsPossible
      /\ pc = "stopped" /\ journal = None /\ stage = None /\ archive = None
  BY <1>e DEF JournalIsThere, Working, Recovering, RecoveryIsPossible
<1>3. \A p \in Paths : ~Incoming(target[p])
  BY <1>a, <1>b DEF Incoming
<1>4. InodeHasOneName /\ EntryIsNew
  BY <1>2, <1>3 DEF InodeHasOneName, EntryIsNew, Handling, Working, Recovering, Incoming
<1>5. /\ \A p \in Paths : disk[p] = None /\ mem[p] = None /\ ~view[p].acknowledged
      /\ receipts = {} /\ edited = Paths /\ foreign = {} /\ own = {}
  BY DEF Init, NoEntry
<1>6. LedgersAreOrdered /\ JournalIsNext /\ LedgerIsSaved /\ ReceiptIsBacked
  BY <1>2, <1>5 DEF LedgersAreOrdered, JournalIsNext, LedgerIsSaved, ReceiptIsBacked
<1>7. /\ DigestsAreKnown /\ JournalIsKnown /\ FilesAreUntouched /\ SameIsUntouched
      /\ CommitsAreMarked /\ ReplacedIsKept
  BY <1>2, <1>5 DEF DigestsAreKnown, JournalIsKnown, FilesAreUntouched,
                    SameIsUntouched, CommitsAreMarked, ReplacedIsKept
<1>8. MemoryIsHonest /\ ConflictsAreHonest
  BY <1>5 DEF MemoryIsHonest, ConflictsAreHonest
<1> QED
  BY <1>1, <1>2, <1>4, <1>6, <1>7, <1>8 DEF ReceiverInv

-----------------------------------------------------------------------------
(* What a step that leaves files or ledgers alone cannot disturb *)

LEMMA FilesFrame ==
  ASSUME ReceiverInv,
         UNCHANGED <<target, stage, archive, journal, late, known, foreign, own>>
  PROVE  InodeHasOneName' /\ RecoveryIsPossible' /\ JournalIsKnown' /\ ReplacedIsKept'
<1> USE DEF ReceiverInv, Incoming
<1>1. InodeHasOneName'
  BY DEF InodeHasOneName
<1>2. RecoveryIsPossible'
  BY DEF RecoveryIsPossible, CommitProved
<1>3. JournalIsKnown' /\ ReplacedIsKept'
  BY DEF JournalIsKnown, ReplacedIsKept, Replaced
<1> QED
  BY <1>1, <1>2, <1>3

LEMMA LedgersFrame ==
  ASSUME ReceiverInv, UNCHANGED <<disk, mem, receipts, known, foreign, own>>
  PROVE  ReceiptIsBacked' /\ DigestsAreKnown' /\ MemoryIsHonest' /\ ConflictsAreHonest'
<1> USE DEF ReceiverInv
<1>1. ReceiptIsBacked'
  BY DEF ReceiptIsBacked, Received
<1>2. DigestsAreKnown' /\ MemoryIsHonest'
  BY DEF DigestsAreKnown, MemoryIsHonest
<1>3. ConflictsAreHonest'
  BY DEF ConflictsAreHonest
<1> QED
  BY <1>1, <1>2, <1>3

LEMMA UntouchedFrame ==
  ASSUME ReceiverInv, UNCHANGED <<target, stage, journal, disk, mem, edited>>
  PROVE  FilesAreUntouched'
BY DEF ReceiverInv, FilesAreUntouched, Untouched, Incoming

LEMMA MarksFrame ==
  ASSUME ReceiverInv, UNCHANGED <<stage, journal, disk, foreign, own>>
  PROVE  CommitsAreMarked'
BY DEF ReceiverInv, CommitsAreMarked, Incoming

LEMMA ViewFrame ==
  ASSUME ReceiverInv, UNCHANGED <<disk, mem, receipts, view>>
  PROVE  LedgersAreOrdered'
BY DEF ReceiverInv, LedgersAreOrdered, Received

-----------------------------------------------------------------------------
(* Steps that change neither files nor ledgers *)

\* The receiver is closed.
LEMMA CloseKeeps ==
  ASSUME ReceiverInv, Close
  PROVE  ReceiverInv'
<1> USE DEF ReceiverInv, files, relay, control, replaced, ghosts
<1>1. /\ InodeHasOneName' /\ RecoveryIsPossible' /\ JournalIsKnown'
      /\ ReplacedIsKept' /\ ReceiptIsBacked' /\ DigestsAreKnown'
      /\ MemoryIsHonest' /\ ConflictsAreHonest' /\ FilesAreUntouched'
      /\ CommitsAreMarked' /\ LedgersAreOrdered'
  BY FilesFrame, LedgersFrame, UntouchedFrame, MarksFrame, ViewFrame DEF
      Close
<1>2. TypeOK'
  BY DEF Close, TypeOK, Steps
<1>3. JournalIsThere'
  BY DEF Close, JournalIsThere, Working, Recovering, Incoming, TypeOK
<1>4. EntryIsNew'
  BY DEF Close, EntryIsNew, Handling, Working, Recovering, TypeOK
<1>5. JournalIsNext'
  BY DEF Close, JournalIsNext, Incoming, TypeOK
<1>6. LedgerIsSaved'
  BY DEF Close, LedgerIsSaved, Received, TypeOK
<1>7. SameIsUntouched'
  BY DEF Close, SameIsUntouched, Holds, TypeOK
<1> QED
  BY <1>1, <1>2, <1>3, <1>4, <1>5, <1>6, <1>7

\* A synchronisation starts with recovery.
LEMMA SyncKeeps ==
  ASSUME ReceiverInv, Sync
  PROVE  ReceiverInv'
<1> USE DEF ReceiverInv, files, relay, control, replaced, ghosts
<1>1. /\ InodeHasOneName' /\ RecoveryIsPossible' /\ JournalIsKnown'
      /\ ReplacedIsKept' /\ ReceiptIsBacked' /\ DigestsAreKnown'
      /\ MemoryIsHonest' /\ ConflictsAreHonest' /\ FilesAreUntouched'
      /\ CommitsAreMarked' /\ LedgersAreOrdered'
  BY FilesFrame, LedgersFrame, UntouchedFrame, MarksFrame, ViewFrame DEF
      Sync
<1>2. TypeOK'
  BY DEF Sync, TypeOK, Steps
<1>3. JournalIsThere'
  BY DEF Sync, JournalIsThere, Working, Recovering, Incoming, TypeOK
<1>4. EntryIsNew'
  BY DEF Sync, EntryIsNew, Handling, Working, Recovering, TypeOK
<1>5. JournalIsNext'
  BY DEF Sync, JournalIsNext, Incoming, TypeOK
<1>6. LedgerIsSaved'
  BY DEF Sync, LedgerIsSaved, Received, TypeOK
<1>7. SameIsUntouched'
  BY DEF Sync, SameIsUntouched, Holds, TypeOK
<1> QED
  BY <1>1, <1>2, <1>3, <1>4, <1>5, <1>6, <1>7

\* It ends when every entry is handled.
LEMMA FinishKeeps ==
  ASSUME ReceiverInv, Finish
  PROVE  ReceiverInv'
<1> USE DEF ReceiverInv, files, relay, control, replaced, ghosts
<1>1. /\ InodeHasOneName' /\ RecoveryIsPossible' /\ JournalIsKnown'
      /\ ReplacedIsKept' /\ ReceiptIsBacked' /\ DigestsAreKnown'
      /\ MemoryIsHonest' /\ ConflictsAreHonest' /\ FilesAreUntouched'
      /\ CommitsAreMarked' /\ LedgersAreOrdered'
  BY FilesFrame, LedgersFrame, UntouchedFrame, MarksFrame, ViewFrame DEF
      Finish
<1>2. TypeOK'
  BY DEF Finish, TypeOK, Steps
<1>3. JournalIsThere'
  BY DEF Finish, JournalIsThere, Working, Recovering, Incoming, TypeOK
<1>4. EntryIsNew'
  BY DEF Finish, EntryIsNew, Handling, Working, Recovering, TypeOK
<1>5. JournalIsNext'
  BY DEF Finish, JournalIsNext, Incoming, TypeOK
<1>6. LedgerIsSaved'
  BY DEF Finish, LedgerIsSaved, Received, TypeOK
<1>7. SameIsUntouched'
  BY DEF Finish, SameIsUntouched, Holds, TypeOK
<1> QED
  BY <1>1, <1>2, <1>3, <1>4, <1>5, <1>6, <1>7

\* An entry is verified if the ledger has it, and applied if not.
LEMMA EntryPendingKeeps ==
  ASSUME ReceiverInv, NEW p \in Paths, EntryPending(p)
  PROVE  ReceiverInv'
<1> USE DEF ReceiverInv, files, relay, control, replaced, ghosts
<1>1. /\ InodeHasOneName' /\ RecoveryIsPossible' /\ JournalIsKnown'
      /\ ReplacedIsKept' /\ ReceiptIsBacked' /\ DigestsAreKnown'
      /\ MemoryIsHonest' /\ ConflictsAreHonest' /\ FilesAreUntouched'
      /\ CommitsAreMarked' /\ LedgersAreOrdered'
  BY FilesFrame, LedgersFrame, UntouchedFrame, MarksFrame, ViewFrame DEF
      EntryPending
<1>2. TypeOK'
  BY DEF EntryPending, TypeOK, Steps
<1>3. JournalIsThere'
  BY DEF EntryPending, JournalIsThere, Working, Recovering, Incoming, TypeOK
<1>4. EntryIsNew'
  BY ReceiverAssumption DEF EntryPending, EntryIsNew, Handling, Working,
      Recovering, TypeOK, Applied, Entry
<1>5. JournalIsNext'
  BY DEF EntryPending, JournalIsNext, Incoming, TypeOK
<1>6. LedgerIsSaved'
  BY DEF EntryPending, LedgerIsSaved, Received, TypeOK
<1>7. SameIsUntouched'
  BY DEF EntryPending, SameIsUntouched, Holds, TypeOK
<1> QED
  BY <1>1, <1>2, <1>3, <1>4, <1>5, <1>6, <1>7

\* The process dies, or an error ends the operation.
LEMMA FailKeeps ==
  ASSUME ReceiverInv, Fail
  PROVE  ReceiverInv'
<1> USE DEF ReceiverInv, files, relay, control, replaced, ghosts
<1>1. /\ InodeHasOneName' /\ RecoveryIsPossible' /\ JournalIsKnown'
      /\ ReplacedIsKept' /\ ReceiptIsBacked' /\ DigestsAreKnown'
      /\ MemoryIsHonest' /\ ConflictsAreHonest' /\ FilesAreUntouched'
      /\ CommitsAreMarked' /\ LedgersAreOrdered'
  BY FilesFrame, LedgersFrame, UntouchedFrame, MarksFrame, ViewFrame DEF
      Fail
<1>2. TypeOK'
  BY ReceiverAssumption DEF Fail, AbortTo, TypeOK, Steps
<1>3. JournalIsThere'
  BY DEF Fail, AbortTo, JournalIsThere, Working, Recovering, Incoming,
      TypeOK
<1>4. EntryIsNew'
  BY DEF Fail, AbortTo, EntryIsNew, Handling, Working, Recovering, TypeOK
<1>5. JournalIsNext'
  BY DEF Fail, AbortTo, JournalIsNext, Incoming, TypeOK
<1>6. LedgerIsSaved'
  BY DEF Fail, AbortTo, LedgerIsSaved, Received, TypeOK
<1>7. SameIsUntouched'
  BY DEF Fail, AbortTo, SameIsUntouched, Holds, TypeOK
<1> QED
  BY <1>1, <1>2, <1>3, <1>4, <1>5, <1>6, <1>7

\* The relay has a new version.
LEMMA SenderStoresKeeps ==
  ASSUME ReceiverInv, NEW p \in Paths, SenderStores(p)
  PROVE  ReceiverInv'
<1> USE DEF ReceiverInv, files, relay, control, replaced, ghosts
<1>1. /\ InodeHasOneName' /\ RecoveryIsPossible' /\ JournalIsKnown'
      /\ ReplacedIsKept' /\ ReceiptIsBacked' /\ DigestsAreKnown'
      /\ MemoryIsHonest' /\ ConflictsAreHonest' /\ FilesAreUntouched'
      /\ CommitsAreMarked' /\ LedgersAreOrdered'
  BY FilesFrame, LedgersFrame, UntouchedFrame, MarksFrame, ViewFrame DEF
      SenderStores
<1>2. TypeOK'
  BY ReceiverAssumption DEF SenderStores, TypeOK, Steps
<1>3. JournalIsThere'
  BY DEF SenderStores, JournalIsThere, Working, Recovering, Incoming, TypeOK
<1>4. EntryIsNew'
  BY DEF SenderStores, EntryIsNew, Handling, Working, Recovering, TypeOK
<1>5. JournalIsNext'
  BY DEF SenderStores, JournalIsNext, Incoming, TypeOK
<1>6. LedgerIsSaved'
  BY DEF SenderStores, LedgerIsSaved, Received, TypeOK
<1>7. SameIsUntouched'
  BY DEF SenderStores, SameIsUntouched, Holds, TypeOK
<1> QED
  BY <1>1, <1>2, <1>3, <1>4, <1>5, <1>6, <1>7

\* The receipts that the relay reports are receipts it has.
LEMMA FetchKeeps ==
  ASSUME ReceiverInv, Fetch
  PROVE  ReceiverInv'
<1> USE DEF ReceiverInv, files, relay, control, replaced, ghosts
<1>1. /\ InodeHasOneName' /\ RecoveryIsPossible' /\ JournalIsKnown'
      /\ ReplacedIsKept' /\ ReceiptIsBacked' /\ DigestsAreKnown'
      /\ MemoryIsHonest' /\ ConflictsAreHonest' /\ FilesAreUntouched'
      /\ CommitsAreMarked'
  BY FilesFrame, LedgersFrame, UntouchedFrame, MarksFrame DEF Fetch
<1>2. TypeOK'
  <2>1. \A q \in Paths : [version |-> latest[q], acknowledged |-> Received(q, latest[q])]
                          \in Entry
    BY DEF TypeOK, Entry, Received
  <2>2. view' \in [Paths -> Entry]
    BY <2>1 DEF Fetch
  <2>3. UNCHANGED <<target, stage, archive, history, journal, disk, mem, latest,
                    receipts, cur, ret, edits, fails, late, edited, known, foreign, own>>
    BY DEF Fetch
  <2>4. pc' = "loop" /\ left' \subseteq Paths
    BY DEF Fetch
  <2> QED
    BY <2>2, <2>3, <2>4 DEF TypeOK, Steps
<1>3. JournalIsThere'
  BY DEF Fetch, JournalIsThere, Working, Recovering, Incoming, TypeOK
<1>4. EntryIsNew'
  BY DEF Fetch, EntryIsNew, Handling, Working, Recovering, TypeOK
<1>5. LedgersAreOrdered'
  <2> SUFFICES ASSUME NEW q \in Paths PROVE LedgersAreOrdered!(q)'
    BY Zenon DEF LedgersAreOrdered
  <2> QED
    BY DEF Fetch, LedgersAreOrdered, Received, TypeOK
<1>6. JournalIsNext'
  BY DEF Fetch, JournalIsNext, Incoming, TypeOK
<1>7. LedgerIsSaved'
  BY DEF Fetch, LedgerIsSaved, Received, TypeOK
<1>8. SameIsUntouched'
  BY DEF Fetch, SameIsUntouched, Holds, TypeOK
<1> QED
  BY <1>1, <1>2, <1>3, <1>4, <1>5, <1>6, <1>7, <1>8

-----------------------------------------------------------------------------
(* Steps that write the ledger *)

\* What the invariant says of an entry of either ledger.
LEMMA EntriesAreHonest ==
  ASSUME ReceiverInv, NEW q \in Paths, disk[q] # None
  PROVE  /\ disk[q] \in Applied
         /\ <<q, disk[q].version>> \in foreign => disk[q].conflict
         /\ <<q, disk[q].version>> \in own => ~disk[q].conflict
<1>1. disk[q] \in Applied
  BY DEF ReceiverInv, TypeOK
<1>2. disk[q].version \in 1..MaxVersion /\ disk[q].conflict \in BOOLEAN
  BY <1>1 DEF Applied
<1> QED
  BY <1>1, <1>2 DEF ReceiverInv, ConflictsAreHonest

\* A ledger that grows, and claims receipts only that were taken, may be saved.
LEMMA LedgerGrows ==
  ASSUME ReceiverInv, UNCHANGED <<receipts, view, stage, journal, foreign, own>>,
         mem' \in [Paths -> Applied \cup {None}], disk' = disk \/ disk' = mem',
         \A q \in Paths : disk[q] # None =>
           mem'[q] # None /\ mem'[q].version >= disk[q].version,
         \A q \in Paths : mem'[q] # None /\ mem'[q].acknowledged =>
           Received(q, mem'[q].version)
  PROVE  LedgersAreOrdered' /\ ReceiptIsBacked' /\ CommitsAreMarked'
<1> USE DEF ReceiverInv
<1>1. \A q \in Paths : /\ disk[q] # None => disk[q].version \in Int
                       /\ mem'[q] # None => mem'[q].version \in Int
  BY ReceiverAssumption DEF TypeOK, Applied
<1>2. LedgersAreOrdered'
  <2> SUFFICES ASSUME NEW q \in Paths PROVE LedgersAreOrdered!(q)'
    BY Zenon DEF LedgersAreOrdered
  <2> QED
    BY <1>1 DEF LedgersAreOrdered, Received
<1>3. ReceiptIsBacked'
  <2> SUFFICES ASSUME NEW q \in Paths PROVE ReceiptIsBacked!(q)'
    BY Zenon DEF ReceiptIsBacked
  <2>1. \A r \in receipts : r[1] = q => disk'[q] # None /\ disk'[q].version >= r[2]
    <3> SUFFICES ASSUME NEW r \in receipts, r[1] = q
                 PROVE  disk'[q] # None /\ disk'[q].version >= r[2]
      OBVIOUS
    <3>1. disk[q] # None /\ disk[q].version >= r[2] /\ r[2] \in Int
      BY ReceiverAssumption DEF ReceiptIsBacked, TypeOK
    <3> QED
      BY <1>1, <3>1
  <2>2. disk'[q] # None /\ disk'[q].acknowledged => Received(q, disk'[q].version)
    BY DEF ReceiptIsBacked
  <2> QED
    BY <2>1, <2>2 DEF Received
<1>4. CommitsAreMarked'
  <2> SUFFICES ASSUME NEW q \in Paths, NEW w \in 1..MaxVersion
               PROVE  CommitsAreMarked!(q, w)'
    BY Zenon DEF CommitsAreMarked
  <2>1. disk[q] # None /\ disk[q].version >= w => disk'[q] # None /\ disk'[q].version >= w
    BY <1>1
  <2> QED
    BY <2>1 DEF CommitsAreMarked, Incoming
<1> QED
  BY <1>2, <1>3, <1>4

\* So may one that marks its conflicts.
LEMMA HonestLedger ==
  ASSUME ReceiverInv, UNCHANGED <<receipts, foreign, own>>,
         disk' = disk \/ disk' = mem',
         \A q \in Paths : mem'[q] # None =>
           /\ <<q, mem'[q].version>> \in foreign => mem'[q].conflict
           /\ <<q, mem'[q].version>> \in own => ~mem'[q].conflict
  PROVE  MemoryIsHonest' /\ ConflictsAreHonest'
<1>1. MemoryIsHonest'
  BY DEF MemoryIsHonest
<1>2. ConflictsAreHonest'
  <2> SUFFICES ASSUME NEW q \in Paths, NEW w \in 1..MaxVersion, NEW c \in BOOLEAN
               PROVE  ConflictsAreHonest!(q, w, c)'
    BY Zenon DEF ConflictsAreHonest
  <2> QED
    BY DEF ReceiverInv, ConflictsAreHonest
<1> QED
  BY <1>1, <1>2

\* The ledger is what the disk holds.
LEMMA OpenKeeps ==
  ASSUME ReceiverInv, Open
  PROVE  ReceiverInv'
<1> USE DEF ReceiverInv, files, relay, control, replaced, ghosts
<1>1. /\ InodeHasOneName' /\ RecoveryIsPossible' /\ JournalIsKnown'
      /\ ReplacedIsKept' /\ CommitsAreMarked'
  BY FilesFrame, MarksFrame DEF Open
<1>2. TypeOK'
  BY DEF Open, TypeOK, Steps
<1>3. JournalIsThere'
  BY DEF Open, JournalIsThere, Working, Recovering, Incoming, TypeOK
<1>4. EntryIsNew'
  BY DEF Open, EntryIsNew, Handling, Working, Recovering, TypeOK
<1>5. LedgersAreOrdered'
  <2> SUFFICES ASSUME NEW q \in Paths PROVE LedgersAreOrdered!(q)'
    BY Zenon DEF LedgersAreOrdered
  <2> QED
    BY DEF Open, LedgersAreOrdered, Received, TypeOK, ReceiptIsBacked,
        Applied
<1>6. JournalIsNext'
  BY ReceiverAssumption DEF Open, JournalIsNext, Incoming, TypeOK,
      LedgersAreOrdered, Journal, Applied
<1>7. LedgerIsSaved'
  BY DEF Open, LedgerIsSaved, Received, TypeOK
<1>8. ReceiptIsBacked'
  <2> SUFFICES ASSUME NEW q \in Paths PROVE ReceiptIsBacked!(q)'
    BY Zenon DEF ReceiptIsBacked
  <2> QED
    BY DEF Open, ReceiptIsBacked, Received, TypeOK
<1>9. DigestsAreKnown'
  <2> SUFFICES ASSUME NEW q \in Paths PROVE DigestsAreKnown!(q)'
    BY Zenon DEF DigestsAreKnown
  <2> QED
    BY DEF Open, DigestsAreKnown, TypeOK
<1>10. FilesAreUntouched'
  <2> SUFFICES ASSUME NEW q \in Paths PROVE FilesAreUntouched!(q)'
    BY Zenon DEF FilesAreUntouched
  <2> QED
    BY DEF Open, FilesAreUntouched, Untouched, Incoming, TypeOK
<1>11. SameIsUntouched'
  BY DEF Open, SameIsUntouched, Holds, TypeOK
<1>12. MemoryIsHonest'
  <2> SUFFICES ASSUME NEW q \in Paths PROVE MemoryIsHonest!(q)'
    BY Zenon DEF MemoryIsHonest
  <2> QED
    BY EntriesAreHonest DEF Open, MemoryIsHonest, TypeOK
<1>13. ConflictsAreHonest'
  <2> SUFFICES ASSUME NEW q \in Paths, NEW w \in 1..MaxVersion, NEW c \in BOOLEAN
               PROVE  ConflictsAreHonest!(q, w, c)'
    BY Zenon DEF ConflictsAreHonest
  <2> QED
    BY DEF Open, ConflictsAreHonest, TypeOK
<1> QED
  BY <1>1, <1>2, <1>3, <1>4, <1>5, <1>6, <1>7, <1>8, <1>9, <1>10, <1>11,
      <1>12, <1>13

\* A receipt that was taken is recorded.
LEMMA SettleKeeps ==
  ASSUME ReceiverInv, Settle
  PROVE  ReceiverInv'
<1> USE DEF ReceiverInv, files, relay, control, replaced, ghosts
<1>c. pc = "settle" /\ cur \in Paths /\ mem[cur] # None /\ mem[cur] \in Applied
  BY DEF Settle, EntryIsNew, TypeOK
<1> DEFINE a == [mem[cur] EXCEPT !.acknowledged = TRUE]
<1>a. /\ a \in Applied /\ a.acknowledged /\ a.version = mem[cur].version
      /\ a.data = mem[cur].data /\ a.conflict = mem[cur].conflict
  BY <1>c, AcknowledgedSet
<1>p. Put(cur, a) /\ Saved("loop")
  BY DEF Settle
<1>f. /\ UNCHANGED <<files, journal, relay, view, cur, ret, edits, ghosts>>
      /\ left' = left \ {cur}
  BY DEF Settle
<1> HIDE DEF a
<1>m. /\ mem' \in [Paths -> Applied \cup {None}]
      /\ mem'[cur] = a /\ a # None /\ \A q \in Paths : q # cur => mem'[q] = mem[q]
  BY <1>p, <1>c, <1>a, PutEffect
<1>s. /\ disk' \in [Paths -> Applied \cup {None}] /\ fails' \in 0..MaxFails
      /\ \/ pc' = "loop" /\ disk' = mem'
         \/ pc' \in {"idle", "stopped"} /\ disk' = disk
  BY <1>p, <1>m, SavedEffect
<1>g. /\ \A q \in Paths : disk[q] # None =>
           mem'[q] # None /\ mem'[q].version >= disk[q].version
      /\ \A q \in Paths : mem'[q] # None /\ mem'[q].acknowledged =>
           Received(q, mem'[q].version)
      /\ \A q \in Paths : mem'[q] # None =>
           /\ <<q, mem'[q].version>> \in foreign => mem'[q].conflict
           /\ <<q, mem'[q].version>> \in own => ~mem'[q].conflict
  BY <1>c, <1>a, <1>m DEF LedgersAreOrdered, LedgerIsSaved, MemoryIsHonest
<1>1. /\ InodeHasOneName' /\ RecoveryIsPossible' /\ JournalIsKnown'
      /\ ReplacedIsKept' /\ LedgersAreOrdered' /\ ReceiptIsBacked'
      /\ CommitsAreMarked' /\ MemoryIsHonest' /\ ConflictsAreHonest'
  BY <1>c, <1>a, <1>m, <1>s, <1>f, <1>g, FilesFrame, LedgerGrows, HonestLedger
<1>2. TypeOK'
  BY <1>c, <1>a, <1>m, <1>s, <1>f DEF TypeOK, Steps
<1>3. JournalIsThere'
  BY <1>c, <1>a, <1>m, <1>s, <1>f DEF JournalIsThere, Working, Recovering,
      Incoming, TypeOK
<1>4. EntryIsNew'
  BY <1>c, <1>a, <1>m, <1>s, <1>f DEF EntryIsNew, Handling, Working,
      Recovering, TypeOK
<1>5. JournalIsNext'
  BY <1>c, <1>a, <1>m, <1>s, <1>f DEF JournalIsNext, Incoming, TypeOK,
      JournalIsThere, Working
<1>6. LedgerIsSaved'
  BY <1>c, <1>a, <1>m, <1>s, <1>f DEF LedgerIsSaved, Received, TypeOK
<1>7. DigestsAreKnown'
  <2> SUFFICES ASSUME NEW q \in Paths PROVE DigestsAreKnown!(q)'
    BY Zenon DEF DigestsAreKnown
  <2> QED
    BY <1>c, <1>a, <1>m, <1>s, <1>f DEF DigestsAreKnown, TypeOK
<1>8. FilesAreUntouched'
  <2> SUFFICES ASSUME NEW q \in Paths PROVE FilesAreUntouched!(q)'
    BY Zenon DEF FilesAreUntouched
  <2> QED
    BY <1>c, <1>a, <1>m, <1>s, <1>f DEF FilesAreUntouched, Untouched,
        Incoming, TypeOK
<1>9. SameIsUntouched'
  BY <1>c, <1>a, <1>m, <1>s, <1>f DEF SameIsUntouched, Holds, TypeOK
<1> QED
  BY <1>1, <1>2, <1>3, <1>4, <1>5, <1>6, <1>7, <1>8, <1>9

\* The relay has the receipt, and the ledger learns of it.
LEMMA EntrySettledKeeps ==
  ASSUME ReceiverInv, NEW p \in Paths, EntryAcknowledged(p),
         mem[p] # None, mem[p].version = view[p].version, ~mem[p].acknowledged
  PROVE  ReceiverInv'
<1> USE DEF ReceiverInv, files, relay, control, replaced, ghosts
<1>c. pc = "loop" /\ p \in Paths /\ mem[p] # None /\ mem[p] \in Applied /\ view[p].acknowledged
  BY DEF EntryAcknowledged, TypeOK
<1> DEFINE a == [mem[p] EXCEPT !.acknowledged = TRUE]
<1>a. /\ a \in Applied /\ a.acknowledged /\ a.version = mem[p].version
      /\ a.data = mem[p].data /\ a.conflict = mem[p].conflict
  BY <1>c, AcknowledgedSet
<1>p. Put(p, a) /\ Saved("loop")
  BY DEF EntryAcknowledged
<1>f. /\ UNCHANGED <<files, journal, relay, view, cur, ret, edits, ghosts>>
      /\ left' = left \ {p}
  BY DEF EntryAcknowledged
<1> HIDE DEF a
<1>m. /\ mem' \in [Paths -> Applied \cup {None}]
      /\ mem'[p] = a /\ a # None /\ \A q \in Paths : q # p => mem'[q] = mem[q]
  BY <1>p, <1>c, <1>a, PutEffect
<1>s. /\ disk' \in [Paths -> Applied \cup {None}] /\ fails' \in 0..MaxFails
      /\ \/ pc' = "loop" /\ disk' = mem'
         \/ pc' \in {"idle", "stopped"} /\ disk' = disk
  BY <1>p, <1>m, SavedEffect
<1>g. /\ \A q \in Paths : disk[q] # None =>
           mem'[q] # None /\ mem'[q].version >= disk[q].version
      /\ \A q \in Paths : mem'[q] # None /\ mem'[q].acknowledged =>
           Received(q, mem'[q].version)
      /\ \A q \in Paths : mem'[q] # None =>
           /\ <<q, mem'[q].version>> \in foreign => mem'[q].conflict
           /\ <<q, mem'[q].version>> \in own => ~mem'[q].conflict
  BY <1>c, <1>a, <1>m DEF LedgersAreOrdered, MemoryIsHonest
<1>1. /\ InodeHasOneName' /\ RecoveryIsPossible' /\ JournalIsKnown'
      /\ ReplacedIsKept' /\ LedgersAreOrdered' /\ ReceiptIsBacked'
      /\ CommitsAreMarked' /\ MemoryIsHonest' /\ ConflictsAreHonest'
  BY <1>c, <1>a, <1>m, <1>s, <1>f, <1>g, FilesFrame, LedgerGrows, HonestLedger
<1>2. TypeOK'
  BY <1>c, <1>a, <1>m, <1>s, <1>f DEF TypeOK, Steps
<1>3. JournalIsThere'
  BY <1>c, <1>a, <1>m, <1>s, <1>f DEF JournalIsThere, Working, Recovering,
      Incoming, TypeOK
<1>4. EntryIsNew'
  BY <1>c, <1>a, <1>m, <1>s, <1>f DEF EntryIsNew, Handling, Working,
      Recovering, TypeOK
<1>5. JournalIsNext'
  BY <1>c, <1>a, <1>m, <1>s, <1>f DEF JournalIsNext, Incoming, TypeOK,
      JournalIsThere, Working
<1>6. LedgerIsSaved'
  BY <1>c, <1>a, <1>m, <1>s, <1>f DEF LedgerIsSaved, Received, TypeOK
<1>7. DigestsAreKnown'
  <2> SUFFICES ASSUME NEW q \in Paths PROVE DigestsAreKnown!(q)'
    BY Zenon DEF DigestsAreKnown
  <2> QED
    BY <1>c, <1>a, <1>m, <1>s, <1>f DEF DigestsAreKnown, TypeOK
<1>8. FilesAreUntouched'
  <2> SUFFICES ASSUME NEW q \in Paths PROVE FilesAreUntouched!(q)'
    BY Zenon DEF FilesAreUntouched
  <2> QED
    BY <1>c, <1>a, <1>m, <1>s, <1>f DEF FilesAreUntouched, Untouched,
        Incoming, TypeOK
<1>9. SameIsUntouched'
  BY <1>c, <1>a, <1>m, <1>s, <1>f DEF SameIsUntouched, Holds, TypeOK
<1> QED
  BY <1>1, <1>2, <1>3, <1>4, <1>5, <1>6, <1>7, <1>8, <1>9

\* It knows already.
LEMMA EntryPassedKeeps ==
  ASSUME ReceiverInv, NEW p \in Paths, EntryAcknowledged(p),
         ~(mem[p] # None /\ mem[p].version = view[p].version /\ ~mem[p].acknowledged)
  PROVE  ReceiverInv'
<1> USE DEF ReceiverInv, files, relay, control, replaced, ghosts
<1>1. /\ InodeHasOneName' /\ RecoveryIsPossible' /\ JournalIsKnown'
      /\ ReplacedIsKept' /\ ReceiptIsBacked' /\ DigestsAreKnown'
      /\ MemoryIsHonest' /\ ConflictsAreHonest' /\ FilesAreUntouched'
      /\ CommitsAreMarked' /\ LedgersAreOrdered'
  BY FilesFrame, LedgersFrame, UntouchedFrame, MarksFrame, ViewFrame DEF
      EntryAcknowledged
<1>2. TypeOK'
  BY DEF EntryAcknowledged, TypeOK, Steps
<1>3. JournalIsThere'
  BY DEF EntryAcknowledged, JournalIsThere, Working, Recovering, Incoming,
      TypeOK
<1>4. EntryIsNew'
  BY DEF EntryAcknowledged, EntryIsNew, Handling, Working, Recovering,
      TypeOK
<1>5. JournalIsNext'
  BY DEF EntryAcknowledged, JournalIsNext, Incoming, TypeOK
<1>6. LedgerIsSaved'
  BY DEF EntryAcknowledged, LedgerIsSaved, Received, TypeOK
<1>7. SameIsUntouched'
  BY DEF EntryAcknowledged, SameIsUntouched, Holds, TypeOK
<1> QED
  BY <1>1, <1>2, <1>3, <1>4, <1>5, <1>6, <1>7

\* The ledger is written again before the receipt.
LEMMA VerifiedKeeps ==
  ASSUME ReceiverInv, Verify, Holds(cur, mem[cur].data)
  PROVE  ReceiverInv'
<1> USE DEF ReceiverInv, files, relay, control, replaced, ghosts
<1>c. pc = "verify" /\ cur \in Paths /\ mem[cur] # None
  BY DEF Verify, EntryIsNew
<1>p. Saved("send") /\ mem' = mem
  BY DEF Verify
<1>f. UNCHANGED <<files, journal, relay, control, edits, ghosts>>
  BY DEF Verify
<1>m. mem' = mem /\ mem' \in [Paths -> Applied \cup {None}]
  BY <1>p DEF TypeOK
<1>s. /\ disk' \in [Paths -> Applied \cup {None}] /\ fails' \in 0..MaxFails
      /\ \/ pc' = "send" /\ disk' = mem'
         \/ pc' \in {"idle", "stopped"} /\ disk' = disk
  BY <1>p, <1>m, SavedEffect
<1>g. /\ \A q \in Paths : disk[q] # None =>
           mem'[q] # None /\ mem'[q].version >= disk[q].version
      /\ \A q \in Paths : mem'[q] # None /\ mem'[q].acknowledged =>
           Received(q, mem'[q].version)
      /\ \A q \in Paths : mem'[q] # None =>
           /\ <<q, mem'[q].version>> \in foreign => mem'[q].conflict
           /\ <<q, mem'[q].version>> \in own => ~mem'[q].conflict
  BY <1>m DEF LedgersAreOrdered, MemoryIsHonest
<1>1. /\ InodeHasOneName' /\ RecoveryIsPossible' /\ JournalIsKnown'
      /\ ReplacedIsKept' /\ LedgersAreOrdered' /\ ReceiptIsBacked'
      /\ CommitsAreMarked' /\ MemoryIsHonest' /\ ConflictsAreHonest'
  BY <1>c, <1>m, <1>s, <1>f, <1>g, FilesFrame, LedgerGrows, HonestLedger
<1>2. TypeOK'
  BY <1>c, <1>m, <1>s, <1>f DEF TypeOK, Steps
<1>3. JournalIsThere'
  BY <1>c, <1>m, <1>s, <1>f DEF JournalIsThere, Working, Recovering,
      Incoming, TypeOK
<1>4. EntryIsNew'
  BY <1>c, <1>m, <1>s, <1>f DEF EntryIsNew, Handling, Working, Recovering,
      TypeOK
<1>5. JournalIsNext'
  BY <1>c, <1>m, <1>s, <1>f DEF JournalIsNext, Incoming, TypeOK
<1>6. LedgerIsSaved'
  BY <1>c, <1>m, <1>s, <1>f DEF LedgerIsSaved, Received, TypeOK
<1>7. DigestsAreKnown'
  <2> SUFFICES ASSUME NEW q \in Paths PROVE DigestsAreKnown!(q)'
    BY Zenon DEF DigestsAreKnown
  <2> QED
    BY <1>c, <1>m, <1>s, <1>f DEF DigestsAreKnown, TypeOK
<1>8. FilesAreUntouched'
  <2> SUFFICES ASSUME NEW q \in Paths PROVE FilesAreUntouched!(q)'
    BY Zenon DEF FilesAreUntouched
  <2> QED
    BY <1>c, <1>m, <1>s, <1>f DEF FilesAreUntouched, Untouched, Incoming,
        TypeOK
<1>9. SameIsUntouched'
  BY <1>c, <1>m, <1>s, <1>f DEF SameIsUntouched, Holds, TypeOK
<1> QED
  BY <1>1, <1>2, <1>3, <1>4, <1>5, <1>6, <1>7, <1>8, <1>9

\* A file that is missing or changed gets none.
LEMMA NotVerifiedKeeps ==
  ASSUME ReceiverInv, Verify, ~Holds(cur, mem[cur].data)
  PROVE  ReceiverInv'
<1> USE DEF ReceiverInv, files, relay, control, replaced, ghosts
<1>1. /\ InodeHasOneName' /\ RecoveryIsPossible' /\ JournalIsKnown'
      /\ ReplacedIsKept' /\ ReceiptIsBacked' /\ DigestsAreKnown'
      /\ MemoryIsHonest' /\ ConflictsAreHonest' /\ FilesAreUntouched'
      /\ CommitsAreMarked' /\ LedgersAreOrdered'
  BY FilesFrame, LedgersFrame, UntouchedFrame, MarksFrame, ViewFrame DEF
      Verify
<1>2. TypeOK'
  BY DEF Verify, TypeOK, Steps
<1>3. JournalIsThere'
  BY DEF Verify, JournalIsThere, Working, Recovering, Incoming, TypeOK
<1>4. EntryIsNew'
  BY DEF Verify, EntryIsNew, Handling, Working, Recovering, TypeOK
<1>5. JournalIsNext'
  BY DEF Verify, JournalIsNext, Incoming, TypeOK
<1>6. LedgerIsSaved'
  BY DEF Verify, LedgerIsSaved, Received, TypeOK
<1>7. SameIsUntouched'
  BY DEF Verify, SameIsUntouched, Holds, TypeOK
<1> QED
  BY <1>1, <1>2, <1>3, <1>4, <1>5, <1>6, <1>7

\* The receipt says what the ledger on disk says.
LEMMA AcknowledgeKeeps ==
  ASSUME ReceiverInv, Acknowledge
  PROVE  ReceiverInv'
<1> USE DEF ReceiverInv, files, relay, control, replaced, ghosts
<1>c. /\ pc = "send" /\ cur \in Paths /\ mem[cur] # None /\ mem[cur] \in Applied
      /\ disk = mem /\ pc' = "settle"
  BY DEF Acknowledge, EntryIsNew, LedgerIsSaved, TypeOK
<1> DEFINE r == <<cur, mem[cur].version, mem[cur].conflict>>
<1>a. /\ r \in Paths \X (1..MaxVersion) \X BOOLEAN
      /\ r[1] = cur /\ r[2] = mem[cur].version /\ r[3] = mem[cur].conflict
      /\ mem[cur].version \in Int
  BY <1>c, ReceiverAssumption DEF Applied
<1>p. receipts' = receipts \cup {r}
  BY DEF Acknowledge
<1>f. UNCHANGED <<files, journal, disk, mem, latest, control, edits, fails, ghosts>>
  BY DEF Acknowledge
<1>q. \A q \in Paths, w \in Int, c \in BOOLEAN :
        <<q, w, c>> \in receipts' <=> \/ <<q, w, c>> \in receipts
                                      \/ q = cur /\ w = mem[cur].version
                                         /\ c = mem[cur].conflict
  BY <1>p
<1> HIDE DEF r
<1>1. /\ InodeHasOneName' /\ RecoveryIsPossible' /\ JournalIsKnown'
      /\ ReplacedIsKept' /\ FilesAreUntouched' /\ CommitsAreMarked'
  BY <1>c, <1>a, <1>p, <1>f, FilesFrame, UntouchedFrame, MarksFrame
<1>2. TypeOK'
  BY <1>c, <1>a, <1>p, <1>f DEF TypeOK, Steps
<1>3. JournalIsThere'
  BY <1>c, <1>a, <1>p, <1>f DEF JournalIsThere, Working, Recovering,
      Incoming, TypeOK
<1>4. EntryIsNew'
  BY <1>c, <1>a, <1>p, <1>f DEF EntryIsNew, Handling, Working, Recovering,
      TypeOK
<1>5. LedgersAreOrdered'
  <2> SUFFICES ASSUME NEW q \in Paths PROVE LedgersAreOrdered!(q)'
    BY Zenon DEF LedgersAreOrdered
  <2> QED
    BY <1>c, <1>a, <1>p, <1>f DEF LedgersAreOrdered, Received, TypeOK
<1>6. JournalIsNext'
  BY <1>c, <1>a, <1>p, <1>f DEF JournalIsNext, Incoming, TypeOK
<1>7. LedgerIsSaved'
  BY <1>c, <1>a, <1>p, <1>f DEF LedgerIsSaved, Received, TypeOK
<1>8. ReceiptIsBacked'
  <2> SUFFICES ASSUME NEW q \in Paths PROVE ReceiptIsBacked!(q)'
    BY Zenon DEF ReceiptIsBacked
  <2> QED
    BY <1>c, <1>a, <1>p, <1>f DEF ReceiptIsBacked, Received, TypeOK
<1>9. DigestsAreKnown'
  <2> SUFFICES ASSUME NEW q \in Paths PROVE DigestsAreKnown!(q)'
    BY Zenon DEF DigestsAreKnown
  <2> QED
    BY <1>c, <1>a, <1>p, <1>f DEF DigestsAreKnown, TypeOK
<1>10. SameIsUntouched'
  BY <1>c, <1>a, <1>p, <1>f DEF SameIsUntouched, Holds, TypeOK
<1>11. MemoryIsHonest'
  <2> SUFFICES ASSUME NEW q \in Paths PROVE MemoryIsHonest!(q)'
    BY Zenon DEF MemoryIsHonest
  <2> QED
    BY <1>c, <1>a, <1>p, <1>f DEF MemoryIsHonest, TypeOK
<1>12. ConflictsAreHonest'
  <2> SUFFICES ASSUME NEW q \in Paths, NEW w \in 1..MaxVersion, NEW c \in BOOLEAN
               PROVE  ConflictsAreHonest!(q, w, c)'
    BY Zenon DEF ConflictsAreHonest
  <2> QED
    BY <1>c, <1>a, <1>p, <1>f, <1>q, ReceiverAssumption DEF
        ConflictsAreHonest, TypeOK, MemoryIsHonest
<1> QED
  BY <1>1, <1>2, <1>3, <1>4, <1>5, <1>6, <1>7, <1>8, <1>9, <1>10, <1>11,
      <1>12

\* The entry at hand is a version the ledger has not seen.
LEMMA EntryAtHand ==
  ASSUME ReceiverInv, pc \in {"apply", "same"}
  PROVE  /\ cur \in left /\ cur \in Paths /\ journal = None
         /\ view[cur].version \in 1..MaxVersion
         /\ DataOf[cur][view[cur].version] \in Data
         /\ mem[cur] = None \/ mem[cur].version < view[cur].version
<1> USE DEF ReceiverInv
<1>1. /\ cur \in left /\ journal = None
      /\ mem[cur] = None \/ mem[cur].version < view[cur].version
  BY DEF EntryIsNew, JournalIsThere, Working
<1>2. cur \in Paths /\ view[cur] \in Entry
  BY <1>1 DEF TypeOK
<1>3. view[cur].version > 0
  BY <1>1 DEF EntryIsNew, Handling, Working
<1>4. view[cur].version \in 1..MaxVersion
  BY <1>2, <1>3, ReceiverAssumption DEF Entry
<1>5. DataOf[cur][view[cur].version] \in Data
  BY <1>2, <1>4, ReceiverAssumption
<1> QED
  BY <1>1, <1>2, <1>4, <1>5

\* A file that has the bytes already needs no commit.
LEMMA ApplySameKeeps ==
  ASSUME ReceiverInv, ApplySame
  PROVE  ReceiverInv'
<1> USE DEF ReceiverInv, files, relay, control, replaced, ghosts
<1> DEFINE v == view[cur].version
<1>c. /\ pc = "same" /\ cur \in left /\ cur \in Paths /\ v \in 1..MaxVersion
      /\ DataOf[cur][v] \in Data /\ journal = None
      /\ mem[cur] = None \/ mem[cur].version < v
  BY EntryAtHand DEF ApplySame
<1> DEFINE a == [version |-> v, data |-> DataOf[cur][v], conflict |-> FALSE,
                 acknowledged |-> FALSE]
<1>a. /\ a \in Applied /\ a.version = v /\ a.data = DataOf[cur][v]
      /\ a.conflict = FALSE /\ a.acknowledged = FALSE
  BY <1>c DEF Applied
<1>p. Put(cur, a) /\ Saved("verify")
  BY DEF ApplySame
<1>f. /\ UNCHANGED <<files, journal, relay, control, edits, late, edited, foreign, own>>
      /\ known' = [known EXCEPT ![cur] = @ \cup {DataOf[cur][v]}]
  BY DEF ApplySame
<1> HIDE DEF a
<1>m. /\ mem' \in [Paths -> Applied \cup {None}]
      /\ mem'[cur] = a /\ a # None /\ \A q \in Paths : q # cur => mem'[q] = mem[q]
  BY <1>p, <1>c, <1>a, PutEffect
<1>s. /\ disk' \in [Paths -> Applied \cup {None}] /\ fails' \in 0..MaxFails
      /\ \/ pc' = "verify" /\ disk' = mem'
         \/ pc' \in {"idle", "stopped"} /\ disk' = disk
  BY <1>p, <1>m, SavedEffect
<1>g. /\ \A q \in Paths : disk[q] # None =>
           mem'[q] # None /\ mem'[q].version >= disk[q].version
      /\ \A q \in Paths : mem'[q] # None /\ mem'[q].acknowledged =>
           Received(q, mem'[q].version)
      /\ \A q \in Paths : mem'[q] # None =>
           /\ <<q, mem'[q].version>> \in foreign => mem'[q].conflict
           /\ <<q, mem'[q].version>> \in own => ~mem'[q].conflict
  <2>1. <<cur, v>> \notin foreign \cup own
    BY <1>c, ReceiverAssumption DEF CommitsAreMarked, LedgersAreOrdered, TypeOK, Applied
  <2>2. disk[cur] # None => v >= disk[cur].version
    BY <1>c, ReceiverAssumption DEF LedgersAreOrdered, TypeOK, Applied
  <2> QED
    BY <1>c, <1>a, <1>m, <2>1, <2>2 DEF LedgersAreOrdered, MemoryIsHonest
<1>1. /\ LedgersAreOrdered' /\ ReceiptIsBacked' /\ CommitsAreMarked'
      /\ MemoryIsHonest' /\ ConflictsAreHonest'
  BY <1>c, <1>a, <1>m, <1>s, <1>f, <1>g, LedgerGrows, HonestLedger
<1>2. TypeOK'
  BY <1>c, <1>a, <1>m, <1>s, <1>f DEF TypeOK, Steps
<1>3. JournalIsThere'
  BY <1>c, <1>a, <1>m, <1>s, <1>f DEF JournalIsThere, Working, Recovering,
      Incoming, TypeOK
<1>4. InodeHasOneName'
  BY <1>c, <1>a, <1>m, <1>s, <1>f DEF InodeHasOneName, Incoming,
      JournalIsThere, TypeOK
<1>5. RecoveryIsPossible'
  BY <1>c, <1>a, <1>m, <1>s, <1>f DEF RecoveryIsPossible, CommitProved,
      Incoming, TypeOK
<1>6. EntryIsNew'
  BY <1>c, <1>a, <1>m, <1>s, <1>f DEF EntryIsNew, Handling, Working,
      Recovering, TypeOK
<1>7. JournalIsNext'
  BY <1>c, <1>a, <1>m, <1>s, <1>f DEF JournalIsNext, Incoming, TypeOK
<1>8. LedgerIsSaved'
  BY <1>c, <1>a, <1>m, <1>s, <1>f DEF LedgerIsSaved, Received, TypeOK
<1>9. DigestsAreKnown'
  <2> SUFFICES ASSUME NEW q \in Paths PROVE DigestsAreKnown!(q)'
    BY Zenon DEF DigestsAreKnown
  <2> QED
    BY <1>c, <1>a, <1>m, <1>s, <1>f DEF DigestsAreKnown, TypeOK
<1>10. JournalIsKnown'
  BY <1>c, <1>a, <1>m, <1>s, <1>f DEF JournalIsKnown, Incoming, TypeOK
<1>11. FilesAreUntouched'
  <2> SUFFICES ASSUME NEW q \in Paths PROVE FilesAreUntouched!(q)'
    BY Zenon DEF FilesAreUntouched
  <2> QED
    BY <1>c, <1>a, <1>m, <1>s, <1>f DEF FilesAreUntouched, Untouched,
        Incoming, TypeOK, SameIsUntouched, Holds
<1>12. SameIsUntouched'
  BY <1>c, <1>a, <1>m, <1>s, <1>f DEF SameIsUntouched, Holds, TypeOK
<1>13. ReplacedIsKept'
  BY <1>c, <1>a, <1>m, <1>s, <1>f DEF ReplacedIsKept, Replaced, Incoming,
      TypeOK
<1> QED
  BY <1>1, <1>2, <1>3, <1>4, <1>5, <1>6, <1>7, <1>8, <1>9, <1>10, <1>11,
      <1>12, <1>13

\* The commit is recorded, with the conflict its replaced bytes show.
LEMMA RecoverRecordKeeps ==
  ASSUME ReceiverInv, RecoverRecord, CommitProved
  PROVE  ReceiverInv'
<1> USE DEF ReceiverInv, files, relay, control, replaced, ghosts
<1> DEFINE p == journal.path
           v == journal.version
           c == archive # None /\ archive # journal.previous
<1>c. /\ pc = "record" /\ journal # None /\ journal \in Journal /\ stage = None
      /\ p \in Paths /\ v \in 1..MaxVersion /\ c \in BOOLEAN /\ DataOf[p][v] \in Data
  <2>1. pc = "record" /\ journal # None /\ stage = None
    BY DEF RecoverRecord, JournalIsThere, Recovering
  <2>2. journal \in Journal
    BY <2>1 DEF TypeOK
  <2>3. p \in Paths /\ v \in 1..MaxVersion
    BY <2>2 DEF Journal
  <2> QED
    BY <2>1, <2>2, <2>3, ReceiverAssumption
<1>h. /\ <<p, v>> \in foreign => c
      /\ <<p, v>> \in own => ~c
      /\ mem[p] # None => mem[p].version <= v
      /\ DataOf[p][v] \in known[p]
  BY <1>c DEF ReplacedIsKept, Replaced, Incoming, JournalIsNext, JournalIsKnown
<1> DEFINE a == [version |-> v, data |-> DataOf[p][v], conflict |-> c,
                 acknowledged |-> FALSE]
<1>a. /\ a \in Applied /\ a.version = v /\ a.data = DataOf[p][v]
      /\ a.conflict = c /\ a.acknowledged = FALSE
  BY <1>c DEF Applied
<1>p. Put(p, a) /\ Saved("clear")
  BY DEF RecoverRecord
<1>f. UNCHANGED <<files, journal, relay, control, edits, ghosts>>
  BY DEF RecoverRecord
<1> HIDE DEF a, c
<1>m. /\ mem' \in [Paths -> Applied \cup {None}]
      /\ mem'[p] = a /\ a # None /\ \A q \in Paths : q # p => mem'[q] = mem[q]
  BY <1>p, <1>c, <1>a, PutEffect
<1>s. /\ disk' \in [Paths -> Applied \cup {None}] /\ fails' \in 0..MaxFails
      /\ \/ pc' = "clear" /\ disk' = mem'
         \/ pc' \in {"idle", "stopped"} /\ disk' = disk
  BY <1>p, <1>m, SavedEffect
<1>g. /\ \A q \in Paths : disk[q] # None =>
           mem'[q] # None /\ mem'[q].version >= disk[q].version
      /\ \A q \in Paths : mem'[q] # None /\ mem'[q].acknowledged =>
           Received(q, mem'[q].version)
      /\ \A q \in Paths : mem'[q] # None =>
           /\ <<q, mem'[q].version>> \in foreign => mem'[q].conflict
           /\ <<q, mem'[q].version>> \in own => ~mem'[q].conflict
  <2>1. disk[p] # None => v >= disk[p].version
    BY <1>c, <1>h, ReceiverAssumption DEF LedgersAreOrdered, TypeOK, Applied
  <2> QED
    BY <1>c, <1>h, <1>a, <1>m, <2>1 DEF LedgersAreOrdered, MemoryIsHonest
<1>1. /\ InodeHasOneName' /\ RecoveryIsPossible' /\ JournalIsKnown'
      /\ ReplacedIsKept' /\ LedgersAreOrdered' /\ ReceiptIsBacked'
      /\ CommitsAreMarked' /\ MemoryIsHonest' /\ ConflictsAreHonest'
  BY <1>c, <1>h, <1>a, <1>m, <1>s, <1>f, <1>g, FilesFrame, LedgerGrows,
      HonestLedger
<1>2. TypeOK'
  BY <1>c, <1>h, <1>a, <1>m, <1>s, <1>f DEF TypeOK, Steps
<1>3. JournalIsThere'
  BY <1>c, <1>h, <1>a, <1>m, <1>s, <1>f DEF JournalIsThere, Working,
      Recovering, Incoming, TypeOK
<1>4. EntryIsNew'
  BY <1>c, <1>h, <1>a, <1>m, <1>s, <1>f, ReceiverAssumption DEF EntryIsNew,
      Handling, Working, Recovering, TypeOK
<1>5. JournalIsNext'
  BY <1>c, <1>h, <1>a, <1>m, <1>s, <1>f DEF JournalIsNext, Incoming, TypeOK
<1>6. LedgerIsSaved'
  BY <1>c, <1>h, <1>a, <1>m, <1>s, <1>f DEF LedgerIsSaved, Received, TypeOK
<1>7. DigestsAreKnown'
  <2> SUFFICES ASSUME NEW q \in Paths PROVE DigestsAreKnown!(q)'
    BY Zenon DEF DigestsAreKnown
  <2> QED
    BY <1>c, <1>h, <1>a, <1>m, <1>s, <1>f DEF DigestsAreKnown, TypeOK
<1>8. FilesAreUntouched'
  <2> SUFFICES ASSUME NEW q \in Paths PROVE FilesAreUntouched!(q)'
    BY Zenon DEF FilesAreUntouched
  <2> QED
    BY <1>c, <1>h, <1>a, <1>m, <1>s, <1>f DEF FilesAreUntouched, Untouched,
        Incoming, TypeOK
<1>9. SameIsUntouched'
  BY <1>c, <1>h, <1>a, <1>m, <1>s, <1>f DEF SameIsUntouched, Holds, TypeOK
<1> QED
  BY <1>1, <1>2, <1>3, <1>4, <1>5, <1>6, <1>7, <1>8, <1>9

\* A commit that cannot be proved stays in the journal.
LEMMA NotProvedKeeps ==
  ASSUME ReceiverInv, RecoverRecord, ~CommitProved
  PROVE  ReceiverInv'
<1> USE DEF ReceiverInv, files, relay, control, replaced, ghosts
<1>1. /\ InodeHasOneName' /\ RecoveryIsPossible' /\ JournalIsKnown'
      /\ ReplacedIsKept' /\ ReceiptIsBacked' /\ DigestsAreKnown'
      /\ MemoryIsHonest' /\ ConflictsAreHonest' /\ FilesAreUntouched'
      /\ CommitsAreMarked' /\ LedgersAreOrdered'
  BY FilesFrame, LedgersFrame, UntouchedFrame, MarksFrame, ViewFrame DEF
      RecoverRecord, AbortTo
<1>2. TypeOK'
  BY DEF RecoverRecord, AbortTo, TypeOK, Steps
<1>3. JournalIsThere'
  BY DEF RecoverRecord, AbortTo, JournalIsThere, Working, Recovering,
      Incoming, TypeOK
<1>4. EntryIsNew'
  BY DEF RecoverRecord, AbortTo, EntryIsNew, Handling, Working, Recovering,
      TypeOK
<1>5. JournalIsNext'
  BY DEF RecoverRecord, AbortTo, JournalIsNext, Incoming, TypeOK
<1>6. LedgerIsSaved'
  BY DEF RecoverRecord, AbortTo, LedgerIsSaved, Received, TypeOK
<1>7. SameIsUntouched'
  BY DEF RecoverRecord, AbortTo, SameIsUntouched, Holds, TypeOK
<1> QED
  BY <1>1, <1>2, <1>3, <1>4, <1>5, <1>6, <1>7

-----------------------------------------------------------------------------
(* Steps that write files *)

\* The staged file is the journal's inode, with the bytes of its version.
LEMMA StagedFile ==
  ASSUME ReceiverInv, journal # None, Incoming(stage)
  PROVE  /\ journal \in Journal /\ journal.path \in Paths
         /\ journal.version \in 1..MaxVersion
         /\ stage \in File /\ stage # None /\ stage.mine /\ archive = None
         /\ stage.data = DataOf[journal.path][journal.version] /\ stage.data \in Data
         /\ \A q \in Paths : ~Incoming(target[q])
         /\ mem[journal.path] # None => mem[journal.path].version < journal.version
         /\ disk[journal.path] # None => disk[journal.path].version < journal.version
         /\ <<journal.path, journal.version>> \notin foreign \cup own
         /\ \A c \in BOOLEAN : <<journal.path, journal.version, c>> \notin receipts
<1> USE DEF ReceiverInv
<1>1. journal \in Journal
  BY DEF TypeOK
<1>2. journal.path \in Paths /\ journal.version \in 1..MaxVersion
  BY <1>1 DEF Journal
<1>3. stage # None /\ stage.mine /\ stage \in File
  BY DEF Incoming, TypeOK
<1>4. stage.data \in Data
  BY <1>3 DEF File
<1>5. archive = None /\ stage.data = DataOf[journal.path][journal.version]
  BY <1>3 DEF JournalIsThere, InodeHasOneName
<1>6. \A q \in Paths : ~Incoming(target[q])
  BY DEF InodeHasOneName
<1>7. mem[journal.path] # None => mem[journal.path].version < journal.version
  BY DEF JournalIsNext
<1>8. disk[journal.path] # None => disk[journal.path].version < journal.version
  BY <1>2, <1>7, ReceiverAssumption DEF LedgersAreOrdered, TypeOK, Applied
<1>9. disk[journal.path] # None => ~(disk[journal.path].version >= journal.version)
  BY <1>2, <1>8, ReceiverAssumption DEF TypeOK, Applied
<1>10. <<journal.path, journal.version>> \notin foreign \cup own
  BY <1>2, <1>9 DEF CommitsAreMarked
<1>11. \A c \in BOOLEAN : <<journal.path, journal.version, c>> \notin receipts
  BY <1>2, <1>9 DEF ReceiptIsBacked
<1> QED
  BY <1>1, <1>2, <1>3, <1>4, <1>5, <1>6, <1>7, <1>8, <1>10, <1>11

\* Nothing to move, or a file in the way.
LEMMA RenamePassedKeeps ==
  ASSUME ReceiverInv, RecoverRename,
         ~(journal # None /\ Incoming(stage) /\ target[journal.path] = None)
  PROVE  ReceiverInv'
<1> USE DEF ReceiverInv, files, relay, control, replaced, ghosts
<1>1. /\ InodeHasOneName' /\ RecoveryIsPossible' /\ JournalIsKnown'
      /\ ReplacedIsKept' /\ ReceiptIsBacked' /\ DigestsAreKnown'
      /\ MemoryIsHonest' /\ ConflictsAreHonest' /\ FilesAreUntouched'
      /\ CommitsAreMarked' /\ LedgersAreOrdered'
  BY FilesFrame, LedgersFrame, UntouchedFrame, MarksFrame, ViewFrame DEF
      RecoverRename
<1>2. TypeOK'
  BY DEF RecoverRename, TypeOK, Steps
<1>3. JournalIsThere'
  BY DEF RecoverRename, JournalIsThere, Working, Recovering, Incoming,
      TypeOK
<1>4. EntryIsNew'
  BY DEF RecoverRename, EntryIsNew, Handling, Working, Recovering, TypeOK,
      JournalIsThere
<1>5. JournalIsNext'
  BY DEF RecoverRename, JournalIsNext, Incoming, TypeOK
<1>6. LedgerIsSaved'
  BY DEF RecoverRename, LedgerIsSaved, Received, TypeOK
<1>7. SameIsUntouched'
  BY DEF RecoverRename, SameIsUntouched, Holds, TypeOK
<1> QED
  BY <1>1, <1>2, <1>3, <1>4, <1>5, <1>6, <1>7

\* The incoming file takes a free name.
LEMMA RenamedKeeps ==
  ASSUME ReceiverInv, RecoverRename,
         journal # None, Incoming(stage), target[journal.path] = None
  PROVE  ReceiverInv'
<1> USE DEF ReceiverInv, files, relay, control, replaced, ghosts
<1> DEFINE p == journal.path
           v == journal.version
<1>c. /\ pc = "recover" /\ journal # None /\ Incoming(stage) /\ p \in Paths
      /\ v \in 1..MaxVersion /\ target[p] = None
  BY StagedFile DEF RecoverRename, JournalIsThere, Recovering
<1>d. /\ stage \in File /\ stage # None /\ stage.mine /\ archive = None
      /\ stage.data = DataOf[p][v] /\ stage.data \in Data
      /\ \A q \in Paths : ~Incoming(target[q])
      /\ mem[p] # None => mem[p].version < v
      /\ disk[p] # None => disk[p].version < v
      /\ <<p, v>> \notin foreign \cup own
      /\ \A c \in BOOLEAN : <<p, v, c>> \notin receipts
  BY <1>c, StagedFile
<1>f. /\ target' = [target EXCEPT ![p] = stage] /\ stage' = None /\ pc' = "archive"
      /\ edited' = edited \ {p}
      /\ known' = [known EXCEPT ![p] = @ \cup {stage.data}]
      /\ UNCHANGED <<archive, history, journal, disk, mem, relay, control, edits, fails,
                     late, foreign, own>>
  BY DEF RecoverRename, Commit
<1> HIDE DEF p, v
<1>e. p = journal.path /\ v = journal.version
  BY DEF p, v
<1>1. LedgersAreOrdered'
  BY <1>c, <1>d, <1>e, <1>f, ViewFrame
<1>2. TypeOK'
  BY <1>c, <1>d, <1>e, <1>f DEF TypeOK, Steps
<1>3. JournalIsThere'
  BY <1>c, <1>d, <1>e, <1>f DEF JournalIsThere, Working, Recovering,
      Incoming, TypeOK
<1>4. InodeHasOneName'
  BY <1>c, <1>d, <1>e, <1>f DEF InodeHasOneName, Incoming, JournalIsThere,
      TypeOK
<1>5. RecoveryIsPossible'
  BY <1>c, <1>d, <1>e, <1>f DEF RecoveryIsPossible, CommitProved, Incoming,
      TypeOK
<1>6. EntryIsNew'
  BY <1>c, <1>d, <1>e, <1>f DEF EntryIsNew, Handling, Working, Recovering,
      TypeOK
<1>7. JournalIsNext'
  BY <1>c, <1>d, <1>e, <1>f DEF JournalIsNext, Incoming, TypeOK
<1>8. LedgerIsSaved'
  BY <1>c, <1>d, <1>e, <1>f DEF LedgerIsSaved, Received, TypeOK
<1>9. ReceiptIsBacked'
  <2> SUFFICES ASSUME NEW q \in Paths PROVE ReceiptIsBacked!(q)'
    BY Zenon DEF ReceiptIsBacked
  <2> QED
    BY <1>c, <1>d, <1>e, <1>f DEF ReceiptIsBacked, Received, TypeOK
<1>10. DigestsAreKnown'
  <2> SUFFICES ASSUME NEW q \in Paths PROVE DigestsAreKnown!(q)'
    BY Zenon DEF DigestsAreKnown
  <2> QED
    BY <1>c, <1>d, <1>e, <1>f DEF DigestsAreKnown, TypeOK
<1>11. JournalIsKnown'
  BY <1>c, <1>d, <1>e, <1>f DEF JournalIsKnown, Incoming, TypeOK
<1>12. FilesAreUntouched'
  <2> SUFFICES ASSUME NEW q \in Paths PROVE FilesAreUntouched!(q)'
    BY Zenon DEF FilesAreUntouched
  <2> QED
    BY <1>c, <1>d, <1>e, <1>f DEF FilesAreUntouched, Untouched, Incoming,
        TypeOK
<1>13. SameIsUntouched'
  BY <1>c, <1>d, <1>e, <1>f DEF SameIsUntouched, Holds, TypeOK
<1>14. CommitsAreMarked'
  <2> SUFFICES ASSUME NEW q \in Paths, NEW w \in 1..MaxVersion PROVE CommitsAreMarked!(q, w)'
    BY Zenon DEF CommitsAreMarked
  <2> QED
    BY <1>c, <1>d, <1>e, <1>f DEF CommitsAreMarked, Incoming, TypeOK
<1>15. ReplacedIsKept'
  BY <1>c, <1>d, <1>e, <1>f DEF ReplacedIsKept, Replaced, Incoming, TypeOK
<1>16. MemoryIsHonest'
  <2> SUFFICES ASSUME NEW q \in Paths PROVE MemoryIsHonest!(q)'
    BY Zenon DEF MemoryIsHonest
  <2> QED
    BY <1>c, <1>d, <1>e, <1>f DEF MemoryIsHonest, TypeOK
<1>17. ConflictsAreHonest'
  <2> SUFFICES ASSUME NEW q \in Paths, NEW w \in 1..MaxVersion, NEW c \in BOOLEAN
               PROVE  ConflictsAreHonest!(q, w, c)'
    BY Zenon DEF ConflictsAreHonest
  <2> QED
    BY <1>c, <1>d, <1>e, <1>f DEF ConflictsAreHonest, TypeOK
<1> QED
  BY <1>1, <1>2, <1>3, <1>4, <1>5, <1>6, <1>7, <1>8, <1>9, <1>10, <1>11,
      <1>12, <1>13, <1>14, <1>15, <1>16, <1>17

\* The target has gone.
LEMMA NotExchangedKeeps ==
  ASSUME ReceiverInv, RecoverExchange, target[journal.path] = None
  PROVE  ReceiverInv'
<1> USE DEF ReceiverInv, files, relay, control, replaced, ghosts
<1>1. /\ InodeHasOneName' /\ RecoveryIsPossible' /\ JournalIsKnown'
      /\ ReplacedIsKept' /\ ReceiptIsBacked' /\ DigestsAreKnown'
      /\ MemoryIsHonest' /\ ConflictsAreHonest' /\ FilesAreUntouched'
      /\ CommitsAreMarked' /\ LedgersAreOrdered'
  BY FilesFrame, LedgersFrame, UntouchedFrame, MarksFrame, ViewFrame DEF
      RecoverExchange
<1>2. TypeOK'
  BY DEF RecoverExchange, AbortTo, TypeOK, Steps
<1>3. JournalIsThere'
  BY DEF RecoverExchange, AbortTo, JournalIsThere, Working, Recovering,
      Incoming, TypeOK
<1>4. EntryIsNew'
  BY DEF RecoverExchange, AbortTo, EntryIsNew, Handling, Working,
      Recovering, TypeOK
<1>5. JournalIsNext'
  BY DEF RecoverExchange, AbortTo, JournalIsNext, Incoming, TypeOK
<1>6. LedgerIsSaved'
  BY DEF RecoverExchange, AbortTo, LedgerIsSaved, Received, TypeOK
<1>7. SameIsUntouched'
  BY DEF RecoverExchange, AbortTo, SameIsUntouched, Holds, TypeOK
<1> QED
  BY <1>1, <1>2, <1>3, <1>4, <1>5, <1>6, <1>7

\* The two files change names; the replaced bytes decide about the conflict.
LEMMA ExchangedKeeps ==
  ASSUME ReceiverInv, RecoverExchange, target[journal.path] # None
  PROVE  ReceiverInv'
<1> USE DEF ReceiverInv, files, relay, control, replaced, ghosts
<1> DEFINE p == journal.path
           v == journal.version
<1>c. /\ pc = "exchange" /\ journal # None /\ Incoming(stage) /\ p \in Paths
      /\ v \in 1..MaxVersion /\ target[p] # None
  BY StagedFile DEF RecoverExchange, JournalIsThere, Recovering
<1>d. /\ stage \in File /\ stage # None /\ stage.mine /\ archive = None
      /\ stage.data = DataOf[p][v] /\ stage.data \in Data
      /\ \A q \in Paths : ~Incoming(target[q])
      /\ mem[p] # None => mem[p].version < v
      /\ disk[p] # None => disk[p].version < v
      /\ <<p, v>> \notin foreign \cup own
      /\ \A c \in BOOLEAN : <<p, v, c>> \notin receipts
  BY <1>c, StagedFile
<1>o. target[p] \in File /\ ~target[p].mine /\ target[p].data \in Data
  BY <1>c, <1>d DEF TypeOK, File, Incoming
<1>f. /\ target' = [target EXCEPT ![p] = stage] /\ stage' = target[p] /\ pc' = "archive"
      /\ edited' = edited \ {p}
      /\ known' = [known EXCEPT ![p] = @ \cup {stage.data}]
      /\ foreign' = IF target[p].data \in known[p] THEN foreign ELSE foreign \cup {<<p, v>>}
      /\ own' = IF p \in edited THEN own ELSE own \cup {<<p, v>>}
      /\ UNCHANGED <<archive, history, journal, disk, mem, relay, control, edits, fails,
                     late>>
  BY DEF RecoverExchange, Commit
<1> HIDE DEF p, v
<1>e. p = journal.path /\ v = journal.version
  BY DEF p, v
<1>1. LedgersAreOrdered'
  BY <1>c, <1>d, <1>o, <1>e, <1>f, ViewFrame
<1>2. TypeOK'
  BY <1>c, <1>d, <1>o, <1>e, <1>f DEF TypeOK, Steps
<1>3. JournalIsThere'
  BY <1>c, <1>d, <1>o, <1>e, <1>f DEF JournalIsThere, Working, Recovering,
      Incoming, TypeOK
<1>4. InodeHasOneName'
  BY <1>c, <1>d, <1>o, <1>e, <1>f DEF InodeHasOneName, Incoming,
      JournalIsThere, TypeOK
<1>5. RecoveryIsPossible'
  BY <1>c, <1>d, <1>o, <1>e, <1>f DEF RecoveryIsPossible, CommitProved,
      Incoming, TypeOK
<1>6. EntryIsNew'
  BY <1>c, <1>d, <1>o, <1>e, <1>f DEF EntryIsNew, Handling, Working,
      Recovering, TypeOK
<1>7. JournalIsNext'
  BY <1>c, <1>d, <1>o, <1>e, <1>f DEF JournalIsNext, Incoming, TypeOK
<1>8. LedgerIsSaved'
  BY <1>c, <1>d, <1>o, <1>e, <1>f DEF LedgerIsSaved, Received, TypeOK
<1>9. ReceiptIsBacked'
  <2> SUFFICES ASSUME NEW q \in Paths PROVE ReceiptIsBacked!(q)'
    BY Zenon DEF ReceiptIsBacked
  <2> QED
    BY <1>c, <1>d, <1>o, <1>e, <1>f DEF ReceiptIsBacked, Received, TypeOK
<1>10. DigestsAreKnown'
  <2> SUFFICES ASSUME NEW q \in Paths PROVE DigestsAreKnown!(q)'
    BY Zenon DEF DigestsAreKnown
  <2> QED
    BY <1>c, <1>d, <1>o, <1>e, <1>f DEF DigestsAreKnown, TypeOK
<1>11. JournalIsKnown'
  BY <1>c, <1>d, <1>o, <1>e, <1>f DEF JournalIsKnown, Incoming, TypeOK
<1>12. FilesAreUntouched'
  <2> SUFFICES ASSUME NEW q \in Paths PROVE FilesAreUntouched!(q)'
    BY Zenon DEF FilesAreUntouched
  <2> QED
    BY <1>c, <1>d, <1>o, <1>e, <1>f DEF FilesAreUntouched, Untouched,
        Incoming, TypeOK
<1>13. SameIsUntouched'
  BY <1>c, <1>d, <1>o, <1>e, <1>f DEF SameIsUntouched, Holds, TypeOK
<1>14. CommitsAreMarked'
  <2> SUFFICES ASSUME NEW q \in Paths, NEW w \in 1..MaxVersion PROVE CommitsAreMarked!(q, w)'
    BY Zenon DEF CommitsAreMarked
  <2> QED
    BY <1>c, <1>d, <1>o, <1>e, <1>f DEF CommitsAreMarked, Incoming, TypeOK
<1>15. ReplacedIsKept'
  BY <1>c, <1>d, <1>o, <1>e, <1>f, SomeAreNotNone DEF ReplacedIsKept,
      Replaced, Incoming, TypeOK, JournalIsKnown, FilesAreUntouched, Untouched
<1>16. MemoryIsHonest'
  <2> SUFFICES ASSUME NEW q \in Paths PROVE MemoryIsHonest!(q)'
    BY Zenon DEF MemoryIsHonest
  <2> QED
    BY <1>c, <1>d, <1>o, <1>e, <1>f DEF MemoryIsHonest, TypeOK
<1>17. ConflictsAreHonest'
  <2> SUFFICES ASSUME NEW q \in Paths, NEW w \in 1..MaxVersion, NEW c \in BOOLEAN
               PROVE  ConflictsAreHonest!(q, w, c)'
    BY Zenon DEF ConflictsAreHonest
  <2> QED
    BY <1>c, <1>d, <1>o, <1>e, <1>f DEF ConflictsAreHonest, TypeOK
<1> QED
  BY <1>1, <1>2, <1>3, <1>4, <1>5, <1>6, <1>7, <1>8, <1>9, <1>10, <1>11,
      <1>12, <1>13, <1>14, <1>15, <1>16, <1>17

\* The replaced file becomes history.
LEMMA RecoverArchiveKeeps ==
  ASSUME ReceiverInv, RecoverArchive
  PROVE  ReceiverInv'
<1> USE DEF ReceiverInv, files, relay, control, replaced, ghosts
<1>c. /\ pc = "archive" /\ journal # None /\ ~Incoming(stage)
      /\ stage # None => archive = None /\ stage.data \in Data /\ stage.data # None
  BY SomeAreNotNone DEF RecoverArchive, JournalIsThere, Recovering, TypeOK, File
<1>f. /\ archive' = (IF stage = None THEN archive ELSE stage.data)
      /\ stage' = None /\ pc' = "record"
      /\ UNCHANGED <<target, history, journal, disk, mem, relay, control, edits, fails,
                     ghosts>>
  BY DEF RecoverArchive
<1>1. /\ ReceiptIsBacked' /\ DigestsAreKnown' /\ MemoryIsHonest'
      /\ ConflictsAreHonest' /\ LedgersAreOrdered'
  BY <1>c, <1>f, LedgersFrame, ViewFrame
<1>2. TypeOK'
  BY <1>c, <1>f DEF TypeOK, Steps
<1>3. JournalIsThere'
  BY <1>c, <1>f DEF JournalIsThere, Working, Recovering, Incoming, TypeOK
<1>4. InodeHasOneName'
  BY <1>c, <1>f DEF InodeHasOneName, Incoming, JournalIsThere, TypeOK
<1>5. RecoveryIsPossible'
  BY <1>c, <1>f DEF RecoveryIsPossible, CommitProved, Incoming, TypeOK
<1>6. EntryIsNew'
  BY <1>c, <1>f DEF EntryIsNew, Handling, Working, Recovering, TypeOK
<1>7. JournalIsNext'
  BY <1>c, <1>f DEF JournalIsNext, Incoming, TypeOK
<1>8. LedgerIsSaved'
  BY <1>c, <1>f DEF LedgerIsSaved, Received, TypeOK
<1>9. JournalIsKnown'
  BY <1>c, <1>f DEF JournalIsKnown, Incoming, TypeOK
<1>10. FilesAreUntouched'
  <2> SUFFICES ASSUME NEW q \in Paths PROVE FilesAreUntouched!(q)'
    BY Zenon DEF FilesAreUntouched
  <2> QED
    BY <1>c, <1>f DEF FilesAreUntouched, Untouched, Incoming, TypeOK
<1>11. SameIsUntouched'
  BY <1>c, <1>f DEF SameIsUntouched, Holds, TypeOK
<1>12. CommitsAreMarked'
  <2> SUFFICES ASSUME NEW q \in Paths, NEW w \in 1..MaxVersion PROVE CommitsAreMarked!(q, w)'
    BY Zenon DEF CommitsAreMarked
  <2> QED
    BY <1>c, <1>f DEF CommitsAreMarked, Incoming, TypeOK
<1>13. ReplacedIsKept'
  BY <1>c, <1>f DEF ReplacedIsKept, Replaced, Incoming, TypeOK
<1> QED
  BY <1>1, <1>2, <1>3, <1>4, <1>5, <1>6, <1>7, <1>8, <1>9, <1>10, <1>11,
      <1>12, <1>13

\* The journal goes when the ledger on disk has the commit.
LEMMA RecoverClearKeeps ==
  ASSUME ReceiverInv, RecoverClear
  PROVE  ReceiverInv'
<1> USE DEF ReceiverInv, files, relay, control, replaced, ghosts
<1> DEFINE p == journal.path
           v == journal.version
<1>c. /\ pc = "clear" /\ journal # None /\ stage = None /\ p \in Paths /\ v \in 1..MaxVersion
      /\ disk = mem /\ mem[p] # None /\ mem[p].version = v /\ mem[p].data = DataOf[p][v]
  <2>1. pc = "clear" /\ journal # None /\ stage = None
    BY DEF RecoverClear, JournalIsThere, Recovering
  <2>2. p \in Paths /\ v \in 1..MaxVersion
    BY <2>1 DEF TypeOK, Journal
  <2> QED
    BY <2>1, <2>2 DEF LedgerIsSaved, JournalIsNext
<1> DEFINE f == IF target[p] = None THEN None ELSE [target[p] EXCEPT !.mine = FALSE]
<1>g. /\ f \in File \cup {None} /\ ~Incoming(f)
      /\ target[p] = None <=> f = None
      /\ target[p] # None => f.data = target[p].data
  <2>1. CASE target[p] = None
    BY <2>1 DEF Incoming
  <2>2. CASE target[p] # None
    <3>1. target[p] \in File
      BY <1>c, <2>2 DEF TypeOK
    <3>2. /\ [target[p] EXCEPT !.mine = FALSE] \in File
          /\ [target[p] EXCEPT !.mine = FALSE].mine = FALSE
          /\ [target[p] EXCEPT !.mine = FALSE].data = target[p].data
      BY <3>1 DEF File
    <3> QED
      BY <2>2, <3>2, SomeAreNotNone, Zenon DEF Incoming
  <2> QED
    BY <2>1, <2>2
<1>f. /\ journal' = None /\ archive' = None /\ pc' = ret
      /\ target' = [target EXCEPT ![p] = f]
      /\ UNCHANGED <<stage, disk, mem, relay, control, edits, fails, ghosts>>
  BY DEF RecoverClear
<1>h. history' \in [Paths -> SUBSET Data]
  BY <1>c DEF RecoverClear, TypeOK
<1> HIDE DEF f, p, v
<1>e. p = journal.path /\ v = journal.version
  BY DEF p, v
<1>1. /\ ReceiptIsBacked' /\ DigestsAreKnown' /\ MemoryIsHonest'
      /\ ConflictsAreHonest' /\ LedgersAreOrdered'
  BY <1>c, <1>e, <1>g, <1>f, LedgersFrame, ViewFrame
<1>2. TypeOK'
  BY <1>c, <1>e, <1>g, <1>f, <1>h, SomeAreNotNone DEF TypeOK, Steps
<1>3. JournalIsThere'
  BY <1>c, <1>e, <1>g, <1>f DEF JournalIsThere, Working, Recovering,
      Incoming, TypeOK
<1>4. InodeHasOneName'
  BY <1>c, <1>e, <1>g, <1>f DEF InodeHasOneName, Incoming, JournalIsThere,
      TypeOK
<1>5. RecoveryIsPossible'
  BY <1>c, <1>e, <1>g, <1>f DEF RecoveryIsPossible, CommitProved, Incoming,
      TypeOK
<1>6. EntryIsNew'
  BY <1>c, <1>e, <1>g, <1>f DEF EntryIsNew, Handling, Working, Recovering,
      TypeOK, JournalIsThere
<1>7. JournalIsNext'
  BY <1>c, <1>e, <1>g, <1>f DEF JournalIsNext, Incoming, TypeOK
<1>8. LedgerIsSaved'
  BY <1>c, <1>e, <1>g, <1>f DEF LedgerIsSaved, Received, TypeOK
<1>9. JournalIsKnown'
  BY <1>c, <1>e, <1>g, <1>f DEF JournalIsKnown, Incoming, TypeOK
<1>10. FilesAreUntouched'
  <2> SUFFICES ASSUME NEW q \in Paths PROVE FilesAreUntouched!(q)'
    BY Zenon DEF FilesAreUntouched
  <2> QED
    BY <1>c, <1>e, <1>g, <1>f DEF FilesAreUntouched, Untouched, Incoming,
        TypeOK
<1>11. SameIsUntouched'
  BY <1>c, <1>e, <1>g, <1>f DEF SameIsUntouched, Holds, TypeOK
<1>12. CommitsAreMarked'
  <2> SUFFICES ASSUME NEW q \in Paths, NEW w \in 1..MaxVersion PROVE CommitsAreMarked!(q, w)'
    BY Zenon DEF CommitsAreMarked
  <2> QED
    BY <1>c, <1>e, <1>g, <1>f DEF CommitsAreMarked, Incoming, TypeOK
<1>13. ReplacedIsKept'
  BY <1>c, <1>e, <1>g, <1>f DEF ReplacedIsKept, Replaced, Incoming, TypeOK
<1> QED
  BY <1>1, <1>2, <1>3, <1>4, <1>5, <1>6, <1>7, <1>8, <1>9, <1>10, <1>11,
      <1>12, <1>13

\* The target has the bytes already.
LEMMA FoundSameKeeps ==
  ASSUME ReceiverInv, Apply, Holds(cur, DataOf[cur][view[cur].version])
  PROVE  ReceiverInv'
<1> USE DEF ReceiverInv, files, relay, control, replaced, ghosts
<1>c. /\ pc = "apply" /\ cur \in left /\ cur \in Paths /\ journal = None
      /\ mem[cur] = None \/ mem[cur].version < view[cur].version
  BY EntryAtHand DEF Apply
<1>f. /\ pc' = "same"
      /\ UNCHANGED <<target, stage, archive, history, journal, disk, mem, relay, control>>
      /\ UNCHANGED <<edits, fails, ghosts>>
  BY DEF Apply
<1>1. /\ InodeHasOneName' /\ RecoveryIsPossible' /\ JournalIsKnown'
      /\ ReplacedIsKept' /\ ReceiptIsBacked' /\ DigestsAreKnown'
      /\ MemoryIsHonest' /\ ConflictsAreHonest' /\ FilesAreUntouched'
      /\ CommitsAreMarked' /\ LedgersAreOrdered'
  BY <1>c, <1>f, FilesFrame, LedgersFrame, UntouchedFrame, MarksFrame,
      ViewFrame
<1>2. TypeOK'
  BY <1>c, <1>f DEF TypeOK, Steps
<1>3. JournalIsThere'
  BY <1>c, <1>f DEF JournalIsThere, Working, Recovering, Incoming, TypeOK
<1>4. EntryIsNew'
  BY <1>c, <1>f DEF EntryIsNew, Handling, Working, Recovering, TypeOK
<1>5. JournalIsNext'
  BY <1>c, <1>f DEF JournalIsNext, Incoming, TypeOK
<1>6. LedgerIsSaved'
  BY <1>c, <1>f DEF LedgerIsSaved, Received, TypeOK
<1>7. SameIsUntouched'
  BY <1>c, <1>f DEF SameIsUntouched, Holds, TypeOK
<1> QED
  BY <1>1, <1>2, <1>3, <1>4, <1>5, <1>6, <1>7

\* The bytes are staged and the journal is written.
LEMMA AppliedKeeps ==
  ASSUME ReceiverInv, Apply, ~Holds(cur, DataOf[cur][view[cur].version])
  PROVE  ReceiverInv'
<1> USE DEF ReceiverInv, files, relay, control, replaced, ghosts
<1> DEFINE v == view[cur].version
           d == DataOf[cur][v]
<1>c. /\ pc = "apply" /\ cur \in left /\ cur \in Paths /\ journal = None
      /\ v \in 1..MaxVersion /\ d \in Data
      /\ mem[cur] = None \/ mem[cur].version < v
      /\ stage = None /\ archive = None
  BY EntryAtHand DEF Apply, JournalIsThere
<1> DEFINE f == [data |-> d, mine |-> TRUE]
           b == IF mem[cur] = None THEN None ELSE mem[cur].data
           j == [path |-> cur, version |-> v, previous |-> b]
<1>b. /\ b \in Data \cup {None}
      /\ mem[cur] = None => b = None
      /\ mem[cur] # None => b = mem[cur].data
  BY <1>c DEF TypeOK, Applied
<1>g. f \in File /\ f.mine /\ f.data = d
  BY <1>c DEF File
<1>j. j \in Journal /\ j.path = cur /\ j.version = v /\ j.previous = b
  BY <1>c, <1>b DEF Journal
<1>f. /\ stage' = f /\ journal' = j /\ pc' = "recover" /\ ret' = "verify"
      /\ UNCHANGED <<target, archive, history, disk, mem, relay, view, left, cur>>
      /\ UNCHANGED <<edits, fails, ghosts>>
  BY DEF Apply
<1> HIDE DEF f, b, j
<1>n. f # None /\ j # None
  BY <1>g, <1>j, SomeAreNotNone
<1>i. Incoming(stage)' /\ ~Incoming(stage) /\ journal'.path = cur /\ journal'.version = v
  BY <1>c, <1>f, <1>g, <1>j, <1>n DEF Incoming
<1> HIDE DEF v, d
<1>e. v = view[cur].version /\ d = DataOf[cur][v]
  BY DEF v, d
<1>1. /\ ReceiptIsBacked' /\ DigestsAreKnown' /\ MemoryIsHonest'
      /\ ConflictsAreHonest' /\ LedgersAreOrdered'
  BY <1>c, <1>e, <1>b, <1>g, <1>j, <1>f, <1>n, <1>i, LedgersFrame, ViewFrame
<1>2. TypeOK'
  BY <1>c, <1>e, <1>b, <1>g, <1>j, <1>f, <1>n, <1>i DEF TypeOK, Steps
<1>3. JournalIsThere'
  BY <1>c, <1>e, <1>b, <1>g, <1>j, <1>f, <1>n, <1>i DEF JournalIsThere,
      Working, Recovering, Incoming, TypeOK
<1>4. InodeHasOneName'
  BY <1>c, <1>e, <1>b, <1>g, <1>j, <1>f, <1>n, <1>i DEF InodeHasOneName,
      Incoming, JournalIsThere, TypeOK
<1>5. RecoveryIsPossible'
  BY <1>c, <1>e, <1>b, <1>g, <1>j, <1>f, <1>n, <1>i DEF RecoveryIsPossible,
      CommitProved, Incoming, TypeOK
<1>6. EntryIsNew'
  BY <1>c, <1>e, <1>b, <1>g, <1>j, <1>f, <1>n, <1>i DEF EntryIsNew,
      Handling, Working, Recovering, TypeOK
<1>7. JournalIsNext'
  BY <1>c, <1>e, <1>b, <1>g, <1>j, <1>f, <1>n, <1>i, ReceiverAssumption DEF
      JournalIsNext, Incoming, TypeOK, Applied
<1>8. LedgerIsSaved'
  BY <1>c, <1>e, <1>b, <1>g, <1>j, <1>f, <1>n, <1>i DEF LedgerIsSaved,
      Received, TypeOK
<1>9. JournalIsKnown'
  BY <1>c, <1>e, <1>b, <1>g, <1>j, <1>f, <1>n, <1>i DEF JournalIsKnown,
      Incoming, TypeOK, DigestsAreKnown
<1>10. FilesAreUntouched'
  <2> SUFFICES ASSUME NEW q \in Paths PROVE FilesAreUntouched!(q)'
    BY Zenon DEF FilesAreUntouched
  <2> QED
    BY <1>c, <1>e, <1>b, <1>g, <1>j, <1>f, <1>n, <1>i DEF FilesAreUntouched,
        Untouched, Incoming, TypeOK
<1>11. SameIsUntouched'
  BY <1>c, <1>e, <1>b, <1>g, <1>j, <1>f, <1>n, <1>i DEF SameIsUntouched,
      Holds, TypeOK
<1>12. CommitsAreMarked'
  <2> SUFFICES ASSUME NEW q \in Paths, NEW w \in 1..MaxVersion PROVE CommitsAreMarked!(q, w)'
    BY Zenon DEF CommitsAreMarked
  <2> QED
    BY <1>c, <1>e, <1>b, <1>g, <1>j, <1>f, <1>n, <1>i DEF CommitsAreMarked,
        Incoming, TypeOK
<1>13. ReplacedIsKept'
  BY <1>c, <1>e, <1>b, <1>g, <1>j, <1>f, <1>n, <1>i DEF ReplacedIsKept,
      Replaced, Incoming, TypeOK
<1> QED
  BY <1>1, <1>2, <1>3, <1>4, <1>5, <1>6, <1>7, <1>8, <1>9, <1>10, <1>11,
      <1>12, <1>13

\* The user changes a file, and is remembered for it.
LEMMA UserChangesKeeps ==
  ASSUME ReceiverInv, NEW p \in Paths, UserChanges(p)
  PROVE  ReceiverInv'
<1> USE DEF ReceiverInv, files, relay, control, replaced, ghosts
<1>f. /\ late' = (late \/ Unsettled(p)) /\ edited' = edited \cup {p}
      /\ UNCHANGED <<stage, archive, history, journal, disk, mem, relay, control, pc>>
      /\ UNCHANGED <<fails, known, foreign, own>>
      /\ edits' \in 0..MaxEdits
  BY ReceiverAssumption DEF UserChanges, TypeOK
<1>t. /\ target' \in [Paths -> File \cup {None}]
      /\ \A q \in Paths : q # p => target'[q] = target[q]
      /\ Incoming(target'[p]) => Incoming(target[p])
  <2>1. ASSUME NEW d \in Data, target' = [target EXCEPT ![p] = [data |-> d, mine |-> FALSE]]
        PROVE  /\ target' \in [Paths -> File \cup {None}]
               /\ \A q \in Paths : q # p => target'[q] = target[q]
               /\ Incoming(target'[p]) => Incoming(target[p])
    BY <2>1 DEF TypeOK, File, Incoming
  <2>2. ASSUME NEW d \in Data, target[p] # None, target' = [target EXCEPT ![p].data = d]
        PROVE  /\ target' \in [Paths -> File \cup {None}]
               /\ \A q \in Paths : q # p => target'[q] = target[q]
               /\ Incoming(target'[p]) => Incoming(target[p])
    BY <2>2 DEF TypeOK, File, Incoming
  <2>3. ASSUME target' = [target EXCEPT ![p] = None]
        PROVE  /\ target' \in [Paths -> File \cup {None}]
               /\ \A q \in Paths : q # p => target'[q] = target[q]
               /\ Incoming(target'[p]) => Incoming(target[p])
    BY <2>3 DEF TypeOK, Incoming
  <2> QED
    BY <2>1, <2>2, <2>3 DEF UserChanges
<1>1. /\ ReceiptIsBacked' /\ DigestsAreKnown' /\ MemoryIsHonest'
      /\ ConflictsAreHonest' /\ CommitsAreMarked' /\ LedgersAreOrdered'
  BY <1>f, <1>t, LedgersFrame, MarksFrame, ViewFrame
<1>2. TypeOK'
  BY <1>f, <1>t DEF TypeOK, Steps
<1>3. JournalIsThere'
  BY <1>f, <1>t DEF JournalIsThere, Working, Recovering, Incoming, TypeOK
<1>j. journal # None => journal.path \in Paths
  BY DEF TypeOK, Journal
<1>4. InodeHasOneName'
  <2>1. \A q \in Paths : Incoming(target'[q]) => Incoming(target[q])
    BY <1>t
  <2>2. Incoming(stage)' <=> Incoming(stage)
    BY <1>f DEF Incoming
  <2>3. Incoming(stage)' => stage'.data = DataOf[journal'.path][journal'.version]
    BY <1>f, <2>2 DEF InodeHasOneName
  <2> SUFFICES ASSUME NEW q \in Paths, Incoming(target'[q])
               PROVE  journal' # None /\ journal'.path = q /\ ~Incoming(stage)'
    BY <2>3, Zenon DEF InodeHasOneName, Incoming
  <2> QED
    BY <1>f, <2>1, <2>2 DEF InodeHasOneName
<1>5. RecoveryIsPossible'
  BY <1>f, <1>t, <1>j DEF RecoveryIsPossible, CommitProved, Incoming, TypeOK,
      Unsettled
<1>6. EntryIsNew'
  BY <1>f, <1>t DEF EntryIsNew, Handling, Working, Recovering, TypeOK
<1>7. JournalIsNext'
  BY <1>f, <1>t DEF JournalIsNext, Incoming, TypeOK
<1>8. LedgerIsSaved'
  BY <1>f, <1>t DEF LedgerIsSaved, Received, TypeOK
<1>9. JournalIsKnown'
  BY <1>f, <1>t DEF JournalIsKnown, Incoming, TypeOK
<1>10. FilesAreUntouched'
  <2> SUFFICES ASSUME NEW q \in Paths PROVE FilesAreUntouched!(q)'
    BY Zenon DEF FilesAreUntouched
  <2> QED
    BY <1>f, <1>t DEF FilesAreUntouched, Untouched, Incoming, TypeOK
<1>11. SameIsUntouched'
  <2>1. pc = "same" => cur \in Paths
    BY DEF EntryIsNew, TypeOK
  <2> QED
    BY <1>f, <1>t, <2>1 DEF SameIsUntouched, Holds, TypeOK
<1>12. ReplacedIsKept'
  BY <1>f, <1>t DEF ReplacedIsKept, Replaced, Incoming, TypeOK
<1> QED
  BY <1>1, <1>2, <1>3, <1>4, <1>5, <1>6, <1>7, <1>8, <1>9, <1>10, <1>11,
      <1>12

-----------------------------------------------------------------------------
(* The invariant *)

\* What the receiver does once it is started.
LEMMA ContinueKeeps ==
  ASSUME ReceiverInv, Continue PROVE ReceiverInv'
<1>1. CASE RecoverRename
  BY <1>1, RenamePassedKeeps, RenamedKeeps
<1>2. CASE RecoverExchange
  BY <1>2, NotExchangedKeeps, ExchangedKeeps
<1>3. CASE RecoverArchive
  BY <1>3, RecoverArchiveKeeps
<1>4. CASE RecoverRecord
  BY <1>4, RecoverRecordKeeps, NotProvedKeeps
<1>5. CASE RecoverClear
  BY <1>5, RecoverClearKeeps
<1>6. CASE Fetch
  BY <1>6, FetchKeeps
<1>7. CASE Apply
  BY <1>7, FoundSameKeeps, AppliedKeeps
<1>8. CASE ApplySame
  BY <1>8, ApplySameKeeps
<1>9. CASE Verify
  BY <1>9, VerifiedKeeps, NotVerifiedKeeps
<1>10. CASE Acknowledge
  BY <1>10, AcknowledgeKeeps
<1>11. CASE Settle
  BY <1>11, SettleKeeps
<1>12. CASE Finish
  BY <1>12, FinishKeeps
<1>13. ASSUME NEW p \in Paths, EntryAcknowledged(p) PROVE ReceiverInv'
  BY <1>13, EntrySettledKeeps, EntryPassedKeeps
<1>14. ASSUME NEW p \in Paths, EntryPending(p) PROVE ReceiverInv'
  BY <1>14, EntryPendingKeeps
<1> QED
  BY <1>1, <1>2, <1>3, <1>4, <1>5, <1>6, <1>7, <1>8, <1>9, <1>10, <1>11, <1>12,
      <1>13, <1>14 DEF Continue

LEMMA StepKeeps ==
  ASSUME ReceiverInv, [Next]_vars PROVE ReceiverInv'
<1>1. CASE Open \/ Close \/ Sync
  BY <1>1, OpenKeeps, CloseKeeps, SyncKeeps
<1>2. CASE Continue
  BY <1>2, ContinueKeeps
<1>3. CASE Fail
  BY <1>3, FailKeeps
<1>4. CASE \E p \in Paths : SenderStores(p) \/ UserChanges(p)
  BY <1>4, SenderStoresKeeps, UserChangesKeeps
<1>5. CASE UNCHANGED vars
  <2> USE <1>5 DEF ReceiverInv, vars
  <2>1. /\ InodeHasOneName' /\ RecoveryIsPossible' /\ JournalIsKnown'
        /\ ReplacedIsKept' /\ ReceiptIsBacked' /\ DigestsAreKnown'
        /\ MemoryIsHonest' /\ ConflictsAreHonest' /\ FilesAreUntouched'
        /\ CommitsAreMarked' /\ LedgersAreOrdered'
    BY FilesFrame, LedgersFrame, UntouchedFrame, MarksFrame, ViewFrame
  <2>2. TypeOK'
    BY DEF TypeOK
  <2>3. JournalIsThere'
    BY DEF JournalIsThere, Incoming
  <2>4. EntryIsNew'
    BY DEF EntryIsNew, Handling
  <2>5. JournalIsNext'
    BY DEF JournalIsNext, Incoming
  <2>6. LedgerIsSaved'
    BY DEF LedgerIsSaved, Received
  <2>7. SameIsUntouched'
    BY DEF SameIsUntouched, Holds
  <2> QED
    BY <2>1, <2>2, <2>3, <2>4, <2>5, <2>6, <2>7
<1> QED
  BY <1>1, <1>2, <1>3, <1>4, <1>5 DEF Next

\* The inductive invariant holds in every run of the receiver: for any number of
\* paths, versions, user changes, crashes and errors.
THEOREM ReceiverInvariance == Spec => []ReceiverInv
BY InitEstablishes, StepKeeps, PTL DEF Spec

\* The receiver's state is well typed.
THEOREM ReceiverTyped == Spec => []TypeOK
<1>1. ReceiverInv => TypeOK
  BY DEF ReceiverInv
<1> QED
  BY <1>1, ReceiverInvariance, PTL

\* What the relay may forget is in receiver.json, and receiver.json claims no
\* receipt that the relay does not have.
THEOREM ReceiptsBacked == Spec => []ReceiptIsBacked
<1>1. ReceiverInv => ReceiptIsBacked
  BY DEF ReceiverInv
<1> QED
  BY <1>1, ReceiverInvariance, PTL

\* A commit that replaced bytes unknown to the receiver is recorded and reported
\* as a conflict, and one that replaced its own untouched file never is, wherever
\* the process died between the exchange and the receipt.
THEOREM ConflictsHonest == Spec => []ConflictsAreHonest
<1>1. ReceiverInv => ConflictsAreHonest
  BY DEF ReceiverInv
<1> QED
  BY <1>1, ReceiverInvariance, PTL

\* recover can always prove and finish a journalled commit, unless the user took
\* the file away between its commit and its receipt.
THEOREM RecoveryPossible == Spec => []RecoveryIsPossible
<1>1. ReceiverInv => RecoveryIsPossible
  BY DEF ReceiverInv
<1> QED
  BY <1>1, ReceiverInvariance, PTL

-----------------------------------------------------------------------------
(* No blind overwrite *)

\* A step that touches neither a file nor the journal loses nothing.
LEMMA RetainedFrame ==
  ASSUME UNCHANGED <<files, journal>>, NEW p \in Paths
  PROVE  Retained(p) \subseteq Retained(p)'
BY DEF files, Retained

\* Nor does the rename, which moves the staged file to a free name.
LEMMA RenameRetains ==
  ASSUME ReceiverInv, RecoverRename, NEW p \in Paths
  PROVE  Retained(p) \subseteq Retained(p)'
<1>1. CASE UNCHANGED <<target, stage>>
  BY <1>1, RetainedFrame DEF RecoverRename, files
<1>2. CASE journal # None /\ Incoming(stage) /\ target[journal.path] = None
           /\ Commit(journal.path) /\ stage' = None
  <2>1. UNCHANGED <<archive, history, journal>> /\ target' = [target EXCEPT ![journal.path] = stage]
    BY <1>2 DEF RecoverRename, Commit
  <2>2. /\ target'[journal.path] = stage /\ stage # None /\ journal.path \in Paths
        /\ p # journal.path => target'[p] = target[p]
    BY <1>2, <2>1, StagedFile DEF ReceiverInv, TypeOK
  <2> QED
    BY <1>2, <2>1, <2>2 DEF Retained
<1> QED
  BY <1>1, <1>2 DEF RecoverRename

\* Nor the exchange, which keeps the replaced file under the incoming name.
LEMMA ExchangeRetains ==
  ASSUME ReceiverInv, RecoverExchange, NEW p \in Paths
  PROVE  Retained(p) \subseteq Retained(p)'
<1>1. CASE target[journal.path] = None
  <2>1. UNCHANGED <<target, stage, archive, history, journal>>
    BY <1>1 DEF RecoverExchange
  <2> QED
    BY <2>1, RetainedFrame DEF files
<1>2. CASE target[journal.path] # None
  <2>1. /\ UNCHANGED <<archive, history, journal>> /\ stage' = target[journal.path]
        /\ target' = [target EXCEPT ![journal.path] = stage]
    BY <1>2 DEF RecoverExchange, Commit
  <2>2. journal # None /\ Incoming(stage)
    BY DEF RecoverExchange, ReceiverInv, JournalIsThere, Recovering
  <2>3. /\ target'[journal.path] = stage /\ stage # None /\ journal.path \in Paths
        /\ p # journal.path => target'[p] = target[p]
    BY <2>1, <2>2, StagedFile DEF ReceiverInv, TypeOK
  <2> QED
    BY <1>2, <2>1, <2>2, <2>3 DEF Retained
<1> QED
  BY <1>1, <1>2

\* Nor the move to the history name, which is free while a file is staged.
LEMMA ArchiveRetains ==
  ASSUME ReceiverInv, RecoverArchive, NEW p \in Paths
  PROVE  Retained(p) \subseteq Retained(p)'
<1>1. /\ UNCHANGED <<target, history, journal>> /\ stage' = None
      /\ archive' = IF stage = None THEN archive ELSE stage.data
  BY DEF RecoverArchive
<1>2. /\ stage # None => archive = None
      /\ stage # None => stage.data # None
  BY SomeAreNotNone DEF ReceiverInv, JournalIsThere, TypeOK, File
<1> QED
  BY <1>1, <1>2 DEF Retained

\* Nor the removal of the journal, whose history file is kept.
LEMMA ClearRetains ==
  ASSUME ReceiverInv, RecoverClear, NEW p \in Paths
  PROVE  Retained(p) \subseteq Retained(p)'
<1>1. /\ journal # None /\ journal.path \in Paths /\ stage = None
  BY DEF RecoverClear, ReceiverInv, JournalIsThere, Recovering, TypeOK, Journal
<1> DEFINE j == journal.path
<1>2. /\ journal' = None
      /\ history'[j] = IF archive = None THEN history[j] ELSE history[j] \cup {archive}
      /\ p # j => history'[p] = history[p] /\ target'[p] = target[p]
      /\ target[j] = None => target'[j] = None
      /\ target[j] # None => target'[j] = [target[j] EXCEPT !.mine = FALSE]
  BY <1>1 DEF RecoverClear, ReceiverInv, TypeOK
<1>3. target[j] # None => target'[j] # None /\ target'[j].data = target[j].data
  <2> SUFFICES ASSUME target[j] # None
               PROVE  target'[j] # None /\ target'[j].data = target[j].data
    OBVIOUS
  <2>1. target[j] \in File
    BY <1>1 DEF ReceiverInv, TypeOK
  <2>2. target'[j] \in File /\ target'[j].data = target[j].data
    BY <1>2, <2>1 DEF File
  <2> QED
    BY <2>2, SomeAreNotNone
<1> HIDE DEF j
<1>4. CASE p = j
  BY <1>1, <1>2, <1>3, <1>4 DEF Retained, j
<1>5. CASE p # j
  BY <1>1, <1>2, <1>5 DEF Retained, j
<1> QED
  BY <1>4, <1>5

\* Nor the staging of the next version, which finds the journal's names free.
LEMMA ApplyRetains ==
  ASSUME ReceiverInv, Apply, NEW p \in Paths
  PROVE  Retained(p) \subseteq Retained(p)'
<1>1. journal = None
  BY DEF Apply, ReceiverInv, JournalIsThere, Working
<1>2. UNCHANGED <<target, history>>
  BY DEF Apply
<1> QED
  BY <1>1, <1>2 DEF Retained

\* No step of the receiver, no crash, no recovery and no I/O error makes bytes
\* disappear that were in the directory; only the user does.
THEOREM NothingLost == Spec => NothingIsLost
<1> DEFINE Kept == edits' = edits => \A p \in Paths : Retained(p) \subseteq Retained(p)'
<1>1. ReceiverInv /\ [Next]_vars => [Kept]_vars
  <2> SUFFICES ASSUME ReceiverInv, Next, edits' = edits, NEW p \in Paths
               PROVE  Retained(p) \subseteq Retained(p)'
    BY DEF Kept
  <2> USE DEF files
  <2>1. CASE Open \/ Close \/ Sync \/ Fail
    BY <2>1, RetainedFrame DEF Open, Close, Sync, Fail
  <2>2. CASE RecoverRename \/ RecoverExchange \/ RecoverArchive \/ RecoverClear \/ Apply
    BY <2>2, RenameRetains, ExchangeRetains, ArchiveRetains, ClearRetains, ApplyRetains
  <2>3. CASE RecoverRecord \/ Fetch \/ ApplySame \/ Verify \/ Acknowledge \/ Settle
             \/ Finish
    BY <2>3, RetainedFrame DEF RecoverRecord, Fetch, ApplySame, Verify,
        Acknowledge, Settle, Finish
  <2>4. CASE \E q \in Paths : EntryAcknowledged(q) \/ EntryPending(q)
                              \/ SenderStores(q)
    BY <2>4, RetainedFrame DEF EntryAcknowledged, EntryPending, SenderStores
  <2>5. CASE \E q \in Paths : UserChanges(q)
    <3>1. edits \in Int /\ edits' = edits + 1
      BY <2>5, ReceiverAssumption DEF UserChanges, ReceiverInv, TypeOK
    <3> QED
      BY <3>1
  <2> QED
    BY <2>1, <2>2, <2>3, <2>4, <2>5 DEF Next, Continue
<1> QED
  BY <1>1, ReceiverInvariance, PTL DEF Spec, NothingIsLost
=============================================================================
