--------------------------- MODULE TusUploadProofs ---------------------------
(***************************************************************************)
(* The safety properties of TusUpload hold for any number of uploads,      *)
(* Folders, bytes and crashes.  UploadInv is inductive: what the holder of *)
(* the uploads lock has established (HolderKnows) is out of reach of the   *)
(* two steps that need no lock, the start of an exit and an               *)
(* acknowledgement, and a crash between two writes leaves the order of the *)
(* writes visible: bytes before the record, the record before the part.    *)
(***************************************************************************)
EXTENDS TusUpload, SequenceTheorems, TLAPS

USE UploadAssumption

\* The data files are the sequences of at most Length chunks.
LEMMA DataIsSeq ==
  ASSUME NEW p
  PROVE  p \in Data <=> p \in Seq(Bytes) /\ Len(p) <= Length
<1>1. ASSUME p \in Data PROVE p \in Seq(Bytes) /\ Len(p) <= Length
  <2>1. PICK n \in 0..Length : p \in [1..n -> Bytes]
    BY <1>1 DEF Data
  <2>2. p \in Seq(Bytes) /\ Len(p) = n
    BY <2>1
  <2> QED
    BY <2>2
<1>2. ASSUME p \in Seq(Bytes), Len(p) <= Length PROVE p \in Data
  <2>1. Len(p) \in 0..Length /\ p \in [1..Len(p) -> Bytes]
    BY <1>2
  <2>2. [1..Len(p) -> Bytes] \in {[1..n -> Bytes] : n \in 0..Length}
    BY <2>1
  <2> QED
    BY <2>1, <2>2, Zenon DEF Data
<1> QED
  BY <1>1, <1>2

\* A data file has a length, and is not the mark of a missing file.
LEMMA DataLen ==
  ASSUME NEW p \in Data
  PROVE  Len(p) \in 0..Length /\ Len(p) \in Nat /\ p # Absent
BY DataIsSeq

\* A new data file is empty.
LEMMA DataEmpty == <<>> \in Data /\ Len(<<>>) = 0
<1>1. <<>> \in Seq(Bytes) /\ Len(<<>>) = 0
  BY EmptySeq
<1>2. Len(<<>>) <= Length
  BY <1>1
<1> QED
  BY <1>1, <1>2, DataIsSeq, Zenon

\* Appending a body that fits (append_upload).
LEMMA DataAppend ==
  ASSUME NEW p \in Data, NEW c \in Data, Len(p) + Len(c) <= Length
  PROVE  p \o c \in Data /\ Len(p \o c) = Len(p) + Len(c)
<1>1. p \in Seq(Bytes) /\ c \in Seq(Bytes)
  BY DataIsSeq
<1>2. p \o c \in Seq(Bytes) /\ Len(p \o c) = Len(p) + Len(c)
  BY <1>1
<1> QED
  BY <1>2, DataIsSeq

\* Rolling a data file back, or writing only the beginning of a body.
LEMMA DataPrefix ==
  ASSUME NEW p \in Data, NEW n \in 0..Len(p)
  PROVE  /\ SubSeq(p, 1, n) \in Data /\ Len(SubSeq(p, 1, n)) = n
         /\ n = Len(p) => SubSeq(p, 1, n) = p
<1>1. p \in Seq(Bytes) /\ Len(p) \in 0..Length
  BY DataIsSeq
<1>2. SubSeq(p, 1, n) \in Seq(Bytes) /\ Len(SubSeq(p, 1, n)) = n
  BY <1>1
<1>3. n = Len(p) => SubSeq(p, 1, n) = p
  BY <1>1
<1>4. n <= Length
  BY <1>1
<1>5. SubSeq(p, 1, n) \in Data
  BY <1>2, <1>4, DataIsSeq
<1> QED
  BY <1>2, <1>3, <1>5

\* The empty uploads directory satisfies the invariant.
LEMMA InitInv == Init => UploadInv
<1> SUFFICES ASSUME Init PROVE UploadInv
  OBVIOUS
<1>1. TypeOK
  BY DEF Init, TypeOK, Steps
<1>2. HolderTyped /\ HolderKnows /\ RowsAreComplete
  BY DEF Init, HolderTyped, HolderKnows, RowsAreComplete, Serving
<1>3. OffsetIsDurable /\ DeliveredWasVerified /\ CleanedHasNoUpload
  BY DEF Init, OffsetIsDurable, DeliveredWasVerified, CleanedHasNoUpload
<1> QED
  BY <1>1, <1>2, <1>3 DEF UploadInv

\* create_upload writes the record of an id that was never handed out.
LEMMA CreateRecordInv ==
  ASSUME UploadInv, NEW u \in Uploads, CreateRecord(u)
  PROVE  UploadInv'
<1> USE DEF UploadInv
<1>0. [offset |-> 0, delivered |-> FALSE] \in Records
  BY DEF Records
<1>1. TypeOK'
  BY <1>0 DEF TypeOK, Steps, CreateRecord
<1>2. HolderTyped' /\ HolderKnows'
  BY <1>0 DEF TypeOK, HolderTyped, HolderKnows, Serving, CreateRecord, Open
<1>3. RowsAreComplete' /\ OffsetIsDurable'
  BY <1>0 DEF TypeOK, RowsAreComplete, OffsetIsDurable, CreateRecord, Open
<1>4. DeliveredWasVerified' /\ CleanedHasNoUpload'
  BY <1>0 DEF TypeOK, DeliveredWasVerified, CleanedHasNoUpload, CreateRecord, Open,
     Verified
<1> QED
  BY <1>1, <1>2, <1>3, <1>4

\* Only with the empty data file on disk is the id handed out.
LEMMA CreatePartInv ==
  ASSUME UploadInv, CreatePart
  PROVE  UploadInv'
<1> USE DEF UploadInv
<1>0. /\ cur \in Uploads /\ at = "create_part"
      /\ cur \notin known /\ row[cur] = "absent"
      /\ exit[DeviceOf[cur]] # "cleaned"
      /\ rec[cur] = [offset |-> 0, delivered |-> FALSE]
  BY DEF HolderTyped, HolderKnows, RowsAreComplete, CreatePart, TypeOK
<1>1. TypeOK'
  BY <1>0, DataEmpty DEF TypeOK, Steps, CreatePart, Release
<1>2. HolderTyped' /\ HolderKnows'
  BY DEF HolderTyped, HolderKnows, Serving, CreatePart, Release
<1>3. RowsAreComplete'
  BY DEF RowsAreComplete, CreatePart
<1>4. OffsetIsDurable'
  BY <1>0, DataEmpty, DataLen DEF TypeOK, OffsetIsDurable, CreatePart, Open
<1>5. DeliveredWasVerified' /\ CleanedHasNoUpload'
  BY <1>0 DEF TypeOK, DeliveredWasVerified, CleanedHasNoUpload, CreatePart, Open,
     Verified
<1> QED
  BY <1>1, <1>2, <1>3, <1>4, <1>5

\* The common beginning of HEAD and PATCH: bytes beyond the recorded offset are
\* rolled back, which an upload with a row never has.
LEMMA BeginInv ==
  ASSUME UploadInv, NEW u \in Uploads, NEW c \in Chunks \cup {Absent}, Begin(u, c)
  PROVE  UploadInv'
<1> USE DEF UploadInv
<1>0. /\ u \in known /\ Open(u) /\ rec[u] \in Records /\ rec[u] # Absent
      /\ rec[u].offset \in 0..Length /\ rec[u].delivered \in BOOLEAN
      /\ part[u] \in Data \cup {Absent}
      /\ exit[DeviceOf[u]] # "cleaned"
  BY DEF Begin, TypeOK, Records, Open
<1>1. \/ rec[u].delivered /\ part' = part
      \/ \E q \in Data : /\ part' = [part EXCEPT ![u] = q]
                         /\ q # Absent /\ Len(q) = rec[u].offset
                         /\ row[u] # "absent" => q = part[u]
  <2>1. CASE rec[u].delivered
    BY <2>1 DEF Begin
  <2>2. CASE ~rec[u].delivered
    <3>1. /\ part[u] \in Data /\ Len(part[u]) >= rec[u].offset
          /\ part' = [part EXCEPT ![u] = SubSeq(part[u], 1, rec[u].offset)]
      BY <1>0, <2>2 DEF Begin
    <3>2. Len(part[u]) \in 0..Length /\ rec[u].offset \in 0..Len(part[u])
      BY <1>0, <3>1, DataLen
    <3>3. row[u] # "absent" => rec[u].offset = Len(part[u])
      BY <1>0, <3>2 DEF RowsAreComplete
    <3> DEFINE q == SubSeq(part[u], 1, rec[u].offset)
    <3>4. q \in Data /\ Len(q) = rec[u].offset /\ (row[u] # "absent" => q = part[u])
      BY <3>1, <3>2, <3>3, DataPrefix
    <3>5. q # Absent /\ part' = [part EXCEPT ![u] = q]
      BY <3>1, <3>4, DataLen
    <3> HIDE DEF q
    <3> QED
      BY <3>4, <3>5
  <2> QED
    BY <2>1, <2>2
<1>2. /\ part' \in [Uploads -> Data \cup {Absent}]
      /\ \A x \in Uploads : x # u => part'[x] = part[x]
      /\ ~rec[u].delivered => part'[u] # Absent /\ Len(part'[u]) = rec[u].offset
      /\ row[u] # "absent" => part'[u] = part[u]
  BY <1>1 DEF TypeOK
<1>3. TypeOK'
  BY <1>2 DEF TypeOK, Steps, Begin
<1>4. HolderTyped' /\ HolderKnows'
  BY <1>0, <1>2 DEF TypeOK, HolderTyped, HolderKnows, Serving, Begin
<1>5. RowsAreComplete'
  BY DEF RowsAreComplete, Begin
<1>6. OffsetIsDurable'
  BY <1>0, <1>2 DEF OffsetIsDurable, Begin, Open, TypeOK
<1>7. DeliveredWasVerified'
  BY <1>0, <1>2 DEF DeliveredWasVerified, Begin, Open, Verified
<1>8. CleanedHasNoUpload'
  BY <1>0, <1>2 DEF CleanedHasNoUpload, Begin
<1> QED
  BY <1>3, <1>4, <1>5, <1>6, <1>7, <1>8

\* Steps that only move the holder on keep the invariant if what it now knows
\* is true.
LEMMA FilesUntouched ==
  ASSUME UploadInv, TypeOK', HolderTyped', HolderKnows',
         UNCHANGED <<rec, part, known, row, exit>>
  PROVE  UploadInv'
BY DEF UploadInv, RowsAreComplete, OffsetIsDurable, DeliveredWasVerified,
   CleanedHasNoUpload, Open, Verified

\* finalize_completed: a complete file is verified before it is enqueued.
LEMMA FinalizeInv ==
  ASSUME UploadInv, Finalize
  PROVE  UploadInv'
<1> USE DEF UploadInv
<1>0. /\ at = "finalize" /\ cur \in Uploads /\ rec[cur] \in Records
      /\ UNCHANGED <<rec, part, known, row, exit, fails>>
  BY DEF Finalize, HolderTyped, HolderKnows, Serving, TypeOK
<1>1. TypeOK'
  BY <1>0 DEF TypeOK, Steps, Finalize, Finalized, Release, Step
<1>2. HolderTyped'
  BY <1>0 DEF TypeOK, HolderTyped, Finalize, Finalized, Release, Step
<1>3. HolderKnows'
  BY <1>0 DEF HolderKnows, Serving, Finalize, Finalized, Release, Step, Verified, Orphan
<1> QED
  BY <1>0, <1>1, <1>2, <1>3, FilesUntouched

\* The checks of append_upload before the write: the offsets agree and the body
\* fits.
LEMMA AppendCheckInv ==
  ASSUME UploadInv, AppendCheck
  PROVE  UploadInv'
<1> USE DEF UploadInv
<1>0. /\ at = "append" /\ cur \in Uploads /\ rec[cur] \in Records /\ chunk \in Chunks
      /\ UNCHANGED <<rec, part, known, row, exit, fails>>
  BY DEF AppendCheck, HolderTyped, HolderKnows, Serving, TypeOK
<1>1. /\ rec[cur].offset \in 0..Length /\ chunk.data \in Data
      /\ Len(chunk.data) \in 0..Length
  BY <1>0, DataLen DEF Records, Chunks
<1>2. TypeOK'
  BY <1>0 DEF TypeOK, Steps, AppendCheck, Release, Step
<1>3. HolderTyped'
  BY <1>0 DEF TypeOK, HolderTyped, AppendCheck, Release, Step
<1>4. HolderKnows'
  BY <1>0, <1>1 DEF HolderKnows, Serving, AppendCheck, Release, Step, Verified, Orphan
<1> QED
  BY <1>0, <1>2, <1>3, <1>4, FilesUntouched

\* The row is inserted for verified bytes of a Folder that is open.
LEMMA EnqueueInv ==
  ASSUME UploadInv, Enqueue
  PROVE  UploadInv'
<1> USE DEF UploadInv
<1>0. /\ at = "enqueue" /\ cur \in Uploads /\ cur \in known
      /\ rec[cur].offset = Length /\ rec[cur] # Absent
      /\ Verified(part[cur]) /\ exit[DeviceOf[cur]] # "cleaned"
      /\ UNCHANGED <<rec, part, known, exit, fails>>
  BY DEF Enqueue, HolderTyped, HolderKnows, Serving
<1>1. /\ row' \in [Uploads -> {"absent", "pending", "acked"}]
      /\ \A x \in Uploads : x # cur => row'[x] = row[x]
      /\ row[cur] # "absent" => row'[cur] # "absent"
  BY <1>0 DEF Enqueue, TypeOK
<1>2. TypeOK'
  BY <1>0, <1>1 DEF TypeOK, Steps, Enqueue, Release, Step
<1>3. HolderTyped'
  BY <1>0 DEF HolderTyped, Enqueue, Release, Step
<1>4. HolderKnows'
  BY <1>0 DEF TypeOK, HolderKnows, Serving, Enqueue, Release, Step, Orphan
<1>5. RowsAreComplete' /\ OffsetIsDurable'
  BY <1>0, <1>1 DEF RowsAreComplete, OffsetIsDurable, Open
<1>6. DeliveredWasVerified'
  BY <1>0, <1>1 DEF DeliveredWasVerified, Verified, Open
<1>7. CleanedHasNoUpload'
  BY <1>0, <1>1 DEF CleanedHasNoUpload
<1> QED
  BY <1>2, <1>3, <1>4, <1>5, <1>6, <1>7

\* The record says delivered only after the row is there.
LEMMA MarkInv ==
  ASSUME UploadInv, Mark
  PROVE  UploadInv'
<1> USE DEF UploadInv
<1>0. /\ at = "mark" /\ cur \in Uploads /\ cur \in known /\ rec[cur] \in Records
      /\ rec[cur].offset = Length /\ row[cur] # "absent"
      /\ exit[DeviceOf[cur]] # "cleaned"
      /\ UNCHANGED <<part, known, row, exit, fails, cur, dev, chunk>> /\ at' = "drop_part"
  BY DEF Mark, Step, HolderTyped, HolderKnows, Serving, TypeOK
<1>1. PICK q \in Records : /\ rec' = [rec EXCEPT ![cur] = q]
                           /\ q.offset = Length /\ q.delivered = TRUE
  <2>1. [rec[cur] EXCEPT !.delivered = TRUE] \in Records
    BY <1>0 DEF Records
  <2>2. rec' = [rec EXCEPT ![cur] = [rec[cur] EXCEPT !.delivered = TRUE]]
    BY <1>0 DEF Mark, TypeOK
  <2>3. /\ [rec[cur] EXCEPT !.delivered = TRUE].offset = Length
        /\ [rec[cur] EXCEPT !.delivered = TRUE].delivered = TRUE
    BY <1>0 DEF Records
  <2> QED
    BY <2>1, <2>2, <2>3
<1>2. q # Absent
  OBVIOUS
<1>3. TypeOK'
  BY <1>0, <1>1 DEF TypeOK, Steps
<1>4. HolderTyped' /\ HolderKnows'
  BY <1>0, <1>1, <1>2 DEF TypeOK, HolderTyped, HolderKnows, Serving
<1>5. RowsAreComplete' /\ OffsetIsDurable'
  BY <1>0, <1>1 DEF TypeOK, RowsAreComplete, OffsetIsDurable, Open
<1>6. DeliveredWasVerified' /\ CleanedHasNoUpload'
  BY <1>0, <1>1 DEF TypeOK, DeliveredWasVerified, CleanedHasNoUpload, Open, Verified
<1> QED
  BY <1>3, <1>4, <1>5, <1>6

\* Only the part of a delivered upload is dropped, or stays when that fails.
LEMMA DropPartInv ==
  ASSUME UploadInv, DropPart
  PROVE  UploadInv'
<1> USE DEF UploadInv
<1>0. /\ at = "drop_part" /\ cur \in Uploads /\ rec[cur].delivered
      /\ UNCHANGED <<rec, known, row, exit>>
      /\ \/ part' = [part EXCEPT ![cur] = Absent] \/ part' = part
  BY DEF DropPart, HolderTyped, HolderKnows, Serving
<1>1. /\ part' \in [Uploads -> Data \cup {Absent}]
      /\ \A x \in Uploads : part'[x] = part[x] \/ (x = cur /\ part'[x] = Absent)
  BY <1>0 DEF TypeOK
<1>2. TypeOK'
  BY <1>0, <1>1 DEF TypeOK, Steps, DropPart, Finalized, Release, Step
<1>3. HolderTyped' /\ HolderKnows'
  BY <1>0 DEF TypeOK, HolderTyped, HolderKnows, Serving, DropPart, Finalized, Release,
     Step
<1>4. RowsAreComplete' /\ OffsetIsDurable'
  BY <1>0, <1>1 DEF TypeOK, RowsAreComplete, OffsetIsDurable, Open
<1>5. DeliveredWasVerified' /\ CleanedHasNoUpload'
  BY <1>0, <1>1 DEF DeliveredWasVerified, CleanedHasNoUpload, Open, Verified
<1> QED
  BY <1>2, <1>3, <1>4, <1>5

\* Bytes reach the data file before the record counts them; only an upload
\* without a row gets bytes, and they fit.  A crash may leave some of them.
LEMMA WriteKeeps ==
  ASSUME UploadInv, at = "write", NEW n \in 0..Len(chunk.data)
  PROVE  /\ cur \in Uploads /\ row[cur] = "absent" /\ exit[DeviceOf[cur]] # "cleaned"
         /\ cur \in known /\ rec[cur] # Absent
         /\ part[cur] \in Data /\ chunk.data \in Data
         /\ part[cur] \o SubSeq(chunk.data, 1, n) \in Data
         /\ Len(part[cur] \o SubSeq(chunk.data, 1, n)) = rec[cur].offset + n
         /\ n = Len(chunk.data) => SubSeq(chunk.data, 1, n) = chunk.data
         /\ rec[cur].offset \in 0..Length
<1> USE DEF UploadInv
<1>1. /\ cur \in Uploads /\ exit[DeviceOf[cur]] # "cleaned" /\ cur \in known
      /\ rec[cur] # Absent /\ part[cur] # Absent /\ Len(part[cur]) = rec[cur].offset
      /\ rec[cur].offset + Len(chunk.data) <= Length /\ Len(chunk.data) > 0
      /\ chunk \in Chunks
  BY DEF HolderTyped, HolderKnows, Serving
<1>2. /\ part[cur] \in Data /\ rec[cur] \in Records
      /\ rec[cur].offset \in 0..Length /\ chunk.data \in Data
  BY <1>1 DEF TypeOK, Records, Chunks
<1>3. Len(chunk.data) \in Nat /\ Len(part[cur]) \in Nat
  BY <1>2, DataLen
<1>4. row[cur] = "absent"
  BY <1>1, <1>2, <1>3 DEF RowsAreComplete
<1> DEFINE q == SubSeq(chunk.data, 1, n)
<1>5. q \in Data /\ Len(q) = n /\ (n = Len(chunk.data) => q = chunk.data)
  BY <1>2, DataPrefix
<1> HIDE DEF q
<1>6. Len(part[cur]) + Len(q) <= Length
  BY <1>1, <1>2, <1>3, <1>5
<1>7. part[cur] \o q \in Data /\ Len(part[cur] \o q) = rec[cur].offset + n
  BY <1>1, <1>2, <1>5, <1>6, DataAppend
<1> QED
  BY <1>1, <1>2, <1>4, <1>5, <1>7 DEF q

\* A data file that grows, while its upload has no row and its Folder is not
\* clean, keeps what the properties say of it.
LEMMA GrowingPart ==
  ASSUME UploadInv, cur \in Uploads, row[cur] = "absent",
         exit[DeviceOf[cur]] # "cleaned",
         NEW q \in Data, Len(q) >= rec[cur].offset,
         part' = [part EXCEPT ![cur] = q], UNCHANGED <<rec, known, row, exit>>
  PROVE  /\ part' \in [Uploads -> Data \cup {Absent}]
         /\ RowsAreComplete' /\ OffsetIsDurable' /\ DeliveredWasVerified'
         /\ CleanedHasNoUpload'
<1> USE DEF UploadInv
<1>1. part' \in [Uploads -> Data \cup {Absent}]
  BY DEF TypeOK
<1>2. RowsAreComplete'
  BY DEF RowsAreComplete
<1>3. OffsetIsDurable'
  BY DataLen DEF OffsetIsDurable, Open, TypeOK
<1>4. DeliveredWasVerified'
  BY DEF DeliveredWasVerified, Open, Verified, TypeOK
<1>5. CleanedHasNoUpload'
  BY DEF CleanedHasNoUpload, TypeOK
<1> QED
  BY <1>1, <1>2, <1>3, <1>4, <1>5

\* The synced write of append_upload.
LEMMA AppendWriteInv ==
  ASSUME UploadInv, AppendWrite
  PROVE  UploadInv'
<1> USE DEF UploadInv
<1>0. /\ at = "write" /\ at' = "commit" /\ UNCHANGED <<rec, known, row, exit, fails>>
      /\ UNCHANGED <<cur, dev, chunk>>
      /\ part' = [part EXCEPT ![cur] = part[cur] \o chunk.data]
  BY DEF AppendWrite, Step
<1>1. chunk \in Chunks /\ chunk.data \in Data
  BY <1>0 DEF HolderTyped, Chunks
<1>2. Len(chunk.data) \in 0..Len(chunk.data) /\ Len(chunk.data) \in Nat
  BY <1>1, DataLen
<1> DEFINE q == part[cur] \o chunk.data
<1>3. /\ cur \in Uploads /\ row[cur] = "absent" /\ exit[DeviceOf[cur]] # "cleaned"
      /\ cur \in known /\ rec[cur] # Absent /\ rec[cur].offset \in 0..Length
      /\ q \in Data /\ Len(q) = rec[cur].offset + Len(chunk.data)
  BY <1>0, <1>2, WriteKeeps
<1> HIDE DEF q
<1>a. part' = [part EXCEPT ![cur] = q]
  BY <1>0 DEF q
<1>4. part' = [part EXCEPT ![cur] = q] /\ q # Absent /\ Len(q) >= rec[cur].offset
  BY <1>a, <1>2, <1>3, DataLen
<1>5. /\ part' \in [Uploads -> Data \cup {Absent}]
      /\ RowsAreComplete' /\ OffsetIsDurable' /\ DeliveredWasVerified'
      /\ CleanedHasNoUpload'
  BY <1>0, <1>3, <1>4, GrowingPart
<1>6. TypeOK' /\ HolderTyped'
  BY <1>0, <1>5 DEF TypeOK, Steps, HolderTyped
<1>7. HolderKnows'
  BY <1>0, <1>3, <1>4 DEF TypeOK, HolderKnows, Serving
<1> QED
  BY <1>5, <1>6, <1>7

\* The record moves to what is on disk.
LEMMA AppendCommitInv ==
  ASSUME UploadInv, AppendCommit
  PROVE  UploadInv'
<1> USE DEF UploadInv
<1>0. /\ at = "commit" /\ cur \in Uploads /\ cur \in known
      /\ rec[cur] \in Records /\ chunk \in Chunks
      /\ ~rec[cur].delivered /\ rec[cur].offset + Len(chunk.data) <= Length
      /\ part[cur] # Absent /\ Len(part[cur]) = rec[cur].offset + Len(chunk.data)
      /\ exit[DeviceOf[cur]] # "cleaned"
      /\ UNCHANGED <<part, known, row, exit, cur, dev, fails>>
      /\ at' = "finalize" /\ chunk' = Absent
  BY DEF AppendCommit, HolderTyped, HolderKnows, Serving, TypeOK
<1>1. /\ rec[cur].offset \in 0..Length /\ rec[cur].delivered \in BOOLEAN
      /\ Len(chunk.data) \in Nat
  BY <1>0, DataLen DEF Records, Chunks
<1> DEFINE m == rec[cur].offset + Len(chunk.data)
<1>2. m \in 0..Length /\ (row[cur] # "absent" => m = Length)
  BY <1>0, <1>1 DEF RowsAreComplete
<1>3. PICK q \in Records : /\ rec' = [rec EXCEPT ![cur] = q]
                           /\ q.offset = m /\ ~q.delivered
  <2>1. rec' = [rec EXCEPT ![cur] = [rec[cur] EXCEPT !.offset = m]]
    BY <1>0 DEF AppendCommit, TypeOK
  <2> HIDE DEF m
  <2>2. /\ [rec[cur] EXCEPT !.offset = m] \in Records
        /\ [rec[cur] EXCEPT !.offset = m].offset = m
        /\ ~[rec[cur] EXCEPT !.offset = m].delivered
    BY <1>0, <1>2 DEF Records
  <2> QED
    BY <2>1, <2>2
<1>4. q # Absent /\ Len(part[cur]) = m
  BY <1>0
<1> HIDE DEF m
<1>5. TypeOK' /\ HolderTyped'
  BY <1>0, <1>3 DEF TypeOK, Steps, HolderTyped
<1>6. HolderKnows'
  BY <1>0, <1>3, <1>4 DEF TypeOK, HolderKnows, Serving
<1>7. RowsAreComplete'
  BY <1>0, <1>2, <1>3 DEF TypeOK, RowsAreComplete
<1>8. OffsetIsDurable'
  BY <1>0, <1>2, <1>3, <1>4 DEF TypeOK, OffsetIsDurable, Open
<1>9. DeliveredWasVerified' /\ CleanedHasNoUpload'
  BY <1>0, <1>3 DEF TypeOK, DeliveredWasVerified, CleanedHasNoUpload, Open, Verified
<1> QED
  BY <1>5, <1>6, <1>7, <1>8, <1>9

\* discard_upload: the record goes before the part.
LEMMA DiscardInv ==
  ASSUME UploadInv, DiscardRecord \/ DiscardPart
  PROVE  UploadInv'
<1> USE DEF UploadInv
<1>1. CASE DiscardRecord
  <2>0. /\ cur \in Uploads /\ at' = "discard_part" /\ exit[DeviceOf[cur]] # "cleaned"
        /\ rec' = [rec EXCEPT ![cur] = Absent]
        /\ UNCHANGED <<part, known, row, exit, fails, cur, dev, chunk>>
    BY <1>1 DEF DiscardRecord, Step, HolderTyped, HolderKnows
  <2>1. TypeOK' /\ HolderTyped' /\ HolderKnows'
    BY <2>0 DEF TypeOK, Steps, HolderTyped, HolderKnows, Serving
  <2>2. RowsAreComplete' /\ OffsetIsDurable' /\ DeliveredWasVerified'
        /\ CleanedHasNoUpload'
    BY <2>0 DEF TypeOK, RowsAreComplete, OffsetIsDurable, DeliveredWasVerified,
       CleanedHasNoUpload, Open, Verified
  <2> QED
    BY <2>1, <2>2
<1>2. CASE DiscardPart
  <2>0. /\ cur \in Uploads /\ rec[cur] = Absent
        /\ part' = [part EXCEPT ![cur] = Absent]
        /\ UNCHANGED <<rec, known, row, exit, fails>>
    BY <1>2 DEF DiscardPart, HolderTyped, HolderKnows
  <2>1. TypeOK' /\ HolderTyped' /\ HolderKnows'
    BY <1>2, <2>0 DEF TypeOK, Steps, HolderTyped, HolderKnows, Serving, DiscardPart,
       Release
  <2>2. RowsAreComplete' /\ OffsetIsDurable' /\ CleanedHasNoUpload'
    BY <2>0 DEF TypeOK, RowsAreComplete, OffsetIsDurable, CleanedHasNoUpload, Open
  <2>3. DeliveredWasVerified'
    BY <2>0 DEF TypeOK, DeliveredWasVerified, Open, Verified
  <2> QED
    BY <2>1, <2>2, <2>3
<1> QED
  BY <1>1, <1>2

\* The two steps that need no lock: an exit begins, a delivery is acknowledged.
LEMMA UnlockedInv ==
  ASSUME UploadInv,
         (\E u \in Uploads : Ack(u)) \/ (\E v \in Devices : Revoke(v))
  PROVE  UploadInv'
<1> USE DEF UploadInv
<1>0. /\ UNCHANGED <<rec, part, known, fails, at, cur, dev, chunk>>
      /\ row' \in [Uploads -> {"absent", "pending", "acked"}]
      /\ exit' \in [Devices -> {"open", "begun", "cleaned"}]
      /\ \A u \in Uploads : row'[u] = "absent" <=> row[u] = "absent"
      /\ \A v \in Devices : /\ exit'[v] = "cleaned" <=> exit[v] = "cleaned"
                            /\ exit'[v] = "open" => exit[v] = "open"
  BY DEF Ack, Revoke, holder, TypeOK
<1>1. TypeOK' /\ HolderTyped'
  BY <1>0 DEF TypeOK, HolderTyped
<1>2. HolderKnows'
  BY <1>0 DEF TypeOK, HolderTyped, HolderKnows, Serving, Verified, Orphan
<1>3. RowsAreComplete' /\ CleanedHasNoUpload'
  BY <1>0 DEF RowsAreComplete, CleanedHasNoUpload
<1>4. OffsetIsDurable' /\ DeliveredWasVerified'
  BY <1>0 DEF TypeOK, OffsetIsDurable, DeliveredWasVerified, Open, Verified
<1> QED
  BY <1>1, <1>2, <1>3, <1>4

\* purge_folder_uploads_locked starts only without ownerless parts, and removes
\* each upload's part before its record, so none appears.
LEMMA PurgeInv ==
  ASSUME UploadInv,
         \/ \E v \in Devices : PurgeBegin(v)
         \/ \E u \in Uploads : PurgePart(u)
         \/ PurgeRecord
  PROVE  UploadInv'
<1> USE DEF UploadInv
<1>1. ASSUME NEW v \in Devices, PurgeBegin(v) PROVE UploadInv'
  <2>1. TypeOK' /\ HolderTyped' /\ HolderKnows'
    BY <1>1 DEF TypeOK, Steps, HolderTyped, HolderKnows, Serving, PurgeBegin, Orphan
  <2> QED
    BY <1>1, <2>1, FilesUntouched DEF PurgeBegin
<1>2. ASSUME NEW u \in Uploads, PurgePart(u) PROVE UploadInv'
  <2>0. /\ at = "purge" /\ dev \in Devices /\ exit[dev] # "open" /\ DeviceOf[u] = dev
        /\ rec[u] # Absent /\ at' = "purge_record" /\ cur' = u
        /\ part' = [part EXCEPT ![u] = Absent]
        /\ UNCHANGED <<rec, known, row, exit, dev, chunk, fails>>
    BY <1>2 DEF PurgePart, HolderTyped
  <2>1. TypeOK' /\ HolderTyped'
    BY <2>0 DEF TypeOK, Steps, HolderTyped
  <2>2. HolderKnows'
    BY <2>0 DEF TypeOK, HolderKnows, Serving, Orphan
  <2>3. RowsAreComplete' /\ OffsetIsDurable' /\ CleanedHasNoUpload'
    BY <2>0 DEF TypeOK, RowsAreComplete, OffsetIsDurable, CleanedHasNoUpload, Open
  <2>4. DeliveredWasVerified'
    BY <2>0 DEF TypeOK, DeliveredWasVerified, Open, Verified
  <2> QED
    BY <2>1, <2>2, <2>3, <2>4
<1>3. ASSUME PurgeRecord PROVE UploadInv'
  <2>0. /\ at = "purge_record" /\ dev \in Devices /\ exit[dev] # "open"
        /\ cur \in Uploads /\ part[cur] = Absent
        /\ at' = "purge" /\ cur' = Absent /\ rec' = [rec EXCEPT ![cur] = Absent]
        /\ UNCHANGED <<part, known, row, exit, dev, chunk, fails>>
    BY <1>3 DEF PurgeRecord, HolderTyped, HolderKnows
  <2>1. TypeOK' /\ HolderTyped'
    BY <2>0 DEF TypeOK, Steps, HolderTyped
  <2>2. HolderKnows'
    BY <2>0 DEF TypeOK, HolderKnows, Serving, Orphan
  <2>3. RowsAreComplete' /\ OffsetIsDurable' /\ CleanedHasNoUpload'
    BY <2>0 DEF TypeOK, RowsAreComplete, OffsetIsDurable, CleanedHasNoUpload, Open
  <2>4. DeliveredWasVerified'
    BY <2>0 DEF TypeOK, DeliveredWasVerified, Open, Verified
  <2> QED
    BY <2>1, <2>2, <2>3, <2>4
<1> QED
  BY <1>1, <1>2, <1>3

\* The exit is confirmed when no record of the Folder is left, and then no part
\* is left either; its rows go in the same transaction.
LEMMA PurgeEndInv ==
  ASSUME UploadInv, PurgeEnd
  PROVE  UploadInv'
<1> USE DEF UploadInv
<1>0. /\ at = "purge" /\ dev \in Devices
      /\ \A u \in Uploads : DeviceOf[u] = dev => rec[u] = Absent /\ part[u] = Absent
      /\ UNCHANGED <<rec, part, known, fails>> /\ Release
  BY DEF PurgeEnd, HolderTyped, HolderKnows, Orphan
<1>1. /\ row' \in [Uploads -> {"absent", "pending", "acked"}]
      /\ \A u \in Uploads : row'[u] = IF DeviceOf[u] = dev THEN "absent" ELSE row[u]
      /\ exit' \in [Devices -> {"open", "begun", "cleaned"}]
      /\ \A v \in Devices : exit'[v] = IF v = dev THEN "cleaned" ELSE exit[v]
  BY <1>0 DEF PurgeEnd, TypeOK
<1>2. TypeOK' /\ HolderTyped' /\ HolderKnows'
  BY <1>0, <1>1 DEF TypeOK, Steps, HolderTyped, HolderKnows, Serving, Release
<1>3. RowsAreComplete' /\ CleanedHasNoUpload'
  BY <1>0, <1>1 DEF RowsAreComplete, CleanedHasNoUpload
<1>4. OffsetIsDurable' /\ DeliveredWasVerified'
  BY <1>0, <1>1 DEF TypeOK, OffsetIsDurable, DeliveredWasVerified, Open, Verified
<1> QED
  BY <1>2, <1>3, <1>4

\* A crash or an error keeps everything: a half-written body is beyond the
\* recorded offset of an upload that has no row.
LEMMA FailInv ==
  ASSUME UploadInv, Fail
  PROVE  UploadInv'
<1> USE DEF UploadInv
<1>0. UNCHANGED <<rec, known, row, exit>> /\ Release
  BY DEF Fail
<1>1. HolderTyped' /\ HolderKnows'
  BY <1>0 DEF HolderTyped, HolderKnows, Serving, Release
<1>2. CASE at # "write"
  <2>1. UNCHANGED part
    BY <1>2 DEF Fail
  <2>2. TypeOK'
    BY <1>0, <2>1 DEF TypeOK, Steps, Fail, Release
  <2> QED
    BY <1>0, <1>1, <2>1, <2>2, FilesUntouched
<1>3. CASE at = "write"
  <2>1. PICK n \in 0..Len(chunk.data) :
          part' = [part EXCEPT ![cur] = part[cur] \o SubSeq(chunk.data, 1, n)]
    BY <1>3 DEF Fail
  <2> DEFINE q == part[cur] \o SubSeq(chunk.data, 1, n)
  <2>2. /\ cur \in Uploads /\ row[cur] = "absent" /\ exit[DeviceOf[cur]] # "cleaned"
        /\ q \in Data /\ Len(q) = rec[cur].offset + n /\ rec[cur].offset \in 0..Length
        /\ part' = [part EXCEPT ![cur] = q]
    BY <1>3, <2>1, WriteKeeps
  <2> HIDE DEF q
  <2>3. n \in Nat
    BY <1>3, DataLen DEF HolderTyped, Chunks
  <2>4. Len(q) >= rec[cur].offset
    BY <2>2, <2>3
  <2>5. /\ part' \in [Uploads -> Data \cup {Absent}]
        /\ RowsAreComplete' /\ OffsetIsDurable' /\ DeliveredWasVerified'
        /\ CleanedHasNoUpload'
    BY <1>0, <2>2, <2>4, GrowingPart
  <2>6. TypeOK'
    BY <1>0, <2>5 DEF TypeOK, Steps, Fail, Release
  <2> QED
    BY <1>1, <2>5, <2>6
<1> QED
  BY <1>2, <1>3

\* The invariant holds in every reachable state of the uploads directory.
THEOREM UploadInvariance == Spec => []UploadInv
<1>1. UploadInv /\ [Next]_vars => UploadInv'
  <2> SUFFICES ASSUME UploadInv, [Next]_vars PROVE UploadInv'
    OBVIOUS
  <2>1. CASE UNCHANGED vars
    <3>1. TypeOK' /\ HolderTyped' /\ HolderKnows'
      BY <2>1 DEF vars, UploadInv, TypeOK, HolderTyped, HolderKnows, Verified, Orphan
    <3> QED
      BY <2>1, <3>1, FilesUntouched DEF vars
  <2>2. ASSUME NEW u \in Uploads, Request(u) PROVE UploadInv'
    BY <2>2, CreateRecordInv, BeginInv DEF Request, CreateUpload, HeadUpload, GetUpload,
       PatchUpload
  <2>3. ASSUME Continue PROVE UploadInv'
    BY <2>3, CreatePartInv, FinalizeInv, EnqueueInv, MarkInv, DropPartInv,
       AppendCheckInv, AppendWriteInv, AppendCommitInv, DiscardInv, PurgeInv,
       PurgeEndInv DEF Continue
  <2> QED
    BY <2>1, <2>2, <2>3, UnlockedInv, PurgeInv, FailInv DEF Next
<1> QED
  BY InitInv, <1>1, PTL DEF Spec

\* Type correctness of the uploads directory and of its lock's holder.
THEOREM UploadTyped == Spec => []TypeOK
BY UploadInvariance, PTL DEF UploadInv

\* Every byte the relay reported as received is on disk, whatever crashed.
THEOREM ReportedBytesAreDurable == Spec => []OffsetIsDurable
BY UploadInvariance, PTL DEF UploadInv

\* Rejected bytes never reach the deliveries table.
THEOREM RowsWereVerified == Spec => []DeliveredWasVerified
BY UploadInvariance, PTL DEF UploadInv

\* A confirmed exit leaves nothing in the uploads directory, and nothing that
\* was under way puts it back.
THEOREM CleanExitHasNoUpload == Spec => []CleanedHasNoUpload
BY UploadInvariance, PTL DEF UploadInv
=============================================================================
