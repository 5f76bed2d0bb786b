------------------------------ MODULE TusUpload ------------------------------
(***************************************************************************)
(* The relay's resumable uploads (src/server/tus_store.rs, tus_api.rs): an *)
(* ownership record {id}.json and a data file {id}.part per upload, all    *)
(* operations under one lock on the uploads directory.  The lock makes the *)
(* operations serial, so what is hard is what a crash or an I/O error      *)
(* leaves between two of their writes, and the Folder exit that starts     *)
(* while an admitted request waits for the lock.                           *)
(*                                                                         *)
(* Publishing a delivery is one step here; RelayStore has its detail.      *)
(***************************************************************************)
EXTENDS Integers, Sequences

CONSTANTS
  Uploads,      \* upload ids; the delivery of an upload has the same id
  Devices,      \* paired Folders
  DeviceOf,     \* [Uploads -> Devices]
  Conflicting,  \* uploads whose directory version collides with a stored one
  Length,       \* Upload-Length, in chunks
  Absent,       \* value of a file that does not exist, and of an empty slot
  MaxFails      \* bound: crashes and propagated I/O errors

VARIABLES
  rec,     \* {id}.json: Absent, or the durable offset and delivery id
  part,    \* {id}.part: Absent, or its bytes ("ok" as announced, or "bad")
  known,   \* ids that were handed out in a Location header
  row,     \* the upload's row in the deliveries table
  exit,    \* folder_exits: "open", "begun", "cleaned"
  at,      \* what the holder of the uploads lock does next; "free": nobody
  cur,     \* the upload it works on
  dev,     \* the Folder an exit works on
  chunk,   \* the PATCH body still to be appended, or Absent
  fails    \* crashes and errors so far

vars == <<rec, part, known, row, exit, at, cur, dev, chunk, fails>>
holder == <<at, cur, dev, chunk>>

Bytes == {"ok", "bad"}
Data == UNION {[1..n -> Bytes] : n \in 0..Length}
Records == [offset : 0..Length, delivered : BOOLEAN]
Chunks == [offset : 0..Length, data : Data]

ASSUME UploadAssumption ==
  /\ DeviceOf \in [Uploads -> Devices]
  /\ Conflicting \subseteq Uploads
  /\ Length \in Nat \ {0}
  /\ MaxFails \in Nat
  /\ Absent \notin Uploads \cup Devices \cup Data \cup Records \cup Chunks

Steps == {"free", "create_part", "finalize", "enqueue", "mark", "drop_part",
          "append", "write", "commit", "discard_record", "discard_part",
          "purge", "purge_record"}

\* What the variables range over.
TypeOK ==
  /\ rec \in [Uploads -> Records \cup {Absent}]
  /\ part \in [Uploads -> Data \cup {Absent}]
  /\ known \subseteq Uploads
  /\ row \in [Uploads -> {"absent", "pending", "acked"}]
  /\ exit \in [Devices -> {"open", "begun", "cleaned"}]
  /\ at \in Steps
  /\ cur \in Uploads \cup {Absent}
  /\ dev \in Devices \cup {Absent}
  /\ chunk \in Chunks \cup {Absent}
  /\ fails \in 0..MaxFails

Init ==
  /\ rec = [u \in Uploads |-> Absent]
  /\ part = [u \in Uploads |-> Absent]
  /\ known = {}
  /\ row = [u \in Uploads |-> "absent"]
  /\ exit = [v \in Devices |-> "open"]
  /\ at = "free" /\ cur = Absent /\ dev = Absent /\ chunk = Absent
  /\ fails = 0

-----------------------------------------------------------------------------
Open(u) == exit[DeviceOf[u]] = "open"

\* verify_recorded_file: the size and the digest of the whole file.
Verified(p) == Len(p) = Length /\ \A i \in 1..Length : p[i] = "ok"

\* validate_upload_record, of the fields that change
ValidRecord(r) == r.offset <= Length

Orphan(u) == part[u] # Absent /\ rec[u] = Absent

Release == at' = "free" /\ cur' = Absent /\ dev' = Absent /\ chunk' = Absent

Step(s) == at' = s /\ UNCHANGED <<cur, dev, chunk>>

-----------------------------------------------------------------------------
(* create_upload: the ownership record before any payload byte *)

CreateRecord(u) ==
  /\ at = "free"
  /\ Open(u)
  /\ rec[u] = Absent /\ part[u] = Absent /\ u \notin known
  /\ rec' = [rec EXCEPT ![u] = [offset |-> 0, delivered |-> FALSE]]
  /\ at' = "create_part" /\ cur' = u
  /\ UNCHANGED <<part, known, row, exit, dev, chunk, fails>>

\* The handler: the credential, the protocol version, the announced length and
\* the metadata are checked before the store is called; a request that fails
\* one of these checks changes nothing.
CreateUpload(u) == Open(u) /\ CreateRecord(u)

CreatePart ==
  /\ at = "create_part"
  /\ part' = [part EXCEPT ![cur] = <<>>]
  /\ known' = known \cup {cur}
  /\ Release
  /\ UNCHANGED <<rec, row, exit, fails>>

-----------------------------------------------------------------------------
(* get_upload and append_upload share their beginning: the device is open,  *)
(* the record is there, and bytes beyond its offset are rolled back         *)
(* (reconcile_upload_data; a short part is an error).  PATCH is a HEAD, an  *)
(* unlocked wait for the body, and an append that checks everything again.  *)

\* Mutant: bytes beyond the recorded offset are an error too.
BeginNoRollback(u, c) ==
  /\ at = "free"
  /\ u \in known
  /\ Open(u)
  /\ rec[u] # Absent
  /\ rec[u].delivered \/ (part[u] # Absent /\ Len(part[u]) = rec[u].offset)
  /\ at' = "finalize" /\ cur' = u /\ chunk' = c
  /\ UNCHANGED <<rec, part, known, row, exit, dev, fails>>

Begin(u, c) ==
  /\ at = "free"
  /\ u \in known
  /\ Open(u)
  /\ rec[u] # Absent
  /\ ValidRecord(rec[u])
  /\ IF rec[u].delivered
     THEN UNCHANGED part
     ELSE /\ part[u] # Absent
          /\ Len(part[u]) >= rec[u].offset
          /\ part' = [part EXCEPT ![u] = SubSeq(@, 1, rec[u].offset)]
  /\ at' = "finalize" /\ cur' = u /\ chunk' = c
  /\ UNCHANGED <<rec, known, row, exit, dev, fails>>

GetUpload(u) == Begin(u, Absent)

\* The handlers.
HeadUpload(u) == Open(u) /\ GetUpload(u)

PatchUpload(u) == \E c \in Chunks : Begin(u, c)

\* The request ends, or goes on to append the body it brought.
Finalized == IF chunk = Absent THEN Release ELSE Step("append")

\* Mutant: the assembled file is not verified.
FinalizeUnverified ==
  /\ at = "finalize"
  /\ IF rec[cur].offset # Length \/ rec[cur].delivered THEN Finalized
                                                       ELSE Step("enqueue")
  /\ UNCHANGED <<rec, part, known, row, exit, fails>>

Finalize ==
  /\ at = "finalize"
  /\ \/ /\ rec[cur].offset # Length \/ rec[cur].delivered
        /\ Finalized
     \/ /\ rec[cur].offset = Length /\ ~rec[cur].delivered
        /\ Step(IF Verified(part[cur]) THEN "enqueue" ELSE "discard_record")
  /\ UNCHANGED <<rec, part, known, row, exit, fails>>

\* enqueue_directory_with_id: refused once the exit has begun or when the
\* path collides; a replay finds the row it inserted before.
Enqueue ==
  /\ at = "enqueue"
  /\ \/ /\ ~Open(cur) \/ (row[cur] = "absent" /\ cur \in Conflicting)
        /\ Release
        /\ UNCHANGED row
     \/ /\ Open(cur)
        /\ row[cur] # "absent" \/ cur \notin Conflicting
        /\ row' = [row EXCEPT ![cur] = IF @ = "absent" THEN "pending" ELSE @]
        /\ Step("mark")
  /\ UNCHANGED <<rec, part, known, exit, fails>>

Mark ==
  /\ at = "mark"
  /\ rec' = [rec EXCEPT ![cur].delivered = TRUE]
  /\ Step("drop_part")
  /\ UNCHANGED <<part, known, row, exit, fails>>

\* Failing to remove the part is logged, not propagated.
DropPart ==
  /\ at = "drop_part"
  /\ \/ part' = [part EXCEPT ![cur] = Absent] /\ UNCHANGED fails
     \/ fails < MaxFails /\ fails' = fails + 1 /\ UNCHANGED part
  /\ Finalized
  /\ UNCHANGED <<rec, known, row, exit>>

-----------------------------------------------------------------------------
(* append_upload, after the common beginning *)

AppendCheck ==
  /\ at = "append"
  /\ IF \/ chunk.offset # rec[cur].offset
        \/ Len(chunk.data) > Length - rec[cur].offset
        \/ rec[cur].delivered
     THEN Release
     ELSE Step(IF Len(chunk.data) = 0 THEN "commit" ELSE "write")
  /\ UNCHANGED <<rec, part, known, row, exit, fails>>

\* Mutant: without the sync, only some of the bytes are on disk when the
\* record moves.
AppendWriteUnsynced ==
  /\ at = "write"
  /\ \E n \in 0..Len(chunk.data) :
       part' = [part EXCEPT ![cur] = @ \o SubSeq(chunk.data, 1, n)]
  /\ Step("commit")
  /\ UNCHANGED <<rec, known, row, exit, fails>>

\* The bytes are written at the recorded offset and synced.
AppendWrite ==
  /\ at = "write"
  /\ part' = [part EXCEPT ![cur] = @ \o chunk.data]
  /\ Step("commit")
  /\ UNCHANGED <<rec, known, row, exit, fails>>

\* Only then does the record move.
AppendCommit ==
  /\ at = "commit"
  /\ rec' = [rec EXCEPT ![cur].offset = @ + Len(chunk.data)]
  /\ at' = "finalize" /\ chunk' = Absent
  /\ UNCHANGED <<part, known, row, exit, cur, dev, fails>>

-----------------------------------------------------------------------------
(* discard_upload: rejected content *)

DiscardRecord ==
  /\ at = "discard_record"
  /\ rec' = [rec EXCEPT ![cur] = Absent]
  /\ Step("discard_part")
  /\ UNCHANGED <<part, known, row, exit, fails>>

DiscardPart ==
  /\ at = "discard_part"
  /\ part' = [part EXCEPT ![cur] = Absent]
  /\ Release
  /\ UNCHANGED <<rec, known, row, exit, fails>>

-----------------------------------------------------------------------------
(* clean_exit and purge_folder_uploads_locked *)

Revoke(v) ==
  /\ exit[v] = "open"
  /\ exit' = [exit EXCEPT ![v] = "begun"]
  /\ UNCHANGED <<rec, part, known, row, holder, fails>>

\* Mutant: parts without a record are ignored.
PurgeBeginAnyway(v) ==
  /\ at = "free"
  /\ exit[v] # "open"
  /\ at' = "purge" /\ dev' = v
  /\ UNCHANGED <<rec, part, known, row, exit, cur, chunk, fails>>

\* A part without a record blocks the purge of every Folder.
PurgeBegin(v) ==
  /\ at = "free"
  /\ exit[v] # "open"
  /\ \A u \in Uploads : ~Orphan(u)
  /\ at' = "purge" /\ dev' = v
  /\ UNCHANGED <<rec, part, known, row, exit, cur, chunk, fails>>

PurgePart(u) ==
  /\ at = "purge"
  /\ rec[u] # Absent /\ DeviceOf[u] = dev
  /\ part' = [part EXCEPT ![u] = Absent]
  /\ at' = "purge_record" /\ cur' = u
  /\ UNCHANGED <<rec, known, row, exit, dev, chunk, fails>>

PurgeRecord ==
  /\ at = "purge_record"
  /\ rec' = [rec EXCEPT ![cur] = Absent]
  /\ at' = "purge" /\ cur' = Absent
  /\ UNCHANGED <<part, known, row, exit, dev, chunk, fails>>

\* No owned record is left: the rows go and the exit is confirmed.
PurgeEnd ==
  /\ at = "purge"
  /\ \A u \in Uploads : rec[u] # Absent => DeviceOf[u] # dev
  /\ row' = [u \in Uploads |-> IF DeviceOf[u] = dev THEN "absent" ELSE row[u]]
  /\ exit' = [exit EXCEPT ![dev] = "cleaned"]
  /\ Release
  /\ UNCHANGED <<rec, part, known, fails>>

-----------------------------------------------------------------------------
\* The receiver acknowledges a listed delivery (RelayStore!Acknowledge).
Ack(u) ==
  /\ row[u] = "pending"
  /\ row' = [row EXCEPT ![u] = "acked"]
  /\ UNCHANGED <<rec, part, known, exit, holder, fails>>

\* The process dies or an error is propagated.  What was being written when
\* it happened may have reached the disk in part.
Fail ==
  /\ at # "free"
  /\ fails < MaxFails
  /\ fails' = fails + 1
  /\ IF at = "write"
     THEN \E n \in 0..Len(chunk.data) :
            part' = [part EXCEPT ![cur] = @ \o SubSeq(chunk.data, 1, n)]
     ELSE UNCHANGED part
  /\ Release
  /\ UNCHANGED <<rec, known, row, exit>>

Request(u) == CreateUpload(u) \/ HeadUpload(u) \/ PatchUpload(u)

Continue ==
  \/ CreatePart \/ Finalize \/ Enqueue \/ Mark \/ DropPart
  \/ AppendCheck \/ AppendWrite \/ AppendCommit \/ DiscardRecord \/ DiscardPart
  \/ (\E u \in Uploads : PurgePart(u)) \/ PurgeRecord \/ PurgeEnd

Next ==
  \/ \E u \in Uploads : Request(u) \/ Ack(u)
  \/ \E v \in Devices : Revoke(v) \/ PurgeBegin(v)
  \/ Continue
  \/ Fail

Spec == Init /\ [][Next]_vars

\* What a client that keeps retrying sends: the rest of its file, from the
\* offset the relay reported.
Resume(u) ==
  /\ rec[u] # Absent
  /\ Begin(u, [offset |-> rec[u].offset,
               data |-> [i \in 1..(Length - rec[u].offset) |-> "ok"]])

FairSpec ==
  /\ Spec
  /\ WF_vars(Continue)
  /\ \A u \in Uploads : SF_vars(Resume(u))

-----------------------------------------------------------------------------
(* Properties *)

\* Every byte the relay has reported as received is on disk: the error path
\* "contains N bytes but records offset M" cannot be reached by a crash
\* (append_upload syncs the part before it writes the record).
OffsetIsDurable ==
  \A u \in known :
    Open(u) /\ rec[u] # Absent /\ ~rec[u].delivered =>
      part[u] # Absent /\ Len(part[u]) >= rec[u].offset

\* A delivery offered to the receiver was verified as a whole: rejected bytes
\* never reach the deliveries table, and the record says "delivered" only of
\* an upload that has a row.
DeliveredWasVerified ==
  \A u \in Uploads :
    /\ row[u] # "absent" /\ part[u] # Absent => Verified(part[u])
    /\ Open(u) /\ rec[u] # Absent /\ rec[u].delivered => row[u] # "absent"

\* After a confirmed exit nothing the Folder uploaded is left in the uploads
\* directory, owned or not, and no late request puts it back.
CleanedHasNoUpload ==
  \A u \in Uploads :
    exit[DeviceOf[u]] = "cleaned" =>
      rec[u] = Absent /\ part[u] = Absent /\ row[u] = "absent"

\* No crash wedges an upload: a client that keeps resuming from the reported
\* offset gets its delivery, unless the upload was rejected, its path
\* collides, or its Folder leaves.
ResumedUploadEnds ==
  \A u \in Uploads :
    u \in known ~> \/ row[u] # "absent" \/ rec[u] = Absent
                   \/ ~Open(u) \/ u \in Conflicting

-----------------------------------------------------------------------------
(* Inductive invariant (TusUploadProofs) *)

\* What the holder of the uploads lock works on.
HolderTyped ==
  /\ at \notin {"free", "purge"} => cur \in Uploads
  /\ at \in {"append", "write", "commit"} => chunk \in Chunks
  /\ at \in {"purge", "purge_record"} => dev \in Devices /\ exit[dev] # "open"

\* The steps of a request that has found its upload and may still serve it.
Serving == {"finalize", "enqueue", "mark", "drop_part", "append", "write", "commit"}

\* What the holder has established about its upload stays true while it holds
\* the lock, although the Folder's exit may begin and rows may be acknowledged.
HolderKnows ==
  /\ at \notin {"free", "purge", "purge_record"} => exit[DeviceOf[cur]] # "cleaned"
  /\ at = "create_part" =>
       cur \notin known /\ rec[cur] = [offset |-> 0, delivered |-> FALSE]
  /\ at \in Serving => cur \in known /\ rec[cur] # Absent
  /\ at \in {"finalize", "enqueue", "append", "write"} /\ ~rec[cur].delivered =>
       part[cur] # Absent /\ Len(part[cur]) = rec[cur].offset
  /\ at \in {"write", "commit"} =>
       ~rec[cur].delivered /\ rec[cur].offset + Len(chunk.data) <= Length
  /\ at = "write" => Len(chunk.data) > 0
  /\ at = "commit" =>
       part[cur] # Absent /\ Len(part[cur]) = rec[cur].offset + Len(chunk.data)
  /\ at \in {"enqueue", "mark"} => rec[cur].offset = Length
  /\ at = "enqueue" => ~rec[cur].delivered /\ Verified(part[cur])
  /\ at = "mark" => row[cur] # "absent"
  /\ at = "drop_part" => rec[cur].delivered
  /\ at = "discard_part" => rec[cur] = Absent
  /\ at \in {"purge", "purge_record"} => \A u \in Uploads : ~Orphan(u)
  /\ at = "purge_record" => part[cur] = Absent /\ DeviceOf[cur] = dev

\* An upload with a row was handed out and is complete: a later request has
\* nothing to roll back and nothing to append.
RowsAreComplete ==
  \A u \in Uploads :
    row[u] # "absent" => u \in known /\ (rec[u] # Absent => rec[u].offset = Length)

UploadInv ==
  /\ TypeOK
  /\ HolderTyped
  /\ HolderKnows
  /\ RowsAreComplete
  /\ OffsetIsDurable
  /\ DeliveredWasVerified
  /\ CleanedHasNoUpload
=============================================================================
