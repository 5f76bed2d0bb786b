----------------------------- MODULE PendingScan -----------------------------
(***************************************************************************)
(* The two sources a receiver reads deliveries from (client.rs source_for) *)
(* under the calls sync.rs makes of them: HttpSource, which pages through  *)
(* the relay's pending rows with a cursor and retries requests, and        *)
(* FilesystemSource, which reads manifests and acknowledgement markers of  *)
(* an inbox directory. Meanwhile deliveries arrive, another receiver with  *)
(* the same source acknowledges, answers are lost, processes stop and      *)
(* power fails. Both implement DeliverySource.                             *)
(***************************************************************************)
EXTENDS Naturals, Sequences, FiniteSetsExt

CONSTANTS
  Flat,         \* ordinary deliveries
  Versions,     \* directory versions, which the relay's list leaves out
  Oversized,    \* deliveries this receiver's limits refuse
  Twice,        \* deliveries whose inbox manifest may be copied
  PageSize, MaxPages, MaxAttempts,
  MaxFails      \* bound on faults

ASSUME SourceAssumption ==
  /\ PageSize \in Nat \ {0} /\ MaxPages \in Nat \ {0}
  /\ MaxAttempts \in Nat \ {0} /\ MaxFails \in Nat
  /\ Oversized \subseteq Flat /\ Twice \subseteq Flat

Refused == Oversized \cup Twice

VARIABLES
  kind,       \* "http" or "inbox", fixed by the configuration
  rows,       \* http: the relay's rows, in order of sequence number
  manifests,  \* inbox: manifest files, <<delivery, copy>>
  acked,      \* http: acknowledged rows; inbox: deliveries with a marker
  unsynced,   \* inbox: markers whose directory was not synced yet
  content,    \* ordinary deliveries whose payload is stored
  pc, cur, tries,
  todo,       \* deliveries the receiver still works through
  handled,    \* those reconcile_pending_acks dealt with in this run
  scan,       \* the locals of scan_pending
  watch, listed, reported, got, confirmed, \* as in DeliverySource
  fails

source == <<kind, rows, manifests, acked, unsynced, content>>
seen == <<watch, listed, reported, got, confirmed>>
vars == <<source, pc, cur, tries, todo, handled, scan, seen, fails>>

NoOne == "none"

Idle ==
  [page |-> 0, after |-> 0, snapshot |-> 0, backlog |-> {},
   items |-> {}, more |-> FALSE,
   paths |-> {}, byId |-> {}, conflicts |-> {}, issues |-> {}]

\* What was ever offered, and what of it nobody acknowledged.
Offered ==
  IF kind = "http" THEN Range(rows) \cap Flat ELSE {f[1] : f \in manifests}
Owed == Offered \ acked

Abstract == INSTANCE DeliverySource WITH
  Deliveries <- Flat, owed <- Owed

Init ==
  /\ kind \in {"http", "inbox"}
  /\ rows = <<>> /\ manifests = {} /\ acked = {} /\ unsynced = {} /\ content = {}
  /\ pc = "idle" /\ cur = NoOne /\ tries = 0 /\ todo = {} /\ handled = {}
  /\ scan = Idle
  /\ watch = Abstract!NoScan
  /\ listed = {} /\ reported = {} /\ got = {} /\ confirmed = {}
  /\ fails = 0

-----------------------------------------------------------------------------
(* The other side: senders, another receiver, the user of the inbox.       *)

Elsewhere == UNCHANGED <<kind, pc, cur, tries, todo, handled, scan,
                         listed, reported, got, confirmed, fails>>
             /\ watch' = Abstract!Watched(watch, Owed')

RelayEnqueue(d) ==
  /\ kind = "http" /\ d \notin Range(rows)
  /\ rows' = Append(rows, d) /\ content' = content \cup ({d} \cap Flat)
  /\ UNCHANGED <<manifests, acked, unsynced>> /\ Elsewhere

\* FilesystemSource::enqueue publishes the payload, then the manifest.
EnqueuePayload(d) ==
  /\ kind = "inbox" /\ d \in Flat \ content
  /\ content' = content \cup {d}
  /\ UNCHANGED <<rows, manifests, acked, unsynced>> /\ Elsewhere

EnqueueManifest(d) ==
  /\ kind = "inbox" /\ d \in content /\ <<d, 1>> \notin manifests
  /\ manifests' = manifests \cup {<<d, 1>>}
  /\ UNCHANGED <<rows, acked, unsynced, content>> /\ Elsewhere

CopyManifest(d) ==
  /\ kind = "inbox" /\ d \in Twice
  /\ <<d, 1>> \in manifests /\ <<d, 2>> \notin manifests
  /\ manifests' = manifests \cup {<<d, 2>>}
  /\ UNCHANGED <<rows, acked, unsynced, content>> /\ Elsewhere

\* Another receiver of the same source acknowledges; the relay then collects
\* the content, if it can. It refuses to acknowledge a directory version here.
OtherAcknowledges(d, kept) ==
  /\ d \in Owed
  /\ acked' = acked \cup {d}
  /\ unsynced' = IF kind = "inbox" THEN unsynced \cup {d} ELSE unsynced
  /\ content' = IF kind = "inbox" \/ kept THEN content ELSE content \ {d}
  /\ UNCHANGED <<rows, manifests>> /\ Elsewhere

OtherSyncs ==
  /\ unsynced # {}
  /\ unsynced' = {}
  /\ UNCHANGED <<rows, manifests, acked, content>> /\ Elsewhere

-----------------------------------------------------------------------------
(* The relay's side of a list request.                                     *)

\* MUTANT: the cursor counts rows already listed instead of naming a sequence number.
SelectedOffset(after, snapshot) ==
  LET all == {i \in 1..Len(rows) : rows[i] \in Flat \ acked /\ i <= snapshot}
  IN {i \in all : Cardinality({j \in all : j < i}) >= after}

\* MUTANT: later pages are not bounded by the snapshot.
SelectedUnbounded(after, snapshot) ==
  {i \in 1..Len(rows) : rows[i] \in Flat \ acked /\ i > after}

\* Sequence numbers of list_pending's second query.
Selected(after, snapshot) ==
  {i \in 1..Len(rows) : rows[i] \in Flat \ acked /\ i > after /\ i <= snapshot}

\* list_pending without a cursor: the highest pending sequence number,
\* directory versions included, bounds all pages of this scan.
ListSnapshot ==
  /\ pc = "page" /\ kind = "http" /\ scan.after = 0
  /\ LET pending == {i \in 1..Len(rows) : rows[i] \notin acked}
     IN scan' = [scan EXCEPT
                   !.snapshot = IF pending = {} THEN 0 ELSE Max(pending),
                   !.backlog = Owed]
  /\ pc' = "select"
  /\ UNCHANGED <<source, cur, tries, todo, handled, seen, fails>>

ListContinue ==
  /\ pc = "page" /\ kind = "http" /\ scan.after # 0
  /\ pc' = "select"
  /\ UNCHANGED <<source, cur, tries, todo, handled, scan, seen, fails>>

\* The page is the first PageSize rows in order of sequence number. One row more
\* is selected to learn whether there are more.
ListSelect ==
  /\ pc = "select"
  /\ LET found == Selected(scan.after, scan.snapshot)
     IN \E page \in SUBSET found :
          /\ \A i \in page, j \in found \ page : i < j
          /\ Cardinality(page) <= PageSize
          /\ page # found => Cardinality(page) = PageSize
          /\ scan' = [scan EXCEPT !.items = page, !.more = (page # found)]
  /\ pc' = "items"
  /\ UNCHANGED <<source, cur, tries, todo, handled, seen, fails>>

-----------------------------------------------------------------------------
(* The receiver: sync_once_with_events.                                    *)

\* sync_once returned, with an error or at the end of its list; or it died.
Stopped ==
  /\ pc' = "idle" /\ cur' = NoOne /\ tries' = 0 /\ todo' = {} /\ handled' = {}
  /\ scan' = Idle
  /\ watch' = Abstract!NoScan /\ listed' = {} /\ reported' = {}
  /\ UNCHANGED <<got, confirmed>>

\* delay_after: attempts are left. Errors the model has are transient ones.
MayRetry == tries + 1 < MaxAttempts

\* A request failed: with_retry starts it again or hands the error on.
Retry(again, giveUp) ==
  IF MayRetry
  THEN /\ pc' = again /\ tries' = tries + 1
       /\ UNCHANGED <<cur, todo, handled, scan, seen>>
  ELSE giveUp

Begin ==
  /\ pc = "idle"
  /\ pc' = "acks" /\ todo' = got \ confirmed
  /\ UNCHANGED <<source, cur, tries, handled, scan, seen, fails>>

Reconcile(d) ==
  /\ pc = "acks" /\ d \in todo
  /\ pc' = "ack" /\ cur' = d
  /\ todo' = todo \ {d} /\ handled' = handled \cup {d}
  /\ UNCHANGED <<source, tries, scan, seen, fails>>

BeginScan ==
  /\ pc = "acks" /\ todo = {}
  /\ pc' = IF kind = "http" THEN "page" ELSE "readdir"
  /\ scan' = [Idle EXCEPT !.page = 1]
  /\ watch' = [on |-> TRUE, must |-> Owed, may |-> Owed]
  /\ listed' = {} /\ reported' = {}
  /\ UNCHANGED <<source, cur, tries, todo, handled, got, confirmed, fails>>

\* validate_delivery_metadata, which knows the receiver's size limit.
ValidMetadata(d) == d \notin Oversized

\* Delivery objects, each named once: refused by their metadata, duplicates of
\* what an earlier page or manifest named, or new.
Collected(s, found) ==
  LET valid == {d \in found : ValidMetadata(d)}
      again == valid \cap s.byId
  IN [s EXCEPT !.issues = s.issues \cup (found \ valid) \cup again,
               !.conflicts = s.conflicts \cup again,
               !.byId = s.byId \cup valid]

EndOfScan(s) ==
  /\ pc' = "files" /\ scan' = Idle /\ tries' = 0
  /\ listed' = s.byId \ s.conflicts /\ reported' = s.issues
  /\ todo' = listed'
  /\ watch' = Abstract!NoScan
  /\ UNCHANGED <<cur, handled, got, confirmed>>

LastPage(s) == s.page = MaxPages

\* index_response: the cursor names the last row of the page.
Cursor(page) == Max(page)

NextPage(s) ==
  /\ pc' = "page" /\ tries' = 0
  /\ scan' = [s EXCEPT !.page = s.page + 1, !.after = Cursor(s.items),
                       !.items = {}, !.more = FALSE]
  /\ UNCHANGED <<cur, todo, handled, seen>>

\* scan_pending takes a page in: ends, stops at the page limit, or goes on.
ReadPage ==
  /\ pc = "items"
  /\ LET s == Collected(scan, {rows[i] : i \in scan.items})
     IN \/ ~s.more /\ EndOfScan(s)
        \/ s.more /\ LastPage(s) /\ Stopped
        \/ s.more /\ ~LastPage(s) /\ NextPage(s)
  /\ UNCHANGED <<source, fails>>

\* send_request fails: the request or its answer is lost.
PageLost ==
  /\ pc \in {"page", "items"} /\ kind = "http" /\ fails < MaxFails
  /\ fails' = fails + 1
  /\ Retry("page", Stopped)
  /\ UNCHANGED source

\* read_body_limited fails with an error that is not retried.
PageCutShort ==
  /\ pc = "items" /\ fails < MaxFails
  /\ fails' = fails + 1
  /\ Stopped
  /\ UNCHANGED source

ReadDirectory ==
  /\ pc = "readdir"
  /\ scan' = [scan EXCEPT !.paths = manifests]
  /\ pc' = "manifest"
  /\ UNCHANGED <<source, cur, tries, todo, handled, seen, fails>>

\* read_ack
HasMarker(d) == d \in acked

\* The manifest is judged before its marker is looked up.
ReadManifest(f) ==
  /\ pc = "manifest" /\ f \in scan.paths
  /\ LET rest == [scan EXCEPT !.paths = scan.paths \ {f}]
     IN scan' = IF ValidMetadata(f[1]) /\ HasMarker(f[1]) THEN rest
                ELSE Collected(rest, {f[1]})
  /\ UNCHANGED <<source, pc, cur, tries, todo, handled, seen, fails>>

ManifestsRead ==
  /\ pc = "manifest" /\ scan.paths = {}
  /\ EndOfScan(scan)
  /\ UNCHANGED <<source, fails>>

NextFile(d) ==
  /\ pc = "files" /\ d \in todo
  /\ todo' = todo \ {d}
  /\ LET skip == d \in handled
     IN /\ cur' = IF skip THEN NoOne ELSE d
        /\ pc' = IF skip THEN "files" ELSE IF d \in got THEN "ack" ELSE "open"
  /\ UNCHANGED <<source, tries, handled, scan, seen, fails>>

Finish ==
  /\ pc = "files" /\ todo = {}
  /\ Stopped
  /\ UNCHANGED <<source, fails>>

\* This delivery is done with, or failed; the run goes on to the next one.
Proceed ==
  /\ pc' = IF cur \in handled THEN "acks" ELSE "files"
  /\ cur' = NoOne /\ tries' = 0
  /\ UNCHANGED <<todo, handled, scan>>

\* get_delivery finds acknowledged rows too; open_content needs the object.
HasRow(d) == d \in Range(rows)
HasContent(d) == d \in content

OpenPayload ==
  /\ pc = "open" /\ kind = "http" /\ HasRow(cur) /\ HasContent(cur)
  /\ pc' = "read"
  /\ UNCHANGED <<source, cur, tries, todo, handled, scan, seen, fails>>

\* The inbox source opens the file the manifest names; nothing removes it.
OpenFile ==
  /\ pc = "open" /\ kind = "inbox" /\ cur \in content
  /\ pc' = "read"
  /\ UNCHANGED <<source, cur, tries, todo, handled, scan, seen, fails>>

\* MUTANT: the attempts are not counted.
OpenMissingForever ==
  /\ pc = "open" /\ cur \notin content
  /\ tries' = 1 - tries
  /\ UNCHANGED <<source, pc, cur, todo, handled, scan, seen, fails>>

\* Collected meanwhile: the relay answers 500, which counts as transient.
OpenMissing ==
  /\ pc = "open" /\ kind = "http" /\ ~(HasRow(cur) /\ HasContent(cur))
  /\ Retry("open", Proceed /\ UNCHANGED seen)
  /\ UNCHANGED <<source, fails>>

\* The relay streams an open file, so removing the name does not cut it short.
ReadPayload ==
  /\ pc = "read"
  /\ got' = got \cup {cur}
  /\ pc' = "ack" /\ tries' = 0
  /\ UNCHANGED <<source, cur, todo, handled, scan, watch, listed, reported, confirmed, fails>>

OpenLost ==
  /\ pc = "open" /\ kind = "http" /\ fails < MaxFails
  /\ fails' = fails + 1
  /\ Retry("open", Proceed /\ UNCHANGED seen)
  /\ UNCHANGED source

\* HttpBodyReader: the body ends early; receive_delivery_with_retry opens it
\* again.
BodyLost ==
  /\ pc = "read" /\ kind = "http" /\ fails < MaxFails
  /\ fails' = fails + 1
  /\ Retry("open", Proceed /\ UNCHANGED seen)
  /\ UNCHANGED source

\* acknowledge_delivery commits the row; the inbox source first looks for a
\* marker, then publishes its own without replacing one.
AckCommit ==
  /\ pc = "ack" /\ kind = "http"
  /\ acked' = acked \cup {cur}
  /\ watch' = Abstract!Watched(watch, Owed')
  /\ pc' = "collect"
  /\ UNCHANGED <<kind, rows, manifests, unsynced, content, cur, tries, todo, handled,
                 scan, listed, reported, got, confirmed, fails>>

AckCollect(keeps) ==
  /\ pc = "collect"
  /\ keeps => fails < MaxFails
  /\ fails' = IF keeps THEN fails + 1 ELSE fails
  /\ content' = IF keeps THEN content ELSE content \ {cur}
  /\ pc' = "answer"
  /\ UNCHANGED <<kind, rows, manifests, acked, unsynced, cur, tries, todo, handled, scan, seen>>

AckAnswer ==
  /\ pc = "answer"
  /\ confirmed' = confirmed \cup {cur}
  /\ Proceed
  /\ UNCHANGED <<source, watch, listed, reported, got, fails>>

AckLost ==
  /\ pc \in {"ack", "answer"} /\ kind = "http" /\ fails < MaxFails
  /\ fails' = fails + 1
  /\ Retry("ack", Proceed /\ UNCHANGED seen)
  /\ UNCHANGED source

AckReadMarker ==
  /\ pc = "ack" /\ kind = "inbox"
  /\ pc' = IF HasMarker(cur) THEN "sync" ELSE "persist"
  /\ UNCHANGED <<source, cur, tries, todo, handled, scan, seen, fails>>

AckPersist ==
  /\ pc = "persist"
  /\ unsynced' = IF cur \in acked THEN unsynced ELSE unsynced \cup {cur}
  /\ acked' = acked \cup {cur}
  /\ watch' = Abstract!Watched(watch, Owed')
  /\ pc' = "sync"
  /\ UNCHANGED <<kind, rows, manifests, content, cur, tries, todo, handled,
                 scan, listed, reported, got, confirmed, fails>>

AckSync ==
  /\ pc = "sync"
  /\ unsynced' = {}
  /\ confirmed' = confirmed \cup {cur}
  /\ Proceed
  /\ UNCHANGED <<kind, rows, manifests, acked, content, watch, listed, reported, got, fails>>

\* The receiver dies; with the power, markers that were not synced may go.
Crash(lost) ==
  /\ fails < MaxFails
  /\ fails' = fails + 1
  /\ acked' = acked \ lost /\ unsynced' = unsynced \ lost
  /\ Stopped
  /\ UNCHANGED <<kind, rows, manifests, content>>

-----------------------------------------------------------------------------
Receiver ==
  \/ ListSnapshot \/ ListContinue \/ ListSelect
  \/ Begin \/ BeginScan \/ ReadPage \/ ReadDirectory \/ ManifestsRead
  \/ Finish \/ OpenPayload \/ OpenFile \/ OpenMissing \/ ReadPayload
  \/ AckCommit \/ AckCollect(FALSE) \/ AckAnswer
  \/ AckReadMarker \/ AckPersist \/ AckSync
  \/ \E d \in todo : Reconcile(d) \/ NextFile(d)
  \/ \E f \in scan.paths : ReadManifest(f)

Environment ==
  \/ \E d \in Flat \cup Versions : RelayEnqueue(d)
  \/ \E d \in Flat, kept \in BOOLEAN : OtherAcknowledges(d, kept)
  \/ \E d \in Flat : EnqueuePayload(d) \/ EnqueueManifest(d) \/ CopyManifest(d)
  \/ OtherSyncs

Fault ==
  \/ PageLost \/ PageCutShort \/ OpenLost \/ BodyLost \/ AckLost \/ AckCollect(TRUE)
  \/ \E lost \in SUBSET unsynced : Crash(lost)

Next == Receiver \/ Environment \/ Fault

Spec == Init /\ [][Next]_vars

\* The receiver runs again and again (the desktop's timer, or a scheduled
\* CLI) and every step of a run returns, if only with a time-out.
FairSpec == Spec /\ WF_vars(Receiver)

-----------------------------------------------------------------------------
Listing == {"page", "select", "items"}
Reading == {"readdir", "manifest"}
Opening == {"open", "read"}
Acking == {"ack", "collect", "answer", "persist", "sync"}

Scans == [page : 0..MaxPages, after : Nat, snapshot : Nat, backlog : SUBSET Flat,
          items : SUBSET Nat, more : BOOLEAN, paths : SUBSET (Flat \X {1, 2}),
          byId : SUBSET Flat, conflicts : SUBSET Flat, issues : SUBSET Flat]

\* What the variables range over.
TypeOK ==
  /\ kind \in {"http", "inbox"}
  /\ rows \in Seq(Flat \cup Versions)
  /\ manifests \subseteq Flat \X {1, 2}
  /\ acked \subseteq Flat /\ unsynced \subseteq Flat /\ content \subseteq Flat
  /\ pc \in {"idle", "acks", "files"} \cup Listing \cup Reading \cup Opening \cup Acking
  /\ cur \in Flat \cup {NoOne}
  /\ tries \in Nat /\ tries < MaxAttempts
  /\ todo \subseteq Flat /\ handled \subseteq Flat
  /\ scan \in Scans
  /\ watch \in [on : BOOLEAN, must : SUBSET Flat, may : SUBSET Flat]
  /\ listed \subseteq Flat /\ reported \subseteq Flat
  /\ got \subseteq Flat /\ confirmed \subseteq Flat
  /\ fails \in 0..MaxFails

\* A receipt is for an offer; the relay has a delivery once and loses no receipt;
\* the second manifest of a delivery is a copy of the first.
SourceIsSound ==
  /\ acked \subseteq Offered /\ unsynced \subseteq acked
  /\ kind = "http" => unsynced = {}
  /\ \A i, j \in 1..Len(rows) : rows[i] = rows[j] => i = j
  /\ \A d \in Flat : <<d, 2>> \in manifests => d \in Twice /\ <<d, 1>> \in manifests

\* The receiver has what was offered, and was told of receipts that stay.
ReceiptsStay ==
  /\ got \subseteq Offered
  /\ confirmed \subseteq got \cap acked
  /\ confirmed \cap unsynced = {}

\* What the receiver works on: old payloads without a receipt, then the deliveries
\* that the scan listed.
WorkIsListed ==
  /\ listed \subseteq Offered
  /\ pc \in Listing \cup {"collect", "answer"} => kind = "http"
  /\ pc \in Reading \cup {"persist", "sync"} => kind = "inbox"
  /\ pc = "acks" \/ (pc \in Acking /\ cur \in handled) => todo \subseteq got
  /\ pc \in {"files"} \cup Opening \/ (pc \in Acking /\ cur \notin handled)
       => todo \subseteq listed
  /\ pc \in Opening => cur \in listed \ (got \cup handled)
  /\ pc \in Acking => cur \in got
  /\ pc \in {"collect", "answer", "sync"} => cur \in acked

\* What a scan has found, against what was offered while it ran.
ScanIsWatched ==
  /\ watch.on <=> pc \in Listing \cup Reading
  /\ watch.on => watch.must \subseteq Owed /\ Owed \subseteq watch.may
  /\ watch.may \subseteq Offered
  /\ ~watch.on => watch = Abstract!NoScan /\ scan = Idle
  /\ scan.byId \subseteq watch.may
  /\ scan.conflicts \subseteq scan.issues
  /\ scan.issues \subseteq Refused \cap (watch.may \cup acked)

Mentioned == scan.byId \cup scan.issues
Paged == {rows[i] : i \in scan.items}
Snapped == scan.after # 0 \/ pc \in {"select", "items"}

\* Pages follow each other without a gap: what was owed throughout was listed, or
\* is on this page or behind it.
PagesCover ==
  pc \in Listing =>
    /\ scan.conflicts = {}
    /\ \A d \in Mentioned : \E i \in 1..Len(rows) : rows[i] = d /\ i <= scan.after
    /\ \A d \in watch.must \ Mentioned : \E i \in 1..Len(rows) :
         /\ rows[i] = d /\ i > scan.after
         /\ Snapped => i <= scan.snapshot
         /\ pc = "items" => i \in scan.items \/ (scan.more /\ \A j \in scan.items : j < i)
    /\ pc = "items" => /\ scan.items \subseteq (scan.after + 1)..Len(rows)
                       /\ Paged \subseteq watch.may

\* The pages of a scan are full, except the last one, and hold what was owed at
\* the snapshot.
PagesAreFull ==
  pc \in Listing =>
    /\ scan.page \in Nat \ {0}
    /\ Cardinality(Mentioned) = (scan.page - 1) * PageSize
    /\ scan.after = 0 => scan.page = 1 /\ Mentioned = {}
    /\ Snapped =>
         /\ IsFiniteSet(scan.backlog)
         /\ scan.snapshot <= Len(rows)
         /\ Mentioned \subseteq scan.backlog
         /\ \A i \in 1..scan.snapshot : rows[i] \in Flat \ acked => rows[i] \in scan.backlog
    /\ pc = "items" => Paged \subseteq scan.backlog
    /\ pc = "items" /\ scan.more =>
         /\ Cardinality(scan.items) = PageSize
         /\ scan.backlog \ (Mentioned \cup Paged) # {}

\* Each delivery of the inbox that was owed throughout was read, or has a manifest
\* left to read; what was read is not read again, but for its copy.
ManifestsCover ==
  /\ pc = "readdir" => scan = [Idle EXCEPT !.page = 1]
  /\ pc = "manifest" =>
       /\ scan.paths \subseteq manifests
       /\ \A d \in watch.must \ Mentioned : \E k \in {1, 2} : <<d, k>> \in scan.paths
       /\ \A d \in scan.byId : \E k \in {1, 2} : <<d, k>> \in manifests \ scan.paths

\* The inductive invariant of PendingScanProofs.
ScanInv ==
  /\ TypeOK
  /\ SourceIsSound
  /\ ReceiptsStay
  /\ WorkIsListed
  /\ ScanIsWatched
  /\ PagesCover
  /\ PagesAreFull
  /\ ManifestsCover

\* Whatever the source, and whatever happens between two of its steps, the
\* receiver sees the contract of the DeliverySource trait.
Refines == Abstract!Spec

\* The page limit of scan_pending stops no scan whose backlog fits into
\* MAX_PAGES_PER_SCAN pages when its snapshot is taken, however many
\* deliveries arrive while it pages.
ScanFitsBacklog ==
  pc = "items" /\ scan.more /\ LastPage(scan)
    => Cardinality(scan.backlog) > PageSize * MaxPages

\* An acceptable delivery is acknowledged in the end, whatever was lost on the
\* way, unless the backlog stays beyond the page limit of a scan.
OwedIsAcked ==
  <>[](kind = "http" => Cardinality(Owed) <= PageSize * MaxPages)
  => \A d \in Flat \ Refused : d \in Owed ~> d \in acked

=============================================================================
