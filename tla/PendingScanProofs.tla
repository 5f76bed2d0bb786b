-------------------------- MODULE PendingScanProofs --------------------------
(***************************************************************************)
(* Both sources implement DeliverySource, for any number of deliveries,    *)
(* pages, attempts and faults.  The refinement and the page limit rest on  *)
(* ScanInv: what a scan must mention is mentioned, or lies on the page at  *)
(* hand or behind it (PagesCover, ManifestsCover); all pages but the last  *)
(* are full of what was owed at the snapshot (PagesAreFull); and the       *)
(* receiver only handles what a source once offered (WorkIsListed).        *)
(***************************************************************************)
EXTENDS PendingScan, FiniteSetTheorems, WellFoundedInduction, TLAPS

-----------------------------------------------------------------------------
(* Numbers and finite sets *)

\* A set of numbers has a least one.
LEMMA LeastNat ==
  ASSUME NEW S \in SUBSET Nat, S # {}
  PROVE  \E x \in S : \A y \in S : x <= y
<1> DEFINE R == OpToRel(<, Nat)
<1>1. IsWellFoundedOn(R, Nat)
  BY NatLessThanWellFounded, Zenon DEF OpToRel
<1>2. \A x, y \in Nat : x < y => <<x, y>> \in R
  BY DEF OpToRel
<1> HIDE DEF R
<1>3. S \subseteq Nat
  OBVIOUS
<1>4. PICK x \in S : \A y \in S : ~ (<<y, x>> \in R)
  BY <1>1, <1>3, WFMin, Zenon
<1>5. \A y \in S : x <= y
  <2>1. SUFFICES ASSUME NEW y \in S PROVE x <= y
    OBVIOUS
  <2>2. x \in Nat /\ y \in Nat /\ ~ (y < x)
    BY <1>2, <1>4
  <2> QED
    BY <2>2
<1> QED
  BY <1>5, Zenon

\* Max is the greatest number of a bounded set.
LEMMA MaxOfBounded ==
  ASSUME NEW S \in SUBSET Nat, S # {}, NEW n \in Nat, \A x \in S : x <= n
  PROVE  Max(S) \in S /\ \A x \in S : x <= Max(S)
<1> DEFINE Bounds == {u \in Nat : \A x \in S : x <= u}
<1>1. PICK m \in Bounds : \A u \in Bounds : m <= u
  <2>1. n \in Bounds /\ Bounds \in SUBSET Nat
    OBVIOUS
  <2> QED
    BY <2>1, LeastNat
<1>2. m \in S
  <2>1. SUFFICES ASSUME m \notin S PROVE FALSE
    OBVIOUS
  <2>2. m \in Nat /\ \A x \in S : x \in Nat /\ x <= m /\ x # m
    BY <2>1
  <2>3. (\A x \in S : x <= m - 1) /\ m - 1 \in Nat
    <3>1. ASSUME NEW x \in S PROVE x <= m - 1 /\ m - 1 \in Nat
      <4>1. x \in Nat /\ m \in Nat /\ x <= m /\ x # m
        BY <2>2
      <4> QED
        BY <4>1
    <3> QED
      BY <3>1
  <2>4. m - 1 \in Bounds
    BY <2>3
  <2> QED
    BY <1>1, <2>2, <2>4
<1>3. \A x \in S : m >= x
  OBVIOUS
<1>4. \E x \in S : \A y \in S : x >= y
  BY <1>2, <1>3
<1> QED
  BY <1>4 DEF Max

\* What the rows name at some sequence numbers: as many deliveries as numbers.
LEMMA NamedOnce ==
  ASSUME NEW r \in Seq(Flat \cup Versions), NEW I \in SUBSET (1..Len(r)),
         \A i, j \in 1..Len(r) : r[i] = r[j] => i = j
  PROVE  /\ IsFiniteSet(I) /\ IsFiniteSet({r[i] : i \in I})
         /\ Cardinality({r[i] : i \in I}) = Cardinality(I)
<1> DEFINE T == {r[i] : i \in I}
           f == [i \in I |-> r[i]]
<1>1. IsFiniteSet(I)
  <2>1. Len(r) \in Nat /\ I \in SUBSET Nat /\ \A i \in I : i <= Len(r)
    OBVIOUS
  <2> QED
    BY <2>1, FS_BoundedSetOfNaturals
<1>2. f \in Surjection(I, T)
  BY DEF Surjection
<1>3. f \in Injection(I, T)
  BY DEF Injection, IsInjective
<1>4. IsFiniteSet(T) /\ (Cardinality(T) = Cardinality(I) <=> f \in Injection(I, T))
  BY <1>1, <1>2, FS_Surjection
<1> QED
  BY <1>1, <1>3, <1>4

-----------------------------------------------------------------------------
(* What a step that leaves a part alone keeps *)

USE SourceAssumption

\* The source as it was.
LEMMA SourceKept ==
  ASSUME ScanInv, UNCHANGED <<kind, rows, manifests, acked, unsynced>>
  PROVE  SourceIsSound' /\ Offered' = Offered /\ Owed' = Owed
<1>1. Offered' = Offered /\ Owed' = Owed
  BY DEF Offered, Owed
<1> QED
  BY <1>1 DEF ScanInv, SourceIsSound

\* What the receiver has and was told, with the source as it was.
LEMMA ReceiptsKept ==
  ASSUME ScanInv, UNCHANGED <<kind, rows, manifests, acked, unsynced, got, confirmed>>
  PROVE  ReceiptsStay'
BY SourceKept DEF ScanInv, ReceiptsStay

\* No scan runs after the step.
LEMMA ScanIsOver ==
  ASSUME pc' \notin Listing \cup Reading, scan' = Idle, watch' = Abstract!NoScan
  PROVE  ScanIsWatched' /\ PagesCover' /\ PagesAreFull' /\ ManifestsCover'
<1>1. ~watch'.on /\ watch'.may = {} /\ scan'.byId = {} /\ scan'.conflicts = {} /\ scan'.issues = {}
  BY DEF Idle, Abstract!NoScan
<1>2. ScanIsWatched'
  BY <1>1 DEF ScanIsWatched
<1>3. PagesCover' /\ PagesAreFull' /\ ManifestsCover'
  BY DEF PagesCover, PagesAreFull, ManifestsCover, Listing, Reading
<1> QED
  BY <1>2, <1>3

\* Between scans there is none.
LEMMA NoScanHere ==
  ASSUME ScanInv, pc \notin Listing \cup Reading
  PROVE  scan = Idle /\ watch = Abstract!NoScan /\ \A now : Abstract!Watched(watch, now) = watch
<1>1. ~watch.on
  BY DEF ScanInv, ScanIsWatched
<1> QED
  BY <1>1 DEF ScanInv, ScanIsWatched, Abstract!Watched

\* The locals of a scan that does not run, and of one that begins.
LEMMA IdleTyped ==
  /\ Idle \in Scans
  /\ Abstract!NoScan \in [on : BOOLEAN, must : SUBSET Flat, may : SUBSET Flat]
BY DEF Idle, Scans, Abstract!NoScan

-----------------------------------------------------------------------------
(* The invariant: initially, and between scans *)

\* Nothing was offered yet.
LEMMA InitEstablishes == Init => ScanInv
<1> SUFFICES ASSUME Init PROVE ScanInv
  OBVIOUS
<1>1. TypeOK
  BY IdleTyped DEF Init, TypeOK
<1>2. SourceIsSound /\ ReceiptsStay
  BY DEF Init, SourceIsSound, ReceiptsStay
<1>3. WorkIsListed
  BY DEF Init, WorkIsListed, Listing, Reading, Opening, Acking
<1>4. ScanIsWatched /\ PagesCover /\ PagesAreFull /\ ManifestsCover
  <2>1. ~watch.on /\ watch.may = {} /\ scan.byId = {} /\ scan.conflicts = {} /\ scan.issues = {}
    BY DEF Init, Idle, Abstract!NoScan
  <2>2. ScanIsWatched
    BY <2>1 DEF Init, ScanIsWatched, Listing, Reading
  <2> QED
    BY <2>2 DEF Init, PagesCover, PagesAreFull, ManifestsCover, Listing
<1> QED
  BY <1>1, <1>2, <1>3, <1>4 DEF ScanInv

\* A run begins with the payloads that lack a receipt.
LEMMA BeginInv ==
  ASSUME ScanInv, Begin
  PROVE  ScanInv'
<1>1. scan = Idle /\ watch = Abstract!NoScan
  BY NoScanHere DEF Begin, Listing, Reading, Opening, Acking
<1>2. TypeOK'
  BY IdleTyped DEF Begin, ScanInv, TypeOK, Listing, Reading, Opening, Acking, seen, source
<1>3. SourceIsSound' /\ Offered' = Offered /\ Owed' = Owed
  BY SourceKept DEF Begin, seen, source
<1>4. ReceiptsStay'
  BY ReceiptsKept DEF Begin, seen, source
<1>5. WorkIsListed'
  BY <1>3 DEF Begin, ScanInv, WorkIsListed, ReceiptsStay, TypeOK, Listing, Reading, Opening, Acking, seen, source
<1>6. ScanIsWatched' /\ PagesCover' /\ PagesAreFull' /\ ManifestsCover'
  BY <1>1, ScanIsOver DEF Begin, Listing, Reading, Opening, Acking, seen, source
<1> QED
  BY <1>2, <1>3, <1>4, <1>5, <1>6 DEF ScanInv

\* Their receipts are sent first.
LEMMA ReconcileInv ==
  ASSUME ScanInv, NEW d, Reconcile(d)
  PROVE  ScanInv'
<1>1. scan = Idle /\ watch = Abstract!NoScan
  BY NoScanHere DEF Reconcile, Listing, Reading, Opening, Acking
<1>2. TypeOK'
  BY IdleTyped DEF Reconcile, ScanInv, TypeOK, Listing, Reading, Opening, Acking, seen, source
<1>3. SourceIsSound' /\ Offered' = Offered /\ Owed' = Owed
  BY SourceKept DEF Reconcile, seen, source
<1>4. ReceiptsStay'
  BY ReceiptsKept DEF Reconcile, seen, source
<1>5. WorkIsListed'
  BY <1>3 DEF Reconcile, ScanInv, WorkIsListed, ReceiptsStay, TypeOK, Listing, Reading, Opening, Acking, seen, source
<1>6. ScanIsWatched' /\ PagesCover' /\ PagesAreFull' /\ ManifestsCover'
  BY <1>1, ScanIsOver DEF Reconcile, Listing, Reading, Opening, Acking, seen, source
<1> QED
  BY <1>2, <1>3, <1>4, <1>5, <1>6 DEF ScanInv

\* Then what the scan listed, but for what was just handled.
LEMMA NextFileInv ==
  ASSUME ScanInv, NEW d, NextFile(d)
  PROVE  ScanInv'
<1>1. scan = Idle /\ watch = Abstract!NoScan
  BY NoScanHere DEF NextFile, Listing, Reading, Opening, Acking
<1>2. TypeOK'
  BY IdleTyped DEF NextFile, ScanInv, TypeOK, Listing, Reading, Opening, Acking, seen, source
<1>3. SourceIsSound' /\ Offered' = Offered /\ Owed' = Owed
  BY SourceKept DEF NextFile, seen, source
<1>4. ReceiptsStay'
  BY ReceiptsKept DEF NextFile, seen, source
<1>5. WorkIsListed'
  BY <1>3 DEF NextFile, ScanInv, WorkIsListed, ReceiptsStay, TypeOK, Listing, Reading, Opening, Acking, seen, source
<1>6. ScanIsWatched' /\ PagesCover' /\ PagesAreFull' /\ ManifestsCover'
  BY <1>1, ScanIsOver DEF NextFile, Listing, Reading, Opening, Acking, seen, source
<1> QED
  BY <1>2, <1>3, <1>4, <1>5, <1>6 DEF ScanInv

\* The run ends.
LEMMA FinishInv ==
  ASSUME ScanInv, Finish
  PROVE  ScanInv'
<1>1. scan = Idle /\ watch = Abstract!NoScan
  BY NoScanHere DEF Finish, Listing, Reading, Opening, Acking
<1>2. TypeOK'
  BY IdleTyped DEF Stopped, Finish, ScanInv, TypeOK, Listing, Reading, Opening, Acking, seen, source
<1>3. SourceIsSound' /\ Offered' = Offered /\ Owed' = Owed
  BY SourceKept DEF Stopped, Finish, seen, source
<1>4. ReceiptsStay'
  BY ReceiptsKept DEF Stopped, Finish, seen, source
<1>5. WorkIsListed'
  BY <1>3 DEF Stopped, Finish, ScanInv, WorkIsListed, ReceiptsStay, TypeOK, Listing, Reading, Opening, Acking, seen, source
<1>6. ScanIsWatched' /\ PagesCover' /\ PagesAreFull' /\ ManifestsCover'
  BY <1>1, ScanIsOver DEF Stopped, Finish, Listing, Reading, Opening, Acking, seen, source
<1> QED
  BY <1>2, <1>3, <1>4, <1>5, <1>6 DEF ScanInv

\* The relay answers with the stored payload.
LEMMA OpenPayloadInv ==
  ASSUME ScanInv, OpenPayload
  PROVE  ScanInv'
<1>1. scan = Idle /\ watch = Abstract!NoScan
  BY NoScanHere DEF OpenPayload, Listing, Reading, Opening, Acking
<1>2. TypeOK'
  BY IdleTyped DEF OpenPayload, ScanInv, TypeOK, Listing, Reading, Opening, Acking, seen, source
<1>3. SourceIsSound' /\ Offered' = Offered /\ Owed' = Owed
  BY SourceKept DEF OpenPayload, seen, source
<1>4. ReceiptsStay'
  BY ReceiptsKept DEF OpenPayload, seen, source
<1>5. WorkIsListed'
  BY <1>3 DEF OpenPayload, ScanInv, WorkIsListed, ReceiptsStay, TypeOK, Listing, Reading, Opening, Acking, seen, source
<1>6. ScanIsWatched' /\ PagesCover' /\ PagesAreFull' /\ ManifestsCover'
  BY <1>1, ScanIsOver DEF OpenPayload, Listing, Reading, Opening, Acking, seen, source
<1> QED
  BY <1>2, <1>3, <1>4, <1>5, <1>6 DEF ScanInv

\* The inbox opens the payload of its manifest.
LEMMA OpenFileInv ==
  ASSUME ScanInv, OpenFile
  PROVE  ScanInv'
<1>1. scan = Idle /\ watch = Abstract!NoScan
  BY NoScanHere DEF OpenFile, Listing, Reading, Opening, Acking
<1>2. TypeOK'
  BY IdleTyped DEF OpenFile, ScanInv, TypeOK, Listing, Reading, Opening, Acking, seen, source
<1>3. SourceIsSound' /\ Offered' = Offered /\ Owed' = Owed
  BY SourceKept DEF OpenFile, seen, source
<1>4. ReceiptsStay'
  BY ReceiptsKept DEF OpenFile, seen, source
<1>5. WorkIsListed'
  BY <1>3 DEF OpenFile, ScanInv, WorkIsListed, ReceiptsStay, TypeOK, Listing, Reading, Opening, Acking, seen, source
<1>6. ScanIsWatched' /\ PagesCover' /\ PagesAreFull' /\ ManifestsCover'
  BY <1>1, ScanIsOver DEF OpenFile, Listing, Reading, Opening, Acking, seen, source
<1> QED
  BY <1>2, <1>3, <1>4, <1>5, <1>6 DEF ScanInv

\* The payload was collected: the request is tried again, or given up.
LEMMA OpenMissingInv ==
  ASSUME ScanInv, OpenMissing
  PROVE  ScanInv'
<1>1. scan = Idle /\ watch = Abstract!NoScan
  BY NoScanHere DEF OpenMissing, Listing, Reading, Opening, Acking
<1>2. TypeOK'
  BY IdleTyped DEF Retry, MayRetry, Proceed, OpenMissing, ScanInv, TypeOK, Listing, Reading, Opening, Acking, seen, source
<1>3. SourceIsSound' /\ Offered' = Offered /\ Owed' = Owed
  BY SourceKept DEF Retry, MayRetry, Proceed, OpenMissing, seen, source
<1>4. ReceiptsStay'
  BY ReceiptsKept DEF Retry, MayRetry, Proceed, OpenMissing, seen, source
<1>5. WorkIsListed'
  BY <1>3 DEF Retry, MayRetry, Proceed, OpenMissing, ScanInv, WorkIsListed, ReceiptsStay, TypeOK, Listing, Reading, Opening, Acking, seen, source
<1>6. ScanIsWatched' /\ PagesCover' /\ PagesAreFull' /\ ManifestsCover'
  BY <1>1, ScanIsOver DEF Retry, MayRetry, Proceed, OpenMissing, Listing, Reading, Opening, Acking, seen, source
<1> QED
  BY <1>2, <1>3, <1>4, <1>5, <1>6 DEF ScanInv

\* A request for a payload is lost.
LEMMA OpenLostInv ==
  ASSUME ScanInv, OpenLost
  PROVE  ScanInv'
<1>1. scan = Idle /\ watch = Abstract!NoScan
  BY NoScanHere DEF OpenLost, Listing, Reading, Opening, Acking
<1>2. TypeOK'
  BY IdleTyped DEF Retry, MayRetry, Proceed, OpenLost, ScanInv, TypeOK, Listing, Reading, Opening, Acking, seen, source
<1>3. SourceIsSound' /\ Offered' = Offered /\ Owed' = Owed
  BY SourceKept DEF Retry, MayRetry, Proceed, OpenLost, seen, source
<1>4. ReceiptsStay'
  BY ReceiptsKept DEF Retry, MayRetry, Proceed, OpenLost, seen, source
<1>5. WorkIsListed'
  BY <1>3 DEF Retry, MayRetry, Proceed, OpenLost, ScanInv, WorkIsListed, ReceiptsStay, TypeOK, Listing, Reading, Opening, Acking, seen, source
<1>6. ScanIsWatched' /\ PagesCover' /\ PagesAreFull' /\ ManifestsCover'
  BY <1>1, ScanIsOver DEF Retry, MayRetry, Proceed, OpenLost, Listing, Reading, Opening, Acking, seen, source
<1> QED
  BY <1>2, <1>3, <1>4, <1>5, <1>6 DEF ScanInv

\* A body ends early.
LEMMA BodyLostInv ==
  ASSUME ScanInv, BodyLost
  PROVE  ScanInv'
<1>1. scan = Idle /\ watch = Abstract!NoScan
  BY NoScanHere DEF BodyLost, Listing, Reading, Opening, Acking
<1>2. TypeOK'
  BY IdleTyped DEF Retry, MayRetry, Proceed, BodyLost, ScanInv, TypeOK, Listing, Reading, Opening, Acking, seen, source
<1>3. SourceIsSound' /\ Offered' = Offered /\ Owed' = Owed
  BY SourceKept DEF Retry, MayRetry, Proceed, BodyLost, seen, source
<1>4. ReceiptsStay'
  BY ReceiptsKept DEF Retry, MayRetry, Proceed, BodyLost, seen, source
<1>5. WorkIsListed'
  BY <1>3 DEF Retry, MayRetry, Proceed, BodyLost, ScanInv, WorkIsListed, ReceiptsStay, TypeOK, Listing, Reading, Opening, Acking, seen, source
<1>6. ScanIsWatched' /\ PagesCover' /\ PagesAreFull' /\ ManifestsCover'
  BY <1>1, ScanIsOver DEF Retry, MayRetry, Proceed, BodyLost, Listing, Reading, Opening, Acking, seen, source
<1> QED
  BY <1>2, <1>3, <1>4, <1>5, <1>6 DEF ScanInv

\* An acknowledgement or its answer is lost.
LEMMA AckLostInv ==
  ASSUME ScanInv, AckLost
  PROVE  ScanInv'
<1>1. scan = Idle /\ watch = Abstract!NoScan
  BY NoScanHere DEF AckLost, Listing, Reading, Opening, Acking
<1>2. TypeOK'
  BY IdleTyped DEF Retry, MayRetry, Proceed, AckLost, ScanInv, TypeOK, Listing, Reading, Opening, Acking, seen, source
<1>3. SourceIsSound' /\ Offered' = Offered /\ Owed' = Owed
  BY SourceKept DEF Retry, MayRetry, Proceed, AckLost, seen, source
<1>4. ReceiptsStay'
  BY ReceiptsKept DEF Retry, MayRetry, Proceed, AckLost, seen, source
<1>5. WorkIsListed'
  BY <1>3 DEF Retry, MayRetry, Proceed, AckLost, ScanInv, WorkIsListed, ReceiptsStay, TypeOK, Listing, Reading, Opening, Acking, seen, source
<1>6. ScanIsWatched' /\ PagesCover' /\ PagesAreFull' /\ ManifestsCover'
  BY <1>1, ScanIsOver DEF Retry, MayRetry, Proceed, AckLost, Listing, Reading, Opening, Acking, seen, source
<1> QED
  BY <1>2, <1>3, <1>4, <1>5, <1>6 DEF ScanInv

\* The relay collects the content, or fails to.
LEMMA AckCollectInv ==
  ASSUME ScanInv, NEW keeps \in BOOLEAN, AckCollect(keeps)
  PROVE  ScanInv'
<1>1. scan = Idle /\ watch = Abstract!NoScan
  BY NoScanHere DEF AckCollect, Listing, Reading, Opening, Acking
<1>2. TypeOK'
  BY IdleTyped DEF AckCollect, ScanInv, TypeOK, Listing, Reading, Opening, Acking, seen, source
<1>3. SourceIsSound' /\ Offered' = Offered /\ Owed' = Owed
  BY SourceKept DEF AckCollect, seen, source
<1>4. ReceiptsStay'
  BY ReceiptsKept DEF AckCollect, seen, source
<1>5. WorkIsListed'
  BY <1>3 DEF AckCollect, ScanInv, WorkIsListed, ReceiptsStay, TypeOK, Listing, Reading, Opening, Acking, seen, source
<1>6. ScanIsWatched' /\ PagesCover' /\ PagesAreFull' /\ ManifestsCover'
  BY <1>1, ScanIsOver DEF AckCollect, Listing, Reading, Opening, Acking, seen, source
<1> QED
  BY <1>2, <1>3, <1>4, <1>5, <1>6 DEF ScanInv

\* The inbox looks for a marker.
LEMMA AckReadMarkerInv ==
  ASSUME ScanInv, AckReadMarker
  PROVE  ScanInv'
<1>1. scan = Idle /\ watch = Abstract!NoScan
  BY NoScanHere DEF AckReadMarker, Listing, Reading, Opening, Acking
<1>2. TypeOK'
  BY IdleTyped DEF HasMarker, AckReadMarker, ScanInv, TypeOK, Listing, Reading, Opening, Acking, seen, source
<1>3. SourceIsSound' /\ Offered' = Offered /\ Owed' = Owed
  BY SourceKept DEF HasMarker, AckReadMarker, seen, source
<1>4. ReceiptsStay'
  BY ReceiptsKept DEF HasMarker, AckReadMarker, seen, source
<1>5. WorkIsListed'
  BY <1>3 DEF HasMarker, AckReadMarker, ScanInv, WorkIsListed, ReceiptsStay, TypeOK, Listing, Reading, Opening, Acking, seen, source
<1>6. ScanIsWatched' /\ PagesCover' /\ PagesAreFull' /\ ManifestsCover'
  BY <1>1, ScanIsOver DEF HasMarker, AckReadMarker, Listing, Reading, Opening, Acking, seen, source
<1> QED
  BY <1>2, <1>3, <1>4, <1>5, <1>6 DEF ScanInv

\* The payload is received whole.
LEMMA ReadPayloadInv ==
  ASSUME ScanInv, ReadPayload
  PROVE  ScanInv'
<1>1. scan = Idle /\ watch = Abstract!NoScan
  BY NoScanHere DEF ReadPayload, Listing, Reading
<1>2. TypeOK' /\ cur \in listed
  BY DEF ReadPayload, ScanInv, TypeOK, WorkIsListed, Opening, Acking, source
<1>3. SourceIsSound' /\ Offered' = Offered /\ Owed' = Owed
  BY SourceKept DEF ReadPayload, source
<1>4. ReceiptsStay'
  BY <1>2, <1>3 DEF ReadPayload, ScanInv, ReceiptsStay, WorkIsListed, source
<1>5. WorkIsListed'
  BY <1>3 DEF ReadPayload, ScanInv, WorkIsListed, Listing, Reading, Opening, Acking, source
<1>6. ScanIsWatched' /\ PagesCover' /\ PagesAreFull' /\ ManifestsCover'
  BY <1>1, ScanIsOver DEF ReadPayload, Listing, Reading
<1> QED
  BY <1>2, <1>3, <1>4, <1>5, <1>6 DEF ScanInv

\* The relay's answer to an acknowledgement arrives.
LEMMA AckAnswerInv ==
  ASSUME ScanInv, AckAnswer
  PROVE  ScanInv'
<1>1. scan = Idle /\ watch = Abstract!NoScan
  BY NoScanHere DEF AckAnswer, Listing, Reading
<1>2. TypeOK' /\ cur \in got \cap acked
  BY DEF AckAnswer, Proceed, ScanInv, TypeOK, WorkIsListed, Listing, Reading, Acking, source
<1>3. SourceIsSound' /\ Offered' = Offered /\ Owed' = Owed
  BY SourceKept DEF AckAnswer, source
<1>4. ReceiptsStay'
  <2>1. unsynced = {}
    BY DEF AckAnswer, ScanInv, SourceIsSound, WorkIsListed
  <2> QED
    BY <1>2, <1>3, <2>1 DEF AckAnswer, ScanInv, ReceiptsStay, source
<1>5. WorkIsListed'
  BY <1>3 DEF AckAnswer, Proceed, ScanInv, WorkIsListed, Listing, Reading, Opening, Acking,
     source
<1>6. ScanIsWatched' /\ PagesCover' /\ PagesAreFull' /\ ManifestsCover'
  BY <1>1, ScanIsOver DEF AckAnswer, Proceed, Listing, Reading
<1> QED
  BY <1>2, <1>3, <1>4, <1>5, <1>6 DEF ScanInv

\* The marker's directory is synced before the receiver is told.
LEMMA AckSyncInv ==
  ASSUME ScanInv, AckSync
  PROVE  ScanInv'
<1>1. scan = Idle /\ watch = Abstract!NoScan
  BY NoScanHere DEF AckSync, Listing, Reading
<1>2. TypeOK' /\ cur \in got \cap acked
  BY DEF AckSync, Proceed, ScanInv, TypeOK, WorkIsListed, Listing, Reading, Acking
<1>3. Offered' = Offered /\ Owed' = Owed
  BY DEF AckSync, Offered, Owed
<1>4. SourceIsSound' /\ ReceiptsStay'
  BY <1>2, <1>3 DEF AckSync, ScanInv, SourceIsSound, ReceiptsStay
<1>5. WorkIsListed'
  BY <1>3 DEF AckSync, Proceed, ScanInv, WorkIsListed, Listing, Reading, Opening, Acking
<1>6. ScanIsWatched' /\ PagesCover' /\ PagesAreFull' /\ ManifestsCover'
  BY <1>1, ScanIsOver DEF AckSync, Proceed, Listing, Reading
<1> QED
  BY <1>2, <1>3, <1>4, <1>5, <1>6 DEF ScanInv

\* The relay commits the receipt of an offered delivery.
LEMMA AckCommitInv ==
  ASSUME ScanInv, AckCommit
  PROVE  ScanInv'
<1>1. scan = Idle /\ watch = Abstract!NoScan /\ watch' = watch
  BY NoScanHere DEF AckCommit, Listing, Reading
<1>2. TypeOK' /\ cur \in got
  BY <1>1 DEF AckCommit, ScanInv, TypeOK, WorkIsListed, Listing, Reading, Acking
<1>3. Offered' = Offered
  BY DEF AckCommit, Offered
<1>4. SourceIsSound' /\ ReceiptsStay'
  BY <1>2, <1>3 DEF AckCommit, ScanInv, SourceIsSound, ReceiptsStay
<1>5. WorkIsListed'
  BY <1>3 DEF AckCommit, ScanInv, WorkIsListed, Listing, Reading, Opening, Acking
<1>6. ScanIsWatched' /\ PagesCover' /\ PagesAreFull' /\ ManifestsCover'
  BY <1>1, ScanIsOver DEF AckCommit, Listing, Reading
<1> QED
  BY <1>2, <1>4, <1>5, <1>6 DEF ScanInv

\* The inbox publishes the marker, which a power failure may still undo.
LEMMA AckPersistInv ==
  ASSUME ScanInv, AckPersist
  PROVE  ScanInv'
<1>1. scan = Idle /\ watch = Abstract!NoScan /\ watch' = watch
  BY NoScanHere DEF AckPersist, Listing, Reading
<1>2. TypeOK' /\ cur \in got /\ kind = "inbox"
  BY <1>1 DEF AckPersist, ScanInv, TypeOK, WorkIsListed, Listing, Reading, Acking
<1>3. Offered' = Offered
  BY DEF AckPersist, Offered
<1>4. SourceIsSound' /\ ReceiptsStay'
  BY <1>2, <1>3 DEF AckPersist, ScanInv, SourceIsSound, ReceiptsStay
<1>5. WorkIsListed'
  BY <1>3 DEF AckPersist, ScanInv, WorkIsListed, Listing, Reading, Opening, Acking
<1>6. ScanIsWatched' /\ PagesCover' /\ PagesAreFull' /\ ManifestsCover'
  BY <1>1, ScanIsOver DEF AckPersist, Listing, Reading
<1> QED
  BY <1>2, <1>4, <1>5, <1>6 DEF ScanInv

\* The receiver stops; power may fail with it, and take markers that were not synced.
LEMMA StoppedInv ==
  ASSUME ScanInv, Stopped, fails' \in 0..MaxFails,
         UNCHANGED <<kind, rows, manifests, content>>,
         NEW lost \in SUBSET unsynced, acked' = acked \ lost, unsynced' = unsynced \ lost
  PROVE  ScanInv'
<1>1. TypeOK'
  BY IdleTyped DEF Stopped, ScanInv, TypeOK
<1>2. Offered' = Offered
  BY DEF Offered
<1>3. SourceIsSound' /\ ReceiptsStay'
  BY <1>2 DEF Stopped, ScanInv, SourceIsSound, ReceiptsStay
<1>4. WorkIsListed'
  BY <1>2 DEF Stopped, WorkIsListed, Listing, Reading, Opening, Acking
<1>5. ScanIsWatched' /\ PagesCover' /\ PagesAreFull' /\ ManifestsCover'
  BY ScanIsOver DEF Stopped, Listing, Reading
<1> QED
  BY <1>1, <1>3, <1>4, <1>5 DEF ScanInv

\* A process dies at any step.
LEMMA CrashInv ==
  ASSUME ScanInv, NEW lost \in SUBSET unsynced, Crash(lost)
  PROVE  ScanInv'
<1>1. fails' \in 0..MaxFails
  BY DEF Crash, ScanInv, TypeOK
<1> QED
  BY <1>1, StoppedInv DEF Crash

\* The body of a page is cut short: the scan ends.
LEMMA PageCutShortInv ==
  ASSUME ScanInv, PageCutShort
  PROVE  ScanInv'
<1>1. fails' \in 0..MaxFails /\ acked' = acked \ {} /\ unsynced' = unsynced \ {}
  BY DEF PageCutShort, source, ScanInv, TypeOK
<1>2. {} \in SUBSET unsynced
  OBVIOUS
<1> QED
  BY <1>1, <1>2, StoppedInv DEF PageCutShort, source

-----------------------------------------------------------------------------
(* The invariant: what happens elsewhere, while a scan may run *)

\* Only deliveries are offered.
LEMMA OfferedTyped == TypeOK => Offered \subseteq Flat
<1> SUFFICES ASSUME TypeOK, NEW d \in Offered PROVE d \in Flat
  OBVIOUS
<1>1. CASE kind = "http"
  BY <1>1 DEF Offered
<1>2. CASE kind # "http"
  <2>1. PICK f \in manifests : d = f[1]
    BY <1>2 DEF Offered
  <2> QED
    BY <2>1 DEF TypeOK
<1> QED
  BY <1>1, <1>2

\* Whoever adds rows, manifests or receipts leaves to a running scan what it has to
\* mention, and what it may.
LEMMA ElsewhereInv ==
  ASSUME ScanInv, Elsewhere, SourceIsSound',
         rows' \in Seq(Flat \cup Versions), manifests' \subseteq Flat \X {1, 2},
         acked' \subseteq Flat, unsynced' \subseteq Flat, content' \subseteq Flat,
         Offered' \subseteq Flat, Offered \subseteq Offered',
         acked \subseteq acked', confirmed \cap unsynced' = {},
         manifests \subseteq manifests', Len(rows) <= Len(rows'),
         \A i \in 1..Len(rows) : rows'[i] = rows[i]
  PROVE  ScanInv'
<1> USE DEF Elsewhere
<1>1. Owed' \subseteq Flat /\ Owed' = Offered' \ acked'
  BY DEF Owed
<1>2. CASE ~watch.on
  <2>1. watch' = watch /\ watch = Abstract!NoScan /\ scan = Idle
    BY <1>2 DEF Abstract!Watched, ScanInv, ScanIsWatched
  <2>2. TypeOK' /\ ReceiptsStay'
    BY <2>1 DEF ScanInv, TypeOK, ReceiptsStay
  <2>3. WorkIsListed'
    BY DEF ScanInv, WorkIsListed
  <2>4. pc' \notin Listing \cup Reading
    BY <1>2 DEF ScanInv, ScanIsWatched
  <2>5. ScanIsWatched' /\ PagesCover' /\ PagesAreFull' /\ ManifestsCover'
    BY <2>1, <2>4, ScanIsOver
  <2> QED
    BY <2>2, <2>3, <2>5 DEF ScanInv
<1>3. CASE watch.on
  <2>1. /\ watch.must \subseteq Flat /\ watch.may \subseteq Flat
        /\ watch' \in [on : BOOLEAN, must : SUBSET Flat, may : SUBSET Flat]
        /\ watch'.on /\ watch'.must = watch.must \cap Owed'
        /\ watch'.may = watch.may \cup Owed'
    BY <1>1, <1>3 DEF Abstract!Watched, ScanInv, TypeOK
  <2>2. TypeOK'
    BY <2>1 DEF ScanInv, TypeOK
  <2>3. ReceiptsStay' /\ WorkIsListed'
    BY DEF ScanInv, ReceiptsStay, WorkIsListed
  <2>4. ScanIsWatched'
    <3>1. /\ watch'.must \subseteq Owed' /\ Owed' \subseteq watch'.may
          /\ watch'.may \subseteq Offered'
      BY <1>1, <1>3, <2>1 DEF ScanInv, ScanIsWatched
    <3>2. /\ scan'.byId \subseteq watch'.may /\ scan'.conflicts \subseteq scan'.issues
          /\ scan'.issues \subseteq Refused \cap (watch'.may \cup acked')
      BY <1>3, <2>1 DEF ScanInv, ScanIsWatched
    <3>3. watch'.on /\ (watch.on <=> pc' \in Listing \cup Reading)
      BY <2>1 DEF ScanInv, ScanIsWatched
    <3> QED
      BY <1>3, <3>1, <3>2, <3>3 DEF ScanIsWatched
  <2>5. Len(rows) \in Nat /\ Len(rows') \in Nat
    BY <2>2 DEF ScanInv, TypeOK
  <2>6. Mentioned' = Mentioned /\ (Snapped' <=> Snapped)
    BY DEF Mentioned, Snapped
  <2>7. pc = "items" => scan.items \subseteq 1..Len(rows) /\ Paged' = Paged
    <3>1. SUFFICES ASSUME pc = "items"
                   PROVE  scan.items \subseteq 1..Len(rows) /\ Paged' = Paged
      OBVIOUS
    <3>2. scan.items \subseteq 1..Len(rows)
      BY <2>5, <3>1 DEF ScanInv, PagesCover, Listing, TypeOK, Scans
    <3> QED
      BY <3>2 DEF Paged
  <2>8. PagesCover'
    <3>1. SUFFICES ASSUME pc \in Listing PROVE PagesCover'
      BY DEF PagesCover
    <3>2. \A d \in Mentioned : \E i \in 1..Len(rows') : rows'[i] = d /\ i <= scan.after
      BY <2>5, <3>1 DEF ScanInv, PagesCover
    <3>3. ASSUME NEW d \in watch'.must \ Mentioned
          PROVE  \E i \in 1..Len(rows') :
                   /\ rows'[i] = d /\ i > scan.after
                   /\ Snapped => i <= scan.snapshot
                   /\ pc = "items" => i \in scan.items \/ (scan.more /\ \A j \in scan.items : j < i)
      BY <2>1, <2>5, <3>1, <3>3 DEF ScanInv, PagesCover
    <3>4. pc = "items" => /\ scan.items \subseteq (scan.after + 1)..Len(rows')
                          /\ Paged' \subseteq watch'.may
      BY <2>1, <2>5, <2>7, <3>1 DEF ScanInv, PagesCover, TypeOK, Scans
    <3>5. scan'.conflicts = {}
      BY <3>1 DEF ScanInv, PagesCover
    <3> QED
      BY <2>6, <3>2, <3>3, <3>4, <3>5 DEF PagesCover
  <2>9. PagesAreFull'
    <3>1. SUFFICES ASSUME pc \in Listing PROVE PagesAreFull'
      BY DEF PagesAreFull
    <3>2. ASSUME Snapped, NEW i \in 1..scan.snapshot, rows'[i] \in Flat \ acked'
          PROVE  rows'[i] \in scan.backlog
      <4>1. scan.snapshot \in Nat /\ scan.snapshot <= Len(rows)
        BY <3>1, <3>2 DEF ScanInv, PagesAreFull, TypeOK, Scans
      <4>2. rows'[i] = rows[i]
        BY <2>5, <4>1
      <4> QED
        BY <3>1, <3>2, <4>2 DEF ScanInv, PagesAreFull
    <3>3. Snapped => scan.snapshot <= Len(rows')
      BY <2>5, <3>1 DEF ScanInv, PagesAreFull, TypeOK, Scans
    <3> QED
      BY <2>6, <2>7, <3>1, <3>2, <3>3 DEF ScanInv, PagesAreFull
  <2>10. ManifestsCover'
    BY <2>1, <2>6 DEF ScanInv, ManifestsCover
  <2> QED
    BY <2>2, <2>3, <2>4, <2>8, <2>9, <2>10 DEF ScanInv
<1> QED
  BY <1>2, <1>3

\* A sender's delivery gets the next sequence number.
LEMMA RelayEnqueueInv ==
  ASSUME ScanInv, NEW d \in Flat \cup Versions, RelayEnqueue(d)
  PROVE  ScanInv'
<1>1. /\ rows \in Seq(Flat \cup Versions) /\ rows' = Append(rows, d)
      /\ kind = "http" /\ UNCHANGED <<kind, manifests, acked, unsynced, confirmed>> /\ Elsewhere
  BY DEF RelayEnqueue, Elsewhere, ScanInv, TypeOK
<1>2. /\ rows' \in Seq(Flat \cup Versions) /\ Len(rows) \in Nat
      /\ Len(rows') = Len(rows) + 1 /\ rows'[Len(rows) + 1] = d
      /\ \A i \in 1..Len(rows) : rows'[i] = rows[i]
  BY <1>1
<1>3. \A i \in 1..Len(rows) : rows[i] # d
  BY <1>1, <1>2 DEF RelayEnqueue, Range
<1>4. \A i, j \in 1..Len(rows') : rows'[i] = rows'[j] => i = j
  <2>1. SUFFICES ASSUME NEW i \in 1..Len(rows'), NEW j \in 1..Len(rows'), rows'[i] = rows'[j]
                 PROVE  i = j
    OBVIOUS
  <2>2. i \in 1..Len(rows) \/ i = Len(rows) + 1
    BY <1>2
  <2>3. j \in 1..Len(rows) \/ j = Len(rows) + 1
    BY <1>2
  <2> QED
    BY <1>2, <1>3, <2>1, <2>2, <2>3 DEF ScanInv, SourceIsSound
<1>5. Offered \subseteq Offered' /\ Offered' \subseteq Flat
  <2>1. DOMAIN rows = 1..Len(rows) /\ DOMAIN rows' = 1..Len(rows')
    BY <1>1, <1>2
  <2>2. Range(rows) \subseteq Range(rows')
    BY <1>2, <2>1 DEF Range
  <2> QED
    BY <1>1, <2>2 DEF Offered
<1>6. SourceIsSound'
  BY <1>1, <1>4, <1>5 DEF ScanInv, SourceIsSound
<1>7. content' \subseteq Flat /\ acked' \subseteq Flat /\ unsynced' \subseteq Flat
      /\ manifests' \subseteq Flat \X {1, 2}
  BY DEF RelayEnqueue, ScanInv, TypeOK
<1>8. confirmed \cap unsynced' = {} /\ Len(rows) <= Len(rows')
  BY <1>1, <1>2 DEF ScanInv, ReceiptsStay
<1> QED
  BY <1>1, <1>2, <1>5, <1>6, <1>7, <1>8, ElsewhereInv

\* Another receiver acknowledges what is owed.
LEMMA OtherAcknowledgesInv ==
  ASSUME ScanInv, NEW d \in Flat, NEW kept \in BOOLEAN, OtherAcknowledges(d, kept)
  PROVE  ScanInv'
<1>1. /\ UNCHANGED <<kind, rows, manifests, confirmed>> /\ Elsewhere
      /\ d \in Offered \ acked /\ acked' = acked \cup {d}
      /\ unsynced' = IF kind = "inbox" THEN unsynced \cup {d} ELSE unsynced
  BY DEF OtherAcknowledges, Elsewhere, Owed
<1>2. Offered' = Offered /\ Offered \subseteq Flat
  BY <1>1, OfferedTyped DEF Offered, ScanInv
<1>3. SourceIsSound'
  BY <1>1, <1>2 DEF ScanInv, SourceIsSound
<1>4. rows' \in Seq(Flat \cup Versions) /\ manifests' \subseteq Flat \X {1, 2}
      /\ content' \subseteq Flat /\ acked' \subseteq Flat /\ unsynced' \subseteq Flat
  BY <1>1 DEF OtherAcknowledges, ScanInv, TypeOK
<1>5. confirmed \cap unsynced' = {}
  BY <1>1 DEF ScanInv, ReceiptsStay
<1>6. Len(rows) <= Len(rows') /\ \A i \in 1..Len(rows) : rows'[i] = rows[i]
  BY <1>1, <1>4
<1> QED
  BY <1>1, <1>2, <1>3, <1>4, <1>5, <1>6, ElsewhereInv

\* A payload without its manifest offers nothing.
LEMMA EnqueuePayloadInv ==
  ASSUME ScanInv, NEW d \in Flat, EnqueuePayload(d)
  PROVE  ScanInv'
<1>1. UNCHANGED <<kind, rows, manifests, acked, unsynced, confirmed>> /\ Elsewhere
  BY DEF EnqueuePayload, Elsewhere
<1>2. SourceIsSound' /\ Offered' = Offered /\ Offered \subseteq Flat
  BY <1>1, SourceKept, OfferedTyped DEF ScanInv
<1>3. rows' \in Seq(Flat \cup Versions) /\ manifests' \subseteq Flat \X {1, 2}
      /\ content' \subseteq Flat /\ acked' \subseteq Flat /\ unsynced' \subseteq Flat
  BY <1>1 DEF EnqueuePayload, ScanInv, TypeOK
<1>4. confirmed \cap unsynced' = {}
  BY <1>1 DEF ScanInv, ReceiptsStay
<1>5. Len(rows) <= Len(rows') /\ \A i \in 1..Len(rows) : rows'[i] = rows[i]
  BY <1>1, <1>3
<1> QED
  BY <1>1, <1>2, <1>3, <1>4, <1>5, ElsewhereInv

\* A new manifest, the original or its copy.
LEMMA ManifestInv ==
  ASSUME ScanInv, NEW d \in Flat, EnqueueManifest(d) \/ CopyManifest(d)
  PROVE  ScanInv'
<1>1. /\ UNCHANGED <<kind, rows, acked, unsynced, content, confirmed>> /\ Elsewhere
      /\ kind = "inbox"
      /\ \/ manifests' = manifests \cup {<<d, 1>>}
         \/ manifests' = manifests \cup {<<d, 2>>} /\ d \in Twice /\ <<d, 1>> \in manifests
  BY DEF EnqueueManifest, CopyManifest, Elsewhere
<1>2. manifests \subseteq manifests' /\ manifests' \subseteq Flat \X {1, 2}
  BY <1>1 DEF ScanInv, TypeOK
<1>3. Offered \subseteq Offered' /\ Offered' \subseteq Flat
  <2>1. Offered = {f[1] : f \in manifests} /\ Offered' = {f[1] : f \in manifests'}
    BY <1>1 DEF Offered
  <2>2. \A f \in manifests' : f[1] \in Flat
    BY <1>2
  <2> QED
    BY <1>2, <2>1, <2>2
<1>4. SourceIsSound'
  BY <1>1, <1>3 DEF ScanInv, SourceIsSound
<1>5. rows' \in Seq(Flat \cup Versions)
      /\ content' \subseteq Flat /\ acked' \subseteq Flat /\ unsynced' \subseteq Flat
  BY <1>1 DEF ScanInv, TypeOK
<1>6. confirmed \cap unsynced' = {}
  BY <1>1 DEF ScanInv, ReceiptsStay
<1>7. Len(rows) <= Len(rows') /\ \A i \in 1..Len(rows) : rows'[i] = rows[i]
  BY <1>1, <1>5
<1> QED
  BY <1>1, <1>2, <1>3, <1>4, <1>5, <1>6, <1>7, ElsewhereInv

\* Someone syncs the inbox's directory of markers.
LEMMA OtherSyncsInv ==
  ASSUME ScanInv, OtherSyncs
  PROVE  ScanInv'
<1>1. UNCHANGED <<kind, rows, manifests, acked, content, confirmed>> /\ Elsewhere
      /\ unsynced' = {}
  BY DEF OtherSyncs, Elsewhere
<1>2. Offered' = Offered /\ Offered \subseteq Flat
  BY <1>1, OfferedTyped DEF Offered, ScanInv
<1>3. SourceIsSound'
  BY <1>1, <1>2 DEF ScanInv, SourceIsSound
<1>4. rows' \in Seq(Flat \cup Versions) /\ manifests' \subseteq Flat \X {1, 2}
      /\ content' \subseteq Flat /\ acked' \subseteq Flat /\ unsynced' \subseteq Flat
  BY <1>1 DEF ScanInv, TypeOK
<1>5. Len(rows) <= Len(rows') /\ \A i \in 1..Len(rows) : rows'[i] = rows[i]
  BY <1>1, <1>4
<1> QED
  BY <1>1, <1>2, <1>3, <1>4, <1>5, ElsewhereInv

-----------------------------------------------------------------------------
(* The invariant: a scan of the relay's pages *)

\* The deliveries of a page are as many as its numbers, and those that earlier pages
\* mentioned are others.
LEMMA PageIsNew ==
  ASSUME ScanInv, pc = "items"
  PROVE  /\ kind = "http" /\ watch.on
         /\ scan.items \subseteq 1..Len(rows) /\ \A i \in scan.items : i > scan.after
         /\ Paged \cap Mentioned = {}
         /\ IsFiniteSet(Paged) /\ Cardinality(Paged) = Cardinality(scan.items)
         /\ IsFiniteSet(scan.items) /\ IsFiniteSet(Mentioned)
<1>1. kind = "http" /\ watch.on /\ pc \in Listing
  BY DEF ScanInv, WorkIsListed, ScanIsWatched, Listing
<1>2. rows \in Seq(Flat \cup Versions) /\ Len(rows) \in Nat /\ scan.after \in Nat
  BY DEF ScanInv, TypeOK, Scans
<1>3. scan.items \subseteq 1..Len(rows) /\ \A i \in scan.items : i > scan.after
  BY <1>1, <1>2 DEF ScanInv, PagesCover
<1>4. Paged \cap Mentioned = {}
  <2>1. SUFFICES ASSUME NEW i \in scan.items, rows[i] \in Mentioned PROVE FALSE
    BY DEF Paged
  <2>2. PICK j \in 1..Len(rows) : rows[j] = rows[i] /\ j <= scan.after
    BY <1>1, <2>1 DEF ScanInv, PagesCover
  <2> QED
    BY <1>2, <1>3, <2>2 DEF ScanInv, SourceIsSound
<1>5. /\ IsFiniteSet(Paged) /\ Cardinality(Paged) = Cardinality(scan.items)
      /\ IsFiniteSet(scan.items)
  <2>1. \A i, j \in 1..Len(rows) : rows[i] = rows[j] => i = j
    BY DEF ScanInv, SourceIsSound
  <2> QED
    BY <1>2, <1>3, <2>1, NamedOnce DEF Paged
<1>6. IsFiniteSet(Mentioned)
  <2>1. IsFiniteSet(scan.backlog) /\ Mentioned \in SUBSET scan.backlog
    BY <1>1 DEF ScanInv, PagesAreFull, Snapped
  <2> QED
    BY <2>1, FS_Subset
<1> QED
  BY <1>1, <1>3, <1>4, <1>5, <1>6

\* The first list request fixes the snapshot and what was owed then.
LEMMA ListSnapshotInv ==
  ASSUME ScanInv, ListSnapshot
  PROVE  ScanInv'
<1> DEFINE pending == {i \in 1..Len(rows) : rows[i] \notin acked}
           top == IF pending = {} THEN 0 ELSE Max(pending)
<1>0. /\ kind' = kind /\ rows' = rows /\ manifests' = manifests /\ acked' = acked
      /\ unsynced' = unsynced /\ content' = content /\ cur' = cur /\ tries' = tries
      /\ todo' = todo /\ handled' = handled /\ watch' = watch /\ listed' = listed
      /\ reported' = reported /\ got' = got /\ confirmed' = confirmed /\ fails' = fails
      /\ pc = "page" /\ pc' = "select"
  BY DEF ListSnapshot, source, seen
<1>1. /\ pc \in Listing /\ kind = "http" /\ watch.on
      /\ scan' = [scan EXCEPT !.snapshot = top, !.backlog = Owed]
  BY DEF ListSnapshot, Listing, ScanInv, ScanIsWatched
<1>2. rows \in Seq(Flat \cup Versions) /\ Len(rows) \in Nat /\ scan.after = 0
  BY DEF ListSnapshot, ScanInv, TypeOK
<1>3. top \in Nat /\ top <= Len(rows) /\ \A i \in pending : i <= top
  <2>1. pending \in SUBSET Nat /\ \A i \in pending : i <= Len(rows)
    BY <1>2
  <2>2. CASE pending = {}
    BY <1>2, <2>2
  <2>3. CASE pending # {}
    <3>1. Max(pending) \in pending /\ \A i \in pending : i <= Max(pending)
      BY <1>2, <2>1, <2>3, MaxOfBounded
    <3> QED
      BY <2>1, <2>3, <3>1
  <2> QED
    BY <2>2, <2>3
<1> HIDE DEF top
<1>4. Offered \subseteq Flat /\ Owed \subseteq Flat
  BY OfferedTyped DEF ScanInv, Owed
<1>5. /\ scan'.page = scan.page /\ scan'.after = 0 /\ scan'.snapshot = top
      /\ scan'.backlog = Owed /\ scan'.items = scan.items /\ scan'.more = scan.more
      /\ scan'.paths = scan.paths /\ scan'.byId = scan.byId
      /\ scan'.conflicts = scan.conflicts /\ scan'.issues = scan.issues
  BY <1>1, <1>2 DEF ScanInv, TypeOK, Scans
<1>6. TypeOK'
  <2>1. scan \in Scans
    BY DEF ScanInv, TypeOK
  <2>2. scan' \in Scans
    BY <1>1, <1>3, <1>4, <2>1 DEF Scans
  <2> QED
    BY <1>0, <2>2 DEF ScanInv, TypeOK, Listing
<1>7. SourceIsSound' /\ ReceiptsStay' /\ Owed' = Owed /\ Offered' = Offered
  BY <1>0, SourceKept, ReceiptsKept
<1>8. WorkIsListed'
  BY <1>0, SourceKept DEF ScanInv, WorkIsListed, Listing, Reading, Opening, Acking
<1>9. ScanIsWatched' /\ Mentioned' = Mentioned
  BY <1>0, <1>1, <1>5, <1>7 DEF ScanInv, ScanIsWatched, Mentioned, Listing
<1>10. PagesCover'
  <2>1. ASSUME NEW d \in watch.must \ Mentioned
        PROVE  \E i \in 1..Len(rows) : rows[i] = d /\ i > 0 /\ i <= top
    <3>1. PICK i \in 1..Len(rows) : rows[i] = d /\ i > scan.after
      BY <1>1, <2>1 DEF ScanInv, PagesCover
    <3>2. d \notin acked
      BY <1>1, <2>1 DEF ScanInv, ScanIsWatched, Owed
    <3>3. i \in pending
      BY <3>1, <3>2
    <3> QED
      BY <1>2, <1>3, <3>1, <3>3
  <2>2. scan'.conflicts = {} /\ \A d \in Mentioned : \E i \in 1..Len(rows) :
                                  rows[i] = d /\ i <= scan'.after
    BY <1>1, <1>2, <1>5 DEF ScanInv, PagesCover
  <2> QED
    BY <1>0, <1>5, <1>9, <2>1, <2>2 DEF PagesCover
<1>11. PagesAreFull'
  <2>1. Mentioned = {} /\ scan.page = 1 /\ Cardinality(Mentioned) = (scan.page - 1) * PageSize
    BY <1>1, <1>2 DEF ScanInv, PagesAreFull
  <2>2. IsFiniteSet(Owed)
    <3> DEFINE I == {i \in 1..Len(rows) : rows[i] \in Owed}
    <3>1. IsFiniteSet({rows[i] : i \in I})
      <4>1. \A i, j \in 1..Len(rows) : rows[i] = rows[j] => i = j
        BY DEF ScanInv, SourceIsSound
      <4> QED
        BY <1>2, <4>1, NamedOnce
    <3>2. Owed \in SUBSET {rows[i] : i \in I}
      BY <1>1, <1>2 DEF Owed, Offered, Range
    <3> QED
      BY <3>1, <3>2, FS_Subset
  <2>3. \A i \in 1..top : rows[i] \in Flat \ acked => rows[i] \in Owed
    BY <1>1, <1>2, <1>3 DEF Owed, Offered, Range
  <2> QED
    BY <1>0, <1>3, <1>5, <1>9, <2>1, <2>2, <2>3 DEF PagesAreFull
<1>12. ManifestsCover'
  BY <1>0 DEF ManifestsCover
<1> QED
  BY <1>6, <1>7, <1>8, <1>9, <1>10, <1>11, <1>12 DEF ScanInv

\* A later request carries the snapshot in its cursor.
LEMMA ListContinueInv ==
  ASSUME ScanInv, ListContinue
  PROVE  ScanInv'
<1> USE DEF ListContinue, source, seen
<1>1. /\ pc = "page" /\ pc' = "select" /\ kind = "http" /\ scan' = scan /\ scan.after # 0
  OBVIOUS
<1>2. TypeOK'
  BY DEF ScanInv, TypeOK, Listing
<1>3. SourceIsSound' /\ ReceiptsStay' /\ Owed' = Owed /\ Offered' = Offered
  BY SourceKept, ReceiptsKept
<1>4. WorkIsListed'
  BY SourceKept DEF ScanInv, WorkIsListed, Listing, Reading, Opening, Acking
<1>5. ScanIsWatched' /\ Mentioned' = Mentioned /\ Snapped /\ Snapped'
  BY <1>3 DEF ScanInv, ScanIsWatched, Mentioned, Listing, Snapped
<1>6. PagesCover'
  BY <1>5 DEF ScanInv, PagesCover, Listing
<1>7. PagesAreFull'
  BY <1>5 DEF ScanInv, PagesAreFull, Listing
<1>8. ManifestsCover'
  BY DEF ManifestsCover
<1> QED
  BY <1>2, <1>3, <1>4, <1>5, <1>6, <1>7, <1>8 DEF ScanInv

\* The first rows behind the cursor make the page.
LEMMA ListSelectInv ==
  ASSUME ScanInv, ListSelect
  PROVE  ScanInv'
<1> DEFINE found == Selected(scan.after, scan.snapshot)
<1>0. /\ kind' = kind /\ rows' = rows /\ manifests' = manifests /\ acked' = acked
      /\ unsynced' = unsynced /\ content' = content /\ cur' = cur /\ tries' = tries
      /\ todo' = todo /\ handled' = handled /\ watch' = watch /\ listed' = listed
      /\ reported' = reported /\ got' = got /\ confirmed' = confirmed /\ fails' = fails
      /\ pc = "select" /\ pc' = "items"
  BY DEF ListSelect, source, seen
<1>1. PICK page \in SUBSET found :
        /\ \A i \in page, j \in found \ page : i < j
        /\ Cardinality(page) <= PageSize
        /\ page # found => Cardinality(page) = PageSize
        /\ scan' = [scan EXCEPT !.items = page, !.more = (page # found)]
  BY Zenon DEF ListSelect
<1>2. pc \in Listing /\ watch.on /\ Snapped /\ kind = "http"
  BY <1>0 DEF ScanInv, ScanIsWatched, WorkIsListed, Listing, Snapped
<1>3. scan \in Scans /\ Len(rows) \in Nat /\ rows \in Seq(Flat \cup Versions)
      /\ scan.after \in Nat /\ scan.snapshot \in Nat
  BY DEF ScanInv, TypeOK, Scans
<1>4. found = {i \in 1..Len(rows) : rows[i] \in Flat \ acked /\ i > scan.after
                                    /\ i <= scan.snapshot}
  BY DEF Selected
<1> HIDE DEF found
<1>5. page \subseteq 1..Len(rows) /\ page \subseteq Nat
  BY <1>3, <1>4
<1>6. /\ scan'.page = scan.page /\ scan'.after = scan.after /\ scan'.snapshot = scan.snapshot
      /\ scan'.backlog = scan.backlog /\ scan'.items = page /\ scan'.more = (page # found)
      /\ scan'.paths = scan.paths /\ scan'.byId = scan.byId
      /\ scan'.conflicts = scan.conflicts /\ scan'.issues = scan.issues
  BY <1>1, <1>3 DEF Scans
<1>7. TypeOK'
  <2>1. scan' \in Scans
    BY <1>1, <1>3, <1>5 DEF Scans
  <2> QED
    BY <1>0, <2>1 DEF ScanInv, TypeOK, Listing
<1>8. SourceIsSound' /\ ReceiptsStay' /\ Owed' = Owed /\ Offered' = Offered
  BY <1>0, SourceKept, ReceiptsKept
<1>9. WorkIsListed'
  BY <1>0, <1>2, SourceKept DEF ScanInv, WorkIsListed, Listing, Reading, Opening, Acking
<1>10. ScanIsWatched' /\ Mentioned' = Mentioned
  BY <1>0, <1>2, <1>6, <1>8 DEF ScanInv, ScanIsWatched, Mentioned, Listing
<1>11. \A i \in found : rows[i] \in Owed /\ rows[i] \in watch.may
  BY <1>2, <1>3, <1>4 DEF ScanInv, ScanIsWatched, Owed, Offered, Range
<1>12. PagesCover'
  <2>1. scan'.conflicts = {} /\ \A d \in Mentioned : \E i \in 1..Len(rows) :
                                  rows[i] = d /\ i <= scan'.after
    BY <1>2, <1>6 DEF ScanInv, PagesCover
  <2>2. ASSUME NEW d \in watch.must \ Mentioned
        PROVE  \E i \in 1..Len(rows) :
                 /\ rows[i] = d /\ i > scan.after /\ i <= scan.snapshot
                 /\ i \in page \/ (page # found /\ \A j \in page : j < i)
    <3>1. PICK i \in 1..Len(rows) : rows[i] = d /\ i > scan.after /\ i <= scan.snapshot
      BY <1>2, <2>2 DEF ScanInv, PagesCover
    <3>2. i \in found
      BY <1>2, <1>4, <2>2, <3>1 DEF ScanInv, ScanIsWatched, Owed, TypeOK
    <3> QED
      BY <1>1, <3>1, <3>2
  <2>3. page \subseteq (scan.after + 1)..Len(rows)
    BY <1>3, <1>4
  <2>4. Paged' \subseteq watch.may
    BY <1>0, <1>6, <1>11 DEF Paged
  <2> QED
    BY <1>0, <1>6, <1>10, <2>1, <2>2, <2>3, <2>4 DEF PagesCover
<1>13. PagesAreFull'
  <2>1. \A i \in found : rows[i] \in scan.backlog
    BY <1>2, <1>3, <1>4 DEF ScanInv, PagesAreFull
  <2>2. Paged' \subseteq scan.backlog
    BY <1>0, <1>6, <2>1 DEF Paged
  <2>3. page # found => scan.backlog \ (Mentioned \cup Paged') # {}
    <3>1. SUFFICES ASSUME page # found
                   PROVE  \E d \in scan.backlog : d \notin Mentioned /\ d \notin Paged'
      OBVIOUS
    <3>2. PICK i \in found : i \notin page
      BY <3>1
    <3>3. i \in 1..Len(rows) /\ i > scan.after
      BY <1>4
    <3>4. \A j, k \in 1..Len(rows) : rows[j] = rows[k] => j = k
      BY DEF ScanInv, SourceIsSound
    <3>5. rows[i] \notin Mentioned
      BY <1>2, <1>3, <3>3, <3>4 DEF ScanInv, PagesCover
    <3>6. rows[i] \notin Paged'
      BY <1>0, <1>5, <1>6, <3>2, <3>3, <3>4 DEF Paged
    <3> QED
      BY <2>1, <3>5, <3>6
  <2> QED
    BY <1>0, <1>1, <1>2, <1>6, <1>10, <2>2, <2>3 DEF ScanInv, PagesAreFull, Listing, Snapped
<1>14. ManifestsCover'
  BY <1>0 DEF ManifestsCover
<1> QED
  BY <1>7, <1>8, <1>9, <1>10, <1>12, <1>13, <1>14 DEF ScanInv

\* A page that is read adds its deliveries to what the scan mentions.
LEMMA PageIsCollected ==
  ASSUME ScanInv, pc = "items", NEW s, s = Collected(scan, Paged)
  PROVE  /\ s \in Scans /\ s.page = scan.page /\ s.after = scan.after
         /\ s.snapshot = scan.snapshot /\ s.backlog = scan.backlog
         /\ s.items = scan.items /\ s.more = scan.more /\ s.paths = scan.paths
         /\ s.byId \cup s.issues = Mentioned \cup Paged
         /\ s.conflicts = {} /\ s.byId \subseteq watch.may
         /\ s.issues \subseteq Refused \cap (watch.may \cup acked)
<1>1. pc \in Listing /\ Paged \cap Mentioned = {} /\ scan.conflicts = {}
  BY PageIsNew DEF Listing, ScanInv, PagesCover
<1>2. scan \in Scans /\ watch.may \subseteq Flat
  BY DEF ScanInv, TypeOK
<1>3. Paged \subseteq watch.may /\ Paged \subseteq Flat
  BY <1>1, <1>2 DEF ScanInv, PagesCover
<1> DEFINE valid == {d \in Paged : ValidMetadata(d)}
           again == valid \cap scan.byId
           issues == scan.issues \cup (Paged \ valid) \cup again
           conflicts == scan.conflicts \cup again
           byId == scan.byId \cup valid
<1>4. s = [scan EXCEPT !.issues = issues, !.conflicts = conflicts, !.byId = byId]
  BY DEF Collected
<1>5. again = {} /\ valid \subseteq Paged /\ Paged \ valid \subseteq Oversized
  BY <1>1 DEF Mentioned, ValidMetadata
<1>6. /\ scan.byId \subseteq watch.may
      /\ scan.issues \subseteq Refused \cap (watch.may \cup acked)
      /\ Refused \subseteq Flat
  BY DEF ScanInv, ScanIsWatched, Refused
<1>7. conflicts = {} /\ byId \cup issues = Mentioned \cup Paged
  BY <1>1, <1>5 DEF Mentioned
<1>8. byId \subseteq watch.may /\ byId \subseteq Flat
  BY <1>2, <1>3, <1>5, <1>6
<1>9. issues \subseteq Refused \cap (watch.may \cup acked) /\ issues \subseteq Flat
  BY <1>3, <1>5, <1>6 DEF Refused
<1> HIDE DEF issues, conflicts, byId
<1>10. s.issues = issues /\ s.conflicts = conflicts /\ s.byId = byId
  BY <1>2, <1>4 DEF Scans
<1>11. s \in Scans
  <2>1. issues \in SUBSET Flat /\ conflicts \in SUBSET Flat /\ byId \in SUBSET Flat
    BY <1>7, <1>8, <1>9
  <2> QED
    BY <1>2, <1>4, <2>1 DEF Scans
<1>12. /\ s.page = scan.page /\ s.after = scan.after
       /\ s.snapshot = scan.snapshot /\ s.backlog = scan.backlog
       /\ s.items = scan.items /\ s.more = scan.more /\ s.paths = scan.paths
  BY <1>2, <1>4 DEF Scans
<1> QED
  BY <1>7, <1>8, <1>9, <1>10, <1>11, <1>12

\* A scan ends with what it listed and reported.
LEMMA EndOfScanInv ==
  ASSUME ScanInv, pc \in Listing \cup Reading, UNCHANGED <<source, fails>>,
         NEW s, EndOfScan(s), s.byId \subseteq watch.may, s.byId \subseteq Flat,
         s.issues \subseteq Flat
  PROVE  ScanInv'
<1>0. /\ kind' = kind /\ rows' = rows /\ manifests' = manifests /\ acked' = acked
      /\ unsynced' = unsynced /\ content' = content /\ cur' = cur /\ handled' = handled
      /\ got' = got /\ confirmed' = confirmed /\ fails' = fails
      /\ pc' = "files" /\ scan' = Idle /\ watch' = Abstract!NoScan /\ tries' = 0
      /\ listed' = s.byId \ s.conflicts /\ reported' = s.issues /\ todo' = listed'
  BY DEF EndOfScan, source
<1>1. TypeOK'
  BY <1>0, IdleTyped DEF ScanInv, TypeOK
<1>2. SourceIsSound' /\ ReceiptsStay' /\ Offered' = Offered
  BY <1>0, SourceKept, ReceiptsKept
<1>3. WorkIsListed'
  <2>1. listed' \subseteq Offered'
    BY <1>0, <1>2 DEF ScanInv, ScanIsWatched
  <2> QED
    BY <1>0, <2>1 DEF WorkIsListed, Listing, Reading, Opening, Acking
<1>4. ScanIsWatched' /\ PagesCover' /\ PagesAreFull' /\ ManifestsCover'
  BY <1>0, ScanIsOver DEF Listing, Reading
<1> QED
  BY <1>1, <1>2, <1>3, <1>4 DEF ScanInv

\* After a full page the scan goes on behind its last row.
LEMMA NextPageInv ==
  ASSUME ScanInv, pc = "items", UNCHANGED <<source, fails>>,
         NEW s, s = Collected(scan, Paged),
         s.more, ~LastPage(s), NextPage(s)
  PROVE  ScanInv'
<1> DEFINE last == Cursor(scan.items)
<1>0. /\ kind' = kind /\ rows' = rows /\ manifests' = manifests /\ acked' = acked
      /\ unsynced' = unsynced /\ content' = content /\ cur' = cur /\ todo' = todo
      /\ handled' = handled /\ watch' = watch /\ listed' = listed /\ reported' = reported
      /\ got' = got /\ confirmed' = confirmed /\ fails' = fails
      /\ pc' = "page" /\ tries' = 0
  BY DEF NextPage, source, seen
<1>1. pc \in Listing /\ watch.on /\ Snapped /\ kind = "http"
  BY DEF ScanInv, ScanIsWatched, WorkIsListed, Listing, Snapped
<1>2. scan \in Scans /\ Len(rows) \in Nat /\ scan.after \in Nat /\ scan.snapshot \in Nat
      /\ scan.page \in 0..MaxPages /\ scan.page \in Nat \ {0} /\ scan.items \subseteq Nat
  BY <1>1 DEF ScanInv, TypeOK, Scans, PagesAreFull
<1>3. /\ s \in Scans /\ s.page = scan.page /\ s.after = scan.after
      /\ s.snapshot = scan.snapshot /\ s.backlog = scan.backlog
      /\ s.items = scan.items /\ s.more = scan.more /\ s.paths = scan.paths
      /\ s.byId \cup s.issues = Mentioned \cup Paged
      /\ s.conflicts = {} /\ s.byId \subseteq watch.may
      /\ s.issues \subseteq Refused \cap (watch.may \cup acked)
  BY PageIsCollected, Zenon
<1>4. s.byId \subseteq Flat /\ s.issues \subseteq Flat
  BY <1>3 DEF Scans
<1>5. Cardinality(scan.items) = PageSize /\ scan.items # {}
  <2>1. Cardinality(scan.items) = PageSize
    BY <1>1, <1>3 DEF ScanInv, PagesAreFull
  <2> QED
    BY <2>1, FS_EmptySet
<1>6. last \in scan.items /\ \A i \in scan.items : i <= last
  <2>1. \A i \in scan.items : i <= Len(rows)
    BY <1>2, PageIsNew
  <2> QED
    BY <1>2, <1>5, <2>1, MaxOfBounded DEF Cursor
<1>7. last \in Nat /\ last # 0 /\ scan.after < last
  BY <1>2, <1>6, PageIsNew
<1> HIDE DEF last
<1>8. scan' = [s EXCEPT !.page = scan.page + 1, !.after = last, !.items = {},
                        !.more = FALSE]
  BY <1>3 DEF NextPage, last
<1>9. /\ scan'.page = scan.page + 1 /\ scan'.after = last /\ scan'.snapshot = scan.snapshot
      /\ scan'.backlog = scan.backlog /\ scan'.items = {} /\ scan'.more = FALSE
      /\ scan'.paths = scan.paths /\ scan'.byId = s.byId
      /\ scan'.conflicts = {} /\ scan'.issues = s.issues
  BY <1>3, <1>8 DEF Scans
<1>10. TypeOK'
  <2>1. scan.page + 1 \in 0..MaxPages
    BY <1>2, <1>3 DEF LastPage
  <2>2. scan' = [s EXCEPT !.page = scan'.page, !.after = scan'.after, !.items = {},
                          !.more = FALSE]
    BY <1>8, <1>9
  <2>3. scan'.page \in 0..MaxPages /\ scan'.after \in Nat
    BY <1>7, <1>9, <2>1
  <2>4. scan' \in Scans
    BY <1>3, <2>2, <2>3 DEF Scans
  <2> QED
    BY <1>0, <2>4 DEF ScanInv, TypeOK, Listing
<1>11. SourceIsSound' /\ ReceiptsStay' /\ Owed' = Owed /\ Offered' = Offered
  BY <1>0, SourceKept, ReceiptsKept
<1>12. WorkIsListed'
  BY <1>0, <1>1, SourceKept DEF ScanInv, WorkIsListed, Listing, Reading, Opening, Acking
<1>13. ScanIsWatched' /\ Mentioned' = Mentioned \cup Paged /\ Snapped'
  <2>1. ScanIsWatched'
    BY <1>0, <1>1, <1>3, <1>9, <1>11 DEF ScanInv, ScanIsWatched, Listing
  <2> QED
    BY <1>3, <1>7, <1>9, <2>1 DEF Mentioned, Snapped
<1>14. PagesCover'
  <2>1. ASSUME NEW d \in Mentioned \cup Paged
        PROVE  \E i \in 1..Len(rows) : rows[i] = d /\ i <= last
    <3>1. CASE d \in Mentioned
      <4>1. PICK i \in 1..Len(rows) : rows[i] = d /\ i <= scan.after
        BY <1>1, <3>1 DEF ScanInv, PagesCover
      <4>2. i <= last
        BY <1>2, <1>7, <4>1
      <4> QED
        BY <4>1, <4>2
    <3>2. CASE d \in Paged
      <4>1. PICK i \in scan.items : d = rows[i]
        BY <3>2 DEF Paged
      <4> QED
        BY <1>6, <4>1, PageIsNew
    <3> QED
      BY <2>1, <3>1, <3>2
  <2>2. ASSUME NEW d \in watch.must \ (Mentioned \cup Paged)
        PROVE  \E i \in 1..Len(rows) : rows[i] = d /\ i > last /\ i <= scan.snapshot
    <3>1. PICK i \in 1..Len(rows) :
            /\ rows[i] = d /\ i <= scan.snapshot
            /\ i \in scan.items \/ \A j \in scan.items : j < i
      BY <1>1, <2>2 DEF ScanInv, PagesCover
    <3>2. i \notin scan.items
      BY <2>2, <3>1 DEF Paged
    <3>3. last < i
      BY <1>6, <3>1, <3>2
    <3> QED
      BY <1>2, <1>7, <3>1, <3>3
  <2> QED
    BY <1>0, <1>9, <1>13, <2>1, <2>2 DEF PagesCover
<1>15. PagesAreFull'
  <2>1. Cardinality(Mentioned \cup Paged) = (scan.page - 1) * PageSize + PageSize
    <3>1. /\ IsFiniteSet(Mentioned) /\ IsFiniteSet(Paged) /\ Paged \cap Mentioned = {}
          /\ Cardinality(Paged) = PageSize
      BY <1>5, PageIsNew
    <3>2. Cardinality(Mentioned) = (scan.page - 1) * PageSize
      BY <1>1 DEF ScanInv, PagesAreFull
    <3>3. Cardinality(Mentioned \cup Paged)
            = Cardinality(Mentioned) + Cardinality(Paged) - Cardinality(Mentioned \cap Paged)
      BY <3>1, FS_Union
    <3>4. Cardinality(Mentioned \cap Paged) = 0
      BY <3>1, FS_EmptySet
    <3>5. Cardinality(Mentioned) \in Nat
      BY <3>1, FS_CardinalityType
    <3>6. Cardinality(Mentioned \cup Paged) = Cardinality(Mentioned) + PageSize
      <4>1. Cardinality(Paged) = PageSize
        BY <3>1
      <4> QED
        BY <3>3, <3>4, <3>5, <4>1
    <3> QED
      BY <3>2, <3>6
  <2>2. (scan.page - 1) * PageSize + PageSize = ((scan.page + 1) - 1) * PageSize
    <3>1. \A m, n \in Int : (m - 1) * n + n = ((m + 1) - 1) * n
      OBVIOUS
    <3> QED
      BY <1>2, <3>1
  <2>3. scan.page + 1 \in Nat \ {0}
    BY <1>2
  <2>4. /\ IsFiniteSet(scan.backlog) /\ scan.snapshot <= Len(rows)
        /\ Mentioned \cup Paged \subseteq scan.backlog
        /\ \A i \in 1..scan.snapshot : rows[i] \in Flat \ acked => rows[i] \in scan.backlog
    BY <1>1 DEF ScanInv, PagesAreFull
  <2>5. Cardinality(Mentioned') = (scan'.page - 1) * PageSize
    BY <1>9, <1>13, <2>1, <2>2
  <2> QED
    BY <1>0, <1>7, <1>9, <1>13, <2>3, <2>4, <2>5 DEF PagesAreFull
<1>16. ManifestsCover'
  BY <1>0 DEF ManifestsCover
<1> QED
  BY <1>10, <1>11, <1>12, <1>13, <1>14, <1>15, <1>16 DEF ScanInv

\* scan_pending takes a page in: ends, stops at the page limit, or goes on.
LEMMA ReadPageInv ==
  ASSUME ScanInv, ReadPage
  PROVE  ScanInv'
<1> DEFINE s == Collected(scan, Paged)
<1>0. pc = "items" /\ UNCHANGED <<source, fails>>
  BY DEF ReadPage
<1>1. s \in Scans /\ s.byId \subseteq watch.may
  BY <1>0, PageIsCollected, Zenon
<1>2. \/ EndOfScan(s)
      \/ Stopped
      \/ s.more /\ ~LastPage(s) /\ NextPage(s)
  BY DEF ReadPage, Paged
<1> HIDE DEF s
<1>3. CASE EndOfScan(s)
  <2>1. s.byId \subseteq Flat /\ s.issues \subseteq Flat
    BY <1>1 DEF Scans
  <2>2. pc \in Listing \cup Reading
    BY <1>0 DEF Listing
  <2> QED
    BY <1>0, <1>1, <1>3, <2>1, <2>2, EndOfScanInv, Zenon
<1>4. CASE Stopped
  <2>1. /\ fails' \in 0..MaxFails /\ acked' = acked \ {} /\ unsynced' = unsynced \ {}
        /\ UNCHANGED <<kind, rows, manifests, content>> /\ {} \in SUBSET unsynced
    BY <1>0 DEF source, ScanInv, TypeOK
  <2> QED
    BY <1>4, <2>1, StoppedInv
<1>5. CASE s.more /\ ~LastPage(s) /\ NextPage(s)
  BY <1>0, <1>5, NextPageInv DEF s
<1> QED
  BY <1>2, <1>3, <1>4, <1>5

\* A page is asked for again with the cursor it was asked for, or the scan fails.
LEMMA PageLostInv ==
  ASSUME ScanInv, PageLost
  PROVE  ScanInv'
<1>0. /\ pc \in {"page", "items"} /\ kind = "http" /\ fails' \in 0..MaxFails
      /\ UNCHANGED source /\ fails' = fails + 1
  BY DEF PageLost, ScanInv, TypeOK
<1>1. CASE Stopped
  <2>1. /\ acked' = acked \ {} /\ unsynced' = unsynced \ {}
        /\ UNCHANGED <<kind, rows, manifests, content>> /\ {} \in SUBSET unsynced
    BY <1>0 DEF source
  <2> QED
    BY <1>0, <1>1, <2>1, StoppedInv
<1>2. CASE /\ MayRetry /\ pc' = "page" /\ tries' = tries + 1
           /\ UNCHANGED <<cur, todo, handled, scan, seen>>
  <2>0. /\ kind' = kind /\ rows' = rows /\ manifests' = manifests /\ acked' = acked
        /\ unsynced' = unsynced /\ content' = content /\ cur' = cur /\ todo' = todo
        /\ handled' = handled /\ watch' = watch /\ listed' = listed /\ reported' = reported
        /\ got' = got /\ confirmed' = confirmed /\ scan' = scan
        /\ pc' = "page" /\ pc \in Listing
    BY <1>0, <1>2 DEF source, seen, Listing
  <2>1. TypeOK'
    BY <1>0, <1>2, <2>0 DEF MayRetry, ScanInv, TypeOK, Listing
  <2>2. SourceIsSound' /\ ReceiptsStay' /\ Owed' = Owed /\ Offered' = Offered
    BY <2>0, SourceKept, ReceiptsKept
  <2>3. WorkIsListed'
    BY <1>0, <2>0, <2>2 DEF ScanInv, WorkIsListed, Listing, Reading, Opening, Acking
  <2>4. ScanIsWatched' /\ Mentioned' = Mentioned /\ (Snapped' => Snapped)
    BY <2>0, <2>2 DEF ScanInv, ScanIsWatched, Mentioned, Snapped, Listing
  <2>5. PagesCover' /\ PagesAreFull' /\ ManifestsCover'
    BY <2>0, <2>4 DEF ScanInv, PagesCover, PagesAreFull, ManifestsCover
  <2> QED
    BY <2>1, <2>2, <2>3, <2>4, <2>5 DEF ScanInv
<1> QED
  BY <1>1, <1>2 DEF PageLost, Retry

\* A scan begins with nothing found.
LEMMA BeginScanInv ==
  ASSUME ScanInv, BeginScan
  PROVE  ScanInv'
<1>0. /\ kind' = kind /\ rows' = rows /\ manifests' = manifests /\ acked' = acked
      /\ unsynced' = unsynced /\ content' = content /\ cur' = cur /\ tries' = tries
      /\ todo' = todo /\ handled' = handled /\ got' = got /\ confirmed' = confirmed
      /\ fails' = fails /\ listed' = {} /\ reported' = {}
      /\ pc = "acks" /\ todo = {} /\ scan' = [Idle EXCEPT !.page = 1]
      /\ watch' = [on |-> TRUE, must |-> Owed, may |-> Owed]
      /\ pc' = IF kind = "http" THEN "page" ELSE "readdir"
  BY DEF BeginScan, source
<1>1. /\ scan'.page = 1 /\ scan'.after = 0 /\ scan'.items = {} /\ scan'.byId = {}
      /\ scan'.conflicts = {} /\ scan'.issues = {} /\ scan' \in Scans
  <2>1. 1 \in 0..MaxPages
    OBVIOUS
  <2> QED
    BY <1>0, <2>1 DEF Idle, Scans
<1>2. Owed \subseteq Flat /\ Owed \subseteq Offered
  BY OfferedTyped DEF Owed, ScanInv
<1>3. TypeOK'
  <2>1. watch' \in [on : BOOLEAN, must : SUBSET Flat, may : SUBSET Flat]
    BY <1>0, <1>2
  <2>2. pc' \in Listing \cup Reading
    BY <1>0 DEF Listing, Reading
  <2> QED
    BY <1>0, <1>1, <2>1, <2>2 DEF ScanInv, TypeOK
<1>4. SourceIsSound' /\ ReceiptsStay' /\ Owed' = Owed /\ Offered' = Offered
  BY <1>0, SourceKept, ReceiptsKept
<1>5. WorkIsListed'
  BY <1>0, <1>4 DEF ScanInv, TypeOK, WorkIsListed, Listing, Reading, Opening, Acking
<1>6. ScanIsWatched'
  BY <1>0, <1>1, <1>2, <1>4 DEF ScanIsWatched, Listing, Reading
<1>7. Mentioned' = {} /\ pc' \in {"page", "readdir"}
  BY <1>0, <1>1 DEF Mentioned
<1>8. PagesCover'
  <2>1. SUFFICES ASSUME pc' = "page"
                 PROVE  PagesCover'
    BY <1>7 DEF PagesCover, Listing
  <2>2. kind = "http"
    BY <1>0, <2>1
  <2>3. \A d \in Owed : \E i \in 1..Len(rows) : rows[i] = d /\ i > 0
    BY <2>2 DEF ScanInv, TypeOK, Owed, Offered, Range
  <2>4. ~Snapped'
    BY <1>1, <2>1 DEF Snapped
  <2> QED
    BY <1>0, <1>1, <1>7, <2>1, <2>3, <2>4 DEF PagesCover
<1>9. PagesAreFull'
  <2>1. Cardinality({}) = 0 /\ (1 - 1) * PageSize = 0
    BY FS_EmptySet
  <2>2. pc' = "page" => ~Snapped'
    BY <1>1 DEF Snapped
  <2> QED
    BY <1>1, <1>7, <2>1, <2>2 DEF PagesAreFull, Listing
<1>10. ManifestsCover'
  BY <1>0, <1>7 DEF ManifestsCover
<1> QED
  BY <1>3, <1>4, <1>5, <1>6, <1>8, <1>9, <1>10 DEF ScanInv

\* The names of the manifests are read once, before any manifest.
LEMMA ReadDirectoryInv ==
  ASSUME ScanInv, ReadDirectory
  PROVE  ScanInv'
<1>0. /\ kind' = kind /\ rows' = rows /\ manifests' = manifests /\ acked' = acked
      /\ unsynced' = unsynced /\ content' = content /\ cur' = cur /\ tries' = tries
      /\ todo' = todo /\ handled' = handled /\ watch' = watch /\ listed' = listed
      /\ reported' = reported /\ got' = got /\ confirmed' = confirmed /\ fails' = fails
      /\ pc = "readdir" /\ pc' = "manifest" /\ scan' = [scan EXCEPT !.paths = manifests]
  BY DEF ReadDirectory, source, seen
<1>1. kind = "inbox" /\ watch.on /\ scan = [Idle EXCEPT !.page = 1]
  BY <1>0 DEF ScanInv, WorkIsListed, ScanIsWatched, ManifestsCover, Listing, Reading
<1>2. /\ scan'.paths = manifests /\ scan'.byId = {} /\ scan'.conflicts = {}
      /\ scan'.issues = {} /\ scan' \in Scans
  <2>1. scan \in Scans /\ manifests \in SUBSET (Flat \X {1, 2})
    BY DEF ScanInv, TypeOK
  <2>2. scan.byId = {} /\ scan.conflicts = {} /\ scan.issues = {}
    BY <1>1 DEF Idle
  <2> QED
    BY <1>0, <2>1, <2>2 DEF Scans
<1>3. TypeOK'
  BY <1>0, <1>2 DEF ScanInv, TypeOK, Reading
<1>4. SourceIsSound' /\ ReceiptsStay' /\ Owed' = Owed /\ Offered' = Offered
  BY <1>0, SourceKept, ReceiptsKept
<1>5. WorkIsListed'
  BY <1>0, <1>1, <1>4 DEF ScanInv, WorkIsListed, Listing, Reading, Opening, Acking
<1>6. ScanIsWatched' /\ Mentioned' = {}
  BY <1>0, <1>1, <1>2, <1>4 DEF ScanInv, ScanIsWatched, Mentioned, Listing, Reading
<1>7. PagesCover' /\ PagesAreFull'
  BY <1>0 DEF PagesCover, PagesAreFull, Listing
<1>8. ManifestsCover'
  <2>1. ASSUME NEW d \in watch.must
        PROVE  \E k \in {1, 2} : <<d, k>> \in manifests
    <3>1. d \in Offered
      BY <1>1 DEF ScanInv, ScanIsWatched, Owed
    <3>2. PICK f \in manifests : d = f[1]
      BY <1>1, <3>1 DEF Offered
    <3>3. f \in Flat \X {1, 2}
      BY DEF ScanInv, TypeOK
    <3> QED
      BY <3>2, <3>3
  <2> QED
    BY <1>0, <1>2, <1>6, <2>1 DEF ManifestsCover
<1> QED
  BY <1>3, <1>4, <1>5, <1>6, <1>7, <1>8 DEF ScanInv

\* A manifest that is read is mentioned, unless its delivery has a marker.
LEMMA ReadManifestInv ==
  ASSUME ScanInv, NEW f \in scan.paths, ReadManifest(f)
  PROVE  ScanInv'
<1> DEFINE d == f[1]
           rest == [scan EXCEPT !.paths = scan.paths \ {f}]
           valid == {e \in {d} : ValidMetadata(e)}
           again == valid \cap scan.byId
<1>0. /\ kind' = kind /\ rows' = rows /\ manifests' = manifests /\ acked' = acked
      /\ unsynced' = unsynced /\ content' = content /\ cur' = cur /\ tries' = tries
      /\ todo' = todo /\ handled' = handled /\ watch' = watch /\ listed' = listed
      /\ reported' = reported /\ got' = got /\ confirmed' = confirmed /\ fails' = fails
      /\ pc = "manifest" /\ pc' = pc
      /\ scan' = IF ValidMetadata(d) /\ HasMarker(d) THEN rest ELSE Collected(rest, {d})
  BY DEF ReadManifest, source, seen
<1>1. kind = "inbox" /\ watch.on
  BY <1>0 DEF ScanInv, WorkIsListed, ScanIsWatched, Listing, Reading
<1>2. scan \in Scans /\ manifests \subseteq Flat \X {1, 2} /\ scan.paths \subseteq manifests
  BY <1>0 DEF ScanInv, TypeOK, ManifestsCover
<1>3. f \in manifests /\ d \in Flat /\ f[2] \in {1, 2} /\ f = <<d, f[2]>>
  BY <1>2
<1>4. d \in Offered /\ (d \notin acked => d \in watch.may)
  BY <1>1, <1>3 DEF ScanInv, ScanIsWatched, Owed, Offered
<1> HIDE DEF d
<1>5. again # {} => d \in Twice
  <2>1. SUFFICES ASSUME d \in scan.byId PROVE d \in Twice
    OBVIOUS
  <2>2. PICK k \in {1, 2} : <<d, k>> \in manifests \ scan.paths
    BY <1>0, <2>1 DEF ScanInv, ManifestsCover
  <2>3. k # f[2]
    BY <1>3, <2>2
  <2>4. <<d, 2>> \in manifests
    BY <1>3, <2>2, <2>3
  <2> QED
    BY <1>3, <2>4 DEF ScanInv, SourceIsSound
<1>6. /\ rest \in Scans /\ rest.paths = scan.paths \ {f} /\ rest.byId = scan.byId
      /\ rest.conflicts = scan.conflicts /\ rest.issues = scan.issues
  BY <1>2 DEF Scans
<1> HIDE DEF rest
<1>7. /\ scan' \in Scans /\ scan'.paths = scan.paths \ {f}
      /\ scan.byId \subseteq scan'.byId /\ scan.issues \subseteq scan'.issues
      /\ scan'.byId \subseteq scan.byId \cup {d}
      /\ scan'.byId \subseteq watch.may
      /\ scan'.conflicts \subseteq scan'.issues
      /\ scan'.issues \subseteq Refused \cap (watch.may \cup acked)
      /\ d \in acked \/ d \in Mentioned'
  <2>0. /\ scan.byId \subseteq watch.may /\ scan.conflicts \subseteq scan.issues
        /\ scan.issues \subseteq Refused \cap (watch.may \cup acked)
    BY DEF ScanInv, ScanIsWatched
  <2>1. CASE ValidMetadata(d) /\ HasMarker(d)
    BY <1>0, <1>6, <2>0, <2>1 DEF HasMarker
  <2>2. CASE ~(ValidMetadata(d) /\ HasMarker(d))
    <3> DEFINE issues == scan.issues \cup ({d} \ valid) \cup again
               conflicts == scan.conflicts \cup again
               byId == scan.byId \cup valid
    <3>1. scan' = [rest EXCEPT !.issues = issues, !.conflicts = conflicts, !.byId = byId]
      BY <1>0, <1>6, <2>2 DEF Collected
    <3>2. valid \subseteq {d} /\ {d} \ valid \subseteq Oversized /\ again \subseteq valid
      BY DEF ValidMetadata
    <3>3. valid # {} => d \notin acked
      BY <2>2 DEF HasMarker
    <3> HIDE DEF valid
    <3>4. byId \subseteq watch.may /\ scan.byId \subseteq byId /\ byId \subseteq scan.byId \cup {d}
      BY <1>4, <2>0, <3>2, <3>3
    <3>5. conflicts \subseteq issues /\ scan.issues \subseteq issues
      BY <2>0
    <3>6. issues \subseteq Refused \cap (watch.may \cup acked)
      BY <1>4, <1>5, <2>0, <3>2 DEF Refused
    <3>7. d \in byId \cup issues
      BY <3>2
    <3>8. byId \in SUBSET Flat /\ conflicts \in SUBSET Flat /\ issues \in SUBSET Flat
      BY <3>4, <3>5, <3>6, <1>3, <1>2 DEF Refused, Scans
    <3> HIDE DEF issues, conflicts, byId
    <3>9. scan'.issues = issues /\ scan'.conflicts = conflicts /\ scan'.byId = byId
      BY <1>6, <3>1 DEF Scans
    <3>10. scan' \in Scans
      BY <1>6, <3>1, <3>8 DEF Scans
    <3>11. scan'.paths = scan.paths \ {f}
      BY <1>6, <3>1 DEF Scans
    <3> QED
      BY <3>4, <3>5, <3>6, <3>7, <3>9, <3>10, <3>11 DEF Mentioned
  <2> QED
    BY <2>1, <2>2
<1> HIDE DEF again, valid
<1>8. TypeOK'
  BY <1>0, <1>7 DEF ScanInv, TypeOK
<1>9. SourceIsSound' /\ ReceiptsStay' /\ Owed' = Owed /\ Offered' = Offered
  BY <1>0, SourceKept, ReceiptsKept
<1>10. WorkIsListed'
  BY <1>0, <1>9 DEF ScanInv, WorkIsListed, Listing, Reading, Opening, Acking
<1>11. ScanIsWatched'
  BY <1>0, <1>1, <1>7, <1>9 DEF ScanInv, ScanIsWatched, Reading
<1>12. PagesCover' /\ PagesAreFull'
  BY <1>0 DEF PagesCover, PagesAreFull, Listing
<1>13. ManifestsCover'
  <2>1. ASSUME NEW e \in watch.must, e \notin Mentioned'
        PROVE  \E k \in {1, 2} : <<e, k>> \in scan.paths \ {f}
    <3>1. e \notin Mentioned
      BY <1>7, <2>1 DEF Mentioned
    <3>2. PICK k \in {1, 2} : <<e, k>> \in scan.paths
      BY <1>0, <2>1, <3>1 DEF ScanInv, ManifestsCover
    <3>3. e \notin acked
      BY <1>1, <2>1 DEF ScanInv, ScanIsWatched, Owed
    <3>4. <<e, k>> # f
      BY <1>3, <1>7, <2>1, <3>3
    <3> QED
      BY <3>2, <3>4
  <2>2. ASSUME NEW e \in scan'.byId
        PROVE  \E k \in {1, 2} : <<e, k>> \in manifests \ (scan.paths \ {f})
    <3>1. CASE e \in scan.byId
      BY <1>0, <3>1 DEF ScanInv, ManifestsCover
    <3>2. CASE e = d
      BY <1>3, <3>2
    <3> QED
      BY <1>7, <2>2, <3>1, <3>2
  <2> QED
    BY <1>0, <1>2, <1>7, <2>1, <2>2 DEF ManifestsCover
<1> QED
  BY <1>8, <1>9, <1>10, <1>11, <1>12, <1>13 DEF ScanInv

\* All manifests are read.
LEMMA ManifestsReadInv ==
  ASSUME ScanInv, ManifestsRead
  PROVE  ScanInv'
<1>1. pc = "manifest" /\ UNCHANGED <<source, fails>> /\ EndOfScan(scan)
  BY DEF ManifestsRead
<1>2. scan.byId \subseteq watch.may /\ scan.byId \subseteq Flat /\ scan.issues \subseteq Flat
  BY DEF ScanInv, TypeOK, Scans, ScanIsWatched
<1>3. pc \in Listing \cup Reading
  BY <1>1 DEF Reading
<1> QED
  BY <1>1, <1>2, <1>3, EndOfScanInv, Zenon

\* A step that changes nothing.
LEMMA StutterInv ==
  ASSUME ScanInv, UNCHANGED vars
  PROVE  ScanInv'
<1>0. /\ kind' = kind /\ rows' = rows /\ manifests' = manifests /\ acked' = acked
      /\ unsynced' = unsynced /\ content' = content /\ cur' = cur /\ tries' = tries
      /\ todo' = todo /\ handled' = handled /\ watch' = watch /\ listed' = listed
      /\ reported' = reported /\ got' = got /\ confirmed' = confirmed /\ fails' = fails
      /\ pc' = pc /\ scan' = scan
  BY DEF vars, source, seen
<1>1. SourceIsSound' /\ ReceiptsStay' /\ Owed' = Owed /\ Offered' = Offered
  BY <1>0, SourceKept, ReceiptsKept
<1>2. TypeOK' /\ WorkIsListed'
  BY <1>0, <1>1 DEF ScanInv, TypeOK, WorkIsListed
<1>3. ScanIsWatched' /\ Mentioned' = Mentioned /\ Paged' = Paged /\ Snapped' = Snapped
  BY <1>0, <1>1 DEF ScanInv, ScanIsWatched, Mentioned, Paged, Snapped
<1>4. PagesCover' /\ PagesAreFull' /\ ManifestsCover'
  BY <1>0, <1>3 DEF ScanInv, PagesCover, PagesAreFull, ManifestsCover
<1> QED
  BY <1>1, <1>2, <1>3, <1>4 DEF ScanInv

\* Every step of either source, of the receiver and of the others keeps ScanInv.
LEMMA StepKeeps == ScanInv /\ [Next]_vars => ScanInv'
<1> SUFFICES ASSUME ScanInv, [Next]_vars PROVE ScanInv'
  OBVIOUS
<1>1. CASE UNCHANGED vars
  BY <1>1, StutterInv
<1>2. CASE Receiver
  <2>1. CASE \/ ListSnapshot \/ ListContinue \/ ListSelect \/ Begin \/ BeginScan
             \/ ReadPage \/ ReadDirectory \/ ManifestsRead
    BY <2>1, ListSnapshotInv, ListContinueInv, ListSelectInv, BeginInv, BeginScanInv,
       ReadPageInv, ReadDirectoryInv, ManifestsReadInv, Zenon
  <2>2. CASE Finish \/ OpenPayload \/ OpenFile \/ OpenMissing \/ ReadPayload
    BY <2>2, FinishInv, OpenPayloadInv, OpenFileInv, OpenMissingInv, ReadPayloadInv, Zenon
  <2>3. CASE \/ AckCommit \/ AckCollect(FALSE) \/ AckAnswer
             \/ AckReadMarker \/ AckPersist \/ AckSync
    BY <2>3, AckCommitInv, AckCollectInv, AckAnswerInv, AckReadMarkerInv, AckPersistInv,
       AckSyncInv
  <2>4. ASSUME NEW d \in todo, Reconcile(d) \/ NextFile(d) PROVE ScanInv'
    BY <2>4, ReconcileInv, NextFileInv, Zenon
  <2>5. ASSUME NEW f \in scan.paths, ReadManifest(f) PROVE ScanInv'
    BY <2>5, ReadManifestInv, Zenon
  <2> QED
    BY <1>2, <2>1, <2>2, <2>3, <2>4, <2>5, Zenon DEF Receiver
<1>3. CASE Environment
  <2>1. ASSUME NEW d \in Flat \cup Versions, RelayEnqueue(d) PROVE ScanInv'
    BY <2>1, RelayEnqueueInv, Zenon
  <2>2. ASSUME NEW d \in Flat, NEW kept \in BOOLEAN, OtherAcknowledges(d, kept)
        PROVE  ScanInv'
    BY <2>2, OtherAcknowledgesInv, Zenon
  <2>3. ASSUME NEW d \in Flat, EnqueuePayload(d) \/ EnqueueManifest(d) \/ CopyManifest(d)
        PROVE  ScanInv'
    BY <2>3, EnqueuePayloadInv, ManifestInv, Zenon
  <2> QED
    BY <1>3, <2>1, <2>2, <2>3, OtherSyncsInv, Zenon DEF Environment
<1>4. CASE Fault
  <2>1. CASE PageLost \/ PageCutShort \/ OpenLost \/ BodyLost \/ AckLost \/ AckCollect(TRUE)
    BY <2>1, PageLostInv, PageCutShortInv, OpenLostInv, BodyLostInv, AckLostInv,
       AckCollectInv
  <2>2. ASSUME NEW lost \in SUBSET unsynced, Crash(lost) PROVE ScanInv'
    BY <2>2, CrashInv, Zenon
  <2> QED
    BY <1>4, <2>1, <2>2, Zenon DEF Fault
<1> QED
  BY <1>1, <1>2, <1>3, <1>4 DEF Next

\* The invariant holds in every state a receiver and its source can reach.
THEOREM ScanInvariance == Spec => []ScanInv
BY InitEstablishes, StepKeeps, PTL DEF Spec

\* Type correctness of the sources and of the receiver's scan.
THEOREM ScanTyped == Spec => []TypeOK
<1>1. ScanInv => TypeOK
  BY DEF ScanInv
<1> QED
  BY <1>1, ScanInvariance, PTL

\* MAX_PAGES_PER_SCAN full pages, and one delivery more, were owed at the snapshot
\* of a scan that scan_pending stops at its page limit.
THEOREM ScanFits == Spec => []ScanFitsBacklog
<1>1. ScanInv => ScanFitsBacklog
  <2> SUFFICES ASSUME ScanInv, pc = "items", scan.more, LastPage(scan)
               PROVE  Cardinality(scan.backlog) > PageSize * MaxPages
    BY DEF ScanFitsBacklog
  <2> DEFINE found == Mentioned \cup Paged
  <2>1. pc \in Listing /\ Snapped /\ scan.page = MaxPages
    BY DEF Listing, Snapped, LastPage
  <2>2. /\ IsFiniteSet(Mentioned) /\ IsFiniteSet(Paged) /\ Paged \cap Mentioned = {}
        /\ Cardinality(Paged) = PageSize
    <3>1. Cardinality(scan.items) = PageSize
      BY <2>1 DEF ScanInv, PagesAreFull
    <3> QED
      BY <3>1, PageIsNew
  <2>3. Cardinality(Mentioned) = (MaxPages - 1) * PageSize
    BY <2>1 DEF ScanInv, PagesAreFull
  <2>4. IsFiniteSet(found) /\ Cardinality(found) = Cardinality(Mentioned) + PageSize
    <3>1. /\ IsFiniteSet(found)
          /\ Cardinality(found) = Cardinality(Mentioned) + Cardinality(Paged)
                                  - Cardinality(Mentioned \cap Paged)
      BY <2>2, FS_Union
    <3>2. Cardinality(Mentioned \cap Paged) = 0
      BY <2>2, FS_EmptySet
    <3>3. Cardinality(Mentioned) \in Nat /\ Cardinality(Paged) = PageSize
      BY <2>2, FS_CardinalityType
    <3> QED
      BY <3>1, <3>2, <3>3
  <2>5. Cardinality(found) = PageSize * MaxPages
    <3>1. \A m, n \in Int : (m - 1) * n + n = n * m
      OBVIOUS
    <3>2. (MaxPages - 1) * PageSize + PageSize = PageSize * MaxPages
      BY <3>1
    <3> QED
      BY <2>3, <2>4, <3>2
  <2>6. /\ IsFiniteSet(scan.backlog) /\ found \subseteq scan.backlog
        /\ scan.backlog \ found # {}
    BY <2>1 DEF ScanInv, PagesAreFull
  <2> HIDE DEF found
  <2>7. found # scan.backlog
    BY <2>6
  <2>8. /\ Cardinality(found) <= Cardinality(scan.backlog)
        /\ Cardinality(found) = Cardinality(scan.backlog) => found = scan.backlog
    BY <2>6, FS_Subset
  <2>9. Cardinality(found) \in Nat /\ Cardinality(scan.backlog) \in Nat
    BY <2>4, <2>6, FS_CardinalityType
  <2>10. Cardinality(found) < Cardinality(scan.backlog)
    BY <2>7, <2>8, <2>9
  <2> QED
    BY <2>5, <2>9, <2>10
<1> QED
  BY <1>1, ScanInvariance, PTL

-----------------------------------------------------------------------------
(* Each step is one of DeliverySource, or none *)

\* Being watched once more, with nothing new, changes nothing.
LEMMA WatchedAgain ==
  ASSUME ScanInv
  PROVE  Abstract!Watched(watch, Owed) = watch
<1>1. CASE watch.on
  <2>1. watch \in [on : BOOLEAN, must : SUBSET Flat, may : SUBSET Flat]
    BY DEF ScanInv, TypeOK
  <2>2. watch.must \cap Owed = watch.must /\ watch.may \cup Owed = watch.may
    BY <1>1 DEF ScanInv, ScanIsWatched
  <2> QED
    BY <1>1, <2>1, <2>2 DEF Abstract!Watched
<1>2. CASE ~watch.on
  BY <1>2 DEF Abstract!Watched
<1> QED
  BY <1>1, <1>2

\* A step that neither the source's offers nor the receiver's view show.
LEMMA Unseen ==
  ASSUME Owed' = Owed, acked' = acked, UNCHANGED seen
  PROVE  UNCHANGED Abstract!vars
BY DEF seen, Abstract!vars

\* Requests, pages that are not the last one, manifests, and failures that are
\* retried or handed on without ending the run.
LEMMA QuietSteps ==
  ASSUME \/ Begin \/ ListSnapshot \/ ListContinue \/ ListSelect \/ ReadDirectory
         \/ OpenPayload \/ OpenFile \/ OpenMissing \/ OpenLost \/ BodyLost \/ AckLost
         \/ AckReadMarker
         \/ \E keeps \in BOOLEAN : AckCollect(keeps)
         \/ \E d \in todo : Reconcile(d) \/ NextFile(d)
         \/ \E f \in scan.paths : ReadManifest(f)
         \/ UNCHANGED vars
  PROVE  UNCHANGED Abstract!vars
<1> SUFFICES UNCHANGED <<kind, rows, manifests, acked, seen>>
  BY Unseen DEF Owed, Offered
<1>1. CASE Begin \/ ListSnapshot \/ ListContinue \/ ListSelect \/ ReadDirectory
  <2>1. UNCHANGED <<source, seen>>
    BY <1>1, Zenon DEF Begin, ListSnapshot, ListContinue, ListSelect, ReadDirectory
  <2> QED
    BY <2>1 DEF source
<1>2. CASE OpenPayload \/ OpenFile \/ AckReadMarker
  BY <1>2 DEF OpenPayload, OpenFile, AckReadMarker, source
<1>3. CASE OpenMissing \/ OpenLost \/ BodyLost \/ AckLost
  BY <1>3 DEF OpenMissing, OpenLost, BodyLost, AckLost, Retry, source
<1>4. CASE \E keeps \in BOOLEAN : AckCollect(keeps)
  BY <1>4 DEF AckCollect
<1>5. CASE \E d \in todo : Reconcile(d) \/ NextFile(d)
  BY <1>5 DEF Reconcile, NextFile, source
<1>6. CASE \E f \in scan.paths : ReadManifest(f)
  BY <1>6 DEF ReadManifest, source
<1>7. CASE UNCHANGED vars
  BY <1>7 DEF vars, source
<1> QED
  BY <1>1, <1>2, <1>3, <1>4, <1>5, <1>6, <1>7

\* A delivery that arrives is offered; a directory version is not.
LEMMA EnqueueOffers ==
  ASSUME ScanInv, NEW d \in Flat \cup Versions, RelayEnqueue(d)
  PROVE  (d \in Flat /\ Abstract!Offer(d)) \/ UNCHANGED Abstract!vars
<1>0. /\ kind = "http" /\ d \notin Range(rows) /\ rows' = Append(rows, d) /\ kind' = kind
      /\ acked' = acked /\ listed' = listed /\ reported' = reported /\ got' = got
      /\ confirmed' = confirmed /\ watch' = Abstract!Watched(watch, Owed')
  BY DEF RelayEnqueue, Elsewhere
<1>1. Range(rows') = Range(rows) \cup {d}
  <2>1. rows \in Seq(Flat \cup Versions)
    BY DEF ScanInv, TypeOK
  <2>2. /\ Len(rows') = Len(rows) + 1 /\ rows'[Len(rows) + 1] = d
        /\ \A i \in 1..Len(rows) : rows'[i] = rows[i]
    BY <1>0, <2>1
  <2>3. /\ DOMAIN rows = 1..Len(rows) /\ DOMAIN rows' = 1..Len(rows')
        /\ Len(rows) \in Nat
    BY <1>0, <2>1
  <2> QED
    BY <2>2, <2>3 DEF Range
<1>2. d \notin Offered /\ d \notin Owed /\ d \notin acked
  BY <1>0 DEF ScanInv, SourceIsSound, Offered, Owed
<1>3. CASE d \in Flat
  <2>1. Owed' = Owed \cup {d}
    BY <1>0, <1>1, <1>2, <1>3 DEF Owed, Offered
  <2> QED
    BY <1>0, <1>2, <1>3, <2>1 DEF Abstract!Offer
<1>4. CASE d \notin Flat
  <2>1. Owed' = Owed
    BY <1>0, <1>1, <1>4 DEF Owed, Offered
  <2>2. watch' = watch
    BY <1>0, <2>1, WatchedAgain
  <2> QED
    BY <1>0, <2>1, <2>2, Unseen DEF seen
<1> QED
  BY <1>3, <1>4

\* The first manifest of a delivery offers it; a copy, or a payload without a
\* manifest, does not.
LEMMA ManifestOffers ==
  ASSUME ScanInv, NEW d \in Flat, EnqueuePayload(d) \/ EnqueueManifest(d) \/ CopyManifest(d)
  PROVE  Abstract!Offer(d) \/ UNCHANGED Abstract!vars
<1>0. /\ kind = "inbox" /\ kind' = kind /\ rows' = rows
      /\ acked' = acked /\ listed' = listed /\ reported' = reported /\ got' = got
      /\ confirmed' = confirmed /\ watch' = Abstract!Watched(watch, Owed')
  BY DEF EnqueuePayload, EnqueueManifest, CopyManifest, Elsewhere
<1>1. Offered = {f[1] : f \in manifests} /\ Offered' = {f[1] : f \in manifests'}
  BY <1>0 DEF Offered
<1>2. CASE EnqueueManifest(d)
  <2>1. manifests' = manifests \cup {<<d, 1>>} /\ <<d, 1>> \notin manifests
    BY <1>2 DEF EnqueueManifest
  <2>2. d \notin Offered
    <3>1. SUFFICES ASSUME NEW f \in manifests, d = f[1] PROVE FALSE
      BY <1>1
    <3>2. f = <<d, 1>> \/ f = <<d, 2>>
      BY <3>1 DEF ScanInv, TypeOK
    <3> QED
      BY <2>1, <3>2 DEF ScanInv, SourceIsSound
  <2>3. Offered' = Offered \cup {d}
    BY <1>1, <2>1
  <2>4. d \notin acked
    BY <2>2 DEF ScanInv, SourceIsSound
  <2>5. Owed' = Owed \cup {d} /\ d \notin Owed
    BY <1>0, <2>2, <2>3, <2>4 DEF Owed
  <2> QED
    BY <1>0, <2>4, <2>5 DEF Abstract!Offer
<1>3. CASE EnqueuePayload(d) \/ CopyManifest(d)
  <2>1. Offered' = Offered
    <3>1. CASE EnqueuePayload(d)
      BY <1>1, <3>1 DEF EnqueuePayload
    <3>2. CASE CopyManifest(d)
      <4>1. manifests' = manifests \cup {<<d, 2>>} /\ <<d, 1>> \in manifests
        BY <3>2 DEF CopyManifest
      <4> QED
        BY <1>1, <4>1
    <3> QED
      BY <1>3, <3>1, <3>2
  <2>2. Owed' = Owed
    BY <1>0, <2>1 DEF Owed
  <2>3. watch' = watch
    BY <1>0, <2>2, WatchedAgain
  <2> QED
    BY <1>0, <2>2, <2>3, Unseen DEF seen
<1> QED
  BY <1>2, <1>3

\* Whoever acknowledges a delivery takes it off what is owed, once.
LEMMA ReceiptAcknowledges ==
  ASSUME ScanInv, NEW d \in Offered, acked' = acked \cup {d},
         UNCHANGED <<kind, rows, manifests, listed, reported, got, confirmed>>,
         watch' = Abstract!Watched(watch, Owed')
  PROVE  Abstract!Acknowledge(d) \/ UNCHANGED Abstract!vars
<1>1. Offered' = Offered /\ Owed' = Owed \ {d}
  BY DEF Owed, Offered
<1>2. CASE d \in acked
  <2>1. acked' = acked /\ Owed' = Owed
    BY <1>1, <1>2 DEF Owed
  <2>2. watch' = watch
    BY <2>1, WatchedAgain
  <2> QED
    BY <2>1, <2>2, Unseen DEF seen
<1>3. CASE d \notin acked
  <2>1. d \in Owed
    BY <1>3 DEF Owed
  <2> QED
    BY <1>1, <2>1 DEF Abstract!Acknowledge
<1> QED
  BY <1>2, <1>3

\* The sync of the inbox by another receiver shows nothing.
LEMMA OtherSyncsUnseen ==
  ASSUME ScanInv, OtherSyncs
  PROVE  UNCHANGED Abstract!vars
<1>1. Owed' = Owed
  BY DEF OtherSyncs, Elsewhere, Owed, Offered
<1>2. watch' = watch
  BY <1>1, WatchedAgain DEF OtherSyncs, Elsewhere
<1> QED
  BY <1>1, <1>2, Unseen DEF OtherSyncs, Elsewhere, seen

\* A run that stops gives its scan up; with the power, receipts that nobody was
\* told of may be undone.
LEMMA StopAbandons ==
  ASSUME ScanInv, Stopped, NEW U \in SUBSET unsynced, acked' = acked \ U,
         UNCHANGED <<kind, rows, manifests>>
  PROVE  U \in SUBSET Flat /\ Abstract!Abandon(U)
<1>1. U \subseteq acked \ confirmed /\ U \subseteq Offered /\ U \subseteq Flat
  BY DEF ScanInv, TypeOK, SourceIsSound, ReceiptsStay
<1>2. Offered' = Offered /\ Owed' = Owed \cup U
  BY <1>1 DEF Owed, Offered
<1>3. /\ watch' = Abstract!NoScan /\ listed' = {} /\ reported' = {}
      /\ got' = got /\ confirmed' = confirmed
  BY DEF Stopped
<1> QED
  BY <1>1, <1>2, <1>3 DEF Abstract!Abandon

\* The end of a scan, once it has mentioned what it must.
LEMMA ScanEnds ==
  ASSUME ScanInv, watch.on, UNCHANGED source, NEW s, EndOfScan(s),
         watch.must \subseteq s.byId \cup s.issues, s.conflicts \subseteq s.issues,
         s.byId \subseteq watch.may,
         s.issues \subseteq Refused \cap (watch.may \cup acked)
  PROVE  \E S, R \in SUBSET Flat : Abstract!EndScan(S, R)
<1> DEFINE S == s.byId \ s.conflicts
           R == s.issues
<1>1. S \in SUBSET Flat /\ R \in SUBSET Flat
  BY DEF ScanInv, TypeOK, Refused
<1>2. watch.must \subseteq S \cup R /\ S \subseteq watch.may
  OBVIOUS
<1>3. /\ watch' = Abstract!NoScan /\ listed' = S /\ reported' = R /\ Owed' = Owed
      /\ acked' = acked /\ got' = got /\ confirmed' = confirmed
  BY DEF EndOfScan, source, Owed, Offered
<1> HIDE DEF S
<1>4. Abstract!EndScan(S, R)
  BY <1>2, <1>3 DEF Abstract!EndScan
<1> QED
  BY <1>1, <1>4

\* The last page, or the last manifest, ends the scan; the page limit gives it up.
LEMMA ScanStepsRefine ==
  ASSUME ScanInv, ReadPage \/ ManifestsRead
  PROVE  \/ \E S, R \in SUBSET Flat : Abstract!EndScan(S, R)
         \/ Abstract!Abandon({})
         \/ UNCHANGED Abstract!vars
<1>1. CASE ReadPage
  <2> DEFINE s == Collected(scan, Paged)
  <2>1. pc = "items" /\ pc \in Listing /\ watch.on /\ UNCHANGED <<source, fails>>
    BY <1>1 DEF ReadPage, ScanInv, ScanIsWatched, Listing
  <2>2. /\ s.more = scan.more
        /\ s.byId \cup s.issues = Mentioned \cup Paged
        /\ s.conflicts = {} /\ s.byId \subseteq watch.may
        /\ s.issues \subseteq Refused \cap (watch.may \cup acked)
    BY <2>1, PageIsCollected, Zenon
  <2>3. \/ ~s.more /\ EndOfScan(s)
        \/ Stopped
        \/ NextPage(s)
    BY <1>1 DEF ReadPage, Paged
  <2> HIDE DEF s
  <2>4. CASE ~s.more /\ EndOfScan(s)
    <3>1. ASSUME NEW d \in watch.must PROVE d \in Mentioned \cup Paged
      <4>1. SUFFICES ASSUME d \notin Mentioned PROVE d \in Paged
        OBVIOUS
      <4>2. PICK i \in 1..Len(rows) : rows[i] = d /\ i \in scan.items
        BY <2>1, <2>2, <2>4, <3>1, <4>1 DEF ScanInv, PagesCover
      <4> QED
        BY <4>2 DEF Paged
    <3>2. watch.must \subseteq s.byId \cup s.issues /\ s.conflicts \subseteq s.issues
      BY <2>2, <3>1
    <3> QED
      BY <2>1, <2>2, <2>4, <3>2, ScanEnds, Zenon
  <2>5. CASE Stopped
    <3>1. acked' = acked \ {} /\ UNCHANGED <<kind, rows, manifests>>
      BY <2>1 DEF source
    <3> QED
      BY <2>5, <3>1, StopAbandons
  <2>6. CASE NextPage(s)
    <3>1. Owed' = Owed /\ acked' = acked
      BY <2>1 DEF source, Owed, Offered
    <3> QED
      BY <2>6, <3>1, Unseen DEF NextPage
  <2> QED
    BY <2>3, <2>4, <2>5, <2>6
<1>2. CASE ManifestsRead
  <2>1. pc = "manifest" /\ scan.paths = {} /\ EndOfScan(scan) /\ UNCHANGED source
    BY <1>2 DEF ManifestsRead
  <2>2. watch.on
    BY <2>1 DEF ScanInv, ScanIsWatched, Reading
  <2>3. watch.must \subseteq Mentioned
    BY <2>1 DEF ScanInv, ManifestsCover
  <2>4. watch.must \subseteq scan.byId \cup scan.issues
    BY <2>3 DEF Mentioned
  <2>5. /\ scan.conflicts \subseteq scan.issues /\ scan.byId \subseteq watch.may
        /\ scan.issues \subseteq Refused \cap (watch.may \cup acked)
    BY DEF ScanInv, ScanIsWatched
  <2> QED
    BY <2>1, <2>2, <2>4, <2>5, ScanEnds, Zenon
<1> QED
  BY <1>1, <1>2

\* A scan begins; a payload is received; a receipt is told.
LEMMA ReceiverStepsRefine ==
  ASSUME ScanInv
  PROVE  /\ BeginScan => Abstract!BeginScan
         /\ ReadPayload => cur \in Flat /\ Abstract!ReadPayload(cur)
         /\ AckAnswer \/ AckSync => cur \in Flat /\ Abstract!Confirm(cur)
<1>1. ASSUME BeginScan PROVE Abstract!BeginScan
  BY <1>1 DEF BeginScan, Abstract!BeginScan, Owed, Offered, source
<1>2. ASSUME ReadPayload PROVE cur \in Flat /\ Abstract!ReadPayload(cur)
  <2>1. cur \in listed \ got /\ listed \subseteq Flat
    BY <1>2 DEF ReadPayload, ScanInv, TypeOK, WorkIsListed, Opening
  <2> QED
    BY <1>2, <2>1 DEF ReadPayload, Abstract!ReadPayload, Owed, Offered, source
<1>3. ASSUME AckAnswer \/ AckSync PROVE cur \in Flat /\ Abstract!Confirm(cur)
  <2>1. cur \in got \cap acked /\ got \subseteq Flat
    BY <1>3 DEF AckAnswer, AckSync, ScanInv, TypeOK, WorkIsListed, Acking
  <2>2. /\ confirmed' = confirmed \cup {cur} /\ Owed' = Owed
        /\ UNCHANGED <<acked, watch, listed, reported, got>>
    BY <1>3 DEF AckAnswer, AckSync, Owed, Offered, source
  <2> QED
    BY <2>1, <2>2 DEF Abstract!Confirm
<1> QED
  BY <1>1, <1>2, <1>3

\* A lost page is asked for again, or the run stops.
LEMMA PageLostRefines ==
  ASSUME ScanInv, PageLost \/ PageCutShort \/ Finish
  PROVE  Abstract!Abandon({}) \/ UNCHANGED Abstract!vars
<1>1. UNCHANGED source /\ (Stopped \/ UNCHANGED seen)
  BY DEF PageLost, PageCutShort, Finish, Retry
<1>2. acked' = acked \ {} /\ acked' = acked /\ Owed' = Owed
      /\ UNCHANGED <<kind, rows, manifests>>
  BY <1>1 DEF source, Owed, Offered
<1>3. CASE Stopped
  BY <1>2, <1>3, StopAbandons
<1>4. CASE UNCHANGED seen
  BY <1>2, <1>4, Unseen
<1> QED
  BY <1>1, <1>3, <1>4

\* Every step of PendingScan is one of DeliverySource, or stutters.
LEMMA StepRefines ==
  ASSUME ScanInv, [Next]_vars
  PROVE  [Abstract!Next]_(Abstract!vars)
<1>1. ASSUME NEW d \in Flat,
             \/ Abstract!Offer(d) \/ Abstract!Acknowledge(d)
             \/ Abstract!ReadPayload(d) \/ Abstract!Confirm(d)
      PROVE  Abstract!Next
  BY <1>1, Zenon DEF Abstract!Next
<1>2. ASSUME NEW U \in SUBSET Flat, Abstract!Abandon(U) PROVE Abstract!Next
  BY <1>2, Zenon DEF Abstract!Next
<1>3. ASSUME \E S, R \in SUBSET Flat : Abstract!EndScan(S, R) PROVE Abstract!Next
  BY <1>3, Zenon DEF Abstract!Next
<1>4. Abstract!Abandon({}) => Abstract!Next
  <2>1. {} \in SUBSET Flat
    OBVIOUS
  <2> QED
    BY <1>2, <2>1
<1>5. ASSUME NEW d \in Offered, acked' = acked \cup {d},
             UNCHANGED <<kind, rows, manifests, listed, reported, got, confirmed>>,
             watch' = Abstract!Watched(watch, Owed')
      PROVE  [Abstract!Next]_(Abstract!vars)
  <2>1. d \in Flat
    BY OfferedTyped DEF ScanInv
  <2>2. Abstract!Acknowledge(d) \/ UNCHANGED Abstract!vars
    BY <1>5, ReceiptAcknowledges
  <2> QED
    BY <1>1, <2>1, <2>2
<1>6. CASE Receiver
  <2>1. CASE \/ Begin \/ ListSnapshot \/ ListContinue \/ ListSelect \/ ReadDirectory
             \/ OpenPayload \/ OpenFile \/ OpenMissing \/ AckReadMarker \/ AckCollect(FALSE)
             \/ \E d \in todo : Reconcile(d) \/ NextFile(d)
             \/ \E f \in scan.paths : ReadManifest(f)
    <3>1. UNCHANGED Abstract!vars
      BY <2>1, QuietSteps, Zenon
    <3> QED
      BY <3>1
  <2>2. CASE ReadPage \/ ManifestsRead
    BY <1>3, <1>4, <2>2, ScanStepsRefine
  <2>3. CASE BeginScan
    BY <2>3, ReceiverStepsRefine DEF Abstract!Next
  <2>4. CASE ReadPayload \/ AckAnswer \/ AckSync
    BY <1>1, <2>4, ReceiverStepsRefine
  <2>5. CASE Finish
    BY <1>4, <2>5, PageLostRefines
  <2>6. CASE AckCommit \/ AckPersist
    <3>1. cur \in Offered
      BY <2>6 DEF AckCommit, AckPersist, ScanInv, WorkIsListed, ReceiptsStay, Acking
    <3>2. /\ acked' = acked \cup {cur} /\ watch' = Abstract!Watched(watch, Owed')
          /\ UNCHANGED <<kind, rows, manifests, listed, reported, got, confirmed>>
      BY <2>6 DEF AckCommit, AckPersist
    <3> QED
      BY <1>5, <3>1, <3>2, Zenon
  <2> QED
    BY <1>6, <2>1, <2>2, <2>3, <2>4, <2>5, <2>6, Zenon DEF Receiver
<1>7. CASE Environment
  <2>1. ASSUME NEW d \in Flat \cup Versions, RelayEnqueue(d)
        PROVE  [Abstract!Next]_(Abstract!vars)
    BY <1>1, <2>1, EnqueueOffers
  <2>2. ASSUME NEW d \in Flat, NEW kept \in BOOLEAN, OtherAcknowledges(d, kept)
        PROVE  [Abstract!Next]_(Abstract!vars)
    <3>1. d \in Offered
      BY <2>2 DEF OtherAcknowledges, Owed
    <3>2. /\ acked' = acked \cup {d} /\ watch' = Abstract!Watched(watch, Owed')
          /\ UNCHANGED <<kind, rows, manifests, listed, reported, got, confirmed>>
      BY <2>2 DEF OtherAcknowledges, Elsewhere
    <3> QED
      BY <1>5, <3>1, <3>2, Zenon
  <2>3. ASSUME NEW d \in Flat, EnqueuePayload(d) \/ EnqueueManifest(d) \/ CopyManifest(d)
        PROVE  [Abstract!Next]_(Abstract!vars)
    BY <1>1, <2>3, ManifestOffers
  <2>4. CASE OtherSyncs
    BY <2>4, OtherSyncsUnseen
  <2> QED
    BY <1>7, <2>1, <2>2, <2>3, <2>4, Zenon DEF Environment
<1>8. CASE Fault
  <2>1. CASE OpenLost \/ BodyLost \/ AckLost \/ AckCollect(TRUE)
    <3>1. UNCHANGED Abstract!vars
      BY <2>1, QuietSteps, Zenon
    <3> QED
      BY <3>1
  <2>2. CASE PageLost \/ PageCutShort
    BY <1>4, <2>2, PageLostRefines
  <2>3. ASSUME NEW lost \in SUBSET unsynced, Crash(lost)
        PROVE  [Abstract!Next]_(Abstract!vars)
    <3>1. Stopped /\ acked' = acked \ lost /\ UNCHANGED <<kind, rows, manifests>>
      BY <2>3 DEF Crash
    <3> QED
      BY <1>2, <3>1, StopAbandons
  <2> QED
    BY <1>8, <2>1, <2>2, <2>3, Zenon DEF Fault
<1>9. CASE UNCHANGED vars
  BY <1>9, QuietSteps, Zenon
<1> QED
  BY <1>6, <1>7, <1>8, <1>9 DEF Next

\* Whether the relay or an inbox directory delivers, the receiver sees the contract of
\* the DeliverySource trait: a scan lists or reports all that was owed for as long as
\* it ran, and a receipt it was told of stays.
THEOREM ScanRefines == Spec => Refines
<1>1. Init => Abstract!Init
  <2> SUFFICES ASSUME Init PROVE Abstract!Init
    OBVIOUS
  <2>1. Offered = {}
    <3>1. Range(<<>>) = {}
      BY DEF Range
    <3> QED
      BY <3>1 DEF Init, Offered
  <2> QED
    BY <2>1 DEF Init, Owed, Abstract!Init
<1>2. ScanInv /\ [Next]_vars => [Abstract!Next]_(Abstract!vars)
  BY StepRefines
<1> QED
  BY <1>1, <1>2, ScanInvariance, PTL DEF Spec, Refines, Abstract!Spec

=============================================================================
