---------------------------- MODULE AtsLedgerProofs ----------------------------
(* Theorems about the ATS acquisition ledger, for any catalogue, any sizes  *)
(* of pages, chunks and segments, any number of claims and turns, and any   *)
(* lengths of the leases.                                                   *)
EXTENDS AtsLedger, FiniteSetTheorems, WellFoundedInduction, TLAPS

(* The inductive invariant, in parts.                                       *)

\* The saved pages lie before the listing's offset and the latest of them ends
\* there; at most one is unfinished, and the observations made of the pages are
\* the postings up to the offset, save what that page still lacks.  Past the
\* listing phase every page is finished and the offset is the catalogue's end.
Latest(o) == o \in SavedPages /\ \A p \in SavedPages : p <= o

Unfinished(o) ==
  IncompletePages = {o} /\ batch.raw + page[o].size - page[o].materialized = batch.listingOffset

ListingOK ==
  /\ \A o \in SavedPages : o + page[o].size <= batch.listingOffset /\ page[o].materialized <= page[o].size
  /\ SavedPages # {} => \E o \in Offsets : Latest(o) /\ o + page[o].size = batch.listingOffset
  /\ batch.listingOffset <= total
  /\ \/ IncompletePages = {} /\ batch.raw = batch.listingOffset
     \/ \E o \in Offsets : Unfinished(o)
  /\ batch.phase \notin {"none", "listing"} =>
       IncompletePages = {} /\ SavedPages # {} /\ batch.listingOffset = total

\* The kinds of claims that come to a stage of a quantum.
KindsAt(stage) ==
  IF stage \in {"pages", "fetch", "body"} THEN {"listing"}
  ELSE IF stage = "resolve" THEN {"listing", "compaction"}
  ELSE IF stage \in {"mark", "detail", "answer"} THEN {"listing", "enrichment"}
  ELSE IF stage = "seal" THEN {"listing", "enrichment", "sealing"} ELSE Kinds

\* A claim that holds the batch at work finds it in the phase of its kind, save
\* that its own last page may have ended the listing; a listing claim works on
\* items and asks for pages only when no page is unfinished.
WorkerOK(c) ==
  /\ claim[c].kind \in KindsAt(claim[c].stage)
  /\ claim[c].stage = "answer" => claim[c].item \in Ordinals
  /\ batch.token = c /\ claim[c].stage \notin {"idle", "settle"} =>
       \/ batch.phase = claim[c].kind
       \/ claim[c].stage = "pages" /\ batch.phase = "compaction"
  /\ batch.token = c /\ claim[c].kind = "listing"
       /\ claim[c].stage \in {"resolve", "mark", "detail", "answer", "seal", "fetch"} =>
       IncompletePages = {}

WorkersOK == \A c \in Claims : WorkerOK(c)

\* The items are the first canonical ordinals, and the counters agree with them;
\* past compaction every observation is resolved, in sealing every item terminal.
Terminals == {o \in Ordinals : item[o].state = "terminal"}

ItemsOK ==
  /\ batch.canonical + batch.compacted <= batch.raw
  /\ \A o \in Ordinals : item[o].state # "none" <=> o < batch.canonical
  /\ batch.terminal = Cardinality(Terminals)
  /\ batch.phase \in {"enrichment", "sealing", "synchronized"} =>
       batch.canonical + batch.compacted = batch.raw
  /\ batch.phase \in {"sealing", "synchronized"} => batch.terminal = batch.canonical

\* A manifest covers terminal items, and as many as the catalogue will have in
\* its segment: before the listing is resolved, only a full segment is sealed.
ManifestOK(s) ==
  /\ FirstOrdinal(s) < batch.canonical
  /\ segment[s].count = ItemCount(s, batch.canonical)
  /\ ManifestIntact(s)
  /\ batch.phase \in {"none", "listing", "compaction"} => FirstOrdinal(s) + SegmentSize <= batch.canonical

SealedItems == {o \in Ordinals : \E s \in Manifests(segment) : o \in ItemsOf(s)}
PublishedItems ==
  {o \in Ordinals : \E s \in Manifests(segment) : o \in ItemsOf(s) /\ segment[s].status # "sealed"}

ManifestsOK ==
  /\ \A s \in Manifests(segment) : ManifestOK(s)
  /\ batch.sealed = Cardinality(SealedItems)
  /\ batch.published = Cardinality(PublishedItems)

\* The items from the n-th to before the m-th of a segment that are not in H.
Left(H, s, n, m) == (FirstOrdinal(s) + n .. FirstOrdinal(s) + m - 1) \ H

\* A segment is leased while it is processed and at no other time; its cursor is
\* ahead of no more items than it counts errors.
SegmentOK(s) ==
  /\ segment[s].status = "processing" <=> segment[s].token # None
  /\ segment[s].status # "none" =>
       /\ segment[s].failed <= segment[s].offset /\ segment[s].offset <= segment[s].count
       /\ Cardinality(Left(handled, s, 0, segment[s].offset)) <= segment[s].failed
       /\ segment[s].status = "processed" => segment[s].offset = segment[s].count

\* A turn is within its segment, starts at the cursor as long as the segment has
\* its token, and leaves behind no more items than it counts errors.
TurnOK(p) ==
  proc[p].segment # None =>
    LET s == proc[p].segment IN
    /\ s \in Manifests(segment)
    /\ proc[p].base + proc[p].done <= segment[s].count /\ proc[p].erred <= proc[p].done
    /\ segment[s].token = p => proc[p].base = segment[s].offset
    /\ Cardinality(Left(handled, s, proc[p].base, proc[p].base + proc[p].done)) <= proc[p].erred

TurnsOK == (\A s \in SegmentOrdinals : SegmentOK(s)) /\ (\A p \in Procs : TurnOK(p))

StatusOK ==
  /\ batch.phase = "none" <=> batch.status = "none"
  /\ batch.phase = "synchronized" <=> batch.status \in {"synchronized", "processed", "failed"}

IInv ==
  TypeOK /\ ListingOK /\ WorkersOK /\ ItemsOK /\ ManifestsOK /\ TurnsOK /\ StatusOK
----------------------------------------------------------------------------
(* Numbers and sets.                                                        *)

\* What the assumptions say of the constants one by one.
LEMMA Sizes ==
  /\ PageSize \in Nat \ {0} /\ Chunk \in Nat \ {0} /\ SegmentSize \in Nat \ {0}
  /\ SealPerPass \in Nat \ {0} /\ ClaimLease \in Nat \ {0} /\ SegmentLease \in Nat \ {0}
  /\ Jobs \in Nat /\ MaxGlitches \in Nat /\ MaxErrors \in Nat
  /\ None \notin Claims /\ None \notin Procs
BY BatchAssumption

\* The least of a set of numbers: a smallest of the intervals up to its members.
LEMMA LeastOf ==
  ASSUME NEW T, T \subseteq Nat, T # {}
  PROVE  \E x \in T : \A y \in T : x <= y
<1> DEFINE F == {0 .. x : x \in T}
           R == StrictSubsetOrdering(Nat)
<1>1. F \subseteq FiniteSubsetsOf(Nat) /\ F # {}
  <2>1. ASSUME NEW x \in T PROVE 0 .. x \in SUBSET Nat /\ IsFiniteSet(0 .. x)
    BY FS_Interval
  <2> QED
    BY <2>1 DEF FiniteSubsetsOf
<1>2. PICK X \in F : \A Y \in F : ~(<<Y, X>> \in R)
  BY <1>1, FS_StrictSubsetOrderingWellFounded, WFMin
<1>3. PICK x \in T : X = 0 .. x
  OBVIOUS
<1>4. ASSUME NEW y \in T, y < x PROVE FALSE
  <2>1. 0 .. y \in F /\ 0 .. y \subseteq 0 .. x /\ x \in 0 .. x /\ x \notin 0 .. y /\ 0 .. x \subseteq Nat
    BY <1>4
  <2> QED
    BY <1>2, <1>3, <2>1 DEF StrictSubsetOrdering
<1> QED
  BY <1>4

\* A product grows with its factor.
LEMMA TimesMonotone ==
  ASSUME NEW a \in Nat, NEW b \in Int, NEW c \in Int, b <= c
  PROVE  b * a <= c * a
OBVIOUS

\* Where segments begin.
LEMMA Multiples ==
  ASSUME NEW s \in Nat
  PROVE  /\ FirstOrdinal(s) \in Nat /\ FirstOrdinal(s + 1) = FirstOrdinal(s) + SegmentSize
         /\ s <= FirstOrdinal(s)
<1>1. s * 1 <= s * SegmentSize
  BY Sizes
<1> QED
  BY <1>1, Sizes DEF FirstOrdinal

\* The segment of an item.
LEMMA SegmentOf ==
  ASSUME NEW o \in Nat
  PROVE  /\ o \div SegmentSize \in Nat /\ o \div SegmentSize <= o
         /\ FirstOrdinal(o \div SegmentSize) <= o
         /\ o < FirstOrdinal(o \div SegmentSize) + SegmentSize
<1> DEFINE q == o \div SegmentSize
<1>1. /\ q \in Nat /\ o % SegmentSize \in Nat /\ o % SegmentSize < SegmentSize
      /\ o = SegmentSize * q + (o % SegmentSize)
  BY Sizes
<1>2. SegmentSize * q = FirstOrdinal(q)
  BY <1>1, Sizes DEF FirstOrdinal
<1>3. FirstOrdinal(q) \in Nat /\ q <= FirstOrdinal(q)
  BY <1>1, Multiples
<1> QED
  BY <1>1, <1>2, <1>3, Sizes

\* An item lies in the segment it is between the ends of.
LEMMA SegmentUnique ==
  ASSUME NEW o \in Nat, NEW s \in Nat, FirstOrdinal(s) <= o, o < FirstOrdinal(s) + SegmentSize
  PROVE  o \div SegmentSize = s
<1> DEFINE q == o \div SegmentSize
<1>1. q \in Nat /\ FirstOrdinal(q) <= o /\ o < FirstOrdinal(q) + SegmentSize
  BY SegmentOf
<1>2. FirstOrdinal(q + 1) = FirstOrdinal(q) + SegmentSize /\ FirstOrdinal(s + 1) = FirstOrdinal(s) + SegmentSize
  BY <1>1, Multiples
<1>3. FirstOrdinal(s) \in Nat /\ FirstOrdinal(q) \in Nat
  BY <1>1, Multiples
<1> HIDE DEF q
<1>4. ~(q + 1 <= s)
  <2>1. q + 1 <= s => FirstOrdinal(q + 1) <= FirstOrdinal(s)
    BY <1>1, Sizes, TimesMonotone DEF FirstOrdinal
  <2> QED
    BY <1>1, <1>2, <1>3, <2>1, Sizes
<1>5. ~(s + 1 <= q)
  <2>1. s + 1 <= q => FirstOrdinal(s + 1) <= FirstOrdinal(q)
    BY <1>1, Sizes, TimesMonotone DEF FirstOrdinal
  <2> QED
    BY <1>1, <1>2, <1>3, <2>1, Sizes
<1>6. q = s
  BY <1>1, <1>4, <1>5
<1> QED
  BY <1>6 DEF q

\* Every item has a segment.
LEMMA OrdinalSegment ==
  ASSUME NEW o \in Ordinals
  PROVE  o \div SegmentSize \in SegmentOrdinals
BY SMTT(20), SegmentOf, Sizes DEF Ordinals, SegmentOrdinals

\* A segment that begins before the end of the full ones is full.
LEMMA FullPrefix ==
  ASSUME NEW n \in Nat, NEW s \in Nat, FirstOrdinal(s) < (n \div SegmentSize) * SegmentSize
  PROVE  FirstOrdinal(s) + SegmentSize <= (n \div SegmentSize) * SegmentSize
<1> DEFINE q == n \div SegmentSize
<1>1. q \in Nat /\ FirstOrdinal(q) \in Nat /\ FirstOrdinal(s) \in Nat
  BY SegmentOf, Multiples
<1>2. FirstOrdinal(s) < FirstOrdinal(q)
  BY DEF FirstOrdinal
<1> HIDE DEF q
<1>3. s + 1 <= q
  <2>1. q <= s => FirstOrdinal(q) <= FirstOrdinal(s)
    BY <1>1, Sizes, TimesMonotone DEF FirstOrdinal
  <2> QED
    BY <1>1, <1>2, <2>1
<1>4. FirstOrdinal(s + 1) <= FirstOrdinal(q)
  BY <1>1, <1>3, Sizes, TimesMonotone DEF FirstOrdinal
<1> QED
  BY <1>1, <1>4, Multiples DEF q, FirstOrdinal

\* Sets of items are finite.
LEMMA OrdinalsFinite ==
  ASSUME NEW S, S \subseteq Ordinals
  PROVE  IsFiniteSet(S) /\ Cardinality(S) \in Nat
<1>1. IsFiniteSet(Ordinals)
  <2>1. 0 \in Int /\ Jobs - 1 \in Int
    BY Sizes
  <2> QED
    BY <2>1, FS_Interval DEF Ordinals
<1>2. IsFiniteSet(S)
  BY <1>1, FS_Subset
<1> QED
  BY <1>2, FS_CardinalityType

\* The sum of two disjoint sets.
LEMMA DisjointSum ==
  ASSUME NEW S, NEW T, S \subseteq Ordinals, T \subseteq Ordinals, S \cap T = {}
  PROVE  Cardinality(S \cup T) = Cardinality(S) + Cardinality(T)
<1>1. IsFiniteSet(S) /\ IsFiniteSet(T) /\ Cardinality(S) \in Nat /\ Cardinality(T) \in Nat
  BY OrdinalsFinite
<1>2. Cardinality(S \cup T) = Cardinality(S) + Cardinality(T) - Cardinality(S \cap T)
  BY <1>1, FS_Union
<1>3. Cardinality(S \cap T) = 0
  BY FS_EmptySet
<1> QED
  BY <1>1, <1>2, <1>3
----------------------------------------------------------------------------
(* Types.                                                                   *)

ReceiptRows == [open : BOOLEAN, lease : 0 .. ClaimLease]

\* The types of the variables, to cite one by one.
LEMMA Typed ==
  ASSUME IInv
  PROVE  /\ total \in Nat /\ total <= Jobs /\ batch \in BatchRows
         /\ page \in [Offsets -> PageRows] /\ item \in [Ordinals -> ItemRows]
         /\ segment \in [SegmentOrdinals -> SegmentRows] /\ receipt \in [Claims -> ReceiptRows]
         /\ claim \in [Claims -> ClaimRows] /\ proc \in [Procs -> ProcRows]
         /\ handled \subseteq Ordinals
         /\ glitches \in 0 .. MaxGlitches /\ errors \in 0 .. MaxErrors
BY Sizes DEF IInv, TypeOK, ReceiptRows

\* A lease that is new or run out has the type of a lease.
LEMMA Leases ==
  /\ 0 \in 0 .. ClaimLease /\ ClaimLease \in 0 .. ClaimLease
  /\ 0 \in 0 .. SegmentLease /\ SegmentLease \in 0 .. SegmentLease
BY Sizes

\* What only listing, resolving and sealing move of a batch.
SameWork(f, b) ==
  /\ f.phase = b.phase /\ f.listingOffset = b.listingOffset /\ f.raw = b.raw
  /\ f.canonical = b.canonical /\ f.compacted = b.compacted /\ f.terminal = b.terminal
  /\ f.sealed = b.sealed /\ f.published = b.published

\* Finalization moves nothing but the status, and only of a ready batch.
Closes(f, b, items, segments, receipts) ==
  /\ FinalizationReady(b, items, segments, receipts) /\ f.status \in {"processed", "failed"}
  /\ f.status = "processed" <=> \A s \in Manifests(segments) : ~(segments[s].failed > 0)

\* What finalization returns, whatever rows it is asked about.
LEMMA Finalized ==
  ASSUME NEW b \in BatchRows, NEW items, NEW segments, NEW receipts,
         NEW f, f = FinalizeIfReady(b, items, segments, receipts)
  PROVE  /\ f \in BatchRows /\ SameWork(f, b)
         /\ f.token = b.token /\ f.lease = b.lease /\ f.held = b.held
         /\ f.status = b.status \/ Closes(f, b, items, segments, receipts)
<1> DEFINE any == \E s \in Manifests(segments) : segments[s].failed > 0
<1>1. CASE ~FinalizationReady(b, items, segments, receipts)
  BY <1>1 DEF FinalizeIfReady, SameWork
<1>2. CASE FinalizationReady(b, items, segments, receipts)
  <2>1. f = [b EXCEPT !.status = IF any THEN "failed" ELSE "processed"]
    BY <1>2 DEF FinalizeIfReady
  <2>2. (f = [b EXCEPT !.status = "failed"] /\ any) \/ (f = [b EXCEPT !.status = "processed"] /\ ~any)
    BY <2>1
  <2> HIDE DEF any
  <2>3. f \in BatchRows /\ SameWork(f, b) /\ f.token = b.token /\ f.lease = b.lease /\ f.held = b.held
    BY <2>2 DEF SameWork, BatchRows, Statuses
  <2>4. (f.status = "failed" /\ any) \/ (f.status = "processed" /\ ~any)
    BY <2>2 DEF BatchRows
  <2> QED
    BY <1>2, <2>3, <2>4 DEF Closes, any
<1> QED
  BY <1>1, <1>2

\* Types through admission.
LEMMA AdmitTypes == ASSUME IInv, NEW c \in Claims, Admit(c) PROVE TypeOK'
<1>0. batch \in BatchRows
  BY Typed
<1>1. batch' \in BatchRows
  BY <1>0, Leases DEF Admit, BatchRows, Statuses, Phases
<1> USE Typed, Sizes
<1>2. receipt' \in [Claims -> ReceiptRows]
  BY DEF Admit, ReceiptRows
<1>3. claim' \in [Claims -> ClaimRows]
  BY DEF Admit, ClaimRows, Stages, Kinds, Offsets
<1> QED
  BY <1>1, <1>2, <1>3 DEF Admit, IInv, TypeOK, ReceiptRows

\* Types through a continuation.
LEMMA TakeContinuationTypes == ASSUME IInv, NEW c \in Claims, TakeContinuation(c) PROVE TypeOK'
<1>0. batch \in BatchRows
  BY Typed
<1>1. batch' \in BatchRows
  BY <1>0, Leases DEF TakeContinuation, BatchRows
<1> USE Typed, Sizes
<1>2. batch.listingOffset \in Offsets
  <2>1. batch.listingOffset \in Nat /\ batch.listingOffset <= total
    BY DEF BatchRows, IInv, ListingOK
  <2> QED
    BY <2>1 DEF Offsets
<1>3. claim' \in [Claims -> ClaimRows]
  BY <1>2 DEF TakeContinuation, ClaimRows, Stages, Kinds
<1> QED
  BY <1>1, <1>3 DEF TakeContinuation, IInv, TypeOK, ReceiptRows

\* The worker moves on to another stage.
LEMMA GoTypes ==
  ASSUME IInv, NEW c \in Claims, NEW stage \in Stages, Go(c, stage)
  PROVE  claim' \in [Claims -> ClaimRows]
BY Typed DEF Go, ClaimRows

\* Types through the opening of a receipt.
LEMMA OpenReceiptTypes == ASSUME IInv, NEW c \in Claims, OpenReceipt(c) PROVE TypeOK'
<1> USE Typed, Sizes
<1>1. batch.lease \in 0 .. ClaimLease
  BY DEF BatchRows
<1>2. receipt' \in [Claims -> ReceiptRows]
  BY <1>1 DEF OpenReceipt, ReceiptRows
<1>3. FirstStage(claim[c].kind) \in Stages
  BY DEF FirstStage, Stages
<1>4. claim' \in [Claims -> ClaimRows]
  BY <1>3, GoTypes DEF OpenReceipt
<1> QED
  BY <1>2, <1>4 DEF OpenReceipt, IInv, TypeOK, ReceiptRows

\* Types through a claim's heartbeat.
LEMMA HeartbeatTypes == ASSUME IInv, NEW c \in Claims, Heartbeat(c) PROVE TypeOK'
<1> USE Typed, Sizes
<1>1. batch' \in BatchRows
  BY DEF Heartbeat, BatchRows
<1>2. receipt' \in [Claims -> ReceiptRows]
  BY DEF Heartbeat, ReceiptRows
<1> QED
  BY <1>1, <1>2 DEF Heartbeat, IInv, TypeOK, ReceiptRows

\* What a settled claim leaves of the batch.
LEMMA ReleasedBatchType ==
  ASSUME IInv, NEW hold \in BOOLEAN
  PROVE  /\ ReleasedBatch(hold) \in BatchRows /\ SameWork(ReleasedBatch(hold), batch)
         /\ ReleasedBatch(hold).token = None /\ ReleasedBatch(hold).status = batch.status
<1>1. batch \in BatchRows
  BY Typed
<1> QED
  BY <1>1, Leases DEF ReleasedBatch, BatchRows, SameWork

\* Settling moves nothing of the batch but the claim and, of a ready one, the
\* status.
LEMMA SettleBatch ==
  ASSUME IInv, NEW c \in Claims, Settle(c)
  PROVE  /\ batch' \in BatchRows /\ receipt' \in [Claims -> ReceiptRows] /\ SameWork(batch', batch)
         /\ batch'.token = batch.token \/ batch'.token = None
         /\ \/ batch'.status = batch.status
            \/ \E b : Closes(batch', b, item, segment, receipt') /\ SameWork(b, batch) /\ b.status = batch.status
<1> USE Typed, Sizes
<1> DEFINE closed == [receipt EXCEPT ![c] = [open |-> FALSE, lease |-> 0]]
<1>1. CASE UNCHANGED <<receipt, batch>>
  BY <1>1 DEF SameWork
<1>2. CASE receipt' = closed /\ UNCHANGED batch
  BY <1>2 DEF SameWork, ReceiptRows
<1>3. CASE receipt' = closed /\ \E hold \in BOOLEAN :
             batch' = FinalizeIfReady(ReleasedBatch(hold), item, segment, closed)
  <2>1. PICK hold \in BOOLEAN : batch' = FinalizeIfReady(ReleasedBatch(hold), item, segment, receipt')
    BY <1>3
  <2>2. receipt' \in [Claims -> ReceiptRows]
    BY <1>3 DEF ReceiptRows
  <2>3. /\ ReleasedBatch(hold) \in BatchRows /\ SameWork(ReleasedBatch(hold), batch)
        /\ ReleasedBatch(hold).token = None /\ ReleasedBatch(hold).status = batch.status
    BY ReleasedBatchType
  <2>4. /\ batch' \in BatchRows /\ SameWork(batch', ReleasedBatch(hold)) /\ batch'.token = None
        /\ \/ batch'.status = batch.status
           \/ Closes(batch', ReleasedBatch(hold), item, segment, receipt')
    BY <2>1, <2>3, Finalized
  <2> QED
    BY <2>2, <2>3, <2>4 DEF SameWork
<1> QED
  BY <1>1, <1>2, <1>3 DEF Settle

\* Types through the finish of a quantum.
LEMMA SettleTypes == ASSUME IInv, NEW c \in Claims, Settle(c) PROVE TypeOK'
<1>1. claim' \in [Claims -> ClaimRows]
  BY GoTypes DEF Settle, Stages
<1> QED
  BY <1>1, SettleBatch DEF Settle, IInv, TypeOK, ReceiptRows

\* Types through the other ends of a quantum.
LEMMA WorkerTypes ==
  ASSUME IInv, NEW c \in Claims, LoseFence(c) \/ Abandon(c) \/ Crash(c) \/ ResumeListing(c)
  PROVE  TypeOK'
<1> USE Typed, Sizes
<1>1. errors' \in 0 .. MaxErrors
  BY DEF LoseFence, Abandon, Crash, ResumeListing
<1>2. claim' \in [Claims -> ClaimRows]
  <2>1. CASE Crash(c)
    BY ZenonT(40), <2>1 DEF Crash, ClaimRows, Stages
  <2>2. CASE LoseFence(c) \/ Abandon(c)
    BY <2>2, GoTypes DEF LoseFence, Abandon, Stages
  <2>3. CASE ResumeListing(c)
    BY <2>3, GoTypes DEF ResumeListing, Stages
  <2> QED
    BY <2>1, <2>2, <2>3
<1> QED
  BY <1>1, <1>2 DEF LoseFence, Abandon, Crash, ResumeListing, IInv, TypeOK, ReceiptRows

\* The unfinished page of a listing, and its latest one.
LEMMA PendingIs ==
  ASSUME IInv, IncompletePages # {}
  PROVE  /\ PendingPage \in Offsets /\ IncompletePages = {PendingPage}
         /\ page[PendingPage].saved /\ page[PendingPage].materialized < page[PendingPage].size
         /\ batch.raw + page[PendingPage].size - page[PendingPage].materialized = batch.listingOffset
<1>1. PICK o \in Offsets : Unfinished(o)
  BY DEF IInv, ListingOK
<1>2. IncompletePages = {o} /\ o \in Nat
  BY <1>1, Sizes DEF Unfinished, Offsets
<1>3. PendingPage = o
  <2>1. PendingPage \in {o}
    BY <1>2 DEF PendingPage
  <2> QED
    BY <2>1
<1>4. page[o].saved /\ page[o].materialized < page[o].size
  BY <1>2 DEF IncompletePages
<1> QED
  BY <1>1, <1>2, <1>3, <1>4 DEF Unfinished

\* The latest page ends at the listing's offset; it ends the listing there or is
\* a short page before the total.
LEMMA LatestIs ==
  ASSUME IInv, SavedPages # {}
  PROVE  /\ LatestPage \in Offsets /\ LatestPage \in SavedPages
         /\ LatestPage + page[LatestPage].size = batch.listingOffset
         /\ ListingComplete(LatestPage, page[LatestPage].size) <=> batch.listingOffset = total
         /\ Anomalous(LatestPage, page[LatestPage].size) => batch.listingOffset < total
<1> USE Typed, Sizes
<1>1. PICK o \in Offsets : Latest(o) /\ o + page[o].size = batch.listingOffset
  BY DEF IInv, ListingOK
<1>2. SavedPages \subseteq Nat
  BY DEF SavedPages, Offsets
<1>3. Latest(LatestPage)
  <2>1. LatestPage \in SavedPages /\ \A p \in SavedPages : p <= LatestPage
    BY <1>1 DEF LatestPage, Latest
  <2> QED
    BY <2>1 DEF Latest
<1>4. LatestPage = o
  BY <1>1, <1>2, <1>3 DEF Latest
<1>5. page[o].size \in 0 .. PageSize /\ batch.listingOffset \in Nat /\ batch.listingOffset <= total
  BY DEF PageRows, BatchRows, IInv, ListingOK
<1> QED
  BY <1>1, <1>3, <1>4, <1>5 DEF Latest, ListingComplete, Anomalous

\* Types through materialization.
LEMMA MaterializeTypes == ASSUME IInv, NEW c \in Claims, Materialize(c) PROVE TypeOK'
<1> USE Typed, Sizes
<1> DEFINE o == PendingPage
           n == Lesser(Chunk, page[o].size - page[o].materialized)
<1>1. IncompletePages # {} /\ o \in Offsets /\ page[o].materialized < page[o].size
  BY PendingIs DEF Materialize
<1>2. page[o].size \in 0 .. PageSize /\ page[o].materialized \in 0 .. PageSize
  BY <1>1 DEF PageRows
<1> HIDE DEF o
<1>3. n \in Nat /\ page[o].materialized + n <= page[o].size
  BY <1>1, <1>2 DEF Lesser
<1> HIDE DEF n
<1>4. page' = [page EXCEPT ![o].materialized = page[o].materialized + n]
  BY DEF Materialize, o, n
<1>5. page' \in [Offsets -> PageRows]
  BY <1>1, <1>2, <1>3, <1>4 DEF PageRows
<1>6. \E phase \in Phases : batch' = [batch EXCEPT !.raw = batch.raw + n, !.phase = phase]
  <2>1. \A a, b, d : MaterializedPhase(a, b, d) \in Phases
    BY DEF MaterializedPhase, Phases
  <2> QED
    BY <2>1 DEF Materialize, o, n
<1>7. batch' \in BatchRows
  <2>1. PICK phase \in Phases : batch' = [batch EXCEPT !.raw = batch.raw + n, !.phase = phase]
    BY <1>6
  <2>2. batch.raw + n \in Nat
    BY <1>3 DEF BatchRows
  <2> QED
    BY <2>1, <2>2 DEF BatchRows
<1>8. claim' \in [Claims -> ClaimRows]
  <2>1. \E stage \in {claim[c].stage, "pages", "fetch", "settle"} : Go(c, stage)
    BY DEF Materialize
  <2>2. claim[c].stage \in Stages
    BY DEF ClaimRows
  <2> QED
    BY <2>1, <2>2, GoTypes DEF Stages
<1> QED
  BY <1>5, <1>7, <1>8 DEF Materialize, IInv, TypeOK, ReceiptRows

\* The counters of the listing bound one another, and all of them the catalogue.
LEMMA Bounds ==
  ASSUME IInv
  PROVE  /\ batch.raw \in Nat /\ batch.canonical \in Nat /\ batch.compacted \in Nat
         /\ batch.terminal \in Nat /\ batch.sealed \in Nat /\ batch.published \in Nat
         /\ batch.listingOffset \in Nat
         /\ batch.canonical + batch.compacted <= batch.raw /\ batch.raw <= batch.listingOffset
         /\ batch.listingOffset <= total /\ batch.canonical <= Jobs
<1>1. /\ batch.raw \in Nat /\ batch.canonical \in Nat /\ batch.compacted \in Nat
      /\ batch.terminal \in Nat /\ batch.sealed \in Nat /\ batch.published \in Nat
      /\ batch.listingOffset \in Nat
  <2>1. batch \in BatchRows
    BY Typed
  <2> QED
    BY <2>1 DEF BatchRows
<1>2. batch.raw <= batch.listingOffset
  <2>1. CASE IncompletePages = {}
    BY <1>1, <2>1 DEF IInv, ListingOK, Unfinished
  <2>2. CASE IncompletePages # {}
    <3>1. /\ page[PendingPage].materialized < page[PendingPage].size
          /\ page[PendingPage].size \in Nat /\ page[PendingPage].materialized \in Nat
          /\ batch.raw + page[PendingPage].size - page[PendingPage].materialized = batch.listingOffset
      <4>1. page[PendingPage] \in PageRows
        BY <2>2, PendingIs, Typed
      <4> QED
        BY <2>2, <4>1, PendingIs, Sizes DEF PageRows
    <3> QED
      BY <1>1, <3>1
  <2> QED
    BY <2>1, <2>2
<1>3. total \in Nat /\ total <= Jobs
  BY Typed
<1> QED
  BY <1>1, <1>2, <1>3, Sizes DEF IInv, ListingOK, ItemsOK

\* The postings of a response fit into the catalogue.
LEMMA ResponseFits ==
  ASSUME IInv, NEW c \in Claims, NEW n \in 0 .. PageSize, CommitPage(c, n)
  PROVE  /\ claim[c].cursor \in Offsets /\ claim[c].cursor \in Nat /\ n \in Nat
         /\ claim[c].cursor + n <= total /\ claim[c].cursor + n \in Offsets
         /\ glitches' \in 0 .. MaxGlitches
<1> DEFINE o == claim[c].cursor
           whole == Lesser(PageSize, total - o)
<1>1. o \in Offsets
  BY Typed DEF ClaimRows
<1>2. o \in Nat /\ total \in Nat /\ total <= Jobs /\ glitches \in 0 .. MaxGlitches
  BY <1>1, Typed, Sizes DEF Offsets
<1>3. n \in Responses(o) /\ glitches' = IF n < whole THEN glitches + 1 ELSE glitches
  BY DEF CommitPage
<1>4. whole <= total - o /\ whole \in Int
  BY <1>2, Sizes DEF Lesser
<1>5. n \in IF glitches < MaxGlitches THEN 0 .. whole ELSE {whole}
  BY <1>3 DEF Responses
<1> HIDE DEF whole, o
<1>6. n <= whole /\ (n < whole => glitches < MaxGlitches)
  BY <1>4, <1>5
<1>7. o + n <= total /\ o + n \in Offsets
  BY <1>2, <1>4, <1>6, Sizes DEF Offsets
<1>8. glitches' \in 0 .. MaxGlitches
  BY <1>2, <1>3, <1>6, Sizes
<1> QED
  BY <1>1, <1>2, <1>7, <1>8 DEF o

\* Types through the commit of a page.
LEMMA CommitPageTypes ==
  ASSUME IInv, NEW c \in Claims, NEW n \in 0 .. PageSize, CommitPage(c, n) PROVE TypeOK'
<1> DEFINE o == claim[c].cursor
<1>1. o \in Offsets /\ o \in Nat /\ n \in Nat /\ o + n \in Offsets /\ o + n \in Nat
      /\ glitches' \in 0 .. MaxGlitches
  BY ResponseFits, Sizes
<1>2. CASE PageRefused(o)
  <2>1. claim' \in [Claims -> ClaimRows]
    BY <1>2, GoTypes DEF CommitPage, Stages
  <2> QED
    BY <1>1, <1>2, <2>1 DEF CommitPage, IInv, TypeOK
<1>3. CASE ~PageRefused(o)
  <2>1. page' \in [Offsets -> PageRows]
    <3>1. SavedPage(n) \in PageRows
      BY Sizes DEF SavedPage, PageRows
    <3> QED
      BY <1>3, <3>1, Typed DEF CommitPage
  <2>2. batch' \in BatchRows
    <3>1. batch \in BatchRows /\ batch.raw \in Nat
      BY Typed, Bounds
    <3>2. PICK raw \in {batch.raw, batch.raw + n}, phase \in {"compaction", "listing"} :
            batch' = [batch EXCEPT !.listingOffset = o + n, !.raw = raw, !.phase = phase]
      BY <1>3 DEF CommitPage
    <3>3. raw \in Nat /\ phase \in Phases
      BY <1>1, <3>1, <3>2 DEF Phases
    <3> QED
      BY <1>1, <3>1, <3>2, <3>3 DEF BatchRows
  <2>3. claim' \in [Claims -> ClaimRows]
    <3>1. PICK stage \in {"body", "settle", "fetch"} :
            claim' = [claim EXCEPT ![c].stage = stage, ![c].cursor = o + n]
      BY <1>3 DEF CommitPage
    <3>2. stage \in Stages
      BY DEF Stages
    <3> QED
      BY <1>1, <3>1, <3>2, Typed DEF ClaimRows
  <2> QED
    BY <1>1, <1>3, <2>1, <2>2, <2>3 DEF CommitPage, IInv, TypeOK
<1> QED
  BY <1>2, <1>3

\* What a chunk of observations may become.
LEMMA ChunkFits ==
  ASSUME IInv, NEW c \in Claims, NEW kept \in 0 .. Chunk, NEW invalid \in SUBSET Ordinals,
         Resolve(c, kept, invalid),
         NEW n, n = Lesser(Chunk, batch.raw - (batch.canonical + batch.compacted))
  PROVE  /\ n \in Nat /\ kept \in Nat /\ kept <= n
         /\ batch.canonical + batch.compacted + n <= batch.raw
         /\ batch.canonical + kept <= Jobs
         /\ invalid \subseteq batch.canonical .. batch.canonical + kept - 1
         /\ batch.canonical .. batch.canonical + kept - 1 \subseteq Ordinals
         /\ Cardinality(invalid) \in Nat
<1>1. kept \in 0 .. n /\ invalid \subseteq batch.canonical .. batch.canonical + kept - 1
  BY DEF Resolve
<1>2. n \in Nat /\ batch.canonical + batch.compacted + n <= batch.raw
  BY Bounds, Sizes DEF Lesser
<1>3. batch.raw <= Jobs
  BY Bounds, Typed, Sizes
<1>4. kept \in Nat /\ kept <= n /\ batch.canonical \in Nat /\ batch.compacted \in Nat
  BY <1>1, <1>2, Bounds
<1>5. batch.canonical + kept <= Jobs
  BY <1>2, <1>3, <1>4, Sizes, Bounds
<1>6. batch.canonical .. batch.canonical + kept - 1 \subseteq Ordinals
  BY <1>4, <1>5, Sizes DEF Ordinals
<1>7. Cardinality(invalid) \in Nat
  BY OrdinalsFinite
<1> QED
  BY <1>1, <1>2, <1>4, <1>5, <1>6, <1>7

\* What an observation becomes is an item.
LEMMA NewItems == TerminalItem \in ItemRows /\ NewItem \in ItemRows
BY Leases DEF TerminalItem, NewItem, ItemRows, ItemStates

\* Types through the resolution of a chunk.
LEMMA ResolveTypes ==
  ASSUME IInv, NEW c \in Claims, NEW kept \in 0 .. Chunk, NEW invalid \in SUBSET Ordinals,
         Resolve(c, kept, invalid)
  PROVE  TypeOK'
<1>0. PICK n : n = Lesser(Chunk, batch.raw - (batch.canonical + batch.compacted))
  OBVIOUS
<1>1. /\ n \in Nat /\ kept \in Nat /\ kept <= n /\ Cardinality(invalid) \in Nat
  BY <1>0, ChunkFits
<1>2. item' \in [Ordinals -> ItemRows]
  BY NewItems, Typed DEF Resolve
<1>3. batch' \in BatchRows
  <2>1. PICK phase \in {"listing", "enrichment", "compaction"} :
          batch' = [batch EXCEPT !.canonical = @ + kept, !.compacted = @ + n - kept,
                                 !.terminal = @ + Cardinality(invalid), !.phase = phase]
    BY <1>0 DEF Resolve, ResolvedPhase
  <2>2. /\ batch.canonical + kept \in Nat /\ batch.compacted + n - kept \in Nat
        /\ batch.terminal + Cardinality(invalid) \in Nat /\ phase \in Phases
    BY <1>1, Bounds DEF Phases
  <2>3. batch \in BatchRows
    BY Typed
  <2> QED
    BY <2>1, <2>2, <2>3 DEF BatchRows
<1>4. claim' \in [Claims -> ClaimRows]
  <2>1. \E stage \in {"settle", "mark", "seal", "resolve"} : Go(c, stage)
    BY DEF Resolve, AfterResolve
  <2> QED
    BY <2>1, GoTypes DEF Stages
<1> QED
  BY <1>2, <1>3, <1>4 DEF Resolve, IInv, TypeOK

\* Types through marking.
LEMMA MarkTypes ==
  ASSUME IInv, NEW c \in Claims, NEW settled \in SUBSET Ordinals, Mark(c, settled) PROVE TypeOK'
<1>1. item' \in [Ordinals -> ItemRows]
  <2>1. ASSUME NEW o \in Ordinals PROVE [item[o] EXCEPT !.state = "network"] \in ItemRows
    BY Typed DEF ItemRows, ItemStates
  <2> QED
    BY <2>1, NewItems, Typed DEF Mark
<1>2. batch' \in BatchRows
  <2>1. batch.terminal + Cardinality(settled) \in Nat
    BY Bounds, OrdinalsFinite
  <2>2. batch \in BatchRows
    BY Typed
  <2> QED
    BY <2>1, <2>2 DEF Mark, BatchRows
<1>3. claim' \in [Claims -> ClaimRows]
  <2>1. \E stage \in {"detail", "seal"} : Go(c, stage)
    BY DEF Mark
  <2> QED
    BY <2>1, GoTypes DEF Stages
<1> QED
  BY <1>1, <1>2, <1>3 DEF Mark, IInv, TypeOK

\* The item that a claim asks for.
LEMMA DetailIs ==
  ASSUME DetailDue # {}, NEW o, o = CHOOSE d \in DetailDue : \A q \in DetailDue : d <= q
  PROVE  o \in DetailDue
<1>1. \E x \in DetailDue : \A q \in DetailDue : x <= q
  <2>1. DetailDue \subseteq Nat
    BY DEF DetailDue, Ordinals
  <2> QED
    BY <2>1, LeastOf
<1> QED
  BY <1>1

\* Types through a detail request.
LEMMA DetailTypes ==
  ASSUME IInv, NEW c \in Claims, ClaimDetail(c) \/ DetailAnswer(c) \/ DetailError(c) PROVE TypeOK'
<1>0. batch \in BatchRows /\ item \in [Ordinals -> ItemRows] /\ claim \in [Claims -> ClaimRows]
  BY Typed
<1>1. CASE ClaimDetail(c) /\ MayDrain(c, "enrichment") /\ DetailDue # {}
  <2>1. PICK o : o = CHOOSE d \in DetailDue : \A q \in DetailDue : d <= q
    OBVIOUS
  <2>2. o \in Ordinals
    BY <1>1, <2>1, DetailIs DEF DetailDue
  <2>3. /\ item' = [item EXCEPT ![o].token = c, ![o].lease = ClaimLease]
        /\ claim' = [claim EXCEPT ![c].stage = "answer", ![c].item = o]
    BY <1>1, <2>1 DEF ClaimDetail
  <2>4. item' \in [Ordinals -> ItemRows]
    BY <1>0, <2>2, <2>3, Leases DEF ItemRows
  <2>5. claim' \in [Claims -> ClaimRows]
    BY <1>0, <2>2, <2>3 DEF ClaimRows, Stages
  <2> QED
    BY <1>1, <2>4, <2>5 DEF ClaimDetail, IInv, TypeOK
<1>2. CASE ClaimDetail(c) /\ ~(MayDrain(c, "enrichment") /\ DetailDue # {})
  <2>1. claim' \in [Claims -> ClaimRows]
    BY <1>2, GoTypes DEF ClaimDetail, Stages
  <2> QED
    BY <1>2, <2>1 DEF ClaimDetail, IInv, TypeOK
<1>3. CASE DetailAnswer(c)
  <2>1. claim[c].item \in Ordinals
    BY <1>3 DEF DetailAnswer, IInv, WorkersOK, WorkerOK
  <2>2. item' \in [Ordinals -> ItemRows]
    BY <1>0, <1>3, <2>1, NewItems DEF DetailAnswer
  <2>3. batch' \in BatchRows
    <3>1. batch.terminal + 1 \in Nat
      BY Bounds
    <3> QED
      BY <1>0, <1>3, <3>1 DEF DetailAnswer, BatchRows
  <2>4. claim' \in [Claims -> ClaimRows]
    <3>1. PICK stage \in {"detail", "seal"} :
            claim' = [claim EXCEPT ![c].stage = stage, ![c].item = None]
      BY <1>3 DEF DetailAnswer
    <3> QED
      BY <1>0, <3>1 DEF ClaimRows, Stages
  <2> QED
    BY <1>3, <2>2, <2>3, <2>4 DEF DetailAnswer, IInv, TypeOK
<1>4. CASE DetailError(c)
  <2>1. item' \in [Ordinals -> ItemRows]
    <3>1. claim[c].item \in Ordinals
      BY <1>4 DEF DetailError, IInv, WorkersOK, WorkerOK
    <3>2. [item[claim[c].item] EXCEPT !.token = None, !.lease = 0, !.held = TRUE] \in ItemRows
      BY <1>0, <3>1, Leases DEF ItemRows
    <3>3. item' = item \/ item' = [item EXCEPT ![claim[c].item] =
            [item[claim[c].item] EXCEPT !.token = None, !.lease = 0, !.held = TRUE]]
      BY <1>4 DEF DetailError
    <3> QED
      BY <1>0, <3>1, <3>2, <3>3
  <2>2. claim' \in [Claims -> ClaimRows]
    <3>1. PICK stage \in {"settle", "seal"} :
            claim' = [claim EXCEPT ![c].stage = stage, ![c].item = None]
      BY <1>4 DEF DetailError
    <3> QED
      BY <1>0, <3>1 DEF ClaimRows, Stages
  <2>3. errors' \in 0 .. MaxErrors
    BY <1>4, Typed, Sizes DEF DetailError
  <2> QED
    BY <1>4, <2>1, <2>2, <2>3 DEF DetailError, IInv, TypeOK
<1> QED
  BY <1>1, <1>2, <1>3, <1>4

\* A segment that is ready to be sealed.
LEMMA ReadyIs ==
  ASSUME IInv, NEW prefix \in BOOLEAN, NEW s \in ReadySegments(prefix)
  PROVE  /\ s \in SegmentOrdinals /\ s \in Nat /\ FirstOrdinal(s) \in Nat
         /\ segment[s].status = "none"
         /\ FirstOrdinal(s) < batch.canonical
         /\ ItemCount(s, batch.canonical) \in 1 .. SegmentSize
         /\ FirstOrdinal(s) + ItemCount(s, batch.canonical) <= batch.canonical
         /\ FirstOrdinal(s) + ItemCount(s, batch.canonical) <= Sealable(prefix)
         /\ prefix => FirstOrdinal(s) + SegmentSize <= batch.canonical
         /\ \A o \in FirstOrdinal(s) .. FirstOrdinal(s) + ItemCount(s, batch.canonical) - 1 :
              item[o].state = "terminal"
<1>1. /\ s \in SegmentOrdinals /\ segment[s].status = "none" /\ FirstOrdinal(s) < Sealable(prefix)
      /\ \A o \in FirstOrdinal(s) .. FirstOrdinal(s) + ItemCount(s, Sealable(prefix)) - 1 :
           item[o].state = "terminal"
  BY DEF ReadySegments
<1>2. s \in Nat /\ FirstOrdinal(s) \in Nat
  BY <1>1, Multiples, Sizes DEF SegmentOrdinals, Ordinals
<1>3. batch.canonical \in Nat
  BY Bounds
<1>4. CASE prefix
  <2>1. FirstOrdinal(s) + SegmentSize <= (batch.canonical \div SegmentSize) * SegmentSize
    BY <1>1, <1>2, <1>3, <1>4, FullPrefix DEF Sealable
  <2>2. /\ (batch.canonical \div SegmentSize) * SegmentSize <= batch.canonical
        /\ (batch.canonical \div SegmentSize) * SegmentSize \in Nat
    BY <1>3, SegmentOf, Multiples DEF FirstOrdinal
  <2>3. Sealable(prefix) = (batch.canonical \div SegmentSize) * SegmentSize
    BY <1>4 DEF Sealable
  <2> DEFINE m == Sealable(prefix)
  <2>4. FirstOrdinal(s) + SegmentSize <= m /\ m <= batch.canonical /\ m \in Nat
    BY <2>1, <2>2, <2>3
  <2> HIDE DEF m
  <2>5. ItemCount(s, m) = SegmentSize /\ ItemCount(s, batch.canonical) = SegmentSize
    BY <1>2, <1>3, <2>4, Sizes DEF ItemCount, Lesser
  <2> QED
    BY <1>1, <1>2, <1>3, <2>4, <2>5, Sizes DEF m
<1>5. CASE ~prefix
  <2>1. Sealable(prefix) = batch.canonical
    BY <1>5 DEF Sealable
  <2>2. ItemCount(s, batch.canonical) \in 1 .. SegmentSize
        /\ FirstOrdinal(s) + ItemCount(s, batch.canonical) <= batch.canonical
    BY <1>1, <1>2, <1>3, <2>1, Sizes DEF ItemCount, Lesser
  <2> QED
    BY <1>1, <1>2, <1>5, <2>1, <2>2
<1> QED
  BY <1>4, <1>5

\* A new manifest is a segment.
LEMMA SealedRow ==
  ASSUME NEW n \in 0 .. SegmentSize
  PROVE  [NoSegment EXCEPT !.status = "sealed", !.count = n] \in SegmentRows
<1>1. 0 \in 0 .. 3 /\ 0 \in 0 .. SegmentSize /\ 0 \in 0 .. SegmentLease
  BY Sizes
<1> QED
  BY <1>1 DEF NoSegment, SegmentRows, SegmentStatuses

\* Types through sealing.
LEMMA SealTypes == ASSUME IInv, NEW c \in Claims, Seal(c) PROVE TypeOK'
<1>1. PICK prefix \in BOOLEAN : prefix = (batch.phase = "listing")
  OBVIOUS
<1>2. claim' \in [Claims -> ClaimRows]
  <2>1. \E stage \in {"fetch", "settle"} : Go(c, stage)
    BY DEF Seal
  <2> QED
    BY <2>1, GoTypes DEF Stages
<1>3. CASE UNCHANGED <<batch, segment>>
  BY <1>2, <1>3 DEF Seal, IInv, TypeOK
<1>4. CASE ~UNCHANGED <<batch, segment>>
  <2>1. segment' \in [SegmentOrdinals -> SegmentRows]
    <3>1. ASSUME NEW s \in SealedNow(prefix)
          PROVE  [NoSegment EXCEPT !.status = "sealed", !.count = ItemCount(s, batch.canonical)] \in SegmentRows
      <4>1. ItemCount(s, batch.canonical) \in 0 .. SegmentSize
        BY ReadyIs, Sizes DEF SealedNow
      <4> QED
        BY <4>1, SealedRow
    <3>2. segment \in [SegmentOrdinals -> SegmentRows]
      BY Typed
    <3>3. segment' = [s \in SegmentOrdinals |->
                        IF s \in SealedNow(prefix)
                        THEN [NoSegment EXCEPT !.status = "sealed", !.count = ItemCount(s, batch.canonical)]
                        ELSE segment[s]]
      BY <1>1, <1>4 DEF Seal
    <3> QED
      BY <3>1, <3>2, <3>3
  <2>2. batch' \in BatchRows
    <3>1. Cardinality(ItemsSealedNow(prefix)) \in Nat
      BY OrdinalsFinite DEF ItemsSealedNow
    <3>2. PICK phase \in {"listing", "synchronized", "sealing", "enrichment"},
               status \in {batch.status, "synchronized", "partial"} :
            batch' = [batch EXCEPT !.sealed = batch.sealed + Cardinality(ItemsSealedNow(prefix)),
                                   !.phase = phase, !.status = status]
      <4> DEFINE n == Cardinality(ItemsSealedNow(prefix))
      <4>1. \E phase \in {"listing", "synchronized", "sealing", "enrichment"},
               status \in {batch.status, "synchronized", "partial"} :
            batch' = [batch EXCEPT !.sealed = batch.sealed + n, !.phase = phase, !.status = status]
        BY <1>1, <1>4 DEF Seal, SealedPhase
      <4> QED
        BY <4>1
    <3>3. batch \in BatchRows /\ batch.sealed \in Nat
      BY Typed, Bounds
    <3>4. phase \in Phases /\ status \in Statuses
      BY <3>3 DEF BatchRows, Phases, Statuses
    <3> QED
      <4>1. batch.sealed + Cardinality(ItemsSealedNow(prefix)) \in Nat
        BY <3>1, <3>3
      <4> QED
        BY <3>2, <3>3, <3>4, <4>1 DEF BatchRows
  <2> QED
    BY <1>2, <2>1, <2>2 DEF Seal, IInv, TypeOK
<1> QED
  BY <1>3, <1>4

\* What a released segment is like.
LEMMA ReleasedType ==
  ASSUME IInv, NEW s \in SegmentOrdinals, NEW hold \in BOOLEAN
  PROVE  Released(s, hold) \in SegmentRows
<1>1. segment[s] \in SegmentRows
  BY Typed
<1> QED
  BY <1>1, Leases DEF Released, SegmentRows, SegmentStatuses

\* A turn is in the segment it claimed.
LEMMA TurnAt ==
  ASSUME IInv, NEW p \in Procs, proc[p].segment # None
  PROVE  LET s == proc[p].segment IN
         /\ s \in SegmentOrdinals /\ s \in Nat /\ segment[s] \in SegmentRows /\ segment[s].status # "none"
         /\ proc[p].base \in 0 .. SegmentSize /\ proc[p].done \in 0 .. SegmentSize
         /\ proc[p].erred \in 0 .. SegmentSize /\ proc[p].erred <= proc[p].done
         /\ proc[p].base + proc[p].done <= segment[s].count /\ segment[s].count <= SegmentSize
         /\ segment[s].token = p => proc[p].base = segment[s].offset
<1>1. proc[p] \in ProcRows
  BY Typed
<1>2. PICK s \in SegmentOrdinals : s = proc[p].segment
  BY <1>1 DEF ProcRows
<1>3. /\ s \in Manifests(segment) /\ proc[p].base + proc[p].done <= segment[s].count
      /\ proc[p].erred <= proc[p].done
      /\ segment[s].token = p => proc[p].base = segment[s].offset
  BY <1>2 DEF IInv, TurnsOK, TurnOK
<1>4. segment[s] \in SegmentRows /\ s \in Nat
  BY Typed, Sizes DEF SegmentOrdinals, Ordinals
<1>5. segment[s].count <= SegmentSize /\ segment[s].status # "none"
  BY <1>3, <1>4, Sizes DEF SegmentRows, Manifests
<1>6. proc[p].base \in 0 .. SegmentSize /\ proc[p].done \in 0 .. SegmentSize
      /\ proc[p].erred \in 0 .. SegmentSize
  BY <1>1 DEF ProcRows
<1> QED
  BY <1>2, <1>3, <1>4, <1>5, <1>6

\* Types through publication.
LEMMA PublishTypes ==
  ASSUME IInv, NEW chosen \in SUBSET SegmentOrdinals, Publish(chosen) PROVE TypeOK'
<1>1. segment' \in [SegmentOrdinals -> SegmentRows]
  <2>1. ASSUME NEW s \in SegmentOrdinals PROVE [segment[s] EXCEPT !.status = "published"] \in SegmentRows
    <3>1. segment[s] \in SegmentRows
      BY Typed
    <3> QED
      BY <3>1 DEF SegmentRows, SegmentStatuses
  <2> QED
    BY <2>1, Typed DEF Publish
<1>2. batch' \in BatchRows
  <2>1. PICK S \in SUBSET Ordinals : batch' = [batch EXCEPT !.published = batch.published + Cardinality(S)]
    BY DEF Publish
  <2>2. batch.published + Cardinality(S) \in Nat
    BY Bounds, OrdinalsFinite
  <2>3. batch \in BatchRows
    BY Typed
  <2> QED
    BY <2>1, <2>2, <2>3 DEF BatchRows
<1> QED
  BY <1>1, <1>2 DEF Publish, IInv, TypeOK

\* Types through the claim of a segment.
LEMMA ClaimSegmentTypes ==
  ASSUME IInv, NEW p \in Procs, NEW s \in SegmentOrdinals, ClaimSegment(p, s) PROVE TypeOK'
<1>0. segment[s] \in SegmentRows
  BY Typed
<1>1. segment' \in [SegmentOrdinals -> SegmentRows]
  <2>1. Lesser(segment[s].attempts + 1, 3) \in 0 .. 3
    BY <1>0 DEF SegmentRows, Lesser
  <2>2. [segment[s] EXCEPT !.status = "processing", !.token = p, !.lease = SegmentLease,
                           !.attempts = Lesser(segment[s].attempts + 1, 3), !.held = FALSE] \in SegmentRows
    BY <1>0, <2>1, Leases DEF SegmentRows, SegmentStatuses
  <2>3. segment' = [segment EXCEPT ![s] =
          [segment[s] EXCEPT !.status = "processing", !.token = p, !.lease = SegmentLease,
                             !.attempts = Lesser(segment[s].attempts + 1, 3), !.held = FALSE]]
    BY Typed DEF ClaimSegment
  <2> QED
    BY <2>2, <2>3, Typed
<1>2. proc' \in [Procs -> ProcRows]
  <2>1. 0 \in 0 .. SegmentSize /\ segment[s].offset \in 0 .. SegmentSize
    BY <1>0, Sizes DEF SegmentRows
  <2>2. [NoTurn EXCEPT !.segment = s, !.base = segment[s].offset] \in ProcRows
    BY <2>1 DEF NoTurn, ProcRows
  <2> QED
    BY <2>2, Typed DEF ClaimSegment
<1> QED
  BY <1>1, <1>2 DEF ClaimSegment, IInv, TypeOK

\* No turn is a value of its column.
LEMMA NoTurnType == NoTurn \in ProcRows
BY Sizes DEF NoTurn, ProcRows

\* Types through a turn's heartbeat.
LEMMA HeartbeatSegmentTypes ==
  ASSUME IInv, NEW p \in Procs, HeartbeatSegment(p) PROVE TypeOK'
<1>1. PICK s \in SegmentOrdinals : s = proc[p].segment /\ segment[s] \in SegmentRows
  BY TurnAt DEF HeartbeatSegment
<1>2. [segment[s] EXCEPT !.lease = SegmentLease] \in SegmentRows
  BY <1>1, Leases DEF SegmentRows
<1>3. segment' = [segment EXCEPT ![s] = [segment[s] EXCEPT !.lease = SegmentLease]]
  BY <1>1, Typed DEF HeartbeatSegment
<1>4. segment' \in [SegmentOrdinals -> SegmentRows]
  BY <1>2, <1>3, Typed
<1> QED
  BY <1>4 DEF HeartbeatSegment, IInv, TypeOK

\* The item a turn comes to.
LEMMA NextOrdinalIn ==
  ASSUME IInv, NEW p \in Procs, proc[p].segment # None, NEW i \in Nat, i < Remaining(p)
  PROVE  NextOrdinal(p) + i \in Ordinals
<1>1. PICK s \in SegmentOrdinals : s = proc[p].segment
  BY TurnAt
<1>2. s \in Manifests(segment) /\ segment[s] \in SegmentRows /\ s \in Nat
  BY <1>1, TurnAt DEF Manifests
<1>3. /\ FirstOrdinal(s) \in Nat /\ segment[s].count \in Nat /\ batch.canonical \in Nat
      /\ batch.canonical <= Jobs
  BY <1>2, Multiples, Bounds, Sizes DEF SegmentRows
<1>4. FirstOrdinal(s) + segment[s].count <= batch.canonical
  BY <1>2, <1>3, Sizes DEF IInv, ManifestsOK, ManifestOK, ItemCount, Lesser
<1>5. proc[p].base \in Nat /\ proc[p].done \in Nat /\ proc[p].base + proc[p].done <= segment[s].count
  BY <1>1, TurnAt, Sizes
<1> QED
  BY <1>1, <1>3, <1>4, <1>5, Sizes DEF Remaining, NextOrdinal, Ordinals

\* Types through a turn's work.
LEMMA ProcessTypes ==
  ASSUME IInv, NEW p \in Procs, ProcessItem(p) \/ ProcessAhead(p) PROVE TypeOK'
<1>1. CASE ProcessItem(p)
  <2>1. PICK s \in SegmentOrdinals : s = proc[p].segment
    BY <1>1, TurnAt DEF ProcessItem
  <2>2. /\ proc[p].base \in Nat /\ proc[p].done \in Nat /\ proc[p].erred \in Nat
        /\ proc[p].erred <= proc[p].done /\ segment[s].count <= SegmentSize /\ segment[s].count \in Nat
    BY <1>1, <2>1, TurnAt, Sizes DEF ProcessItem, SegmentRows
  <2>3. Remaining(p) = segment[s].count - proc[p].base - proc[p].done /\ Remaining(p) > 0
    BY <1>1, <2>1 DEF ProcessItem, Remaining
  <2>4. proc[p].done + 1 \in 0 .. SegmentSize /\ proc[p].erred + 1 \in 0 .. SegmentSize
    BY <2>2, <2>3, Sizes
  <2>5. proc' \in [Procs -> ProcRows]
    <3>1. PICK n \in {proc[p].erred, proc[p].erred + 1} :
            proc' = [proc EXCEPT ![p].done = proc[p].done + 1, ![p].erred = n]
      <4>1. CASE proc' = [proc EXCEPT ![p].done = @ + 1]
        <5>1. proc' = [proc EXCEPT ![p].done = proc[p].done + 1, ![p].erred = proc[p].erred]
          BY <4>1, Typed DEF ProcRows
        <5> QED
          BY <5>1
      <4>2. CASE proc' = [proc EXCEPT ![p].done = @ + 1, ![p].erred = @ + 1]
        BY <4>2, Typed
      <4> QED
        BY <1>1, <4>1, <4>2 DEF ProcessItem
    <3>2. n \in 0 .. SegmentSize
      BY <2>2, <2>4, <3>1, Typed DEF ProcRows
    <3> QED
      BY <2>4, <3>1, <3>2, Typed DEF ProcRows
  <2>6. handled' \subseteq Ordinals
    <3>1. NextOrdinal(p) + 0 \in Ordinals
      BY <1>1, <2>3, NextOrdinalIn DEF ProcessItem
    <3>2. NextOrdinal(p) \in Ordinals
      BY <2>1, <2>2, <3>1, Sizes, Multiples DEF NextOrdinal, SegmentOrdinals, Ordinals
    <3> QED
      BY <1>1, <3>2, Typed DEF ProcessItem
  <2>7. errors' \in 0 .. MaxErrors
    BY <1>1, Typed, Sizes DEF ProcessItem
  <2> QED
    BY <1>1, <2>5, <2>6, <2>7 DEF ProcessItem, IInv, TypeOK
<1>2. CASE ProcessAhead(p)
  <2>1. PICK s \in SegmentOrdinals : s = proc[p].segment
    BY <1>2, TurnAt DEF ProcessAhead
  <2>2. NextOrdinal(p) \in Int /\ Remaining(p) \in Int
    <3>1. proc[p].base \in Nat /\ proc[p].done \in Nat /\ segment[s].count \in Nat /\ s \in Nat
      BY <1>2, <2>1, TurnAt, Sizes DEF ProcessAhead, SegmentRows
    <3>2. FirstOrdinal(s) \in Nat
      BY <3>1, Multiples
    <3> QED
      BY <2>1, <3>1, <3>2 DEF NextOrdinal, Remaining
  <2>3. PICK o \in NextOrdinal(p) + 1 .. NextOrdinal(p) + Remaining(p) - 1 : handled' = handled \cup {o}
    BY <1>2 DEF ProcessAhead
  <2>4. o - NextOrdinal(p) \in Nat /\ o - NextOrdinal(p) < Remaining(p)
        /\ o = NextOrdinal(p) + (o - NextOrdinal(p))
    BY <2>2, <2>3
  <2>5. o \in Ordinals
    BY <1>2, <2>4, NextOrdinalIn DEF ProcessAhead
  <2>6. handled' \subseteq Ordinals
    BY <2>3, <2>5, Typed
  <2> QED
    BY <1>2, <2>6 DEF ProcessAhead, IInv, TypeOK
<1> QED
  BY <1>1, <1>2

\* The row of a segment that a turn completes.
LEMMA AdvancedType ==
  ASSUME IInv, NEW p \in Procs, proc[p].segment # None, NEW s, s = proc[p].segment,
         segment[s].token = p, NEW hold \in BOOLEAN
  PROVE  /\ Advanced(s, proc[p], hold) \in SegmentRows
         /\ Advanced(s, proc[p], hold).count = segment[s].count
         /\ Advanced(s, proc[p], hold).offset = segment[s].offset + proc[p].done
         /\ Advanced(s, proc[p], hold).failed = segment[s].failed + proc[p].erred
         /\ Advanced(s, proc[p], hold).token = None
         /\ Advanced(s, proc[p], hold).status
              = IF segment[s].offset + proc[p].done = segment[s].count THEN "processed" ELSE "published"
<1>1. /\ s \in SegmentOrdinals /\ segment[s] \in SegmentRows
      /\ proc[p].done \in Nat /\ proc[p].erred \in Nat
      /\ proc[p].erred <= proc[p].done /\ segment[s].count <= SegmentSize
      /\ segment[s].offset + proc[p].done <= segment[s].count
  BY TurnAt, Sizes
<1>2. segment[s].failed <= segment[s].offset
  BY <1>1, TurnAt DEF IInv, TurnsOK, SegmentOK
<1>3. segment[s].offset \in Nat /\ segment[s].failed \in Nat /\ segment[s].count \in Nat
  BY <1>1, Sizes DEF SegmentRows
<1>4. /\ segment[s].offset + proc[p].done \in 0 .. SegmentSize
      /\ segment[s].failed + proc[p].erred \in 0 .. SegmentSize
  BY <1>1, <1>2, <1>3, Sizes
<1> DEFINE n == segment[s].offset + proc[p].done
           e == segment[s].failed + proc[p].erred
           st == IF n = segment[s].count THEN "processed" ELSE "published"
           h == hold /\ n # segment[s].count
<1>5. Released(s, h) \in SegmentRows
  BY <1>1, ReleasedType
<1>6. Released(s, h).failed = segment[s].failed /\ Released(s, h).token = None
      /\ Released(s, h).count = segment[s].count
  BY <1>1 DEF Released, SegmentRows
<1>7. Advanced(s, proc[p], hold) = [Released(s, h) EXCEPT !.status = st, !.offset = n, !.failed = e]
  BY <1>5, <1>6 DEF Advanced
<1>8. st \in SegmentStatuses /\ n \in 0 .. SegmentSize /\ e \in 0 .. SegmentSize
  BY <1>4 DEF SegmentStatuses
<1>9. PICK r : r = Released(s, h)
  OBVIOUS
<1> HIDE DEF n, e, st, h
<1>10. /\ Advanced(s, proc[p], hold) \in SegmentRows
       /\ Advanced(s, proc[p], hold).count = segment[s].count
       /\ Advanced(s, proc[p], hold).offset = n /\ Advanced(s, proc[p], hold).failed = e
       /\ Advanced(s, proc[p], hold).token = None /\ Advanced(s, proc[p], hold).status = st
  BY <1>5, <1>6, <1>7, <1>8, <1>9 DEF SegmentRows
<1> QED
  BY <1>10 DEF n, e, st

\* How a turn ends: its segment is released for another turn or advanced, and
\* the batch is finalized with the last one.
LEMMA EndTurnIs ==
  ASSUME IInv, NEW p \in Procs, NEW interrupted \in BOOLEAN, EndTurn(p, interrupted),
         NEW s, s = proc[p].segment
  PROVE  /\ s \in SegmentOrdinals
         /\ \/ UNCHANGED <<segment, batch>>
            \/ segment[s].token = p /\ segment' = [segment EXCEPT ![s] = Released(s, TRUE)] /\ UNCHANGED batch
            \/ /\ segment[s].token = p
               /\ \E hold \in BOOLEAN : segment' = [segment EXCEPT ![s] = Advanced(s, proc[p], hold)]
               /\ batch' = batch \/ batch' = FinalizeIfReady(batch, item, segment', receipt)
<1>1. s \in SegmentOrdinals
  BY TurnAt DEF EndTurn
<1>2. CASE ~Retained(p, s)
  BY <1>1, <1>2 DEF EndTurn
<1>3. CASE Retained(p, s) /\ proc[p].erred > 0 /\ segment[s].attempts < 3
  BY <1>1, <1>3 DEF EndTurn, RetryWhole, Retained
<1>4. CASE Retained(p, s) /\ ~(proc[p].erred > 0 /\ segment[s].attempts < 3)
  <2>1. PICK hold \in BOOLEAN : segment' = [segment EXCEPT ![s] = Advanced(s, proc[p], hold)]
                                /\ (batch' = batch \/ batch' = FinalizeIfReady(batch, item, segment', receipt))
    BY <1>4 DEF EndTurn
  <2> QED
    BY <1>1, <1>4, <2>1 DEF Retained
<1> QED
  BY <1>2, <1>3, <1>4

\* Types through the end of a turn.
LEMMA EndTurnTypes ==
  ASSUME IInv, NEW p \in Procs, NEW interrupted \in BOOLEAN, EndTurn(p, interrupted) PROVE TypeOK'
<1>1. PICK s : s = proc[p].segment
  OBVIOUS
<1>2. s \in SegmentOrdinals /\ s # None
  BY <1>1, EndTurnIs DEF EndTurn
<1>3. segment \in [SegmentOrdinals -> SegmentRows] /\ batch \in BatchRows
  BY Typed
<1>4. segment' \in [SegmentOrdinals -> SegmentRows] /\ batch' \in BatchRows
  <2>1. CASE UNCHANGED <<segment, batch>>
    BY <1>3, <2>1
  <2>2. CASE segment' = [segment EXCEPT ![s] = Released(s, TRUE)] /\ UNCHANGED batch
    BY <1>2, <1>3, <2>2, ReleasedType
  <2>3. CASE /\ segment[s].token = p
             /\ \E hold \in BOOLEAN : segment' = [segment EXCEPT ![s] = Advanced(s, proc[p], hold)]
             /\ batch' = batch \/ batch' = FinalizeIfReady(batch, item, segment', receipt)
    BY <1>1, <1>2, <1>3, <2>3, AdvancedType, Finalized
  <2> QED
    BY <1>1, <2>1, <2>2, <2>3, EndTurnIs
<1>5. proc' \in [Procs -> ProcRows] /\ errors' \in 0 .. MaxErrors
  BY NoTurnType, Typed, Sizes DEF EndTurn
<1> QED
  BY <1>4, <1>5 DEF EndTurn, IInv, TypeOK

\* Types through its failure.
LEMMA FailTurnTypes ==
  ASSUME IInv, NEW p \in Procs, FailTurn(p) \/ CrashTurn(p) PROVE TypeOK'
<1>1. proc' \in [Procs -> ProcRows] /\ errors' \in 0 .. MaxErrors
  <2>1. proc' = [proc EXCEPT ![p] = NoTurn] /\ errors < MaxErrors /\ errors' = errors + 1
    BY DEF FailTurn, CrashTurn
  <2> QED
    BY <2>1, NoTurnType, Typed, Sizes
<1>2. segment' \in [SegmentOrdinals -> SegmentRows]
  <2>1. proc[p].segment \in SegmentOrdinals
    BY TurnAt DEF FailTurn, CrashTurn
  <2> QED
    BY <2>1, Typed, ReleasedType DEF FailTurn, CrashTurn
<1> QED
  BY <1>1, <1>2 DEF FailTurn, CrashTurn, IInv, TypeOK

\* What reconciliation leaves of the batch.
LEMMA ReconciledBatch ==
  ASSUME IInv, Reconcile
  PROVE  /\ batch' \in BatchRows /\ SameWork(batch', batch)
         /\ batch'.token = batch.token \/ batch'.token = None
         /\ \/ batch'.status = batch.status
            \/ \E b : Closes(batch', b, item', segment', receipt') /\ SameWork(b, batch) /\ b.status = batch.status
<1>1. batch \in BatchRows
  BY Typed
<1>2. PICK b : b = IF batch.token # None /\ batch.lease = 0
                   THEN [batch EXCEPT !.token = None, !.held = FALSE] ELSE batch
  OBVIOUS
<1>3. /\ b \in BatchRows /\ SameWork(b, batch) /\ b.status = batch.status
      /\ b.token = batch.token \/ b.token = None
  BY <1>1, <1>2 DEF BatchRows, SameWork
<1>4. batch' = b \/ batch' = FinalizeIfReady(b, item', segment', receipt')
  BY <1>2 DEF Reconcile
<1>5. CASE batch' = b
  BY <1>3, <1>5
<1>6. CASE batch' = FinalizeIfReady(b, item', segment', receipt')
  <2>1. /\ batch' \in BatchRows /\ SameWork(batch', b) /\ batch'.token = b.token
        /\ batch'.status = b.status \/ Closes(batch', b, item', segment', receipt')
    BY <1>3, <1>6, Finalized
  <2> QED
    BY <1>3, <2>1 DEF SameWork
<1> QED
  BY <1>4, <1>5, <1>6

\* Types through the reconciler.
LEMMA ReconcileTypes == ASSUME IInv, Reconcile PROVE TypeOK'
<1>1. receipt' \in [Claims -> ReceiptRows]
  BY Typed, Leases DEF Reconcile, ExpiredReceipts, ReceiptRows
<1>2. item' \in [Ordinals -> ItemRows]
  <2>1. ASSUME NEW o \in Ordinals PROVE [item[o] EXCEPT !.token = None, !.held = FALSE] \in ItemRows
    BY Typed DEF ItemRows
  <2> QED
    BY <2>1, Typed DEF Reconcile, ExpiredItems
<1>3. segment' \in [SegmentOrdinals -> SegmentRows]
  BY ReleasedType, Typed DEF Reconcile, ExpiredSegments
<1> QED
  BY <1>1, <1>2, <1>3, ReconciledBatch DEF Reconcile, IInv, TypeOK, ReceiptRows

\* Types through a tick.
LEMMA TickTypes == ASSUME IInv, Tick PROVE TypeOK'
<1>1. \A m \in Nat : \A n \in 0 .. m : Less(n) \in 0 .. m
  BY DEF Less
<1>2. batch' \in BatchRows
  <2>1. batch \in BatchRows
    BY Typed
  <2>2. Less(batch.lease) \in 0 .. ClaimLease
    BY <1>1, <2>1, Sizes DEF BatchRows
  <2> QED
    BY <2>1, <2>2 DEF Tick, BatchRows
<1>3. receipt' \in [Claims -> ReceiptRows]
  BY <1>1, Typed, Sizes DEF Tick, ReceiptRows
<1>4. item' \in [Ordinals -> ItemRows]
  <2>1. ASSUME NEW o \in Ordinals PROVE [item[o] EXCEPT !.lease = Less(@), !.held = FALSE] \in ItemRows
    <3>1. item[o] \in ItemRows /\ Less(item[o].lease) \in 0 .. ClaimLease
      BY <1>1, Typed, Sizes DEF ItemRows
    <3> QED
      BY <3>1 DEF ItemRows
  <2> QED
    BY <2>1 DEF Tick
<1>5. segment' \in [SegmentOrdinals -> SegmentRows]
  <2>1. ASSUME NEW s \in SegmentOrdinals PROVE [segment[s] EXCEPT !.lease = Less(@), !.held = FALSE] \in SegmentRows
    <3>1. segment[s] \in SegmentRows
      BY Typed
    <3>2. Less(segment[s].lease) \in 0 .. SegmentLease
      BY <1>1, <3>1, Sizes DEF SegmentRows
    <3> QED
      BY <3>1, <3>2 DEF SegmentRows
  <2> QED
    BY <2>1 DEF Tick
<1> QED
  BY <1>2, <1>3, <1>4, <1>5 DEF Tick, IInv, TypeOK, ReceiptRows

\* Every step keeps the columns' types.
LEMMA TypesKept == ASSUME IInv, [Next]_vars PROVE TypeOK'
<1>1. ASSUME NEW c \in Claims, ClaimStep(c) \/ ClaimTrouble(c) PROVE TypeOK'
  BY <1>1, AdmitTypes, TakeContinuationTypes, OpenReceiptTypes, HeartbeatTypes, SettleTypes, WorkerTypes,
     MaterializeTypes, CommitPageTypes, ResolveTypes, MarkTypes, DetailTypes, SealTypes
     DEF ClaimStep, ClaimTrouble
<1>2. ASSUME NEW p \in Procs, TurnStep(p) \/ TurnTrouble(p) PROVE TypeOK'
  BY <1>2, ProcessTypes, EndTurnTypes, HeartbeatSegmentTypes, FailTurnTypes DEF TurnStep, TurnTrouble
<1>3. CASE UNCHANGED vars
  BY <1>3 DEF vars, IInv, TypeOK
<1> QED
  BY <1>1, <1>2, <1>3, ClaimSegmentTypes, PublishTypes, ReconcileTypes, TickTypes DEF Next
----------------------------------------------------------------------------
(* What most steps leave alone.                                             *)

\* The work done so far: the pages, the states of the items, the manifests, and
\* the counters and the phase of the batch.
SameItems == \A o \in Ordinals : item'[o].state = item[o].state
SameManifests ==
  \A s \in SegmentOrdinals :
    /\ segment'[s].count = segment[s].count
    /\ segment'[s].status = "none" <=> segment[s].status = "none"
    /\ segment'[s].status = "sealed" <=> segment[s].status = "sealed"
Still ==
  total' = total /\ page' = page /\ SameWork(batch', batch) /\ SameItems /\ SameManifests

\* Rows that are left alone do not move the work.
LEMMA SameRows ==
  /\ batch' = batch => SameWork(batch', batch)
  /\ item' = item => SameItems
  /\ segment' = segment => SameManifests
BY DEF SameWork, SameItems, SameManifests

\* The steps of a worker that move no work.
LEMMA WorkerStill ==
  ASSUME IInv, NEW c \in Claims,
         \/ TakeContinuation(c) \/ OpenReceipt(c) \/ Heartbeat(c) \/ Settle(c) \/ LoseFence(c)
         \/ Abandon(c) \/ Crash(c) \/ ResumeListing(c) \/ ClaimDetail(c) \/ DetailError(c)
         \/ \E n \in 0 .. PageSize : CommitPage(c, n) /\ PageRefused(claim[c].cursor)
  PROVE  Still
<1>1. CASE TakeContinuation(c) \/ Heartbeat(c)
  <2>1. batch \in BatchRows
    BY Typed
  <2>2. SameWork(batch', batch)
    BY <1>1, <2>1 DEF TakeContinuation, Heartbeat, SameWork, BatchRows
  <2> QED
    BY <1>1, <2>2, SameRows DEF TakeContinuation, Heartbeat, Still
<1>2. CASE Settle(c)
  BY <1>2, SettleBatch, SameRows DEF Settle, Still
<1>3. CASE OpenReceipt(c) \/ LoseFence(c) \/ Abandon(c) \/ Crash(c) \/ ResumeListing(c)
  BY <1>3, SameRows DEF OpenReceipt, LoseFence, Abandon, Crash, ResumeListing, Still
<1>4. CASE ClaimDetail(c)
  <2>1. SameItems
    <3>1. CASE item' = item
      BY <3>1, SameRows
    <3>2. CASE item' # item
      <4>1. PICK o : item' = [item EXCEPT ![o].token = c, ![o].lease = ClaimLease]
        BY <1>4, <3>2 DEF ClaimDetail
      <4>2. item \in [Ordinals -> ItemRows]
        BY Typed
      <4> QED
        BY <4>1, <4>2 DEF SameItems, ItemRows
    <3> QED
      BY <3>1, <3>2
  <2> QED
    BY <1>4, <2>1, SameRows DEF ClaimDetail, Still
<1>5. CASE DetailError(c)
  <2>1. SameItems
    BY <1>5, Typed DEF DetailError, SameItems, ItemRows
  <2> QED
    BY <1>5, <2>1, SameRows DEF DetailError, Still
<1>6. ASSUME NEW n \in 0 .. PageSize, CommitPage(c, n), PageRefused(claim[c].cursor) PROVE Still
  BY <1>6, SameRows DEF CommitPage, Still
<1> QED
  BY <1>1, <1>2, <1>3, <1>4, <1>5, <1>6

\* A token is on a segment only while it is processed.
LEMMA TokenMeansProcessing ==
  ASSUME IInv, NEW s \in SegmentOrdinals, NEW p \in Procs, segment[s].token = p
  PROVE  segment[s].status = "processing"
BY Sizes DEF IInv, TurnsOK, SegmentOK

\* Releasing a segment moves no work.
LEMMA ReleasedStill ==
  ASSUME IInv, NEW s \in SegmentOrdinals, segment[s].status = "processing", NEW row,
         row.count = segment[s].count, row.status \in {"published", "processing", "processed"},
         segment' = [segment EXCEPT ![s] = row]
  PROVE  SameManifests
BY Typed DEF SameManifests

\* What releasing a segment leaves of it.
LEMMA ReleasedIs ==
  ASSUME IInv, NEW s \in SegmentOrdinals, NEW hold
  PROVE  /\ Released(s, hold).count = segment[s].count /\ Released(s, hold).status = "published"
         /\ Released(s, hold).token = None /\ Released(s, hold).offset = segment[s].offset
         /\ Released(s, hold).failed = segment[s].failed
<1>1. segment[s] \in SegmentRows
  BY Typed
<1> QED
  BY <1>1 DEF Released, SegmentRows

\* No step of a turn moves the work of the batch.
LEMMA TurnStill ==
  ASSUME IInv, NEW p \in Procs,
         \/ HeartbeatSegment(p) \/ ProcessItem(p) \/ ProcessAhead(p) \/ FailTurn(p) \/ CrashTurn(p)
         \/ \E interrupted \in BOOLEAN : EndTurn(p, interrupted)
         \/ \E s \in SegmentOrdinals : ClaimSegment(p, s)
  PROVE  Still
<1>0. PICK q : q = proc[p].segment
  OBVIOUS
<1>1. CASE HeartbeatSegment(p)
  <2>1. q \in SegmentOrdinals
    BY <1>0, <1>1, TurnAt DEF HeartbeatSegment
  <2>2. SameManifests
    BY <1>0, <1>1, <2>1, Typed DEF HeartbeatSegment, SameManifests, SegmentRows
  <2> QED
    BY <1>1, <2>2, SameRows DEF HeartbeatSegment, Still
<1>2. CASE ProcessItem(p) \/ ProcessAhead(p) \/ CrashTurn(p)
  BY <1>2, SameRows DEF ProcessItem, ProcessAhead, CrashTurn, Still
<1>3. CASE FailTurn(p)
  <2>1. q \in SegmentOrdinals
    BY <1>0, <1>3, TurnAt DEF FailTurn
  <2>2. SameManifests
    <3>1. CASE segment' = segment
      BY <3>1, SameRows
    <3>2. CASE segment' = [segment EXCEPT ![q] = Released(q, TRUE)] /\ segment[q].status = "processing"
      BY <2>1, <3>2, ReleasedIs, ReleasedStill
    <3> QED
      BY <1>0, <1>3, <3>1, <3>2 DEF FailTurn
  <2> QED
    BY <1>3, <2>2, SameRows DEF FailTurn, Still
<1>4. ASSUME NEW interrupted \in BOOLEAN, EndTurn(p, interrupted) PROVE Still
  <2>1. SameWork(batch', batch)
    <3>1. batch' = batch \/ batch' = FinalizeIfReady(batch, item, segment', receipt)
      BY <1>4, <1>0, EndTurnIs
    <3> QED
      BY <3>1, Typed, Finalized, SameRows
  <2>2. SameManifests
    <3>1. CASE segment' = segment
      BY <3>1, SameRows
    <3>2. CASE segment[q].token = p /\ segment' = [segment EXCEPT ![q] = Released(q, TRUE)]
      <4>1. q \in SegmentOrdinals
        BY <1>0, <1>4, EndTurnIs
      <4>2. segment[q].status = "processing"
        BY <3>2, <4>1, TokenMeansProcessing
      <4> QED
        BY <3>2, <4>1, <4>2, ReleasedIs, ReleasedStill
    <3>3. ASSUME segment[q].token = p, NEW hold \in BOOLEAN,
                 segment' = [segment EXCEPT ![q] = Advanced(q, proc[p], hold)]
          PROVE  SameManifests
      <4>1. q \in SegmentOrdinals /\ q # None
        BY <1>0, <1>4, EndTurnIs DEF EndTurn
      <4>2. /\ Advanced(q, proc[p], hold).count = segment[q].count
            /\ Advanced(q, proc[p], hold).status \in {"published", "processed"}
        BY <1>0, <3>3, <4>1, AdvancedType
      <4> QED
        BY <3>3, <4>1, <4>2, ReleasedStill, TokenMeansProcessing
    <3> QED
      BY <1>0, <1>4, <3>1, <3>2, <3>3, EndTurnIs
  <2> QED
    BY <1>4, <2>1, <2>2, SameRows DEF EndTurn, Still
<1>5. ASSUME NEW s \in SegmentOrdinals, ClaimSegment(p, s) PROVE Still
  <2>1. SameManifests
    <3>1. segment[s] \in SegmentRows /\ segment[s].status \in {"published", "processing"}
      BY <1>5, Typed DEF ClaimSegment, ClaimableSegment
    <3> QED
      BY <1>5, <3>1, Typed DEF ClaimSegment, SameManifests, SegmentRows
  <2> QED
    BY <1>5, <2>1, SameRows DEF ClaimSegment, Still
<1> QED
  BY <1>1, <1>2, <1>3, <1>4, <1>5

\* Neither the reconciler nor time moves the work.
LEMMA ClockStill ==
  ASSUME IInv, Reconcile \/ Tick \/ UNCHANGED vars PROVE Still
<1>1. CASE Reconcile
  <2>1. SameItems
    BY <1>1, Typed DEF Reconcile, ExpiredItems, SameItems, ItemRows
  <2>2. SameManifests
    BY <1>1, ReleasedIs DEF Reconcile, ExpiredSegments, SameManifests
  <2> QED
    BY <1>1, <2>1, <2>2, ReconciledBatch DEF Reconcile, Still
<1>2. CASE Tick
  <2>1. batch \in BatchRows
    BY Typed
  <2>2. SameWork(batch', batch)
    BY <1>2, <2>1 DEF Tick, SameWork, BatchRows
  <2>3. SameItems
    BY <1>2, Typed DEF Tick, SameItems, ItemRows
  <2>4. SameManifests
    BY <1>2, Typed DEF Tick, SameManifests, SegmentRows
  <2> QED
    BY <1>2, <2>2, <2>3, <2>4 DEF Tick, Still
<1>3. CASE UNCHANGED vars
  BY <1>3, SameRows DEF vars, Still
<1> QED
  BY <1>1, <1>2, <1>3

\* A page is added to the listing.
Lists(c) == \E n \in 0 .. PageSize : CommitPage(c, n) /\ ~PageRefused(claim[c].cursor)
Resolves(c) == \E kept \in 0 .. Chunk : \E invalid \in SUBSET Ordinals : Resolve(c, kept, invalid)
Marks(c) == \E settled \in SUBSET Ordinals : Mark(c, settled)

\* The steps that move the work on.
Works(c) == Admit(c) \/ Materialize(c) \/ Lists(c) \/ Resolves(c) \/ Marks(c) \/ DetailAnswer(c) \/ Seal(c)

\* Every step moves no work, is one of the seven that do, or publishes.
LEMMA StillOrWorks ==
  ASSUME IInv, [Next]_vars
  PROVE  Still \/ (\E c \in Claims : Works(c)) \/ (\E chosen \in SUBSET SegmentOrdinals : Publish(chosen))
<1>1. ASSUME NEW c \in Claims, ClaimStep(c) \/ ClaimTrouble(c) PROVE Still \/ Works(c)
  <2>1. CASE \E n \in 0 .. PageSize : CommitPage(c, n)
    BY <2>1, WorkerStill DEF Works, Lists
  <2>2. CASE \/ TakeContinuation(c) \/ OpenReceipt(c) \/ Heartbeat(c) \/ Settle(c) \/ LoseFence(c)
             \/ Abandon(c) \/ Crash(c) \/ ResumeListing(c) \/ ClaimDetail(c) \/ DetailError(c)
    BY <2>2, WorkerStill
  <2>3. CASE Admit(c) \/ Materialize(c) \/ Resolves(c) \/ Marks(c) \/ DetailAnswer(c) \/ Seal(c)
    BY <2>3 DEF Works
  <2> QED
    BY <1>1, <2>1, <2>2, <2>3 DEF ClaimStep, ClaimTrouble, Resolves, Marks
<1>2. ASSUME NEW p \in Procs, TurnStep(p) \/ TurnTrouble(p) PROVE Still
  BY <1>2, TurnStill DEF TurnStep, TurnTrouble
<1>3. ASSUME NEW p \in Procs, NEW s \in SegmentOrdinals, ClaimSegment(p, s) PROVE Still
  BY <1>3, TurnStill
<1> QED
  BY <1>1, <1>2, <1>3, ClockStill DEF Next
----------------------------------------------------------------------------
(* The listing is kept.                                                     *)

\* The listing stands when no work moves.
LEMMA ListingStill ==
  ASSUME IInv, total' = total, page' = page, batch'.raw = batch.raw,
         batch'.listingOffset = batch.listingOffset,
         batch'.phase \notin {"none", "listing"} => batch.phase \notin {"none", "listing"}
  PROVE  ListingOK'
BY DEF IInv, ListingOK, SavedPages, IncompletePages, Latest, Unfinished

\* The owner of the batch is in the phase of its kind.
LEMMA OwnerPhase ==
  ASSUME IInv, NEW c \in Claims, Owns(c)
  PROVE  /\ claim[c].stage = "seal" =>
              batch.phase = claim[c].kind /\ claim[c].kind \in {"listing", "enrichment", "sealing"}
         /\ claim[c].stage = "fetch" => claim[c].kind = "listing" /\ IncompletePages = {}
         /\ claim[c].stage \in {"pages", "body"} /\ IncompletePages # {} => batch.phase = "listing"
<1>1. WorkerOK(c) /\ batch.token = c
  BY DEF IInv, WorkersOK, Owns
<1>2. claim[c].stage \in {"pages", "body", "fetch"} => claim[c].kind = "listing"
  BY <1>1 DEF WorkerOK, KindsAt
<1>3. ASSUME claim[c].stage \in {"pages", "body"}, IncompletePages # {} PROVE batch.phase = "listing"
  <2>1. batch.phase = claim[c].kind \/ batch.phase = "compaction"
    BY <1>1, <1>3 DEF WorkerOK
  <2>2. batch.phase # "compaction"
    BY <1>3 DEF IInv, ListingOK
  <2> QED
    BY <1>2, <1>3, <2>1, <2>2
<1> QED
  BY <1>1, <1>2, <1>3 DEF WorkerOK, KindsAt

\* What materializing a chunk does.
LEMMA MaterializeIs ==
  ASSUME IInv, NEW c \in Claims, Materialize(c)
  PROVE  \E o \in Offsets, n \in Nat :
           /\ IncompletePages = {o} /\ page[o].materialized + n <= page[o].size
           /\ page' = [page EXCEPT ![o] = [page[o] EXCEPT !.materialized = page[o].materialized + n]]
           /\ \E phase \in {"listing", "compaction"} :
                /\ batch' = [batch EXCEPT !.raw = batch.raw + n, !.phase = phase]
                /\ phase = "compaction" => page[o].materialized + n = page[o].size /\ batch.listingOffset = total
<1> DEFINE o == PendingPage
           n == Lesser(Chunk, page[o].size - page[o].materialized)
           done == page[o].materialized + n = page[o].size
           ends == ListingComplete(LatestPage, page[LatestPage].size)
<1>1. IncompletePages = {o} /\ o \in Offsets /\ page[o].materialized < page[o].size
  BY PendingIs DEF Materialize
<1>2. page[o].size \in Nat /\ page[o].materialized \in Nat
  BY <1>1, Typed, Sizes DEF PageRows
<1>3. n \in Nat /\ page[o].materialized + n <= page[o].size
  BY <1>1, <1>2, Sizes DEF Lesser
<1>4. PICK phase : /\ phase = MaterializedPhase(done, ends, IncompletePages \ {o})
                   /\ batch' = [batch EXCEPT !.raw = batch.raw + n, !.phase = phase]
  BY DEF Materialize
<1>5. SavedPages # {}
  BY <1>1 DEF IncompletePages, SavedPages
<1>6. phase \in {"listing", "compaction"} /\ (phase = "compaction" => done /\ batch.listingOffset = total)
  BY <1>4, <1>5, LatestIs DEF MaterializedPhase
<1>7. page' = [page EXCEPT ![o] = [page[o] EXCEPT !.materialized = page[o].materialized + n]]
  BY <1>1, Typed DEF Materialize
<1> HIDE DEF o, n
<1> QED
  BY <1>1, <1>3, <1>4, <1>6, <1>7

\* The listing through materialization.
LEMMA MaterializeListing ==
  ASSUME IInv, NEW c \in Claims, Materialize(c) PROVE ListingOK'
<1>1. PICK o \in Offsets, n \in Nat, phase \in {"listing", "compaction"} :
        /\ IncompletePages = {o} /\ page[o].materialized + n <= page[o].size
        /\ page' = [page EXCEPT ![o] = [page[o] EXCEPT !.materialized = page[o].materialized + n]]
        /\ batch' = [batch EXCEPT !.raw = batch.raw + n, !.phase = phase]
        /\ phase = "compaction" => page[o].materialized + n = page[o].size /\ batch.listingOffset = total
  BY MaterializeIs
<1>2. page \in [Offsets -> PageRows] /\ batch \in BatchRows /\ total' = total
  BY Typed DEF Materialize
<1>3. /\ page[o].size \in Nat /\ page[o].materialized \in Nat /\ batch.raw \in Nat
      /\ batch.listingOffset \in Nat
  BY <1>2, Sizes DEF PageRows, BatchRows
<1>4. /\ batch'.raw = batch.raw + n /\ batch'.phase = phase /\ batch'.listingOffset = batch.listingOffset
  BY <1>1, <1>2 DEF BatchRows
<1>5. \A p \in Offsets : page'[p].saved = page[p].saved /\ page'[p].size = page[p].size
        /\ page'[p].materialized = IF p = o THEN page[o].materialized + n ELSE page[p].materialized
  BY <1>1, <1>2 DEF PageRows
<1>6. SavedPages' = SavedPages
  BY <1>5 DEF SavedPages
<1>7. batch.raw + page[o].size - page[o].materialized = batch.listingOffset
  BY <1>1, PendingIs
<1>8. page[o].materialized + n = page[o].size => IncompletePages' = {} /\ batch'.raw = batch'.listingOffset
  <2>1. page[o].materialized + n = page[o].size => IncompletePages' = {}
    BY <1>1, <1>3, <1>5 DEF IncompletePages
  <2> QED
    BY <1>3, <1>4, <1>7, <2>1
<1>9. page[o].materialized + n < page[o].size => Unfinished(o)'
  <2>1. page[o].materialized + n < page[o].size => IncompletePages' = {o}
    BY <1>1, <1>5 DEF IncompletePages
  <2>2. batch'.raw + page'[o].size - page'[o].materialized = batch'.listingOffset
    BY <1>3, <1>4, <1>5, <1>7
  <2> QED
    BY <2>1, <2>2 DEF Unfinished
<1>10. \A p \in SavedPages : p + page'[p].size <= batch'.listingOffset /\ page'[p].materialized <= page'[p].size
  BY <1>1, <1>4, <1>5 DEF IInv, ListingOK, SavedPages
<1>11. SavedPages # {} /\ \E p \in Offsets : Latest(p)' /\ p + page'[p].size = batch'.listingOffset
  <2>1. o \in SavedPages
    BY <1>1 DEF IncompletePages, SavedPages
  <2>2. PICK p \in Offsets : Latest(p) /\ p + page[p].size = batch.listingOffset
    BY <2>1 DEF IInv, ListingOK
  <2>3. Latest(p)'
    BY <1>6, <2>2 DEF Latest
  <2> QED
    BY <1>4, <1>5, <2>1, <2>2, <2>3
<1>12. batch.listingOffset <= total
  BY DEF IInv, ListingOK
<1>13. page[o].materialized + n = page[o].size \/ page[o].materialized + n < page[o].size
  BY <1>1, <1>3
<1>14. batch'.phase \notin {"none", "listing"} =>
         IncompletePages' = {} /\ SavedPages' # {} /\ batch'.listingOffset = total'
  BY <1>1, <1>2, <1>4, <1>6, <1>8, <1>11
<1>15. (IncompletePages' = {} /\ batch'.raw = batch'.listingOffset) \/ Unfinished(o)'
  BY <1>8, <1>9, <1>13
<1> QED
  BY <1>2, <1>4, <1>6, <1>10, <1>11, <1>12, <1>14, <1>15 DEF ListingOK

\* What committing a page does.
LEMMA ListsIs ==
  ASSUME IInv, NEW c \in Claims, Lists(c)
  PROVE  \E o \in Offsets, n \in Nat :
           /\ o = claim[c].cursor /\ batch.phase = "listing" /\ ~page[o].saved /\ batch.listingOffset = o
           /\ IncompletePages = {} /\ batch.raw = o /\ o + n <= total /\ o + n \in Offsets
           /\ page' = [page EXCEPT ![o] = SavedPage(n)]
           /\ \E phase \in {"listing", "compaction"} :
                /\ batch' = [batch EXCEPT !.listingOffset = o + n, !.raw = IF n <= Chunk THEN o + n ELSE o,
                                          !.phase = phase]
                /\ phase = "compaction" => n <= Chunk /\ o + n = total
           /\ \E stage \in {"body", "settle", "fetch"} :
                /\ claim' = [claim EXCEPT ![c].stage = stage, ![c].cursor = o + n]
                /\ stage = "fetch" => n <= Chunk /\ o + n # total
                /\ stage = "body" => ~(n <= Chunk)
<1>1. PICK n \in 0 .. PageSize : CommitPage(c, n) /\ ~PageRefused(claim[c].cursor)
  BY DEF Lists
<1>2. PICK o : o = claim[c].cursor
  OBVIOUS
<1>3. /\ o \in Offsets /\ o \in Nat /\ n \in Nat /\ o + n <= total /\ o + n \in Offsets /\ total \in Nat
  BY <1>1, <1>2, ResponseFits, Typed
<1>4. batch.phase = "listing" /\ ~page[o].saved /\ batch.listingOffset = o
  BY <1>1, <1>2 DEF PageRefused
<1>5. IncompletePages = {}
  BY <1>1, OwnerPhase DEF CommitPage
<1>6. batch.raw = o
  BY <1>4, <1>5 DEF IInv, ListingOK, Unfinished
<1>7. page' = [page EXCEPT ![o] = SavedPage(n)]
  BY <1>1, <1>2 DEF CommitPage
<1>8. ListingComplete(o, n) => o + n = total
  BY <1>3, Sizes DEF ListingComplete, Anomalous
<1>9. ~ListingComplete(o, n) /\ ~Anomalous(o, n) => o + n # total
  BY DEF ListingComplete
<1>10. PICK phase \in {"listing", "compaction"} :
         /\ batch' = [batch EXCEPT !.listingOffset = o + n, !.raw = IF n <= Chunk THEN o + n ELSE o,
                                   !.phase = phase]
         /\ phase = "compaction" => n <= Chunk /\ ListingComplete(o, n)
  <2>1. batch' = [batch EXCEPT !.listingOffset = o + n, !.raw = IF n <= Chunk THEN batch.raw + n ELSE batch.raw,
                    !.phase = IF n <= Chunk /\ ListingComplete(o, n) THEN "compaction" ELSE "listing"]
    BY <1>1, <1>2 DEF CommitPage
  <2> QED
    BY <1>6, <2>1
<1>11. PICK stage \in {"body", "settle", "fetch"} :
         /\ claim' = [claim EXCEPT ![c].stage = stage, ![c].cursor = o + n]
         /\ stage = "fetch" => n <= Chunk /\ ~ListingComplete(o, n) /\ ~Anomalous(o, n)
         /\ stage = "body" => ~(n <= Chunk)
  BY <1>1, <1>2 DEF CommitPage
<1> QED
  BY <1>2, <1>3, <1>4, <1>5, <1>6, <1>7, <1>8, <1>9, <1>10, <1>11

\* The listing through the commit of a page.
LEMMA ListsListing ==
  ASSUME IInv, NEW c \in Claims, Lists(c) PROVE ListingOK'
<1>1. PICK o \in Offsets, n \in Nat, phase \in {"listing", "compaction"} :
           /\ ~page[o].saved /\ batch.listingOffset = o
           /\ IncompletePages = {} /\ o + n <= total
           /\ page' = [page EXCEPT ![o] = SavedPage(n)]
           /\ batch' = [batch EXCEPT !.listingOffset = o + n, !.raw = IF n <= Chunk THEN o + n ELSE o,
                                     !.phase = phase]
           /\ phase = "compaction" => n <= Chunk /\ o + n = total
  BY ListsIs
<1>2. page \in [Offsets -> PageRows] /\ batch \in BatchRows /\ total' = total
  BY Typed DEF Lists, CommitPage
<1>3. /\ batch'.listingOffset = o + n /\ batch'.phase = phase
      /\ batch'.raw = IF n <= Chunk THEN o + n ELSE o
  BY <1>1, <1>2 DEF BatchRows
<1>4. /\ page'[o].saved /\ page'[o].size = n /\ page'[o].materialized = IF n <= Chunk THEN n ELSE 0
      /\ \A p \in Offsets : p # o => page'[p] = page[p]
  BY <1>1, <1>2 DEF SavedPage
<1>5. SavedPages' = SavedPages \cup {o}
  BY <1>4 DEF SavedPages
<1>6. o \in Nat
  BY Sizes DEF Offsets
<1>7. \A p \in SavedPages : /\ p \in Nat /\ page[p].size \in Nat /\ p + page[p].size <= o
                            /\ page[p].materialized <= page[p].size /\ p <= o
                            /\ page'[p] = page[p]
  <2> SUFFICES ASSUME NEW p \in SavedPages
               PROVE  /\ p \in Nat /\ page[p].size \in Nat /\ p + page[p].size <= o
                      /\ page[p].materialized <= page[p].size /\ p <= o
                      /\ page'[p] = page[p]
    OBVIOUS
  <2>1. p \in Offsets /\ page[p].saved
    BY DEF SavedPages
  <2>2. p \in Nat /\ page[p].size \in Nat
    BY <1>2, <2>1, Sizes DEF Offsets, PageRows
  <2>3. p + page[p].size <= o /\ page[p].materialized <= page[p].size
    BY <1>1 DEF IInv, ListingOK
  <2>4. page'[p] = page[p]
    BY <1>1, <1>4, <2>1
  <2> QED
    BY <1>6, <2>2, <2>3, <2>4
<1>8. \A p \in SavedPages' :
        p + page'[p].size <= batch'.listingOffset /\ page'[p].materialized <= page'[p].size
  BY <1>3, <1>4, <1>5, <1>6, <1>7
<1>9. Latest(o)'
  BY <1>5, <1>6, <1>7 DEF Latest
<1>10. n <= Chunk => IncompletePages' = {} /\ batch'.raw = batch'.listingOffset
  <2>1. n <= Chunk => IncompletePages' = {}
    BY <1>1, <1>4 DEF IncompletePages
  <2> QED
    BY <1>3, <2>1
<1>11. ~(n <= Chunk) => Unfinished(o)'
  <2>1. ~(n <= Chunk) => IncompletePages' = {o}
    BY <1>1, <1>4, Sizes DEF IncompletePages
  <2>2. ~(n <= Chunk) => batch'.raw + page'[o].size - page'[o].materialized = batch'.listingOffset
    BY <1>3, <1>4, <1>6
  <2> QED
    BY <2>1, <2>2 DEF Unfinished
<1>12. batch'.phase \notin {"none", "listing"} =>
         IncompletePages' = {} /\ SavedPages' # {} /\ batch'.listingOffset = total'
  BY <1>1, <1>2, <1>3, <1>5, <1>10
<1>13. (IncompletePages' = {} /\ batch'.raw = batch'.listingOffset) \/ Unfinished(o)'
  BY <1>10, <1>11
<1>14. Latest(o)' /\ o + page'[o].size = batch'.listingOffset /\ batch'.listingOffset <= total'
  BY <1>1, <1>2, <1>3, <1>4, <1>9
<1> QED
  BY <1>8, <1>12, <1>13, <1>14 DEF ListingOK

\* What resolving a chunk does.
LEMMA ResolveIs ==
  ASSUME IInv, NEW c \in Claims, NEW kept \in 0 .. Chunk, NEW invalid \in SUBSET Ordinals,
         Resolve(c, kept, invalid)
  PROVE  /\ batch.phase \in {"listing", "compaction"}
         /\ kept \in Nat /\ invalid \subseteq batch.canonical .. batch.canonical + kept - 1
         /\ batch.canonical .. batch.canonical + kept - 1 \subseteq Ordinals
         /\ batch'.canonical = batch.canonical + kept
         /\ batch'.canonical + batch'.compacted <= batch.raw
         /\ batch'.terminal = batch.terminal + Cardinality(invalid)
         /\ batch'.raw = batch.raw /\ batch'.listingOffset = batch.listingOffset
         /\ batch'.sealed = batch.sealed /\ batch'.published = batch.published
         /\ batch'.status = batch.status /\ batch'.token = batch.token /\ batch'.lease = batch.lease
         /\ batch.phase = "listing" => batch'.phase = "listing"
         /\ batch.phase = "compaction" => batch'.phase \in {"compaction", "enrichment"}
         /\ batch'.phase = "enrichment" => batch'.canonical + batch'.compacted = batch.raw
<1>0. PICK n : n = Lesser(Chunk, batch.raw - (batch.canonical + batch.compacted))
  OBVIOUS
<1>1. /\ n \in Nat /\ kept \in Nat /\ kept <= n
      /\ batch.canonical + batch.compacted + n <= batch.raw
      /\ invalid \subseteq batch.canonical .. batch.canonical + kept - 1
      /\ batch.canonical .. batch.canonical + kept - 1 \subseteq Ordinals
  BY <1>0, ChunkFits
<1>2. batch.phase \in {"listing", "compaction"}
  BY DEF Resolve, MayDrain
<1>3. PICK phase : phase = ResolvedPhase(batch.phase = "listing",
                                         batch.canonical + batch.compacted + n = batch.raw)
  OBVIOUS
<1>4. batch' = [batch EXCEPT !.canonical = batch.canonical + kept, !.compacted = batch.compacted + n - kept,
                             !.terminal = batch.terminal + Cardinality(invalid), !.phase = phase]
  BY <1>0, <1>3 DEF Resolve
<1>5. /\ batch'.canonical = batch.canonical + kept /\ batch'.compacted = batch.compacted + n - kept
      /\ batch'.terminal = batch.terminal + Cardinality(invalid) /\ batch'.phase = phase
      /\ batch'.raw = batch.raw /\ batch'.listingOffset = batch.listingOffset
      /\ batch'.sealed = batch.sealed /\ batch'.published = batch.published
      /\ batch'.status = batch.status /\ batch'.token = batch.token /\ batch'.lease = batch.lease
  <2>1. batch \in BatchRows
    BY Typed
  <2> QED
    BY <1>4, <2>1 DEF BatchRows
<1>6. batch'.canonical + batch'.compacted = batch.canonical + batch.compacted + n
  BY <1>1, <1>5, Bounds
<1> QED
  BY <1>1, <1>2, <1>3, <1>5, <1>6 DEF ResolvedPhase

\* What sealing does to the batch.
LEMMA SealIs ==
  ASSUME IInv, NEW c \in Claims, Seal(c), NEW prefix, prefix = (batch.phase = "listing")
  PROVE  /\ batch.phase \in {"listing", "enrichment", "sealing"}
         /\ batch'.listingOffset = batch.listingOffset /\ batch'.raw = batch.raw
         /\ batch'.canonical = batch.canonical /\ batch'.compacted = batch.compacted
         /\ batch'.terminal = batch.terminal /\ batch'.published = batch.published
         /\ batch'.token = batch.token /\ batch'.lease = batch.lease
         /\ segment' = [s \in SegmentOrdinals |->
              IF s \in SealedNow(prefix)
              THEN [NoSegment EXCEPT !.status = "sealed", !.count = ItemCount(s, batch.canonical)]
              ELSE segment[s]]
         /\ batch'.sealed = batch.sealed + Cardinality(ItemsSealedNow(prefix))
         /\ prefix => batch'.phase = "listing" /\ batch'.status = batch.status
         /\ ~prefix /\ batch.terminal # batch.canonical => batch'.phase = "enrichment" /\ batch'.status = "partial"
         /\ ~prefix /\ batch.terminal = batch.canonical =>
              \/ batch'.phase = "synchronized" /\ batch'.status = "synchronized"
                 /\ batch'.sealed = batch.canonical
              \/ batch'.phase = "sealing" /\ batch'.status = "partial"
<1>1. batch.phase = claim[c].kind /\ claim[c].kind \in {"listing", "enrichment", "sealing"}
  BY OwnerPhase DEF Seal
<1>2. PICK n : n = batch.sealed + Cardinality(ItemsSealedNow(prefix))
  OBVIOUS
<1>3. PICK complete : complete = (~prefix /\ n = batch.canonical /\ batch.terminal = batch.canonical)
  OBVIOUS
<1>4. PICK phase, status :
        /\ phase = IF prefix THEN "listing"
                   ELSE IF complete THEN "synchronized" ELSE SealedPhase(batch.terminal = batch.canonical)
        /\ status = IF prefix THEN batch.status ELSE IF complete THEN "synchronized" ELSE "partial"
  OBVIOUS
<1>5. batch' = [batch EXCEPT !.sealed = n, !.phase = phase, !.status = status]
  BY <1>1, <1>2, <1>3, <1>4 DEF Seal
<1>6. batch \in BatchRows
  BY Typed
<1>7. /\ batch'.listingOffset = batch.listingOffset /\ batch'.raw = batch.raw
      /\ batch'.canonical = batch.canonical /\ batch'.compacted = batch.compacted
      /\ batch'.terminal = batch.terminal /\ batch'.published = batch.published
      /\ batch'.token = batch.token /\ batch'.lease = batch.lease
      /\ batch'.sealed = n /\ batch'.phase = phase /\ batch'.status = status
  BY <1>5, <1>6 DEF BatchRows
<1>8. segment' = [s \in SegmentOrdinals |->
              IF s \in SealedNow(prefix)
              THEN [NoSegment EXCEPT !.status = "sealed", !.count = ItemCount(s, batch.canonical)]
              ELSE segment[s]]
  BY <1>1 DEF Seal
<1> QED
  BY <1>1, <1>2, <1>3, <1>4, <1>7, <1>8 DEF SealedPhase

\* Answers and marks move nothing of the batch but the count of terminal items.
LEMMA MarksIs ==
  ASSUME IInv, NEW c \in Claims, Marks(c)
  PROVE  \E settled \in SUBSET Unmarked :
           /\ settled # {} => batch.phase \in {"listing", "enrichment"}
           /\ \A o \in Ordinals :
                \/ o \in settled /\ item'[o].state = "terminal"
                \/ o \notin settled /\ item'[o].state = item[o].state
                \/ o \notin settled /\ o \in Unmarked /\ item'[o].state = "network"
           /\ batch' = [batch EXCEPT !.terminal = batch.terminal + Cardinality(settled)]
           /\ batch'.terminal = batch.terminal + Cardinality(settled)
<1>1. PICK settled \in SUBSET Ordinals : Mark(c, settled)
  BY DEF Marks
<1>2. settled \in SUBSET Unmarked
  BY <1>1 DEF Mark
<1>3. batch \in BatchRows
  BY Typed
<1>4. CASE MayDrain(c, "enrichment")
  <2>1. batch' = [batch EXCEPT !.terminal = batch.terminal + Cardinality(settled)]
    BY <1>1, <1>4 DEF Mark
  <2>2. \A o \in Ordinals :
          \/ o \in settled /\ item'[o].state = "terminal"
          \/ o \notin settled /\ item'[o].state = item[o].state
          \/ o \notin settled /\ o \in Unmarked /\ item'[o].state = "network"
    BY <1>1, <1>4, Typed DEF Mark, TerminalItem, ItemRows
  <2>3. batch'.terminal = batch.terminal + Cardinality(settled)
    BY <1>3, <2>1 DEF BatchRows
  <2> QED
    BY <1>2, <1>4, <2>1, <2>2, <2>3 DEF MayDrain
<1>5. CASE ~MayDrain(c, "enrichment")
  <2>1. settled = {} /\ item' = item /\ batch' = batch
    BY <1>1, <1>5 DEF Mark
  <2>2. Cardinality(settled) = 0 /\ batch.terminal + 0 = batch.terminal
    BY <2>1, FS_EmptySet, Bounds
  <2>3. batch = [batch EXCEPT !.terminal = batch.terminal]
    BY <1>3 DEF BatchRows
  <2> QED
    BY <1>2, <2>1, <2>2, <2>3
<1> QED
  BY <1>4, <1>5

\* A detail answer settles its own item or nothing.
LEMMA AnswerIs ==
  ASSUME IInv, NEW c \in Claims, DetailAnswer(c)
  PROVE  \/ UNCHANGED <<item, batch>>
         \/ \E o \in Ordinals :
              /\ item[o].state = "network" /\ item' = [item EXCEPT ![o] = TerminalItem]
              /\ batch' = [batch EXCEPT !.terminal = batch.terminal + 1]
              /\ batch'.terminal = batch.terminal + 1
<1>1. claim[c].item \in Ordinals
  BY DEF DetailAnswer, IInv, WorkersOK, WorkerOK
<1>2. CASE AnswerFits(c, claim[c].item)
  <2>1. batch \in BatchRows
    BY Typed
  <2>2. /\ item' = [item EXCEPT ![claim[c].item] = TerminalItem]
        /\ batch' = [batch EXCEPT !.terminal = batch.terminal + 1]
    BY <1>2 DEF DetailAnswer
  <2>3. batch'.terminal = batch.terminal + 1
    BY <2>1, <2>2 DEF BatchRows
  <2> QED
    BY <1>1, <1>2, <2>2, <2>3 DEF AnswerFits
<1>3. CASE ~AnswerFits(c, claim[c].item)
  BY <1>3 DEF DetailAnswer
<1> QED
  BY <1>2, <1>3

\* A batch that differs in the count of terminal items only.
LEMMA OnlyTerminal ==
  ASSUME IInv, NEW n, batch' = [batch EXCEPT !.terminal = n]
  PROVE  /\ batch'.phase = batch.phase /\ batch'.listingOffset = batch.listingOffset /\ batch'.raw = batch.raw
         /\ batch'.canonical = batch.canonical /\ batch'.compacted = batch.compacted
         /\ batch'.sealed = batch.sealed /\ batch'.published = batch.published
         /\ batch'.status = batch.status /\ batch'.token = batch.token /\ batch'.lease = batch.lease
<1>1. batch \in BatchRows
  BY Typed
<1> QED
  BY <1>1 DEF BatchRows

\* Admission opens a batch without work.
LEMMA AdmitIs ==
  ASSUME IInv, NEW c \in Claims, Admit(c)
  PROVE  /\ batch.status = "none" /\ batch.phase = "none"
         /\ batch'.status = "fetching" /\ batch'.phase = "listing" /\ batch'.token = c
         /\ batch'.listingOffset = batch.listingOffset /\ batch'.raw = batch.raw
         /\ batch'.canonical = batch.canonical /\ batch'.compacted = batch.compacted
         /\ batch'.terminal = batch.terminal
         /\ batch'.sealed = batch.sealed /\ batch'.published = batch.published
<1>1. batch \in BatchRows
  BY Typed
<1> QED
  BY <1>1 DEF Admit, BatchRows, IInv, StatusOK

\* Publication counts the items of the sealed segments it chose.
LEMMA PublishIs ==
  ASSUME IInv, NEW chosen \in SUBSET SegmentOrdinals, Publish(chosen)
  PROVE  /\ chosen \subseteq {s \in SegmentOrdinals : segment[s].status = "sealed"}
         /\ segment' = [s \in SegmentOrdinals |->
                          IF s \in chosen THEN [segment[s] EXCEPT !.status = "published"] ELSE segment[s]]
         /\ batch'.published = batch.published
              + Cardinality({o \in Ordinals : o \div SegmentSize \in chosen /\ o \in ItemsOf(o \div SegmentSize)})
         /\ batch'.phase = batch.phase /\ batch'.listingOffset = batch.listingOffset /\ batch'.raw = batch.raw
         /\ batch'.canonical = batch.canonical /\ batch'.compacted = batch.compacted
         /\ batch'.terminal = batch.terminal /\ batch'.sealed = batch.sealed
         /\ batch'.status = batch.status /\ batch'.token = batch.token /\ batch'.lease = batch.lease
<1>1. PICK n : n = batch.published
              + Cardinality({o \in Ordinals : o \div SegmentSize \in chosen /\ o \in ItemsOf(o \div SegmentSize)})
  OBVIOUS
<1>2. batch' = [batch EXCEPT !.published = n]
  BY <1>1 DEF Publish
<1>3. batch \in BatchRows
  BY Typed
<1>4. /\ batch'.published = n
      /\ batch'.phase = batch.phase /\ batch'.listingOffset = batch.listingOffset /\ batch'.raw = batch.raw
      /\ batch'.canonical = batch.canonical /\ batch'.compacted = batch.compacted
      /\ batch'.terminal = batch.terminal /\ batch'.sealed = batch.sealed
      /\ batch'.status = batch.status /\ batch'.token = batch.token /\ batch'.lease = batch.lease
  BY <1>2, <1>3 DEF BatchRows
<1> QED
  BY <1>1, <1>4 DEF Publish

\* Every step keeps the part of the invariant on the listing.
LEMMA ListingKept == ASSUME IInv, [Next]_vars PROVE ListingOK'
<1>1. CASE Still
  BY <1>1, ListingStill DEF Still, SameWork
<1>2. ASSUME NEW c \in Claims, Works(c) PROVE ListingOK'
  <2>1. CASE Admit(c)
    BY <2>1, AdmitIs, ListingStill DEF Admit
  <2>2. CASE Resolves(c)
    <3>1. PICK kept \in 0 .. Chunk, invalid \in SUBSET Ordinals : Resolve(c, kept, invalid)
      BY <2>2 DEF Resolves
    <3>2. total' = total /\ page' = page
      BY <3>1 DEF Resolve
    <3> QED
      BY <3>1, <3>2, ResolveIs, ListingStill
  <2>3. CASE Marks(c)
    <3>1. total' = total /\ page' = page
      BY <2>3 DEF Marks, Mark
    <3> QED
      BY <2>3, <3>1, MarksIs, OnlyTerminal, ListingStill
  <2>4. CASE DetailAnswer(c)
    <3>1. total' = total /\ page' = page
      BY <2>4 DEF DetailAnswer
    <3>2. batch' = batch \/ \E n : batch' = [batch EXCEPT !.terminal = n]
      BY <2>4, AnswerIs
    <3> QED
      BY <3>1, <3>2, OnlyTerminal, ListingStill
  <2>5. CASE Seal(c)
    <3>1. total' = total /\ page' = page
      BY <2>5 DEF Seal
    <3>2. PICK prefix : prefix = (batch.phase = "listing")
      OBVIOUS
    <3> QED
      BY <2>5, <3>1, <3>2, SealIs, ListingStill
  <2> QED
    BY <1>2, <2>1, <2>2, <2>3, <2>4, <2>5, MaterializeListing, ListsListing DEF Works
<1>3. ASSUME NEW chosen \in SUBSET SegmentOrdinals, Publish(chosen) PROVE ListingOK'
  BY <1>3, PublishIs, ListingStill DEF Publish
<1> QED
  BY <1>1, <1>2, <1>3, StillOrWorks
----------------------------------------------------------------------------
(* The items are kept.                                                      *)

\* The first n ordinals.
LEMMA Prefix ==
  ASSUME NEW n \in Nat, n <= Jobs
  PROVE  0 .. n - 1 \subseteq Ordinals /\ Cardinality(0 .. n - 1) = n
<1>1. 0 .. n - 1 \subseteq Ordinals
  BY Sizes DEF Ordinals
<1>2. Cardinality(0 .. n - 1) = n
  <2>1. 0 \in Int /\ n - 1 \in Int
    OBVIOUS
  <2>2. Cardinality(0 .. n - 1) = IF 0 > n - 1 THEN 0 ELSE (n - 1) - 0 + 1
    BY <2>1, FS_Interval
  <2> QED
    BY <2>2
<1> QED
  BY <1>1, <1>2

\* A set of the first n ordinals with n members has them all.
LEMMA FullSet ==
  ASSUME NEW n \in Nat, n <= Jobs, NEW S, S \subseteq 0 .. n - 1, Cardinality(S) = n
  PROVE  S = 0 .. n - 1
<1>1. IsFiniteSet(0 .. n - 1) /\ Cardinality(0 .. n - 1) = n
  BY Prefix, OrdinalsFinite
<1> QED
  BY <1>1, FS_Subset

\* Terminal items are below the canonical count.
LEMMA TerminalsBelow ==
  ASSUME IInv
  PROVE  Terminals \subseteq 0 .. batch.canonical - 1
<1>1. \A o \in Terminals : o \in Ordinals /\ o < batch.canonical
  BY DEF IInv, ItemsOK, Terminals
<1> QED
  BY <1>1, Bounds, Sizes DEF Ordinals

\* The two counters are equal only when every item is terminal.
LEMMA AllTerminal ==
  ASSUME IInv, batch.terminal = batch.canonical, NEW o \in Ordinals, item[o].state # "none"
  PROVE  item[o].state = "terminal"
<1>1. batch.canonical \in Nat /\ batch.canonical <= Jobs /\ Cardinality(Terminals) = batch.canonical
  BY Bounds DEF IInv, ItemsOK
<1>2. Terminals = 0 .. batch.canonical - 1
  BY <1>1, TerminalsBelow, FullSet
<1>3. o < batch.canonical /\ o \in Nat
  BY Sizes DEF IInv, ItemsOK, Ordinals
<1> QED
  BY <1>1, <1>2, <1>3 DEF Terminals

\* The items stand when only the listing moves.
LEMMA ItemsStill ==
  ASSUME IInv, SameItems, batch'.canonical = batch.canonical, batch'.compacted = batch.compacted,
         batch'.terminal = batch.terminal, batch'.raw \in Nat, batch.raw <= batch'.raw,
         batch'.phase \in {"enrichment", "sealing", "synchronized"} =>
           batch.phase \in {"enrichment", "sealing", "synchronized"} /\ batch'.raw = batch.raw,
         batch'.phase \in {"sealing", "synchronized"} => batch.terminal = batch.canonical
  PROVE  ItemsOK'
<1>1. Terminals' = Terminals
  BY DEF SameItems, Terminals
<1>2. batch'.canonical + batch'.compacted <= batch'.raw
  BY Bounds
<1>3. \A o \in Ordinals : item'[o].state # "none" <=> o < batch'.canonical
  BY DEF SameItems, IInv, ItemsOK
<1> QED
  BY <1>1, <1>2, <1>3 DEF IInv, ItemsOK

\* Items become terminal and are counted.
LEMMA ItemsTerminal ==
  ASSUME IInv, NEW S \in SUBSET Ordinals, \A o \in S : item[o].state \notin {"none", "terminal"},
         \A o \in Ordinals : \/ o \in S /\ item'[o].state = "terminal"
                             \/ o \notin S /\ item'[o].state = item[o].state
                             \/ o \notin S /\ item[o].state = "pending" /\ item'[o].state = "network",
         batch'.terminal = batch.terminal + Cardinality(S),
         batch'.phase = batch.phase, batch'.raw = batch.raw, batch'.canonical = batch.canonical,
         batch'.compacted = batch.compacted
  PROVE  ItemsOK'
<1>1. Terminals' = Terminals \cup S
  BY DEF Terminals
<1>2. Terminals \cap S = {} /\ Terminals \subseteq Ordinals
  BY DEF Terminals
<1>3. batch'.terminal = Cardinality(Terminals')
  BY <1>1, <1>2, DisjointSum DEF IInv, ItemsOK
<1>4. \A o \in Ordinals : item'[o].state # "none" <=> o < batch'.canonical
  <2>1. \A o \in Ordinals : item'[o].state # "none" <=> item[o].state # "none"
    OBVIOUS
  <2> QED
    BY <2>1 DEF IInv, ItemsOK
<1>5. batch'.phase \in {"sealing", "synchronized"} => batch'.terminal = batch'.canonical
  <2>1. CASE S = {}
    BY <2>1, FS_EmptySet, Bounds DEF IInv, ItemsOK
  <2>2. CASE S # {}
    BY <2>2, AllTerminal DEF IInv, ItemsOK
  <2> QED
    BY <2>1, <2>2
<1> QED
  BY <1>3, <1>4, <1>5 DEF IInv, ItemsOK

\* Items through the resolution of a chunk.
LEMMA ResolveItems ==
  ASSUME IInv, NEW c \in Claims, NEW kept \in 0 .. Chunk, NEW invalid \in SUBSET Ordinals,
         Resolve(c, kept, invalid)
  PROVE  ItemsOK'
<1> DEFINE new == batch.canonical .. batch.canonical + kept - 1
<1>1. /\ kept \in Nat /\ invalid \subseteq new /\ new \subseteq Ordinals /\ batch.canonical \in Nat
      /\ batch'.canonical = batch.canonical + kept
  BY ResolveIs, Bounds
<1>2. \A o \in Ordinals : item'[o].state = IF o \in invalid THEN "terminal"
                                           ELSE IF o \in new THEN "pending" ELSE item[o].state
  BY DEF Resolve, TerminalItem, NewItem
<1>3. Ordinals \subseteq Int
  BY Sizes DEF Ordinals
<1>4. \A o \in Ordinals : item[o].state # "none" <=> o < batch.canonical
  BY DEF IInv, ItemsOK
<1>5. \A o \in Ordinals : item'[o].state # "none" <=> o < batch'.canonical
  <2> SUFFICES ASSUME NEW o \in Ordinals PROVE item'[o].state # "none" <=> o < batch.canonical + kept
    BY <1>1
  <2>1. o \in new <=> batch.canonical <= o /\ o < batch.canonical + kept
    BY <1>1, <1>3
  <2>2. item'[o].state # "none" <=> o \in new \/ item[o].state # "none"
    BY <1>1, <1>2
  <2>3. o < batch.canonical => o < batch.canonical + kept
    BY <1>1, <1>3
  <2> QED
    BY <1>1, <1>3, <1>4, <2>1, <2>2, <2>3
<1>6. Terminals \cap new = {}
  <2>1. \A o \in new : batch.canonical <= o
    BY <1>1
  <2> QED
    BY <1>1, <1>3, <1>4, <2>1 DEF Terminals
<1>7. Terminals' = Terminals \cup invalid
  BY <1>1, <1>2, <1>6 DEF Terminals
<1>8. Cardinality(Terminals') = Cardinality(Terminals) + Cardinality(invalid)
  BY <1>1, <1>6, <1>7, DisjointSum DEF Terminals
<1>9. batch'.terminal = Cardinality(Terminals')
  BY <1>8, ResolveIs DEF IInv, ItemsOK
<1>10. /\ batch'.phase \in {"listing", "compaction", "enrichment"} /\ batch'.raw = batch.raw
       /\ batch'.canonical + batch'.compacted <= batch.raw
       /\ batch'.phase = "enrichment" => batch'.canonical + batch'.compacted = batch.raw
  BY ResolveIs
<1> QED
  BY <1>5, <1>9, <1>10 DEF ItemsOK

\* What the listing does to the batch.
LEMMA ListingBatch ==
  ASSUME IInv, NEW c \in Claims, Materialize(c) \/ Lists(c)
  PROVE  /\ batch'.raw \in Nat /\ batch.raw <= batch'.raw
         /\ batch.phase = "listing" /\ batch'.phase \in {"listing", "compaction"}
         /\ batch'.canonical = batch.canonical /\ batch'.compacted = batch.compacted
         /\ batch'.terminal = batch.terminal
         /\ batch'.sealed = batch.sealed /\ batch'.published = batch.published
         /\ batch'.status = batch.status /\ batch'.token = batch.token /\ batch'.lease = batch.lease
<1>1. \E offset, raw \in Nat, phase \in {"listing", "compaction"} :
        /\ batch' = [batch EXCEPT !.listingOffset = offset, !.raw = raw, !.phase = phase]
        /\ batch.phase = "listing" /\ batch.raw <= raw
  <2>1. CASE Materialize(c)
    <3>1. PICK n \in Nat, phase \in {"listing", "compaction"} :
            batch' = [batch EXCEPT !.raw = batch.raw + n, !.phase = phase]
      BY <2>1, MaterializeIs
    <3>2. batch.phase = "listing"
      BY <2>1, OwnerPhase DEF Materialize
    <3>3. batch.raw + n \in Nat /\ batch.raw <= batch.raw + n
      BY Bounds
    <3>4. batch \in BatchRows
      BY Typed
    <3>5. batch' = [batch EXCEPT !.listingOffset = batch.listingOffset, !.raw = batch.raw + n, !.phase = phase]
      BY <3>1, <3>4 DEF BatchRows
    <3>6. batch.listingOffset \in Nat
      BY Bounds
    <3> QED
      BY <3>2, <3>3, <3>5, <3>6
  <2>2. CASE Lists(c)
    <3>1. PICK o \in Offsets, n \in Nat, phase \in {"listing", "compaction"} :
           /\ batch.phase = "listing" /\ batch.raw = o
           /\ batch' = [batch EXCEPT !.listingOffset = o + n, !.raw = IF n <= Chunk THEN o + n ELSE o,
                                     !.phase = phase]
      <4>1. PICK o \in Offsets, n \in Nat :
           /\ o = claim[c].cursor /\ batch.phase = "listing" /\ ~page[o].saved /\ batch.listingOffset = o
           /\ IncompletePages = {} /\ batch.raw = o /\ o + n <= total /\ o + n \in Offsets
           /\ page' = [page EXCEPT ![o] = SavedPage(n)]
           /\ \E phase \in {"listing", "compaction"} :
                /\ batch' = [batch EXCEPT !.listingOffset = o + n, !.raw = IF n <= Chunk THEN o + n ELSE o,
                                          !.phase = phase]
                /\ phase = "compaction" => n <= Chunk /\ o + n = total
           /\ \E stage \in {"body", "settle", "fetch"} :
                /\ claim' = [claim EXCEPT ![c].stage = stage, ![c].cursor = o + n]
                /\ stage = "fetch" => n <= Chunk /\ o + n # total
                /\ stage = "body" => ~(n <= Chunk)
        BY <2>2, ListsIs
      <4> QED
        BY <4>1
    <3>2. o \in Nat
      BY Sizes DEF Offsets
    <3>3. PICK raw : raw = IF n <= Chunk THEN o + n ELSE o
      OBVIOUS
    <3>4. o + n \in Nat /\ raw \in Nat /\ batch.raw <= raw
      BY <3>1, <3>2, <3>3
    <3> QED
      BY <3>1, <3>3, <3>4
  <2> QED
    BY <2>1, <2>2
<1>2. batch \in BatchRows
  BY Typed
<1> QED
  BY <1>1, <1>2 DEF BatchRows

\* Every step keeps the part of the invariant on items.
LEMMA ItemsKept == ASSUME IInv, [Next]_vars PROVE ItemsOK'
<1>1. CASE Still
  BY <1>1, ItemsStill, Bounds DEF Still, SameWork, IInv, ItemsOK
<1>2. ASSUME NEW c \in Claims, Works(c) PROVE ItemsOK'
  <2>1. CASE Admit(c)
    <3>1. SameItems
      BY <2>1, SameRows DEF Admit
    <3>2. batch'.raw \in Nat /\ batch.raw <= batch'.raw
      BY <2>1, AdmitIs, Bounds
    <3> QED
      BY <2>1, <3>1, <3>2, AdmitIs, ItemsStill
  <2>2. CASE Materialize(c) \/ Lists(c)
    <3>1. SameItems
      BY <2>2, SameRows DEF Materialize, Lists, CommitPage
    <3> QED
      BY <2>2, <3>1, ListingBatch, ItemsStill
  <2>4. CASE Resolves(c)
    BY <2>4, ResolveItems DEF Resolves
  <2>5. CASE Marks(c)
    <3>1. PICK settled \in SUBSET Unmarked :
           /\ \A o \in Ordinals :
                \/ o \in settled /\ item'[o].state = "terminal"
                \/ o \notin settled /\ item'[o].state = item[o].state
                \/ o \notin settled /\ o \in Unmarked /\ item'[o].state = "network"
           /\ batch' = [batch EXCEPT !.terminal = batch.terminal + Cardinality(settled)]
           /\ batch'.terminal = batch.terminal + Cardinality(settled)
      BY <2>5, MarksIs
    <3>2. settled \in SUBSET Ordinals /\ \A o \in Unmarked : item[o].state = "pending"
      BY DEF Unmarked
    <3> QED
      BY <3>1, <3>2, OnlyTerminal, ItemsTerminal
  <2>6. CASE DetailAnswer(c)
    <3>1. CASE UNCHANGED <<item, batch>>
      BY <3>1, ItemsStill, SameRows, Bounds DEF IInv, ItemsOK
    <3>2. ASSUME NEW o \in Ordinals, item[o].state = "network", item' = [item EXCEPT ![o] = TerminalItem],
                 batch' = [batch EXCEPT !.terminal = batch.terminal + 1], batch'.terminal = batch.terminal + 1
          PROVE  ItemsOK'
      <4>1. Cardinality({o}) = 1
        BY FS_Singleton
      <4>2. \A q \in Ordinals : \/ q \in {o} /\ item'[q].state = "terminal"
                                \/ q \notin {o} /\ item'[q].state = item[q].state
        BY <3>2, Typed DEF TerminalItem
      <4> QED
        BY <3>2, <4>1, <4>2, OnlyTerminal, ItemsTerminal
    <3> QED
      BY <2>6, <3>1, <3>2, AnswerIs
  <2>7. CASE Seal(c)
    <3>1. SameItems
      BY <2>7, SameRows DEF Seal
    <3>2. PICK prefix : prefix = (batch.phase = "listing")
      OBVIOUS
    <3>3. batch'.raw = batch.raw /\ batch'.raw \in Nat /\ batch.raw <= batch'.raw
      <4>1. batch'.raw = batch.raw
        BY <2>7, <3>2, SealIs
      <4>2. batch.raw \in Nat
        BY Bounds
      <4> QED
        BY <4>1, <4>2
    <3>4. /\ batch'.canonical = batch.canonical /\ batch'.compacted = batch.compacted
          /\ batch'.terminal = batch.terminal
          /\ batch'.phase \in {"enrichment", "sealing", "synchronized"} =>
               batch.phase \in {"enrichment", "sealing", "synchronized"}
          /\ batch'.phase \in {"sealing", "synchronized"} => batch.terminal = batch.canonical
      BY <2>7, <3>2, SealIs
    <3> QED
      BY <3>1, <3>3, <3>4, ItemsStill
  <2> QED
    BY <1>2, <2>1, <2>2, <2>4, <2>5, <2>6, <2>7 DEF Works
<1>3. ASSUME NEW chosen \in SUBSET SegmentOrdinals, Publish(chosen) PROVE ItemsOK'
  <2>1. SameItems
    BY <1>3, SameRows DEF Publish
  <2> QED
    <3>1. batch'.raw = batch.raw /\ batch'.raw \in Nat /\ batch.raw <= batch'.raw
      <4>1. batch'.raw = batch.raw
        BY <1>3, PublishIs
      <4>2. batch.raw \in Nat
        BY Bounds
      <4> QED
        BY <4>1, <4>2
    <3>2. batch.phase \in {"sealing", "synchronized"} => batch.terminal = batch.canonical
      BY DEF IInv, ItemsOK
    <3> QED
      BY <1>3, <2>1, <3>1, <3>2, PublishIs, ItemsStill
<1> QED
  BY <1>1, <1>2, <1>3, StillOrWorks
----------------------------------------------------------------------------
(* The manifests are kept.                                                  *)

\* The items of a manifest are of its segment, and there are that many.
LEMMA ManifestIs ==
  ASSUME IInv, NEW s \in Manifests(segment)
  PROVE  /\ s \in SegmentOrdinals /\ s \in Nat /\ FirstOrdinal(s) \in Nat
         /\ segment[s].count \in 1 .. SegmentSize
         /\ FirstOrdinal(s) + segment[s].count <= batch.canonical
         /\ \A o \in ItemsOf(s) : o \in Ordinals /\ o \div SegmentSize = s /\ o < batch.canonical
<1>1. s \in SegmentOrdinals /\ s \in Nat
  BY Sizes DEF Manifests, SegmentOrdinals, Ordinals
<1>2. FirstOrdinal(s) \in Nat /\ batch.canonical \in Nat /\ batch.canonical <= Jobs
  BY <1>1, Multiples, Bounds
<1>3. FirstOrdinal(s) < batch.canonical /\ segment[s].count = ItemCount(s, batch.canonical)
  BY DEF IInv, ManifestsOK, ManifestOK
<1>4. segment[s].count \in 1 .. SegmentSize /\ FirstOrdinal(s) + segment[s].count <= batch.canonical
  BY <1>2, <1>3, Sizes DEF ItemCount, Lesser
<1>5. ASSUME NEW o \in ItemsOf(s) PROVE o \in Ordinals /\ o \div SegmentSize = s /\ o < batch.canonical
  <2>1. FirstOrdinal(s) <= o /\ o < FirstOrdinal(s) + SegmentSize /\ o < batch.canonical /\ o \in Nat
    BY <1>2, <1>4, Sizes DEF ItemsOf
  <2> QED
    BY <1>1, <1>2, <2>1, SegmentUnique, Sizes DEF Ordinals
<1> QED
  BY <1>1, <1>2, <1>4, <1>5

\* Manifests stand when no items are added, sealed or published.
LEMMA ManifestsStill ==
  ASSUME IInv, SameManifests, batch'.canonical = batch.canonical,
         batch'.sealed = batch.sealed, batch'.published = batch.published,
         \A o \in Ordinals : item[o].state = "terminal" => item'[o].state = "terminal",
         batch'.phase \in {"none", "listing", "compaction"} => batch.phase \in {"none", "listing", "compaction"}
  PROVE  ManifestsOK'
<1>1. Manifests(segment)' = Manifests(segment)
  BY DEF SameManifests, Manifests
<1>2. \A s \in SegmentOrdinals : ItemsOf(s)' = ItemsOf(s)
  BY DEF SameManifests, ItemsOf
<1>3. Manifests(segment) \subseteq SegmentOrdinals
  BY DEF Manifests
<1>4. SealedItems' = SealedItems
  BY <1>1, <1>2, <1>3 DEF SealedItems
<1>5. PublishedItems' = PublishedItems
  BY <1>1, <1>2, <1>3 DEF PublishedItems, SameManifests
<1>6. ASSUME NEW s \in Manifests(segment) PROVE ManifestOK(s)'
  <2>1. \A o \in ItemsOf(s) : item'[o].state = "terminal"
    BY <1>6, ManifestIs DEF IInv, ManifestsOK, ManifestOK, ManifestIntact
  <2>2. ManifestIntact(s)'
    BY <1>2, <1>3, <2>1 DEF ManifestIntact
  <2>3. segment'[s].count = segment[s].count
    BY <1>3 DEF SameManifests
  <2> QED
    BY <2>2, <2>3 DEF IInv, ManifestsOK, ManifestOK
<1> QED
  BY <1>1, <1>4, <1>5, <1>6 DEF IInv, ManifestsOK

\* New items are behind every manifest sealed from a prefix.
LEMMA ResolveManifests ==
  ASSUME IInv, NEW c \in Claims, NEW kept \in 0 .. Chunk, NEW invalid \in SUBSET Ordinals,
         Resolve(c, kept, invalid)
  PROVE  ManifestsOK'
<1>1. /\ batch.phase \in {"listing", "compaction"} /\ kept \in Nat
      /\ invalid \subseteq batch.canonical .. batch.canonical + kept - 1
      /\ batch'.canonical = batch.canonical + kept
      /\ batch'.sealed = batch.sealed /\ batch'.published = batch.published
  BY ResolveIs
<1>2. segment' = segment /\ batch.canonical \in Nat
  BY Bounds DEF Resolve
<1>3. ASSUME NEW s \in Manifests(segment) PROVE ManifestOK(s)'
  <2>1. /\ FirstOrdinal(s) + SegmentSize <= batch.canonical /\ ManifestIntact(s)
        /\ segment[s].count = ItemCount(s, batch.canonical) /\ FirstOrdinal(s) \in Nat
    BY <1>1, ManifestIs DEF IInv, ManifestsOK, ManifestOK
  <2>2. ItemCount(s, batch.canonical) = ItemCount(s, batch'.canonical)
        /\ FirstOrdinal(s) + SegmentSize <= batch'.canonical /\ FirstOrdinal(s) < batch'.canonical
    BY <1>1, <1>2, <2>1, Sizes DEF ItemCount, Lesser
  <2>3. \A o \in ItemsOf(s) : item'[o] = item[o] \/ item'[o].state = "terminal"
    <3> SUFFICES ASSUME NEW o \in ItemsOf(s) PROVE item'[o] = item[o] \/ item'[o].state = "terminal"
      OBVIOUS
    <3>1. o \in Ordinals /\ o < batch.canonical /\ o \in Int
      BY ManifestIs, Sizes DEF Ordinals
    <3>2. o \notin batch.canonical .. batch.canonical + kept - 1
      BY <1>1, <1>2, <3>1
    <3> QED
      BY <3>1, <3>2, <1>1 DEF Resolve
  <2>4. ManifestIntact(s)'
    BY <1>2, <2>1, <2>3 DEF ManifestIntact, ItemsOf
  <2> QED
    BY <1>2, <2>1, <2>2, <2>4 DEF ManifestOK
<1>4. /\ Manifests(segment)' = Manifests(segment) /\ SealedItems' = SealedItems
      /\ PublishedItems' = PublishedItems
  BY <1>2 DEF Manifests, SealedItems, PublishedItems, ItemsOf
<1> QED
  BY <1>1, <1>3, <1>4 DEF IInv, ManifestsOK

\* Manifests through sealing.
LEMMA SealManifests ==
  ASSUME IInv, NEW c \in Claims, Seal(c) PROVE ManifestsOK'
<1>0. PICK prefix \in BOOLEAN : prefix = (batch.phase = "listing")
  OBVIOUS
<1> DEFINE now == SealedNow(prefix)
           made == ItemsSealedNow(prefix)
<1>1. /\ batch'.canonical = batch.canonical /\ batch'.published = batch.published
      /\ segment' = [s \in SegmentOrdinals |->
              IF s \in now
              THEN [NoSegment EXCEPT !.status = "sealed", !.count = ItemCount(s, batch.canonical)]
              ELSE segment[s]]
      /\ batch'.sealed = batch.sealed + Cardinality(made)
      /\ batch'.phase \in {"none", "listing", "compaction"} =>
           prefix /\ batch.phase \in {"none", "listing", "compaction"}
  BY <1>0, SealIs
<1>2. item' = item /\ batch.canonical \in Nat /\ batch.canonical <= Jobs
  BY Bounds DEF Seal
<1>3. \A s \in now : /\ s \in SegmentOrdinals /\ s \in Nat /\ FirstOrdinal(s) \in Nat
                     /\ segment[s].status = "none" /\ FirstOrdinal(s) < batch.canonical
                     /\ ItemCount(s, batch.canonical) \in 1 .. SegmentSize
                     /\ FirstOrdinal(s) + ItemCount(s, batch.canonical) <= batch.canonical
                     /\ FirstOrdinal(s) + ItemCount(s, batch.canonical) <= Sealable(prefix)
                     /\ prefix => FirstOrdinal(s) + SegmentSize <= batch.canonical
                     /\ \A o \in FirstOrdinal(s) .. FirstOrdinal(s) + ItemCount(s, batch.canonical) - 1 :
                          item[o].state = "terminal"
  <2> SUFFICES ASSUME NEW s \in now
               PROVE /\ s \in SegmentOrdinals /\ s \in Nat /\ FirstOrdinal(s) \in Nat
                     /\ segment[s].status = "none" /\ FirstOrdinal(s) < batch.canonical
                     /\ ItemCount(s, batch.canonical) \in 1 .. SegmentSize
                     /\ FirstOrdinal(s) + ItemCount(s, batch.canonical) <= batch.canonical
                     /\ FirstOrdinal(s) + ItemCount(s, batch.canonical) <= Sealable(prefix)
                     /\ prefix => FirstOrdinal(s) + SegmentSize <= batch.canonical
                     /\ \A o \in FirstOrdinal(s) .. FirstOrdinal(s) + ItemCount(s, batch.canonical) - 1 :
                          item[o].state = "terminal"
    OBVIOUS
  <2>1. s \in ReadySegments(prefix)
    BY DEF SealedNow
  <2> QED
    BY <2>1, ReadyIs
<1> HIDE DEF now
<1>4. \A s \in SegmentOrdinals :
        /\ s \in now => segment'[s].status = "sealed" /\ segment'[s].count = ItemCount(s, batch.canonical)
        /\ s \notin now => segment'[s] = segment[s]
  BY <1>1 DEF NoSegment
<1>5. Manifests(segment)' = Manifests(segment) \cup now /\ Manifests(segment) \cap now = {}
      /\ Manifests(segment) \subseteq SegmentOrdinals
  BY <1>3, <1>4 DEF Manifests
<1>6. \A s \in Manifests(segment) : ItemsOf(s)' = ItemsOf(s) /\ segment'[s] = segment[s]
  BY <1>4, <1>5 DEF ItemsOf
<1>7. \A s \in now : ItemsOf(s)' = FirstOrdinal(s) .. FirstOrdinal(s) + ItemCount(s, batch.canonical) - 1
  BY <1>3, <1>4 DEF ItemsOf
<1>8. ASSUME NEW s \in Manifests(segment)' PROVE ManifestOK(s)'
  <2>1. CASE s \in Manifests(segment)
    <3>1. ManifestOK(s)
      BY <2>1 DEF IInv, ManifestsOK
    <3>2. ManifestIntact(s)'
      BY <1>2, <1>6, <2>1, <3>1 DEF ManifestOK, ManifestIntact
    <3> QED
      BY <1>1, <1>6, <2>1, <3>1, <3>2 DEF ManifestOK
  <2>2. CASE s \in now
    <3>1. ManifestIntact(s)'
      BY <1>2, <1>3, <1>7, <2>2 DEF ManifestIntact
    <3> QED
      BY <1>1, <1>3, <1>4, <2>2, <3>1 DEF ManifestOK
  <2> QED
    BY <1>5, <1>8, <2>1, <2>2
<1>9. \A o \in Ordinals : o \in made <=> \E s \in now : o \in ItemsOf(s)'
  <2> SUFFICES ASSUME NEW o \in Ordinals PROVE o \in made <=> \E s \in now : o \in ItemsOf(s)'
    OBVIOUS
  <2>1. o \in Nat
    BY Sizes DEF Ordinals
  <2>2. ASSUME o \in made PROVE \E s \in now : o \in ItemsOf(s)'
    <3>1. PICK s \in now : s = o \div SegmentSize
      BY <2>2 DEF ItemsSealedNow, now
    <3>2. o < Sealable(prefix)
      BY <2>2 DEF ItemsSealedNow
    <3>3. Sealable(prefix) <= batch.canonical /\ Sealable(prefix) \in Nat
      BY <1>2, SegmentOf, Multiples DEF Sealable, FirstOrdinal
    <3>4. FirstOrdinal(s) <= o /\ o < FirstOrdinal(s) + SegmentSize /\ o < batch.canonical
      BY <1>2, <2>1, <3>1, <3>2, <3>3, SegmentOf
    <3>5. o \in FirstOrdinal(s) .. FirstOrdinal(s) + ItemCount(s, batch.canonical) - 1
      BY <1>2, <1>3, <2>1, <3>4, Sizes DEF ItemCount, Lesser
    <3> QED
      BY <1>7, <3>5
  <2>3. ASSUME NEW s \in now, o \in ItemsOf(s)' PROVE o \in made
    <3>1. /\ s \in Nat /\ FirstOrdinal(s) \in Nat /\ ItemCount(s, batch.canonical) \in 1 .. SegmentSize
          /\ FirstOrdinal(s) + ItemCount(s, batch.canonical) <= Sealable(prefix)
          /\ Sealable(prefix) \in Nat
      BY <1>2, <1>3, SegmentOf, Multiples DEF Sealable, FirstOrdinal
    <3>2. FirstOrdinal(s) <= o /\ o < FirstOrdinal(s) + SegmentSize /\ o < Sealable(prefix)
      BY <1>7, <2>1, <2>3, <3>1, Sizes
    <3>3. o \div SegmentSize = s
      BY <2>1, <3>1, <3>2, SegmentUnique
    <3> QED
      BY <3>2, <3>3 DEF ItemsSealedNow, now
  <2> QED
    BY <2>2, <2>3
<1>10. SealedItems' = SealedItems \cup made
  <2>1. made \subseteq Ordinals
    BY DEF ItemsSealedNow
  <2> QED
    BY <1>5, <1>6, <1>9, <2>1 DEF SealedItems
<1>11. SealedItems \cap made = {}
  <2>1. ASSUME NEW o \in SealedItems PROVE o \div SegmentSize \in Manifests(segment)
    BY ManifestIs DEF SealedItems
  <2>2. \A o \in made : o \div SegmentSize \in now
    BY DEF ItemsSealedNow, now
  <2> QED
    BY <1>5, <2>1, <2>2
<1>12. batch'.sealed = Cardinality(SealedItems')
  <2>1. SealedItems \subseteq Ordinals /\ made \subseteq Ordinals
    BY DEF SealedItems, ItemsSealedNow
  <2> QED
    BY <1>1, <1>10, <1>11, <2>1, DisjointSum DEF IInv, ManifestsOK
<1>13. PublishedItems' = PublishedItems
  <2>1. \A s \in now : segment'[s].status = "sealed"
    BY <1>3, <1>4
  <2> QED
    BY <1>5, <1>6, <2>1 DEF PublishedItems
<1> QED
  BY <1>1, <1>8, <1>12, <1>13 DEF IInv, ManifestsOK

\* Manifests through publication.
LEMMA PublishManifests ==
  ASSUME IInv, NEW chosen \in SUBSET SegmentOrdinals, Publish(chosen) PROVE ManifestsOK'
<1> DEFINE made == {o \in Ordinals : o \div SegmentSize \in chosen /\ o \in ItemsOf(o \div SegmentSize)}
<1>1. /\ \A s \in chosen : segment[s].status = "sealed"
      /\ segment' = [s \in SegmentOrdinals |->
                       IF s \in chosen THEN [segment[s] EXCEPT !.status = "published"] ELSE segment[s]]
      /\ batch'.published = batch.published + Cardinality(made)
      /\ batch'.canonical = batch.canonical /\ batch'.sealed = batch.sealed /\ batch'.phase = batch.phase
  BY PublishIs
<1>2. \A s \in SegmentOrdinals :
        /\ segment'[s].count = segment[s].count
        /\ s \in chosen => segment'[s].status = "published"
        /\ s \notin chosen => segment'[s] = segment[s]
  BY <1>1, Typed DEF SegmentRows
<1>3. item' = item
  BY DEF Publish
<1>4. Manifests(segment)' = Manifests(segment) /\ chosen \subseteq Manifests(segment)
      /\ Manifests(segment) \subseteq SegmentOrdinals
  BY <1>1, <1>2 DEF Manifests
<1>5. \A s \in SegmentOrdinals : ItemsOf(s)' = ItemsOf(s)
  BY <1>2 DEF ItemsOf
<1>6. SealedItems' = SealedItems
  BY <1>4, <1>5 DEF SealedItems
<1>7. \A o \in Ordinals : o \in made <=> \E s \in chosen : o \in ItemsOf(s)
  BY <1>4, ManifestIs
<1>8. PublishedItems' = PublishedItems \cup made
  <2>1. ASSUME NEW o \in Ordinals
        PROVE  o \in PublishedItems' <=> o \in PublishedItems \/ o \in made
    <3>1. o \in PublishedItems' <=> \E s \in Manifests(segment) : o \in ItemsOf(s) /\ segment'[s].status # "sealed"
      BY <1>4, <1>5 DEF PublishedItems
    <3>2. \A s \in Manifests(segment) :
            segment'[s].status # "sealed" <=> s \in chosen \/ segment[s].status # "sealed"
      BY <1>1, <1>2, <1>4
    <3> QED
      BY <1>4, <1>7, <3>1, <3>2 DEF PublishedItems
  <2> QED
    BY <2>1 DEF PublishedItems
<1>9. PublishedItems \cap made = {}
  <2>1. ASSUME NEW o \in PublishedItems PROVE o \div SegmentSize \notin chosen
    <3>1. PICK s \in Manifests(segment) : o \in ItemsOf(s) /\ segment[s].status # "sealed"
      BY DEF PublishedItems
    <3> QED
      BY <1>1, <3>1, ManifestIs
  <2> QED
    BY <2>1
<1>10. batch'.published = Cardinality(PublishedItems')
  <2>1. PublishedItems \subseteq Ordinals /\ made \subseteq Ordinals
    BY DEF PublishedItems
  <2> QED
    BY <1>1, <1>8, <1>9, <2>1, DisjointSum DEF IInv, ManifestsOK
<1>11. ASSUME NEW s \in Manifests(segment) PROVE ManifestOK(s)'
  <2>1. ManifestIntact(s)'
    BY <1>3, <1>4, <1>5 DEF IInv, ManifestsOK, ManifestOK, ManifestIntact
  <2> QED
    BY <1>1, <1>2, <1>4, <2>1 DEF IInv, ManifestsOK, ManifestOK
<1> QED
  BY <1>1, <1>4, <1>6, <1>10, <1>11 DEF IInv, ManifestsOK

\* Every step keeps the part of the invariant on manifests.
LEMMA ManifestsKept == ASSUME IInv, [Next]_vars PROVE ManifestsOK'
<1>1. CASE Still
  BY <1>1, ManifestsStill DEF Still, SameWork, SameItems
<1>2. ASSUME NEW c \in Claims, Works(c) PROVE ManifestsOK'
  <2>1. CASE Admit(c)
    BY <2>1, AdmitIs, ManifestsStill, SameRows DEF Admit
  <2>2. CASE Materialize(c) \/ Lists(c)
    <3>1. item' = item /\ segment' = segment
      BY <2>2 DEF Materialize, Lists, CommitPage
    <3> QED
      BY <2>2, <3>1, ListingBatch, ManifestsStill, SameRows
  <2>3. CASE Resolves(c)
    BY <2>3, ResolveManifests DEF Resolves
  <2>4. CASE Marks(c)
    <3>1. PICK n : batch' = [batch EXCEPT !.terminal = n]
      BY <2>4, MarksIs
    <3>2. \A o \in Ordinals : item[o].state = "terminal" => item'[o].state = "terminal"
      BY <2>4, MarksIs DEF Unmarked
    <3>3. segment' = segment
      BY <2>4 DEF Marks, Mark
    <3> QED
      BY <3>1, <3>2, <3>3, OnlyTerminal, ManifestsStill, SameRows
  <2>5. CASE DetailAnswer(c)
    <3>1. batch' = batch \/ \E n : batch' = [batch EXCEPT !.terminal = n]
      BY <2>5, AnswerIs
    <3>2. \A o \in Ordinals : item[o].state = "terminal" => item'[o].state = "terminal"
      BY <2>5, AnswerIs, Typed DEF TerminalItem
    <3>3. segment' = segment
      BY <2>5 DEF DetailAnswer
    <3> QED
      BY <3>1, <3>2, <3>3, OnlyTerminal, ManifestsStill, SameRows
  <2> QED
    BY <1>2, <2>1, <2>2, <2>3, <2>4, <2>5, SealManifests DEF Works
<1> QED
  BY <1>1, <1>2, PublishManifests, StillOrWorks
----------------------------------------------------------------------------
(* The workers are kept.                                                    *)

\* A worker whose claim and batch do not move.
LEMMA WorkerSame ==
  ASSUME IInv, NEW d \in Claims, claim'[d] = claim[d],
         batch'.token = d => batch.token = d /\ batch'.phase = batch.phase /\ page' = page
  PROVE  WorkerOK(d)'
<1>1. WorkerOK(d)
  BY DEF IInv, WorkersOK
<1>2. page' = page => IncompletePages' = IncompletePages
  BY DEF IncompletePages
<1> QED
  BY <1>1, <1>2 DEF WorkerOK, KindsAt

\* A quantum ends.
LEMMA WorkerEnds ==
  ASSUME NEW d \in Claims, claim'[d].stage \in {"idle", "settle"}, claim'[d].kind \in Kinds
  PROVE  WorkerOK(d)'
BY DEF WorkerOK, KindsAt, Kinds

\* A quantum goes on in the phase it is in.
LEMMA WorkerMoves ==
  ASSUME IInv, NEW d \in Claims, claim'[d].kind = claim[d].kind,
         claim'[d].kind \in KindsAt(claim'[d].stage),
         claim'[d].stage = "answer" => claim'[d].item \in Ordinals,
         claim[d].stage \notin {"idle", "settle", "pages"},
         claim'[d].kind = "listing" /\ claim'[d].stage \in {"resolve", "mark", "detail", "answer", "seal", "fetch"} =>
           claim[d].stage \in {"resolve", "mark", "detail", "answer", "seal", "fetch"},
         batch'.token = d => batch.token = d /\ batch'.phase = batch.phase /\ page' = page
  PROVE  WorkerOK(d)'
<1>1. WorkerOK(d)
  BY DEF IInv, WorkersOK
<1>2. page' = page => IncompletePages' = IncompletePages
  BY DEF IncompletePages
<1> QED
  BY <1>1, <1>2 DEF WorkerOK

\* Only its own worker moves a claim, and nothing that another owner relies on.
LEMMA OthersSame ==
  ASSUME IInv, NEW c \in Claims, ClaimStep(c) \/ ClaimTrouble(c), NEW d \in Claims, d # c
  PROVE  WorkerOK(d)'
<1>1. claim'[d] = claim[d]
  BY Typed DEF ClaimStep, ClaimTrouble, OpenReceipt, Settle, LoseFence, Materialize, ResumeListing, CommitPage,
     Resolve, Mark, ClaimDetail, DetailAnswer, Seal, Admit, TakeContinuation, Heartbeat, Abandon, Crash,
     DetailError, Go
<1>2. CASE Owns(c) /\ batch'.token = batch.token
  BY <1>1, <1>2, WorkerSame DEF Owns
<1>3. CASE batch'.token = c
  BY <1>1, <1>3, WorkerSame
<1>4. CASE batch'.token \in {batch.token, None} /\ batch'.phase = batch.phase /\ page' = page
  BY <1>1, <1>4, Sizes, WorkerSame
<1>5. \/ Owns(c) /\ batch'.token = batch.token
      \/ batch'.token = c
      \/ batch'.token \in {batch.token, None} /\ batch'.phase = batch.phase /\ page' = page
  <2>0. batch \in BatchRows
    BY Typed
  <2>1. CASE Admit(c) \/ TakeContinuation(c)
    BY <2>0, <2>1 DEF Admit, TakeContinuation, BatchRows
  <2>2. CASE Heartbeat(c)
    BY <2>0, <2>2 DEF Heartbeat, BatchRows
  <2>3. CASE Settle(c)
    BY <2>3, SettleBatch DEF Settle, SameWork
  <2>4. CASE OpenReceipt(c) \/ LoseFence(c) \/ Abandon(c) \/ Crash(c) \/ ResumeListing(c) \/ ClaimDetail(c)
             \/ DetailError(c)
    BY <2>4 DEF OpenReceipt, LoseFence, Abandon, Crash, ResumeListing, ClaimDetail, DetailError
  <2>5. CASE DetailAnswer(c)
    <3>1. batch' = batch \/ batch' = [batch EXCEPT !.terminal = batch.terminal + 1]
      BY <2>5, AnswerIs
    <3> QED
      BY <2>0, <2>5, <3>1 DEF DetailAnswer, BatchRows
  <2>6. CASE Marks(c)
    <3>1. PICK n : batch' = [batch EXCEPT !.terminal = n]
      BY <2>6, MarksIs
    <3> QED
      BY <2>6, <3>1, OnlyTerminal DEF Marks, Mark
  <2>7. CASE Materialize(c) \/ Lists(c)
    BY <2>7, ListingBatch DEF Materialize, Lists, CommitPage
  <2>8. ASSUME NEW n \in 0 .. PageSize, CommitPage(c, n), PageRefused(claim[c].cursor)
        PROVE  batch' = batch /\ page' = page
    BY <2>8 DEF CommitPage
  <2>9. ASSUME NEW kept \in 0 .. Chunk, NEW invalid \in SUBSET Ordinals, Resolve(c, kept, invalid)
        PROVE  Owns(c) /\ batch'.token = batch.token
    BY <2>9, ResolveIs DEF Resolve
  <2>10. CASE Seal(c)
    <3>1. PICK prefix : prefix = (batch.phase = "listing")
      OBVIOUS
    <3> QED
      BY <2>10, <3>1, SealIs DEF Seal
  <2> QED
    BY <2>1, <2>2, <2>3, <2>4, <2>5, <2>6, <2>7, <2>8, <2>9, <2>10 DEF ClaimStep, ClaimTrouble, Lists, Marks
<1> QED
  BY <1>2, <1>3, <1>4, <1>5

\* Going on to another stage changes nothing else of a worker.
LEMMA GoIs ==
  ASSUME IInv, NEW c \in Claims, NEW stage, Go(c, stage)
  PROVE  claim'[c].stage = stage /\ claim'[c].kind = claim[c].kind /\ claim'[c].item = claim[c].item
         /\ claim[c].kind \in Kinds
<1>1. claim[c] \in ClaimRows /\ claim \in [Claims -> ClaimRows]
  BY Typed
<1> QED
  BY <1>1 DEF Go, ClaimRows

\* A claim begins, or its worker stops.
LEMMA WorkerBegins ==
  ASSUME IInv, NEW c \in Claims,
         Admit(c) \/ TakeContinuation(c) \/ OpenReceipt(c) \/ Settle(c) \/ LoseFence(c) \/ Abandon(c)
           \/ Crash(c) \/ Heartbeat(c)
  PROVE  WorkerOK(c)'
<1>0. claim \in [Claims -> ClaimRows] /\ claim[c] \in ClaimRows /\ batch \in BatchRows
  BY Typed
<1>1. CASE Admit(c)
  <2>1. claim'[c] = [stage |-> "pages", kind |-> "listing", cursor |-> 0, item |-> None]
    BY <1>0, <1>1 DEF Admit
  <2>2. batch'.phase = "listing"
    BY <1>1, AdmitIs
  <2> QED
    BY <2>1, <2>2 DEF WorkerOK, KindsAt
<1>2. CASE TakeContinuation(c)
  <2>1. claim'[c] = [stage |-> "opening", kind |-> batch.phase, cursor |-> batch.listingOffset, item |-> None]
    BY <1>0, <1>2 DEF TakeContinuation
  <2>2. batch'.phase = batch.phase /\ batch.phase \in Kinds
    BY <1>0, <1>2 DEF TakeContinuation, BatchRows
  <2> QED
    BY <2>1, <2>2 DEF WorkerOK, KindsAt
<1>3. CASE OpenReceipt(c)
  <2>1. /\ claim'[c].stage = FirstStage(claim[c].kind) /\ claim'[c].kind = claim[c].kind
        /\ claim[c].kind \in Kinds
    BY <1>3, GoIs DEF OpenReceipt
  <2> QED
    BY <1>3, <2>1, WorkerMoves DEF OpenReceipt, FirstStage, KindsAt, Kinds
<1>4. CASE Settle(c) \/ LoseFence(c) \/ Abandon(c) \/ Crash(c)
  <2>1. claim'[c].stage \in {"idle", "settle"} /\ claim'[c].kind \in Kinds
    <3>1. CASE Crash(c)
      BY <1>0, <3>1 DEF Crash, ClaimRows
    <3> QED
      BY <1>4, <3>1, GoIs DEF Settle, LoseFence, Abandon
  <2> QED
    BY <2>1, WorkerEnds
<1>5. CASE Heartbeat(c)
  <2>1. batch'.token = batch.token /\ batch'.phase = batch.phase
    BY <1>0, <1>5 DEF Heartbeat, BatchRows
  <2> QED
    BY <1>5, <2>1, WorkerSame DEF Heartbeat
<1> QED
  BY <1>1, <1>2, <1>3, <1>4, <1>5

\* The worker itself through materialization.
LEMMA MaterializeWorker ==
  ASSUME IInv, NEW c \in Claims, Materialize(c) PROVE WorkerOK(c)'
<1>a. PICK o, n, ends, over :
        /\ o = PendingPage /\ n = Lesser(Chunk, page[o].size - page[o].materialized)
        /\ ends = ListingComplete(LatestPage, page[LatestPage].size)
        /\ over = (ends \/ Anomalous(LatestPage, page[LatestPage].size))
  OBVIOUS
<1>b. PICK stage :
        /\ Go(c, stage)
        /\ stage \in (IF page[o].materialized + n # page[o].size THEN {claim[c].stage, "settle"}
                      ELSE IF claim[c].stage = "pages" THEN {"pages", "settle"}
                      ELSE IF over THEN {"settle"} ELSE {"fetch", "settle"})
  BY <1>a DEF Materialize
<1>0. /\ page' = [page EXCEPT ![o].materialized = page[o].materialized + n]
      /\ batch' = [batch EXCEPT !.raw = batch.raw + n,
             !.phase = MaterializedPhase(page[o].materialized + n = page[o].size, ends, IncompletePages \ {o})]
  BY <1>a DEF Materialize
<1>c. /\ page[o].materialized + n # page[o].size => stage \in {claim[c].stage, "settle"}
      /\ page[o].materialized + n = page[o].size =>
           stage = "settle" \/ (stage = "pages" /\ claim[c].stage = "pages") \/ (stage = "fetch" /\ ~ends)
  BY <1>a, <1>b
<1>1. claim[c].stage \in {"pages", "body"} /\ Owns(c) /\ IncompletePages # {}
  BY DEF Materialize
<1>2. /\ IncompletePages = {o} /\ o \in Offsets /\ batch.phase = "listing"
  BY <1>a, <1>1, PendingIs, OwnerPhase
<1>3. claim[c].kind = "listing"
  BY <1>1 DEF IInv, WorkersOK, WorkerOK, KindsAt
<1>4. PICK phase : phase = MaterializedPhase(page[o].materialized + n = page[o].size, ends, IncompletePages \ {o})
  OBVIOUS
<1>5. batch'.phase = phase
  <2>1. batch \in BatchRows
    BY Typed
  <2> QED
    BY <1>0, <1>4, <2>1 DEF BatchRows
<1>6. claim'[c].stage = stage /\ claim'[c].kind = "listing" /\ claim'[c].kind \in Kinds
  BY <1>b, <1>3, GoIs DEF Kinds
<1>7. CASE stage = "settle"
  BY <1>6, <1>7, WorkerEnds
<1>8. CASE stage = "pages"
  <2>1. batch'.phase \in {"listing", "compaction"}
    BY <1>4, <1>5 DEF MaterializedPhase
  <2> QED
    BY <1>6, <1>8, <2>1 DEF WorkerOK, KindsAt
<1>9. CASE stage = "body"
  <2>1. batch'.phase = "listing"
    BY <1>c, <1>1, <1>4, <1>5, <1>9 DEF MaterializedPhase
  <2> QED
    BY <1>6, <1>9, <2>1 DEF WorkerOK, KindsAt
<1>10. CASE stage = "fetch"
  <2>1. ~ends /\ page[o].materialized + n = page[o].size
    BY <1>c, <1>1, <1>10
  <2>2. batch'.phase = "listing"
    BY <1>4, <1>5, <2>1 DEF MaterializedPhase
  <2>3. IncompletePages' = {}
    <3>1. /\ page'[o].materialized = page[o].size /\ page'[o].size = page[o].size /\ page[o].size \in Nat
          /\ \A p \in Offsets : p # o => page'[p] = page[p]
      BY <1>0, <1>2, <2>1, Typed, Sizes DEF PageRows
    <3> QED
      BY <1>2, <3>1 DEF IncompletePages
  <2> QED
    BY <1>6, <1>10, <2>2, <2>3 DEF WorkerOK, KindsAt
<1> QED
  BY <1>c, <1>1, <1>7, <1>8, <1>9, <1>10

\* The worker itself through listing.
LEMMA ListingWorker ==
  ASSUME IInv, NEW c \in Claims, ResumeListing(c) \/ \E n \in 0 .. PageSize : CommitPage(c, n)
  PROVE  WorkerOK(c)'
<1>1. CASE ResumeListing(c)
  <2>1. /\ claim[c].stage = "pages" /\ Owns(c) /\ IncompletePages = {} /\ batch' = batch /\ page' = page
    BY <1>1 DEF ResumeListing
  <2>2. PICK stage \in {"settle", "resolve"} :
          /\ Go(c, stage)
          /\ stage = "resolve" => ~(SavedPages # {} /\ ListingComplete(LatestPage, page[LatestPage].size))
    BY <1>1 DEF ResumeListing
  <2>3. claim'[c].stage = stage /\ claim'[c].kind = "listing" /\ claim'[c].kind \in Kinds
    <3>1. claim[c].kind = "listing"
      BY <2>1 DEF IInv, WorkersOK, WorkerOK, KindsAt
    <3> QED
      BY <2>2, <3>1, GoIs
  <2>4. CASE stage = "settle"
    BY <2>3, <2>4, WorkerEnds
  <2>5. CASE stage = "resolve"
    <3>1. batch.phase = "listing" \/ batch.phase = "compaction"
      BY <2>1, <2>2, <2>3, GoIs DEF IInv, WorkersOK, WorkerOK, Owns
    <3>2. batch.phase # "compaction"
      <4>1. batch.phase = "compaction" => SavedPages # {} /\ batch.listingOffset = total
        BY DEF IInv, ListingOK
      <4> QED
        BY <2>2, <2>5, <4>1, LatestIs
    <3>3. IncompletePages' = {}
      BY <2>1 DEF IncompletePages
    <3> QED
      BY <2>1, <2>3, <2>5, <3>1, <3>2, <3>3 DEF WorkerOK, KindsAt
  <2> QED
    BY <2>4, <2>5
<1>2. ASSUME NEW n \in 0 .. PageSize, CommitPage(c, n), PageRefused(claim[c].cursor) PROVE WorkerOK(c)'
  BY <1>2, GoIs, WorkerEnds DEF CommitPage
<1>3. CASE Lists(c)
  <2>1. PICK o \in Offsets, n \in Nat :
           /\ o = claim[c].cursor /\ batch.phase = "listing" /\ ~page[o].saved /\ batch.listingOffset = o
           /\ IncompletePages = {} /\ batch.raw = o /\ o + n <= total /\ o + n \in Offsets
           /\ page' = [page EXCEPT ![o] = SavedPage(n)]
           /\ \E phase \in {"listing", "compaction"} :
                /\ batch' = [batch EXCEPT !.listingOffset = o + n, !.raw = IF n <= Chunk THEN o + n ELSE o,
                                          !.phase = phase]
                /\ phase = "compaction" => n <= Chunk /\ o + n = total
           /\ \E stage \in {"body", "settle", "fetch"} :
                /\ claim' = [claim EXCEPT ![c].stage = stage, ![c].cursor = o + n]
                /\ stage = "fetch" => n <= Chunk /\ o + n # total
                /\ stage = "body" => ~(n <= Chunk)
    BY <1>3, ListsIs
  <2>2. PICK stage \in {"body", "settle", "fetch"} :
          /\ claim' = [claim EXCEPT ![c].stage = stage, ![c].cursor = o + n]
          /\ stage = "fetch" => n <= Chunk /\ o + n # total
          /\ stage = "body" => ~(n <= Chunk)
    BY <2>1
  <2>3. PICK phase \in {"listing", "compaction"} :
          /\ batch' = [batch EXCEPT !.listingOffset = o + n, !.raw = IF n <= Chunk THEN o + n ELSE o,
                                    !.phase = phase]
          /\ phase = "compaction" => n <= Chunk /\ o + n = total
    BY <2>1
  <2>4. batch'.phase = phase
    <3>1. batch \in BatchRows
      BY Typed
    <3> QED
      BY <2>3, <3>1 DEF BatchRows
  <2>5. claim[c].kind = "listing"
    BY <1>3, OwnerPhase DEF Lists, CommitPage
  <2>6. claim'[c].stage = stage /\ claim'[c].kind = "listing"
    <3>1. claim[c] \in ClaimRows /\ claim \in [Claims -> ClaimRows]
      BY Typed
    <3> QED
      BY <2>2, <2>5, <3>1 DEF ClaimRows
  <2>7. CASE stage = "settle"
    BY <2>6, <2>7, WorkerEnds DEF Kinds
  <2>8. CASE stage = "body"
    BY <2>2, <2>3, <2>4, <2>6, <2>8 DEF WorkerOK, KindsAt
  <2>9. CASE stage = "fetch"
    <3>1. IncompletePages' = {}
      <4>1. page'[o].materialized = page'[o].size /\ n \in Nat /\ page'[o].size = n
            /\ \A p \in Offsets : p # o => page'[p] = page[p]
        BY <2>1, <2>2, <2>9, Typed DEF SavedPage
      <4> QED
        BY <2>1, <4>1 DEF IncompletePages
    <3>2. batch'.phase = "listing"
      BY <2>2, <2>3, <2>4, <2>9
    <3> QED
      BY <2>6, <2>9, <3>1, <3>2 DEF WorkerOK, KindsAt
  <2> QED
    BY <2>7, <2>8, <2>9
<1> QED
  BY <1>1, <1>2, <1>3 DEF Lists

\* The worker itself through the resolution of a chunk.
LEMMA ResolveWorker ==
  ASSUME IInv, NEW c \in Claims, NEW kept \in 0 .. Chunk, NEW invalid \in SUBSET Ordinals,
         Resolve(c, kept, invalid)
  PROVE  WorkerOK(c)'
<1>0. PICK n, done : /\ n = Lesser(Chunk, batch.raw - (batch.canonical + batch.compacted))
                     /\ done = (batch.canonical + batch.compacted + n = batch.raw)
  OBVIOUS
<1>1. PICK phase : phase = ResolvedPhase(batch.phase = "listing", done)
  OBVIOUS
<1>2. batch'.phase = phase
  <2>1. PICK a, b, d : batch' = [batch EXCEPT !.canonical = a, !.compacted = b, !.terminal = d, !.phase = phase]
    BY <1>0, <1>1 DEF Resolve
  <2>2. batch \in BatchRows
    BY Typed
  <2> QED
    BY <2>1, <2>2 DEF BatchRows
<1>3. /\ WorkerOK(c) /\ batch.token = c /\ claim[c].stage = "resolve" /\ page' = page
      /\ claim[c].kind \in {"listing", "compaction"} /\ batch.phase = claim[c].kind
  BY DEF Resolve, IInv, WorkersOK, WorkerOK, Owns, KindsAt
<1>4. PICK stage : Go(c, stage) /\ stage \in IF claim[c].kind # "listing" /\ done THEN {"settle"} ELSE AfterResolve(c)
  BY <1>0 DEF Resolve
<1>5. claim'[c].stage = stage /\ claim'[c].kind = claim[c].kind
  BY <1>4, GoIs
<1>6. IncompletePages' = IncompletePages
  BY <1>3 DEF IncompletePages
<1>7. CASE claim[c].kind = "listing"
  <2>1. stage \in {"mark", "seal"} /\ phase = "listing"
    BY <1>1, <1>3, <1>4, <1>7 DEF AfterResolve, ResolvedPhase
  <2> QED
    BY <1>2, <1>3, <1>5, <1>6, <1>7, <2>1 DEF WorkerOK, KindsAt
<1>8. CASE claim[c].kind = "compaction"
  <2>1. stage = "settle" \/ (stage = "resolve" /\ phase = "compaction")
    BY <1>1, <1>3, <1>4, <1>8 DEF AfterResolve, ResolvedPhase
  <2> QED
    BY <1>2, <1>3, <1>5, <1>6, <1>8, <2>1 DEF WorkerOK, KindsAt, Kinds
<1> QED
  BY <1>3, <1>7, <1>8

\* The worker itself through marking and detail requests.
LEMMA ItemWorker ==
  ASSUME IInv, NEW c \in Claims, Marks(c) \/ ClaimDetail(c) \/ DetailAnswer(c) \/ DetailError(c)
  PROVE  WorkerOK(c)'
<1>0. /\ WorkerOK(c) /\ batch \in BatchRows /\ claim \in [Claims -> ClaimRows] /\ claim[c] \in ClaimRows
  BY Typed DEF IInv, WorkersOK
<1>1. page' = page /\ batch'.token = batch.token /\ batch'.phase = batch.phase
  <2>1. CASE Marks(c)
    <3>1. PICK n : batch' = [batch EXCEPT !.terminal = n]
      BY <2>1, MarksIs
    <3> QED
      BY <2>1, <3>1, OnlyTerminal DEF Marks, Mark
  <2>2. CASE DetailAnswer(c)
    <3>1. batch' = batch \/ \E n : batch' = [batch EXCEPT !.terminal = n]
      BY <2>2, AnswerIs
    <3> QED
      BY <2>2, <3>1, OnlyTerminal DEF DetailAnswer
  <2> QED
    BY <2>1, <2>2 DEF ClaimDetail, DetailError
<1>2. claim[c].stage \in {"mark", "detail", "answer"} /\ claim[c].kind \in {"listing", "enrichment"}
  BY <1>0 DEF Marks, Mark, ClaimDetail, DetailAnswer, DetailError, WorkerOK, KindsAt
<1>3. /\ claim'[c].kind = claim[c].kind /\ claim'[c].stage \in {"detail", "answer", "seal", "settle"}
      /\ claim'[c].stage = "answer" => claim'[c].item \in Ordinals
  <2>1. CASE Marks(c)
    BY <2>1, GoIs DEF Marks, Mark
  <2>2. CASE ClaimDetail(c) /\ MayDrain(c, "enrichment") /\ DetailDue # {}
    <3>1. PICK o : o = CHOOSE d \in DetailDue : \A q \in DetailDue : d <= q
      OBVIOUS
    <3>2. o \in Ordinals
      BY <2>2, <3>1, DetailIs DEF DetailDue
    <3>3. claim' = [claim EXCEPT ![c].stage = "answer", ![c].item = o]
      BY <2>2, <3>1 DEF ClaimDetail
    <3> QED
      BY <1>0, <3>2, <3>3 DEF ClaimRows
  <2>3. CASE ClaimDetail(c) /\ ~(MayDrain(c, "enrichment") /\ DetailDue # {})
    BY <2>3, GoIs DEF ClaimDetail
  <2>4. CASE DetailAnswer(c) \/ DetailError(c)
    <3>1. PICK stage \in {"detail", "seal", "settle"} : claim' = [claim EXCEPT ![c].stage = stage, ![c].item = None]
      BY <2>4 DEF DetailAnswer, DetailError
    <3> QED
      BY <1>0, <3>1 DEF ClaimRows
  <2> QED
    BY <2>1, <2>2, <2>3, <2>4
<1>4. claim'[c].kind \in KindsAt(claim'[c].stage)
  BY <1>2, <1>3 DEF KindsAt, Kinds
<1> QED
  BY <1>1, <1>2, <1>3, <1>4, WorkerMoves

\* The worker itself through sealing.
LEMMA SealWorker ==
  ASSUME IInv, NEW c \in Claims, Seal(c) PROVE WorkerOK(c)'
<1>1. /\ WorkerOK(c) /\ batch.token = c /\ claim[c].stage = "seal" /\ page' = page
      /\ batch.phase = claim[c].kind
  BY OwnerPhase DEF Seal, IInv, WorkersOK, Owns
<1>2. PICK stage : Go(c, stage) /\ stage = IF claim[c].kind = "listing" THEN "fetch" ELSE "settle"
  BY DEF Seal
<1>3. claim'[c].stage = stage /\ claim'[c].kind = claim[c].kind /\ claim[c].kind \in Kinds
  BY <1>2, GoIs
<1>4. CASE claim[c].kind = "listing"
  <2>1. PICK prefix : prefix = (batch.phase = "listing")
    OBVIOUS
  <2>2. batch'.phase = "listing"
    BY <1>1, <1>4, <2>1, SealIs
  <2>3. IncompletePages' = {}
    BY <1>1, <1>4 DEF WorkerOK, IncompletePages
  <2> QED
    BY <1>2, <1>3, <1>4, <2>2, <2>3 DEF WorkerOK, KindsAt
<1>5. CASE claim[c].kind # "listing"
  BY <1>2, <1>3, <1>5, WorkerEnds
<1> QED
  BY <1>4, <1>5

\* Every step keeps the part of the invariant on workers.
LEMMA WorkersKept == ASSUME IInv, [Next]_vars PROVE WorkersOK'
<1>1. ASSUME NEW c \in Claims, ClaimStep(c) \/ ClaimTrouble(c), NEW d \in Claims PROVE WorkerOK(d)'
  <2>1. CASE d # c
    BY <1>1, <2>1, OthersSame
  <2>2. CASE d = c
    BY <1>1, <2>2, WorkerBegins, MaterializeWorker, ListingWorker, ResolveWorker, ItemWorker, SealWorker
       DEF ClaimStep, ClaimTrouble, Marks
  <2> QED
    BY <2>1, <2>2
<1>2. ASSUME Still, claim' = claim, batch'.token = batch.token \/ batch'.token = None, NEW d \in Claims
      PROVE  WorkerOK(d)'
  BY <1>2, WorkerSame, Sizes DEF Still, SameWork
<1>3. ASSUME NEW p \in Procs, TurnStep(p) \/ TurnTrouble(p) PROVE claim' = claim /\ batch'.token = batch.token
  <2>1. ASSUME NEW interrupted \in BOOLEAN, EndTurn(p, interrupted) PROVE batch'.token = batch.token
    <3>1. PICK s : s = proc[p].segment
      OBVIOUS
    <3>2. batch' = batch \/ batch' = FinalizeIfReady(batch, item, segment', receipt)
      BY <2>1, <3>1, EndTurnIs
    <3> QED
      BY <3>2, Typed, Finalized
  <2> QED
    BY <1>3, <2>1 DEF TurnStep, TurnTrouble, ProcessItem, ProcessAhead, HeartbeatSegment, FailTurn, CrashTurn,
       EndTurn
<1>4. ASSUME NEW p \in Procs, TurnStep(p) \/ TurnTrouble(p), NEW d \in Claims PROVE WorkerOK(d)'
  BY <1>2, <1>3, <1>4, TurnStill DEF TurnStep, TurnTrouble
<1>5. ASSUME NEW p \in Procs, NEW s \in SegmentOrdinals, ClaimSegment(p, s), NEW d \in Claims PROVE WorkerOK(d)'
  <2>1. claim' = claim /\ batch'.token = batch.token
    BY <1>5 DEF ClaimSegment
  <2> QED
    BY <1>2, <1>5, <2>1, TurnStill
<1>6. ASSUME NEW chosen \in SUBSET SegmentOrdinals, Publish(chosen), NEW d \in Claims PROVE WorkerOK(d)'
  <2>1. claim' = claim /\ page' = page
    BY <1>6 DEF Publish
  <2> QED
    BY <1>6, <2>1, PublishIs, WorkerSame
<1>7. ASSUME Reconcile \/ Tick \/ UNCHANGED vars, NEW d \in Claims PROVE WorkerOK(d)'
  <2>1. claim' = claim /\ (batch'.token = batch.token \/ batch'.token = None)
    <3>1. batch \in BatchRows
      BY Typed
    <3> QED
      BY <1>7, <3>1, ReconciledBatch DEF Reconcile, Tick, vars, BatchRows
  <2> QED
    BY <1>2, <1>7, <2>1, ClockStill
<1> QED
  BY <1>1, <1>4, <1>5, <1>6, <1>7 DEF WorkersOK, Next
----------------------------------------------------------------------------
(* The segments and turns are kept.                                         *)

\* What is left behind is finite, and nothing before the first step.
LEMMA LeftFinite ==
  ASSUME NEW H, NEW s \in Nat, NEW n \in Nat, NEW m \in Nat
  PROVE  /\ IsFiniteSet(Left(H, s, n, m)) /\ Cardinality(Left(H, s, n, m)) \in Nat
         /\ m = n => Cardinality(Left(H, s, n, m)) = 0
<1>1. FirstOrdinal(s) \in Nat
  BY Multiples
<1>2. FirstOrdinal(s) + n \in Int /\ FirstOrdinal(s) + m - 1 \in Int
  BY <1>1
<1>3. IsFiniteSet(FirstOrdinal(s) + n .. FirstOrdinal(s) + m - 1)
  BY <1>2, FS_Interval
<1>4. IsFiniteSet(Left(H, s, n, m))
  BY <1>3, FS_Subset DEF Left
<1>5. m = n => Left(H, s, n, m) = {}
  BY <1>1 DEF Left
<1> QED
  BY <1>4, <1>5, FS_CardinalityType, FS_EmptySet

\* Fewer items are left as more are handled.
LEMMA LeftShrinks ==
  ASSUME NEW H, NEW K, H \subseteq K, NEW s \in Nat, NEW n \in Nat, NEW m \in Nat
  PROVE  Cardinality(Left(K, s, n, m)) <= Cardinality(Left(H, s, n, m))
         /\ Cardinality(Left(K, s, n, m)) \in Nat /\ Cardinality(Left(H, s, n, m)) \in Nat
<1>1. Left(K, s, n, m) \subseteq Left(H, s, n, m)
  BY DEF Left
<1> QED
  BY <1>1, LeftFinite, FS_Subset

\* Two stretches of a segment.
LEMMA LeftSum ==
  ASSUME NEW H, NEW s \in Nat, NEW n \in Nat, NEW m \in Nat
  PROVE  Cardinality(Left(H, s, 0, n + m)) <= Cardinality(Left(H, s, 0, n)) + Cardinality(Left(H, s, n, n + m))
<1>1. FirstOrdinal(s) \in Nat
  BY Multiples
<1>2. PICK S, T : S = Left(H, s, 0, n) /\ T = Left(H, s, n, n + m)
  OBVIOUS
<1>3. IsFiniteSet(S) /\ IsFiniteSet(T) /\ Cardinality(S) \in Nat /\ Cardinality(T) \in Nat
  BY <1>2, LeftFinite
<1>4. Left(H, s, 0, n + m) = S \cup T
  BY <1>1, <1>2 DEF Left
<1>5. Cardinality(S \cup T) = Cardinality(S) + Cardinality(T) - Cardinality(S \cap T)
      /\ IsFiniteSet(S \cap T)
  BY <1>3, FS_Union, FS_Intersection
<1>6. Cardinality(S \cap T) \in Nat
  BY <1>5, FS_CardinalityType
<1>7. Cardinality(S \cup T) <= Cardinality(S) + Cardinality(T)
  BY <1>3, <1>5, <1>6
<1> QED
  BY <1>2, <1>4, <1>7

\* The next item of a stretch.
LEMMA LeftNext ==
  ASSUME NEW H, NEW s \in Nat, NEW n \in Nat, NEW m \in Nat, n <= m
  PROVE  /\ Left(H, s, n, m + 1) \subseteq Left(H, s, n, m) \cup {FirstOrdinal(s) + m}
         /\ Cardinality(Left(H, s, n, m + 1)) <= Cardinality(Left(H, s, n, m)) + 1
<1>1. FirstOrdinal(s) \in Nat
  BY Multiples
<1>2. PICK S, x : S = Left(H, s, n, m) /\ x = FirstOrdinal(s) + m
  OBVIOUS
<1>3. Left(H, s, n, m + 1) \subseteq S \cup {x}
  BY <1>1, <1>2 DEF Left
<1>4. IsFiniteSet(S) /\ Cardinality(S) \in Nat
  BY <1>2, LeftFinite
<1>5. IsFiniteSet(S \cup {x}) /\ Cardinality(S \cup {x}) <= Cardinality(S) + 1
      /\ Cardinality(S \cup {x}) \in Nat
  <2>1. IsFiniteSet(S \cup {x}) /\ Cardinality(S \cup {x}) = IF x \in S THEN Cardinality(S) ELSE Cardinality(S) + 1
    BY <1>4, FS_AddElement
  <2>2. Cardinality(S) <= Cardinality(S) + 1 /\ Cardinality(S) + 1 <= Cardinality(S) + 1 /\ Cardinality(S) + 1 \in Nat
    BY <1>4
  <2> QED
    BY <1>4, <2>1, <2>2
<1>6. Cardinality(Left(H, s, n, m + 1)) <= Cardinality(S \cup {x})
  BY <1>3, <1>5, FS_Subset
<1>7. Cardinality(Left(H, s, n, m + 1)) \in Nat
  BY LeftFinite
<1> QED
  BY <1>2, <1>3, <1>4, <1>5, <1>6, <1>7

\* A segment whose cursor does not move.
LEMMA SegmentSame ==
  ASSUME IInv, NEW s \in SegmentOrdinals, handled \subseteq handled',
         segment'[s].status = "processing" <=> segment'[s].token # None,
         segment'[s].status # "none" => segment[s].status # "none",
         segment'[s].status = "processed" => segment[s].status = "processed",
         segment'[s].count = segment[s].count, segment'[s].offset = segment[s].offset,
         segment'[s].failed = segment[s].failed
  PROVE  SegmentOK(s)'
<1>1. SegmentOK(s) /\ segment[s] \in SegmentRows /\ s \in Nat
  BY Typed, Sizes DEF IInv, TurnsOK, SegmentOrdinals, Ordinals
<1>2. segment[s].offset \in Nat /\ segment[s].failed \in Nat
  BY <1>1, Sizes DEF SegmentRows
<1>3. Cardinality(Left(handled', s, 0, segment[s].offset)) <= Cardinality(Left(handled, s, 0, segment[s].offset))
      /\ Cardinality(Left(handled', s, 0, segment[s].offset)) \in Nat
      /\ Cardinality(Left(handled, s, 0, segment[s].offset)) \in Nat
  BY <1>1, <1>2, LeftShrinks
<1> QED
  BY <1>1, <1>2, <1>3 DEF SegmentOK

\* A turn whose segment keeps its range and, as long as the turn has it, its cursor.
LEMMA TurnSame ==
  ASSUME IInv, NEW q \in Procs, proc'[q] = proc[q], handled \subseteq handled',
         \A s \in Manifests(segment) :
           /\ segment'[s].status # "none" /\ segment'[s].count = segment[s].count
           /\ segment'[s].token = q => segment[s].token = q /\ segment'[s].offset = segment[s].offset
  PROVE  TurnOK(q)'
<1>1. CASE proc[q].segment = None
  BY <1>1 DEF TurnOK
<1>2. CASE proc[q].segment # None
  <2>1. PICK s : s = proc[q].segment
    OBVIOUS
  <2>2. TurnOK(q) /\ s \in SegmentOrdinals /\ s \in Nat /\ s \in Manifests(segment)
        /\ proc[q].base \in Nat /\ proc[q].done \in Nat /\ proc[q].erred \in Nat
    <3>1. s \in SegmentOrdinals /\ s \in Nat /\ segment[s].status # "none"
      BY <1>2, <2>1, TurnAt
    <3>2. proc[q].base \in 0 .. SegmentSize /\ proc[q].done \in 0 .. SegmentSize
          /\ proc[q].erred \in 0 .. SegmentSize
      BY <1>2, TurnAt
    <3> QED
      BY <3>1, <3>2, Sizes DEF IInv, TurnsOK, Manifests
  <2>3. PICK n \in Nat, m \in Nat : n = proc[q].base /\ m = proc[q].base + proc[q].done
    <3>1. proc[q].base + proc[q].done \in Nat
      BY <2>2
    <3> QED
      BY <2>2, <3>1
  <2>4. Cardinality(Left(handled', s, n, m)) <= Cardinality(Left(handled, s, n, m))
        /\ Cardinality(Left(handled', s, n, m)) \in Nat /\ Cardinality(Left(handled, s, n, m)) \in Nat
    BY <2>2, LeftShrinks
  <2>5. /\ Cardinality(Left(handled, s, n, m)) <= proc[q].erred /\ m <= segment[s].count
        /\ proc[q].erred <= proc[q].done
        /\ segment[s].token = q => n = segment[s].offset
    BY <1>2, <2>1, <2>2, <2>3 DEF TurnOK
  <2>6. Cardinality(Left(handled', s, n, m)) <= proc[q].erred
    BY <2>2, <2>4, <2>5
  <2>7. s \in Manifests(segment)'
    BY <2>2 DEF Manifests
  <2>8. /\ segment'[s].count = segment[s].count
        /\ segment'[s].token = q => segment[s].token = q /\ segment'[s].offset = segment[s].offset
    BY <2>2
  <2>9. proc'[q].segment = s /\ proc'[q].base = n /\ proc'[q].base + proc'[q].done = m
        /\ proc'[q].erred = proc[q].erred /\ proc'[q].done = proc[q].done
    BY <2>1, <2>3
  <2>10. segment'[s].token = q => n = segment'[s].offset
    BY <2>5, <2>8
  <2> QED
    BY <2>5, <2>6, <2>7, <2>8, <2>9, <2>10 DEF TurnOK
<1> QED
  BY <1>1, <1>2

\* A turn that is over promises nothing.
LEMMA TurnGone ==
  ASSUME NEW p \in Procs, proc'[p] = NoTurn
  PROVE  TurnOK(p)'
BY DEF TurnOK, NoTurn

\* A segment that is left alone stays right.
LEMMA SegmentStays ==
  ASSUME IInv, NEW s \in SegmentOrdinals, handled \subseteq handled', segment'[s] = segment[s]
  PROVE  SegmentOK(s)'
BY SegmentSame DEF IInv, TurnsOK, SegmentOK

\* Turns stand when segments and the Job tables do.
LEMMA TurnsStill ==
  ASSUME IInv, segment' = segment, proc' = proc, handled' = handled
  PROVE  TurnsOK'
BY SegmentStays, TurnSame DEF TurnsOK, Manifests

\* Turns and segments through sealing.
LEMMA SealTurns ==
  ASSUME IInv, NEW c \in Claims, Seal(c) PROVE TurnsOK'
<1>0. PICK prefix \in BOOLEAN : prefix = (batch.phase = "listing")
  OBVIOUS
<1>1. segment' = [s \in SegmentOrdinals |->
              IF s \in SealedNow(prefix)
              THEN [NoSegment EXCEPT !.status = "sealed", !.count = ItemCount(s, batch.canonical)]
              ELSE segment[s]]
  BY <1>0, SealIs
<1>2. proc' = proc /\ handled' = handled
  BY DEF Seal
<1>3. \A s \in SealedNow(prefix) : segment[s].status = "none" /\ s \in SegmentOrdinals
  BY DEF SealedNow, ReadySegments
<1>4. ASSUME NEW s \in SegmentOrdinals PROVE SegmentOK(s)'
  <2>1. CASE s \in SealedNow(prefix)
    <3>1. PICK n \in 1 .. SegmentSize : n = ItemCount(s, batch.canonical)
      BY <2>1, ReadyIs DEF SealedNow
    <3>2. segment'[s] = [NoSegment EXCEPT !.status = "sealed", !.count = n]
      BY <1>1, <2>1, <3>1
    <3>3. /\ segment'[s].status = "sealed" /\ segment'[s].token = None /\ segment'[s].count = n
          /\ segment'[s].offset = 0 /\ segment'[s].failed = 0
      BY <3>2 DEF NoSegment
    <3>4. Cardinality(Left(handled', s, 0, 0)) = 0
      BY LeftFinite, Sizes DEF SegmentOrdinals, Ordinals
    <3> QED
      BY <3>3, <3>4, Sizes DEF SegmentOK
  <2>2. CASE s \notin SealedNow(prefix)
    BY <1>1, <1>2, <2>2, SegmentStays
  <2> QED
    BY <2>1, <2>2
<1>5. ASSUME NEW q \in Procs PROVE TurnOK(q)'
  <2>1. \A s \in Manifests(segment) : segment'[s] = segment[s] /\ segment[s].status # "none"
    BY <1>1, <1>3 DEF Manifests
  <2> QED
    BY <1>2, <2>1, TurnSame
<1> QED
  BY <1>4, <1>5 DEF TurnsOK

\* Turns and segments through publication.
LEMMA PublishTurns ==
  ASSUME IInv, NEW chosen \in SUBSET SegmentOrdinals, Publish(chosen) PROVE TurnsOK'
<1>1. proc' = proc /\ handled' = handled
  BY DEF Publish
<1>2. ASSUME NEW s \in SegmentOrdinals
      PROVE  /\ segment'[s].count = segment[s].count /\ segment'[s].offset = segment[s].offset
             /\ segment'[s].failed = segment[s].failed /\ segment'[s].token = segment[s].token
             /\ segment'[s].status = segment[s].status
                  \/ (segment[s].status = "sealed" /\ segment'[s].status = "published")
  <2>1. segment[s] \in SegmentRows
    BY Typed
  <2>2. segment'[s] = segment[s]
        \/ (segment[s].status = "sealed" /\ segment'[s] = [segment[s] EXCEPT !.status = "published"])
    BY PublishIs
  <2> QED
    BY <2>1, <2>2 DEF SegmentRows
<1>3. ASSUME NEW s \in SegmentOrdinals PROVE SegmentOK(s)'
  <2>1. segment[s].status = "processing" <=> segment[s].token # None
    BY DEF IInv, TurnsOK, SegmentOK
  <2> QED
    BY <1>1, <1>2, <2>1, SegmentSame
<1>4. ASSUME NEW q \in Procs PROVE TurnOK(q)'
  BY <1>1, <1>2, TurnSame DEF Manifests
<1> QED
  BY <1>3, <1>4 DEF TurnsOK

\* Turns and segments through the claim of a segment.
LEMMA ClaimSegmentTurns ==
  ASSUME IInv, NEW p \in Procs, NEW s \in SegmentOrdinals, ClaimSegment(p, s) PROVE TurnsOK'
<1>0. segment \in [SegmentOrdinals -> SegmentRows] /\ segment[s] \in SegmentRows
      /\ proc \in [Procs -> ProcRows] /\ p # None /\ s \in Nat
  BY Typed, Sizes DEF SegmentOrdinals, Ordinals
<1>1. handled' = handled /\ proc[p].segment = None /\ segment[s].status \in {"published", "processing"}
  BY DEF ClaimSegment, ClaimableSegment
<1>2. /\ segment'[s].status = "processing" /\ segment'[s].token = p
      /\ segment'[s].count = segment[s].count /\ segment'[s].offset = segment[s].offset
      /\ segment'[s].failed = segment[s].failed
      /\ \A q \in SegmentOrdinals : q # s => segment'[q] = segment[q]
  BY <1>0 DEF ClaimSegment, SegmentRows
<1>3. ASSUME NEW q \in SegmentOrdinals PROVE SegmentOK(q)'
  <2>1. CASE q = s
    BY <1>0, <1>1, <1>2, <2>1, SegmentSame
  <2>2. CASE q # s
    BY <1>1, <1>2, <2>2, SegmentStays
  <2> QED
    BY <2>1, <2>2
<1>4. ASSUME NEW q \in Procs, q # p \/ proc' = proc PROVE TurnOK(q)'
  <2>1. CASE q # p
    <3>1. proc'[q] = proc[q]
      BY <1>0, <2>1 DEF ClaimSegment
    <3> QED
      BY <1>1, <1>2, <2>1, <3>1, TurnSame DEF Manifests
  <2>2. CASE q = p /\ proc' = proc
    BY <1>1, <2>2 DEF TurnOK
  <2> QED
    BY <1>4, <2>1, <2>2
<1>5. ASSUME proc' # proc PROVE TurnOK(p)'
  <2>1. proc'[p] = [NoTurn EXCEPT !.segment = s, !.base = segment[s].offset]
    BY <1>0, <1>5 DEF ClaimSegment
  <2>2. /\ proc'[p].segment = s /\ proc'[p].base = segment[s].offset /\ proc'[p].done = 0
        /\ proc'[p].erred = 0
    BY <2>1 DEF NoTurn
  <2>3. PICK n \in Nat : n = segment[s].offset
    BY <1>0, Sizes DEF SegmentRows
  <2>4. n <= segment[s].count
    BY <1>1, <2>3 DEF IInv, TurnsOK, SegmentOK
  <2>5. Cardinality(Left(handled', s, n, n + 0)) = 0
    BY <1>0, LeftFinite
  <2>6. s \in Manifests(segment)'
    BY <1>2 DEF Manifests
  <2> QED
    BY <1>2, <2>2, <2>3, <2>4, <2>5, <2>6 DEF TurnOK
<1> QED
  BY <1>3, <1>4, <1>5 DEF TurnsOK

\* An item is reconciled, or ends in an error that the turn counts.
LEMMA ProcessTurns ==
  ASSUME IInv, NEW p \in Procs, ProcessItem(p) \/ ProcessAhead(p) PROVE TurnsOK'
<1>0. proc \in [Procs -> ProcRows]
  BY Typed
<1>1. segment' = segment /\ handled \subseteq handled' /\ proc[p].segment # None
  BY DEF ProcessItem, ProcessAhead
<1>2. ASSUME NEW s \in SegmentOrdinals PROVE SegmentOK(s)'
  BY <1>1, SegmentStays
<1>3. ASSUME NEW q \in Procs, q # p \/ proc' = proc PROVE TurnOK(q)'
  <2>1. proc'[q] = proc[q]
    BY <1>0, <1>3 DEF ProcessItem, ProcessAhead
  <2> QED
    BY <1>1, <2>1, TurnSame DEF Manifests
<1>4. ASSUME ProcessItem(p) PROVE TurnOK(p)'
  <2>1. PICK s, n, d, e : s = proc[p].segment /\ n = proc[p].base /\ d = proc[p].done /\ e = proc[p].erred
    OBVIOUS
  <2>2. /\ s \in SegmentOrdinals /\ s \in Nat /\ segment[s] \in SegmentRows
        /\ n \in 0 .. SegmentSize /\ d \in 0 .. SegmentSize /\ e \in 0 .. SegmentSize
        /\ e <= d /\ n + d <= segment[s].count
    BY <1>1, <2>1, TurnAt
  <2>3. n \in Nat /\ d \in Nat /\ e \in Nat /\ segment[s].count \in Nat
    BY <2>2, Sizes DEF SegmentRows
  <2>4. s \in Manifests(segment) /\ Cardinality(Left(handled, s, n, n + d)) <= e
        /\ (segment[s].token = p => n = segment[s].offset)
    BY <1>1, <2>1 DEF IInv, TurnsOK, TurnOK
  <2>5. n + d + 1 <= segment[s].count
    BY <1>4, <2>1, <2>3 DEF ProcessItem, Remaining
  <2>6. PICK H, m : H = handled' /\ m = n + d
    OBVIOUS
  <2>7. m \in Nat /\ n <= m
    BY <2>3, <2>6
  <2>8. /\ Cardinality(Left(H, s, n, m)) <= Cardinality(Left(handled, s, n, m))
        /\ Cardinality(Left(H, s, n, m)) \in Nat /\ Cardinality(Left(handled, s, n, m)) \in Nat
    BY <1>1, <2>2, <2>3, <2>6, <2>7, LeftShrinks
  <2>9. /\ Left(H, s, n, m + 1) \subseteq Left(H, s, n, m) \cup {FirstOrdinal(s) + m}
        /\ Cardinality(Left(H, s, n, m + 1)) <= Cardinality(Left(H, s, n, m)) + 1
        /\ Cardinality(Left(H, s, n, m + 1)) \in Nat
    BY <2>2, <2>3, <2>7, LeftNext, LeftFinite
  <2>10. Cardinality(Left(H, s, n, m)) <= e
    BY <2>3, <2>4, <2>6, <2>8
  <2>11. CASE proc' = [proc EXCEPT ![p].done = @ + 1] /\ handled' = handled \cup {NextOrdinal(p)}
    <3>1. /\ proc'[p].segment = s /\ proc'[p].base = n /\ proc'[p].done = d + 1 /\ proc'[p].erred = e
      BY <1>0, <2>1, <2>11 DEF ProcRows
    <3>2. NextOrdinal(p) = FirstOrdinal(s) + m
      <4>1. FirstOrdinal(s) \in Nat
        BY <2>2, Multiples
      <4> QED
        BY <2>1, <2>3, <2>6, <4>1 DEF NextOrdinal
    <3>3. Left(H, s, n, m + 1) \subseteq Left(H, s, n, m)
      BY <2>6, <2>9, <2>11, <3>2 DEF Left
    <3>4. Cardinality(Left(H, s, n, m + 1)) <= Cardinality(Left(H, s, n, m))
      BY <2>2, <2>3, <2>7, <3>3, LeftFinite, FS_Subset
    <3>5. Cardinality(Left(H, s, n, m + 1)) <= e
      BY <2>3, <2>8, <2>9, <2>10, <3>4
    <3>6. proc'[p].base + proc'[p].done = m + 1 /\ m + 1 <= segment[s].count /\ e <= d + 1
      BY <2>2, <2>3, <2>5, <2>6, <3>1
    <3>7. s \in Manifests(segment)'
      BY <1>1, <2>4
    <3> QED
      BY <1>1, <2>4, <2>6, <3>1, <3>5, <3>6, <3>7 DEF TurnOK
  <2>12. CASE proc' = [proc EXCEPT ![p].done = @ + 1, ![p].erred = @ + 1]
    <3>1. /\ proc'[p].segment = s /\ proc'[p].base = n /\ proc'[p].done = d + 1 /\ proc'[p].erred = e + 1
      BY <1>0, <2>1, <2>12 DEF ProcRows
    <3>5. Cardinality(Left(H, s, n, m + 1)) <= e + 1
      BY <2>3, <2>8, <2>9, <2>10
    <3>6. proc'[p].base + proc'[p].done = m + 1 /\ m + 1 <= segment[s].count /\ e + 1 <= d + 1
      BY <2>2, <2>3, <2>5, <2>6, <3>1
    <3>7. s \in Manifests(segment)'
      BY <1>1, <2>4
    <3> QED
      BY <1>1, <2>4, <2>6, <3>1, <3>5, <3>6, <3>7 DEF TurnOK
  <2> QED
    BY <1>4, <2>11, <2>12 DEF ProcessItem
<1> QED
  BY <1>2, <1>3, <1>4 DEF TurnsOK, ProcessAhead

\* One segment's row is replaced by one with the same count and without a token.
LEMMA RowGivenUp ==
  ASSUME IInv, NEW s \in SegmentOrdinals, NEW row, segment' = [segment EXCEPT ![s] = row],
         row.count = segment[s].count, row.status # "none", row.token = None, handled' = handled,
         NEW q \in Procs, proc'[q] = proc[q]
  PROVE  TurnOK(q)'
<1>1. segment \in [SegmentOrdinals -> SegmentRows] /\ q # None
  BY Typed, Sizes
<1>2. \A r \in Manifests(segment) :
        /\ segment'[r].status # "none" /\ segment'[r].count = segment[r].count
        /\ segment'[r].token = q => segment[r].token = q /\ segment'[r].offset = segment[r].offset
  BY <1>1 DEF Manifests
<1> QED
  BY <1>2, TurnSame

\* A released segment is right, and nobody has it any more.
LEMMA ReleasedTurns ==
  ASSUME IInv, NEW s \in SegmentOrdinals, segment[s].status = "processing", handled' = handled,
         NEW hold, segment' = [segment EXCEPT ![s] = Released(s, hold)]
  PROVE  /\ \A r \in SegmentOrdinals : SegmentOK(r)'
         /\ \A q \in Procs : proc'[q] = proc[q] => TurnOK(q)'
<1>1. segment \in [SegmentOrdinals -> SegmentRows]
  BY Typed
<1>2. segment'[s] = Released(s, hold) /\ \A r \in SegmentOrdinals : r # s => segment'[r] = segment[r]
  BY <1>1
<1>3. /\ Released(s, hold).count = segment[s].count /\ Released(s, hold).status = "published"
      /\ Released(s, hold).token = None /\ Released(s, hold).offset = segment[s].offset
      /\ Released(s, hold).failed = segment[s].failed
  BY ReleasedIs
<1>4. SegmentOK(s)'
  BY <1>2, <1>3, SegmentSame
<1>5. ASSUME NEW r \in SegmentOrdinals PROVE SegmentOK(r)'
  BY <1>2, <1>4, SegmentStays
<1>6. ASSUME NEW q \in Procs, proc'[q] = proc[q] PROVE TurnOK(q)'
  BY <1>3, <1>6, RowGivenUp
<1> QED
  BY <1>5, <1>6

\* The cursor moves over the items of the turn, and its errors are counted.
LEMMA AdvancedTurns ==
  ASSUME IInv, NEW p \in Procs, proc[p].segment # None, NEW s, s = proc[p].segment,
         segment[s].token = p, handled' = handled,
         NEW hold \in BOOLEAN, segment' = [segment EXCEPT ![s] = Advanced(s, proc[p], hold)]
  PROVE  /\ \A r \in SegmentOrdinals : SegmentOK(r)'
         /\ \A q \in Procs : proc'[q] = proc[q] => TurnOK(q)'
<1>0. /\ s \in SegmentOrdinals /\ s \in Nat /\ segment[s] \in SegmentRows
      /\ segment \in [SegmentOrdinals -> SegmentRows]
  BY TurnAt, Typed
<1>1. PICK n, d, e, f : n = segment[s].offset /\ d = proc[p].done /\ e = proc[p].erred /\ f = segment[s].failed
  OBVIOUS
<1>2. /\ proc[p].base = n /\ d \in Nat /\ e \in Nat /\ e <= d /\ n + d <= segment[s].count
  BY <1>1, TurnAt, Sizes
<1>3. /\ Cardinality(Left(handled, s, n, n + d)) <= e
  BY <1>1, <1>2 DEF IInv, TurnsOK, TurnOK
<1>4. /\ n \in Nat /\ f \in Nat /\ segment[s].count \in Nat
  BY <1>0, <1>1, Sizes DEF SegmentRows
<1>5. f <= n /\ Cardinality(Left(handled, s, 0, n)) <= f
  <2>1. segment[s].status # "none" /\ SegmentOK(s)
    BY <1>0, TurnAt DEF IInv, TurnsOK
  <2> QED
    BY <1>1, <2>1 DEF SegmentOK
<1>6. Cardinality(Left(handled, s, 0, n + d)) <= f + e
  <2>1. /\ Cardinality(Left(handled, s, 0, n)) \in Nat /\ Cardinality(Left(handled, s, n, n + d)) \in Nat
        /\ Cardinality(Left(handled, s, 0, n + d)) \in Nat
    <3>1. n + d \in Nat /\ 0 \in Nat
      BY <1>2, <1>4
    <3> QED
      BY <1>0, <1>4, <3>1, LeftFinite
  <2>2. Cardinality(Left(handled, s, 0, n + d))
          <= Cardinality(Left(handled, s, 0, n)) + Cardinality(Left(handled, s, n, n + d))
    BY <1>0, <1>2, <1>4, LeftSum
  <2> QED
    BY <1>2, <1>3, <1>4, <1>5, <2>1, <2>2
<1>7. PICK row : row = Advanced(s, proc[p], hold)
  OBVIOUS
<1>8. /\ row.count = segment[s].count /\ row.offset = n + d /\ row.failed = f + e /\ row.token = None
      /\ row.status = IF n + d = segment[s].count THEN "processed" ELSE "published"
  BY <1>1, <1>7, AdvancedType
<1>9. segment'[s] = row /\ \A r \in SegmentOrdinals : r # s => segment'[r] = segment[r]
  BY <1>0, <1>7
<1>10. SegmentOK(s)'
  <2>1. f + e <= n + d
    BY <1>2, <1>4, <1>5
  <2>2. handled' = handled
    OBVIOUS
  <2> QED
    BY <1>2, <1>6, <1>8, <1>9, <2>1, <2>2 DEF SegmentOK
<1>11. ASSUME NEW r \in SegmentOrdinals PROVE SegmentOK(r)'
  BY <1>9, <1>10, SegmentStays
<1>12. ASSUME NEW q \in Procs, proc'[q] = proc[q] PROVE TurnOK(q)'
  BY <1>0, <1>7, <1>8, <1>12, RowGivenUp
<1> QED
  BY <1>11, <1>12

\* However a turn ends, the cursors are right.
LEMMA TurnEnds ==
  ASSUME IInv, NEW p \in Procs,
         \/ FailTurn(p) \/ CrashTurn(p) \/ \E interrupted \in BOOLEAN : EndTurn(p, interrupted)
  PROVE  TurnsOK'
<1>1. proc' = [proc EXCEPT ![p] = NoTurn] /\ handled' = handled /\ proc[p].segment # None
  BY DEF FailTurn, CrashTurn, EndTurn
<1>2. /\ TurnOK(p)' /\ \A q \in Procs : q # p => proc'[q] = proc[q]
  <2>1. proc \in [Procs -> ProcRows]
    BY Typed
  <2> QED
    BY <1>1, <2>1, TurnGone
<1>3. PICK s : s = proc[p].segment
  OBVIOUS
<1>4. s \in SegmentOrdinals
  BY <1>1, <1>3, TurnAt
<1>5. CASE segment' = segment
  <2>1. ASSUME NEW r \in SegmentOrdinals PROVE SegmentOK(r)'
    BY <1>1, <1>5, SegmentStays
  <2>2. ASSUME NEW q \in Procs, q # p PROVE TurnOK(q)'
    BY <1>1, <1>2, <1>5, <2>2, TurnSame DEF Manifests
  <2> QED
    BY <1>2, <2>1, <2>2 DEF TurnsOK
<1>6. CASE segment[s].status = "processing" /\ segment' = [segment EXCEPT ![s] = Released(s, TRUE)]
  <2>1. /\ \A r \in SegmentOrdinals : SegmentOK(r)'
        /\ \A q \in Procs : proc'[q] = proc[q] => TurnOK(q)'
    BY <1>1, <1>4, <1>6, ReleasedTurns
  <2> QED
    BY <1>2, <2>1 DEF TurnsOK
<1>7. ASSUME segment[s].token = p, NEW hold \in BOOLEAN,
             segment' = [segment EXCEPT ![s] = Advanced(s, proc[p], hold)]
      PROVE  TurnsOK'
  <2>1. /\ \A r \in SegmentOrdinals : SegmentOK(r)'
        /\ \A q \in Procs : proc'[q] = proc[q] => TurnOK(q)'
    BY <1>1, <1>3, <1>7, AdvancedTurns
  <2> QED
    BY <1>2, <2>1 DEF TurnsOK
<1>8. CASE FailTurn(p) \/ CrashTurn(p)
  BY <1>3, <1>5, <1>6, <1>8 DEF FailTurn, CrashTurn
<1>9. ASSUME NEW interrupted \in BOOLEAN, EndTurn(p, interrupted) PROVE TurnsOK'
  <2>1. segment[s].token = p => segment[s].status = "processing"
    BY <1>4, TokenMeansProcessing
  <2> QED
    BY <1>3, <1>5, <1>6, <1>7, <1>9, <2>1, EndTurnIs
<1> QED
  BY <1>8, <1>9

\* Leases that run out, are renewed, or are cleared move no cursor.
LEMMA LeaseTurns ==
  ASSUME IInv, Reconcile \/ Tick \/ \E p \in Procs : HeartbeatSegment(p) PROVE TurnsOK'
<1>1. handled' = handled /\ proc' = proc
  BY DEF Reconcile, Tick, HeartbeatSegment
<1>2. ASSUME NEW s \in SegmentOrdinals
      PROVE  /\ segment'[s].count = segment[s].count /\ segment'[s].offset = segment[s].offset
             /\ segment'[s].failed = segment[s].failed
             /\ \/ segment'[s].status = segment[s].status /\ segment'[s].token = segment[s].token
                \/ /\ segment[s].status = "processing"
                   /\ segment'[s].status = "published" /\ segment'[s].token = None
  <2>1. CASE Reconcile
    BY <2>1, ReleasedIs DEF Reconcile, ExpiredSegments
  <2>2. CASE Tick
    BY <2>2, Typed DEF Tick, SegmentRows
  <2>3. ASSUME NEW p \in Procs, HeartbeatSegment(p)
        PROVE  segment'[s] = segment[s] \/ segment'[s] = [segment[s] EXCEPT !.lease = SegmentLease]
    <3>1. PICK q : q = proc[p].segment
      OBVIOUS
    <3>2. q \in SegmentOrdinals /\ segment \in [SegmentOrdinals -> SegmentRows]
      BY <2>3, <3>1, TurnAt, Typed DEF HeartbeatSegment
    <3> QED
      BY <2>3, <3>1, <3>2 DEF HeartbeatSegment
  <2>4. segment[s] \in SegmentRows
    BY Typed
  <2> QED
    BY <2>1, <2>2, <2>3, <2>4 DEF SegmentRows
<1>3. ASSUME NEW s \in SegmentOrdinals PROVE SegmentOK(s)'
  <2>1. segment[s].status = "processing" <=> segment[s].token # None
    BY DEF IInv, TurnsOK, SegmentOK
  <2> QED
    BY <1>1, <1>2, <2>1, SegmentSame
<1>4. ASSUME NEW q \in Procs PROVE TurnOK(q)'
  BY <1>1, <1>2, Sizes, TurnSame DEF Manifests
<1> QED
  BY <1>3, <1>4 DEF TurnsOK

\* Every step keeps the part of the invariant on turns and segments.
LEMMA TurnsKept == ASSUME IInv, [Next]_vars PROVE TurnsOK'
<1>1. ASSUME NEW c \in Claims, ClaimStep(c) \/ ClaimTrouble(c) PROVE TurnsOK'
  <2>1. CASE Seal(c)
    BY <2>1, SealTurns
  <2>2. CASE ~Seal(c)
    <3>1. segment' = segment /\ proc' = proc /\ handled' = handled
      BY <1>1, <2>2 DEF ClaimStep, ClaimTrouble, OpenReceipt, Settle, LoseFence, Materialize, ResumeListing,
         CommitPage, Resolve, Mark, ClaimDetail, DetailAnswer, Admit, TakeContinuation, Heartbeat, Abandon,
         Crash, DetailError
    <3> QED
      BY <3>1, TurnsStill
  <2> QED
    BY <2>1, <2>2
<1>2. ASSUME NEW p \in Procs, TurnStep(p) \/ TurnTrouble(p) PROVE TurnsOK'
  BY <1>2, ProcessTurns, TurnEnds, LeaseTurns DEF TurnStep, TurnTrouble
<1>3. CASE UNCHANGED vars
  BY <1>3, TurnsStill DEF vars
<1> QED
  BY <1>1, <1>2, <1>3, ClaimSegmentTurns, PublishTurns, LeaseTurns DEF Next
----------------------------------------------------------------------------
(* The status is kept.                                                      *)

\* A batch is closed by its finalization only.
ClosesNow == \E b : Closes(batch', b, item', segment', receipt') /\ SameWork(b, batch) /\ b.status = batch.status

\* When no work moves the status moves only by finalization.
LEMMA StatusStill ==
  ASSUME IInv, [Next]_vars, Still PROVE batch'.status = batch.status \/ ClosesNow \/ \E c \in Claims : Works(c)
<1>0. batch \in BatchRows
  BY Typed
<1>1. ASSUME NEW c \in Claims, ClaimStep(c) \/ ClaimTrouble(c), ~Works(c)
      PROVE  batch'.status = batch.status \/ ClosesNow
  <2>1. CASE Settle(c)
    <3>1. item' = item /\ segment' = segment
      BY <2>1 DEF Settle
    <3> QED
      BY <2>1, <3>1, SettleBatch DEF ClosesNow
  <2>2. CASE TakeContinuation(c) \/ Heartbeat(c)
    BY <1>0, <2>2 DEF TakeContinuation, Heartbeat, BatchRows
  <2>3. CASE OpenReceipt(c) \/ LoseFence(c) \/ Abandon(c) \/ Crash(c) \/ ResumeListing(c) \/ ClaimDetail(c)
             \/ DetailError(c)
    BY <2>3 DEF OpenReceipt, LoseFence, Abandon, Crash, ResumeListing, ClaimDetail, DetailError
  <2>4. ASSUME NEW n \in 0 .. PageSize, CommitPage(c, n) PROVE batch'.status = batch.status
    BY <1>1, <2>4 DEF CommitPage, Works, Lists
  <2> QED
    BY <1>1, <2>1, <2>2, <2>3, <2>4 DEF ClaimStep, ClaimTrouble, Works, Resolves, Marks
<1>2. ASSUME NEW p \in Procs, TurnStep(p) \/ TurnTrouble(p) PROVE batch'.status = batch.status \/ ClosesNow
  <2>1. ASSUME NEW interrupted \in BOOLEAN, EndTurn(p, interrupted)
        PROVE  batch'.status = batch.status \/ ClosesNow
    <3>1. PICK s : s = proc[p].segment
      OBVIOUS
    <3>2. batch' = batch \/ batch' = FinalizeIfReady(batch, item, segment', receipt)
      BY <2>1, <3>1, EndTurnIs
    <3>3. item' = item /\ receipt' = receipt
      BY <2>1 DEF EndTurn
    <3>4. SameWork(batch, batch)
      BY DEF SameWork
    <3> QED
      BY <1>0, <3>2, <3>3, <3>4, Finalized DEF ClosesNow
  <2> QED
    BY <1>2, <2>1 DEF TurnStep, TurnTrouble, ProcessItem, ProcessAhead, HeartbeatSegment, FailTurn, CrashTurn
<1>3. CASE Reconcile
  BY <1>3, ReconciledBatch DEF ClosesNow
<1>4. CASE Tick \/ UNCHANGED vars
  BY <1>0, <1>4 DEF Tick, vars, BatchRows
<1>5. ASSUME NEW chosen \in SUBSET SegmentOrdinals, Publish(chosen) PROVE batch'.status = batch.status
  BY <1>5, PublishIs
<1>6. ASSUME NEW p \in Procs, NEW s \in SegmentOrdinals, ClaimSegment(p, s) PROVE batch'.status = batch.status
  BY <1>6 DEF ClaimSegment
<1> QED
  BY <1>1, <1>2, <1>3, <1>4, <1>5, <1>6 DEF Next

\* Of the steps that move the work on, admission and sealing set the status.
LEMMA StatusWorks ==
  ASSUME IInv, NEW c \in Claims, Works(c)
  PROVE  /\ StatusOK'
         /\ batch.status \notin {"processed", "failed"} => batch'.status \notin {"processed", "failed"}
         /\ batch.status \in {"processed", "failed"} => batch'.status = batch.status
<1>0. StatusOK
  BY DEF IInv
<1>1. CASE Admit(c)
  BY <1>1, AdmitIs DEF StatusOK
<1>2. CASE Materialize(c) \/ Lists(c)
  BY <1>0, <1>2, ListingBatch DEF StatusOK
<1>3. CASE Resolves(c)
  BY <1>0, <1>3, ResolveIs DEF StatusOK, Resolves
<1>4. CASE Marks(c) \/ DetailAnswer(c)
  <2>1. batch' = batch \/ \E n : batch' = [batch EXCEPT !.terminal = n]
    BY <1>4, MarksIs, AnswerIs
  <2>2. batch'.status = batch.status /\ batch'.phase = batch.phase
    BY <2>1, OnlyTerminal
  <2> QED
    BY <1>0, <2>2 DEF StatusOK
<1>5. CASE Seal(c)
  <2>1. PICK prefix : prefix = (batch.phase = "listing")
    OBVIOUS
  <2> QED
    BY <1>0, <1>5, <2>1, SealIs DEF StatusOK
<1> QED
  BY <1>1, <1>2, <1>3, <1>4, <1>5 DEF Works

\* A batch that is closed was synchronized.
LEMMA ClosesFrom ==
  ASSUME ClosesNow
  PROVE  /\ batch.status = "synchronized" /\ batch.phase = "synchronized"
         /\ batch'.status \in {"processed", "failed"}
BY DEF ClosesNow, Closes, FinalizationReady, SameWork

\* Every step keeps status and phase together; a closed batch stays closed.
LEMMA StatusKept ==
  ASSUME IInv, [Next]_vars
  PROVE  /\ StatusOK'
         /\ \/ batch'.status \notin {"processed", "failed"}
            \/ batch'.status = batch.status
            \/ ClosesNow
         /\ batch.status \in {"processed", "failed"} => batch'.status = batch.status
<1>1. ASSUME NEW c \in Claims, Works(c)
      PROVE  /\ StatusOK'
             /\ \/ batch'.status \notin {"processed", "failed"}
                \/ batch'.status = batch.status
             /\ batch.status \in {"processed", "failed"} => batch'.status = batch.status
  BY <1>1, StatusWorks
<1>2. CASE Still /\ batch'.status = batch.status
  BY <1>2 DEF Still, SameWork, IInv, StatusOK
<1>3. CASE Still /\ ClosesNow
  BY <1>3, ClosesFrom DEF Still, SameWork, StatusOK
<1>4. ASSUME NEW chosen \in SUBSET SegmentOrdinals, Publish(chosen)
      PROVE  StatusOK' /\ batch'.status = batch.status
  BY <1>4, PublishIs DEF IInv, StatusOK
<1> QED
  BY <1>1, <1>2, <1>3, <1>4, StillOrWorks, StatusStill
----------------------------------------------------------------------------
(* The invariant.                                                           *)

\* The empty ledger is well typed.
LEMMA InitTypes == ASSUME Init PROVE TypeOK
<1>1. /\ 0 \in 0 .. Jobs /\ 0 \in 0 .. PageSize /\ 0 \in 0 .. ClaimLease /\ 0 \in 0 .. SegmentLease
      /\ 0 \in 0 .. SegmentSize /\ 0 \in 0 .. 3 /\ 0 \in 0 .. MaxGlitches /\ 0 \in 0 .. MaxErrors /\ 0 \in Nat
  BY Sizes
<1>2. batch \in BatchRows
  BY <1>1 DEF Init, BatchRows, Statuses, Phases
<1>3. NoPage \in PageRows /\ NoItem \in ItemRows /\ NoSegment \in SegmentRows
  BY <1>1 DEF NoPage, PageRows, NoItem, ItemRows, ItemStates, NoSegment, SegmentRows, SegmentStatuses
<1>4. [open |-> FALSE, lease |-> 0] \in [open : BOOLEAN, lease : 0 .. ClaimLease]
  BY <1>1
<1>5. [stage |-> "idle", kind |-> "listing", cursor |-> 0, item |-> None] \in ClaimRows
  BY <1>1 DEF ClaimRows, Stages, Kinds, Offsets
<1>6. proc \in [Procs -> ProcRows]
  BY NoTurnType DEF Init
<1>7. /\ page \in [Offsets -> PageRows] /\ item \in [Ordinals -> ItemRows]
      /\ segment \in [SegmentOrdinals -> SegmentRows]
  BY <1>3 DEF Init
<1>8. /\ receipt \in [Claims -> [open : BOOLEAN, lease : 0 .. ClaimLease]]
      /\ claim \in [Claims -> ClaimRows]
  BY <1>4, <1>5 DEF Init
<1>9. /\ total \in 0 .. Jobs /\ handled \subseteq Ordinals
      /\ glitches \in 0 .. MaxGlitches /\ errors \in 0 .. MaxErrors
  BY <1>1 DEF Init
<1> QED
  BY <1>2, <1>6, <1>7, <1>8, <1>9 DEF TypeOK

\* The invariant holds at first ...
LEMMA InitOK == Init => IInv
<1> SUFFICES ASSUME Init PROVE IInv
  OBVIOUS
<1>1. TypeOK
  BY InitTypes
<1>2. ListingOK
  <2>1. SavedPages = {} /\ IncompletePages = {}
    BY DEF Init, SavedPages, IncompletePages, NoPage
  <2>2. batch.listingOffset = 0 /\ batch.raw = 0 /\ batch.phase = "none" /\ 0 <= total
    BY Sizes DEF Init
  <2> QED
    BY <2>1, <2>2 DEF ListingOK
<1>3. WorkersOK
  BY Sizes DEF Init, WorkersOK, WorkerOK, KindsAt, Kinds
<1>4. Terminals = {} /\ Manifests(segment) = {}
  BY DEF Init, Terminals, Manifests, NoItem, NoSegment
<1>5. ItemsOK
  <2>1. \A o \in Ordinals : item[o].state = "none" /\ ~(o < 0)
    BY Sizes DEF Init, NoItem, Ordinals
  <2>2. batch.canonical = 0 /\ batch.compacted = 0 /\ batch.raw = 0 /\ batch.terminal = 0 /\ batch.phase = "none"
    BY DEF Init
  <2> QED
    BY <1>4, <2>1, <2>2, FS_EmptySet DEF ItemsOK
<1>6. ManifestsOK
  <2>1. SealedItems = {} /\ PublishedItems = {}
    BY <1>4 DEF SealedItems, PublishedItems
  <2>2. batch.sealed = 0 /\ batch.published = 0
    BY DEF Init
  <2> QED
    BY <1>4, <2>1, <2>2, FS_EmptySet DEF ManifestsOK
<1>7. TurnsOK
  BY DEF Init, TurnsOK, SegmentOK, TurnOK, NoSegment, NoTurn
<1>8. StatusOK
  BY DEF Init, StatusOK
<1> QED
  BY <1>1, <1>2, <1>3, <1>5, <1>6, <1>7, <1>8 DEF IInv

\* ... is kept by every step ...
LEMMA InvariantKept == IInv /\ [Next]_vars => IInv'
BY TypesKept, ListingKept, WorkersKept, ItemsKept, ManifestsKept, TurnsKept, StatusKept DEF IInv

\* ... and so always holds.
LEMMA Invariant == Spec => []IInv
BY InitOK, InvariantKept, PTL DEF Spec

\* Every column of the ledger, and what each worker and each turn remembers of
\* it, keeps its values through every transaction of atsAcquisitionLedger.ts.
THEOREM TypeCorrect == Spec => []TypeOK
<1>1. IInv => TypeOK
  BY DEF IInv
<1> QED
  BY <1>1, Invariant, PTL

\* The counters of the batch row, which phases and finalization are decided on,
\* are the numbers of the rows they stand for, whatever claims expire, answer
\* late, or repeat a quantum (resolveNextAtsV2ObservationChunk, the terminal writes
\* of items, sealReadyAtsV2Segments, publishReadyAtsV2Segments).
THEOREM CountersExact == Spec => []CountersAgree
<1>1. IInv => CountersAgree
  <2> SUFFICES ASSUME IInv PROVE CountersAgree
    OBVIOUS
  <2>1. ItemsOK /\ ManifestsOK /\ batch.canonical \in Nat /\ batch.canonical <= Jobs
    BY Bounds DEF IInv
  <2>2. {o \in Ordinals : item[o].state # "none"} = 0 .. batch.canonical - 1
    <3>1. {o \in Ordinals : item[o].state # "none"} = {o \in Ordinals : o < batch.canonical}
      BY <2>1 DEF ItemsOK
    <3>2. 0 .. batch.canonical - 1 = {o \in Ordinals : o < batch.canonical}
      BY <2>1, Prefix, Sizes DEF Ordinals
    <3> QED
      BY <3>1, <3>2
  <2>3. batch.canonical = Cardinality({o \in Ordinals : item[o].state # "none"})
    BY <2>1, <2>2, Prefix
  <2> QED
    BY <2>1, <2>3 DEF CountersAgree, ItemsOK, ManifestsOK, Terminals, SealedItems, PublishedItems
<1> QED
  BY <1>1, Invariant, PTL

\* A sealed manifest never has to be extended: its items are terminal and their
\* number is the one the finished catalogue gives its segment, also when it was
\* sealed from a listing that has since grown (sealReadyAtsV2Segments).
THEOREM ManifestsAreFinal == Spec => []ManifestsFinal
<1>1. IInv => ManifestsFinal
  BY DEF IInv, ManifestsOK, ManifestOK, ManifestsFinal
<1> QED
  BY <1>1, Invariant, PTL

\* The batch's phase is behind the work it vouches for: no page unfinished past
\* listing, no observation unresolved past compaction, no item pending in sealing
\* (the phase that each transaction of a quantum writes back).
THEOREM PhaseIsEarned == Spec => []PhaseMatchesWork
<1>1. IInv => PhaseMatchesWork
  <2> SUFFICES ASSUME IInv PROVE PhaseMatchesWork
    OBVIOUS
  <2>1. ASSUME batch.phase \in {"compaction", "enrichment", "sealing", "synchronized"}
        PROVE  IncompletePages = {} /\ batch.raw = total
    <3>1. IncompletePages = {} /\ batch.listingOffset = total
      BY <2>1 DEF IInv, ListingOK
    <3>2. batch.raw = batch.listingOffset
      BY <3>1 DEF IInv, ListingOK, Unfinished
    <3> QED
      BY <3>1, <3>2
  <2> QED
    BY <2>1 DEF IInv, ItemsOK, PhaseMatchesWork
<1> QED
  BY <1>1, Invariant, PTL

\* A segment's cursor never runs past a posting that was neither handled nor
\* counted as an error, however its turns crash, repeat or lose their lease
\* (completeAtsV2SegmentProcessing and the turns that end in it).
THEOREM CursorIsHonest == Spec => []CursorBehindJobs
<1>1. IInv => CursorBehindJobs
  <2> SUFFICES ASSUME IInv PROVE CursorBehindJobs
    OBVIOUS
  <2>1. ASSUME NEW s \in Manifests(segment)
        PROVE  /\ Cardinality((FirstOrdinal(s) .. FirstOrdinal(s) + segment[s].offset - 1) \ handled)
                    <= segment[s].failed
               /\ segment[s].status = "processed" => segment[s].offset = segment[s].count
    <3>1. s \in SegmentOrdinals /\ segment[s].status # "none" /\ SegmentOK(s)
      BY DEF IInv, TurnsOK, Manifests
    <3>2. FirstOrdinal(s) + 0 = FirstOrdinal(s)
      BY ManifestIs
    <3> QED
      BY <3>1, <3>2 DEF SegmentOK, Left
  <2> QED
    BY <2>1 DEF CursorBehindJobs
<1> QED
  BY <1>1, Invariant, PTL
----------------------------------------------------------------------------
(* What a step may do to the evidence.                                      *)

\* What is written of a segment is only added to, and a processed one rests.
SegmentGrows(s) ==
  /\ segment[s].status # "none" =>
       /\ segment'[s].status # "none" /\ segment'[s].count = segment[s].count
       /\ segment'[s].offset >= segment[s].offset /\ segment'[s].failed >= segment[s].failed
  /\ segment[s].status = "processed" =>
       segment'[s].status = "processed" /\ segment'[s].failed = segment[s].failed

\* A segment that keeps its range and cursor takes nothing back.
LEMMA RowGrows ==
  ASSUME IInv, NEW s \in SegmentOrdinals,
         segment'[s].count = segment[s].count, segment'[s].offset = segment[s].offset,
         segment'[s].failed = segment[s].failed,
         segment[s].status # "none" => segment'[s].status # "none",
         segment[s].status = "processed" => segment'[s].status = "processed"
  PROVE  SegmentGrows(s)
<1>1. segment[s] \in SegmentRows
  BY Typed
<1>2. segment[s].offset \in Nat /\ segment[s].failed \in Nat
  BY <1>1, Sizes DEF SegmentRows
<1> QED
  BY <1>2 DEF SegmentGrows

\* Nor does a step of a turn.
LEMMA TurnGrows ==
  ASSUME IInv, NEW p \in Procs, NEW s \in SegmentOrdinals,
         \/ HeartbeatSegment(p) \/ FailTurn(p) \/ CrashTurn(p)
         \/ ProcessItem(p) \/ ProcessAhead(p)
         \/ \E interrupted \in BOOLEAN : EndTurn(p, interrupted)
         \/ \E r \in SegmentOrdinals : ClaimSegment(p, r)
  PROVE  SegmentGrows(s)
<1>0. PICK q : q = proc[p].segment
  OBVIOUS
<1>1. segment \in [SegmentOrdinals -> SegmentRows] /\ segment[s] \in SegmentRows
  BY Typed
<1>2. CASE segment' = segment
  BY <1>2, RowGrows
<1>3. ASSUME q \in SegmentOrdinals, segment[q].token = p, segment' = [segment EXCEPT ![q] = Released(q, TRUE)]
      PROVE  SegmentGrows(s)
  <2>1. segment[q].status = "processing"
    BY <1>3, TokenMeansProcessing
  <2> QED
    BY <1>1, <1>3, <2>1, ReleasedIs, RowGrows
<1>4. ASSUME q \in SegmentOrdinals, q # None, segment[q].token = p, NEW hold \in BOOLEAN,
             segment' = [segment EXCEPT ![q] = Advanced(q, proc[p], hold)]
      PROVE  SegmentGrows(s)
  <2>1. segment[q].status = "processing"
    BY <1>4, TokenMeansProcessing
  <2>2. CASE s # q
    BY <1>1, <1>4, <2>2, RowGrows
  <2>3. CASE s = q
    <3>1. /\ segment'[q].count = segment[q].count
          /\ segment'[q].offset = segment[q].offset + proc[p].done
          /\ segment'[q].failed = segment[q].failed + proc[p].erred
          /\ segment'[q].status \in {"published", "processed"}
      BY <1>0, <1>1, <1>4, AdvancedType
    <3>2. proc[p].done \in Nat /\ proc[p].erred \in Nat
      BY <1>0, <1>4, TurnAt, Sizes
    <3>3. segment[q].offset \in Nat /\ segment[q].failed \in Nat
      BY <1>1, <2>3, Sizes DEF SegmentRows
    <3>4. /\ segment'[q].offset >= segment[q].offset
          /\ segment'[q].failed >= segment[q].failed
      BY <3>1, <3>2, <3>3
    <3> QED
      BY <2>1, <2>3, <3>1, <3>4 DEF SegmentGrows
  <2> QED
    BY <2>2, <2>3
<1>5. CASE HeartbeatSegment(p)
  <2>1. q \in SegmentOrdinals
    BY <1>0, <1>5, TurnAt DEF HeartbeatSegment
  <2>2. segment'[s] = segment[s] \/ segment'[s] = [segment[s] EXCEPT !.lease = SegmentLease]
    BY <1>0, <1>1, <1>5, <2>1 DEF HeartbeatSegment
  <2> QED
    BY <1>1, <2>2, RowGrows DEF SegmentRows
<1>6. CASE FailTurn(p)
  <2>1. q \in SegmentOrdinals
    BY <1>0, <1>6, TurnAt DEF FailTurn
  <2> QED
    BY <1>0, <1>2, <1>3, <1>6, <2>1 DEF FailTurn
<1>7. ASSUME NEW interrupted \in BOOLEAN, EndTurn(p, interrupted) PROVE SegmentGrows(s)
  <2>1. q \in SegmentOrdinals /\ q # None
    BY <1>0, <1>7, EndTurnIs DEF EndTurn
  <2> QED
    BY <1>0, <1>2, <1>3, <1>4, <1>7, <2>1, EndTurnIs
<1>8. ASSUME NEW r \in SegmentOrdinals, ClaimSegment(p, r) PROVE SegmentGrows(s)
  <2>1. segment[r].status \in {"published", "processing"} /\ segment[r] \in SegmentRows
    BY <1>1, <1>8 DEF ClaimSegment, ClaimableSegment
  <2>2. /\ segment'[s].count = segment[s].count /\ segment'[s].offset = segment[s].offset
        /\ segment'[s].failed = segment[s].failed
        /\ segment'[s].status = segment[s].status \/ (s = r /\ segment'[s].status = "processing")
    BY <1>1, <1>8, <2>1 DEF ClaimSegment, SegmentRows
  <2> QED
    BY <2>1, <2>2, RowGrows
<1>9. CASE CrashTurn(p) \/ ProcessItem(p) \/ ProcessAhead(p)
  BY <1>2, <1>9 DEF CrashTurn, ProcessItem, ProcessAhead
<1> QED
  BY <1>5, <1>6, <1>7, <1>8, <1>9

\* No step takes back a manifest, a cursor or a posting.
LEMMA SegmentsGrow ==
  ASSUME IInv, [Next]_vars, NEW s \in SegmentOrdinals
  PROVE  SegmentGrows(s) /\ handled \subseteq handled'
<1>1. segment \in [SegmentOrdinals -> SegmentRows] /\ segment[s] \in SegmentRows
  BY Typed
<1>2. ASSUME segment' = segment PROVE SegmentGrows(s)
  BY <1>2, RowGrows
<1>3. ASSUME NEW c \in Claims, ClaimStep(c) \/ ClaimTrouble(c)
      PROVE  SegmentGrows(s) /\ handled \subseteq handled'
  <2>1. CASE Seal(c)
    <3>1. PICK prefix \in BOOLEAN : prefix = (batch.phase = "listing")
      OBVIOUS
    <3>2. segment'[s] = segment[s] \/ s \in SealedNow(prefix)
      BY ZenonT(40), <2>1, <3>1, SealIs
    <3>3. s \in SealedNow(prefix) => segment[s].status = "none"
      BY DEF SealedNow, ReadySegments
    <3>4. segment'[s] = segment[s] => SegmentGrows(s)
      BY RowGrows
    <3>5. segment[s].status = "none" => SegmentGrows(s)
      BY DEF SegmentGrows
    <3> QED
      BY <2>1, <3>2, <3>3, <3>4, <3>5 DEF Seal
  <2>2. CASE ~Seal(c)
    <3>1. segment' = segment /\ handled' = handled
      BY <1>3, <2>2 DEF ClaimStep, ClaimTrouble, OpenReceipt, Settle, LoseFence, Materialize, ResumeListing,
         CommitPage, Resolve, Mark, ClaimDetail, DetailAnswer, Admit, TakeContinuation, Heartbeat, Abandon,
         Crash, DetailError
    <3> QED
      BY <1>2, <3>1
  <2> QED
    BY <2>1, <2>2
<1>4. ASSUME NEW p \in Procs, TurnStep(p) \/ TurnTrouble(p)
      PROVE  SegmentGrows(s) /\ handled \subseteq handled'
  <2>1. handled \subseteq handled'
    BY <1>4 DEF TurnStep, TurnTrouble, ProcessItem, ProcessAhead, EndTurn, HeartbeatSegment, FailTurn, CrashTurn
  <2> QED
    BY <1>4, <2>1, TurnGrows DEF TurnStep, TurnTrouble
<1>5. ASSUME NEW p \in Procs, NEW r \in SegmentOrdinals, ClaimSegment(p, r)
      PROVE  SegmentGrows(s) /\ handled \subseteq handled'
  BY <1>5, TurnGrows DEF ClaimSegment
<1>6. ASSUME NEW chosen \in SUBSET SegmentOrdinals, Publish(chosen)
      PROVE  SegmentGrows(s) /\ handled \subseteq handled'
  <2>1. \/ segment'[s] = segment[s]
        \/ segment[s].status = "sealed" /\ segment'[s] = [segment[s] EXCEPT !.status = "published"]
    BY <1>6, PublishIs
  <2>2. SegmentGrows(s)
    BY <1>1, <2>1, RowGrows DEF SegmentRows
  <2> QED
    BY <1>6, <2>2 DEF Publish
<1>7. CASE Reconcile
  <2>1. SegmentGrows(s)
    BY <1>7, ReleasedIs, RowGrows DEF Reconcile, ExpiredSegments
  <2> QED
    BY <1>7, <2>1 DEF Reconcile
<1>8. CASE Tick
  <2>1. SegmentGrows(s)
    BY <1>1, <1>8, RowGrows DEF Tick, SegmentRows
  <2> QED
    BY <1>8, <2>1 DEF Tick
<1>9. CASE UNCHANGED vars
  BY <1>2, <1>9 DEF vars
<1> QED
  BY <1>3, <1>4, <1>5, <1>6, <1>7, <1>8, <1>9 DEF Next

\* A saved page keeps its size.
LEMMA PagesGrow ==
  ASSUME IInv, [Next]_vars, NEW o \in Offsets, page[o].saved
  PROVE  page'[o].saved /\ page'[o].size = page[o].size
<1>1. page \in [Offsets -> PageRows] /\ page[o] \in PageRows
  BY Typed
<1>2. CASE page' = page
  BY <1>2
<1>3. ASSUME NEW c \in Claims, Materialize(c) PROVE page'[o].saved /\ page'[o].size = page[o].size
  <2>1. PICK q \in Offsets, n \in Nat :
          page' = [page EXCEPT ![q] = [page[q] EXCEPT !.materialized = page[q].materialized + n]]
    BY <1>3, MaterializeIs
  <2> QED
    BY <1>1, <2>1 DEF PageRows
<1>4. ASSUME NEW c \in Claims, Lists(c) PROVE page'[o].saved /\ page'[o].size = page[o].size
  <2>1. PICK q \in Offsets, n \in Nat :
           /\ q = claim[c].cursor /\ batch.phase = "listing" /\ ~page[q].saved /\ batch.listingOffset = q
           /\ IncompletePages = {} /\ batch.raw = q /\ q + n <= total /\ q + n \in Offsets
           /\ page' = [page EXCEPT ![q] = SavedPage(n)]
           /\ \E phase \in {"listing", "compaction"} :
                /\ batch' = [batch EXCEPT !.listingOffset = q + n, !.raw = IF n <= Chunk THEN q + n ELSE q,
                                          !.phase = phase]
                /\ phase = "compaction" => n <= Chunk /\ q + n = total
           /\ \E stage \in {"body", "settle", "fetch"} :
                /\ claim' = [claim EXCEPT ![c].stage = stage, ![c].cursor = q + n]
                /\ stage = "fetch" => n <= Chunk /\ q + n # total
                /\ stage = "body" => ~(n <= Chunk)
    BY <1>1, <1>4, ListsIs
  <2> QED
    BY <1>1, <2>1
<1>5. ASSUME NEW c \in Claims, Works(c), ~Materialize(c), ~Lists(c) PROVE page' = page
  BY <1>5 DEF Works, Admit, Resolves, Resolve, Marks, Mark, DetailAnswer, Seal
<1>6. ASSUME NEW chosen \in SUBSET SegmentOrdinals, Publish(chosen) PROVE page' = page
  BY <1>6 DEF Publish
<1> QED
  BY <1>2, <1>3, <1>4, <1>5, <1>6, StillOrWorks DEF Still

\* A terminal item stays terminal.
LEMMA TerminalStays ==
  ASSUME IInv, [Next]_vars, NEW o \in Ordinals, item[o].state = "terminal"
  PROVE  item'[o].state = "terminal"
<1>1. ASSUME NEW c \in Claims, Works(c) PROVE item'[o].state = "terminal"
  <2>1. CASE Admit(c) \/ Materialize(c) \/ Lists(c) \/ Seal(c)
    BY <2>1 DEF Admit, Materialize, Lists, CommitPage, Seal
  <2>2. CASE Marks(c)
    BY <2>2, MarksIs DEF Unmarked
  <2>3. CASE DetailAnswer(c)
    BY <2>3, AnswerIs, Typed DEF TerminalItem
  <2>4. ASSUME NEW kept \in 0 .. Chunk, NEW invalid \in SUBSET Ordinals, Resolve(c, kept, invalid)
        PROVE  item'[o].state = "terminal"
    <3>1. o < batch.canonical /\ o \in Int /\ batch.canonical \in Nat
      BY Bounds, Sizes DEF IInv, ItemsOK, Ordinals
    <3>2. kept \in Nat /\ o \notin batch.canonical .. batch.canonical + kept - 1
      BY <2>4, <3>1, ResolveIs
    <3> QED
      BY <2>4, <3>2 DEF Resolve, TerminalItem
  <2> QED
    BY <1>1, <2>1, <2>2, <2>3, <2>4 DEF Works, Resolves
<1>2. ASSUME NEW chosen \in SUBSET SegmentOrdinals, Publish(chosen) PROVE item'[o].state = "terminal"
  BY <1>2 DEF Publish
<1> QED
  BY <1>1, <1>2, StillOrWorks DEF Still, SameItems

\* No transaction takes evidence back: saved pages, terminal items, manifests,
\* cursors with their errors, and a closed cycle stay as they are or grow
\* (commitAtsV2ListingPage to finalizeAtsV2BatchIfReady).
THEOREM EvidenceKept == Spec => EvidenceOnlyGrows
<1>1. ASSUME IInv, [Next]_vars
      PROVE  [/\ \A o \in Offsets : page[o].saved =>
                   page'[o].saved /\ page'[o].size = page[o].size
              /\ \A o \in Ordinals : item[o].state = "terminal" => item'[o].state = "terminal"
              /\ \A s \in SegmentOrdinals : segment[s].status # "none" =>
                   /\ segment'[s].count = segment[s].count
                   /\ segment'[s].offset >= segment[s].offset
                   /\ segment'[s].failed >= segment[s].failed
                   /\ segment[s].status = "processed" => segment'[s].status = "processed"
              /\ batch.status \in {"processed", "failed"} => batch'.status = batch.status
             ]_vars
  <2>1. \A s \in SegmentOrdinals : SegmentGrows(s)
    BY <1>1, SegmentsGrow
  <2>2. batch.status \in {"processed", "failed"} => batch'.status = batch.status
    BY <1>1, StatusKept
  <2> QED
    BY <1>1, <2>1, <2>2, PagesGrow, TerminalStays DEF SegmentGrows
<1> QED
  BY <1>1, Invariant, PTL DEF Spec, EvidenceOnlyGrows

\* A step that builds the batch is its admission or one of the very claim whose
\* token and live lease are on it, and leaves that claim the owner
\* (assertClaimMatchesBatch in every write of a quantum).
THEOREM OwnerMoves == Spec => OnlyOwnerMovesBatch
<1> DEFINE Owned == \E c \in Claims :
                      \/ Admit(c)
                      \/ batch.token = c /\ batch.lease > 0 /\ batch'.token = c /\ ClaimStep(c)
<1>1. ASSUME IInv, [Next]_vars PROVE [BuildsBatch => Owned]_vars
  <2> SUFFICES ASSUME BuildsBatch PROVE Owned
    OBVIOUS
  <2>0. batch \in BatchRows
    BY <1>1, Typed
  <2>1. ~Still
    BY DEF Still, SameWork, BuildsBatch
  <2>2. ASSUME NEW chosen \in SUBSET SegmentOrdinals, Publish(chosen) PROVE FALSE
    BY <1>1, <2>2, PublishIs DEF BuildsBatch, Publish
  <2>3. PICK c \in Claims : Works(c)
    BY <1>1, <2>1, <2>2, StillOrWorks
  <2>4. CASE Admit(c)
    BY <2>4
  <2>5. CASE Marks(c) \/ DetailAnswer(c)
    <3>1. batch' = batch \/ \E n : batch' = [batch EXCEPT !.terminal = n]
      BY <1>1, <2>5, MarksIs, AnswerIs
    <3>2. page' = page
      BY <2>5 DEF Marks, Mark, DetailAnswer
    <3> QED
      BY <2>0, <3>1, <3>2 DEF BuildsBatch, BatchRows
  <2>6. CASE Materialize(c) \/ Lists(c)
    <3>1. Owns(c)
      BY <2>6 DEF Materialize, Lists, CommitPage
    <3>0. ClaimStep(c)
      BY <2>6 DEF Lists, ClaimStep
    <3>2. batch'.token = batch.token
      BY <1>1, <2>6, ListingBatch
    <3> QED
      BY <3>0, <3>1, <3>2 DEF Owns
  <2>7. CASE Resolves(c)
    <3>1. Owns(c)
      BY <2>7 DEF Resolves, Resolve
    <3>0. ClaimStep(c)
      BY <2>7 DEF Resolves, ClaimStep
    <3>2. batch'.token = batch.token
      BY <1>1, <2>7, ResolveIs DEF Resolves
    <3> QED
      BY <3>0, <3>1, <3>2 DEF Owns
  <2>8. CASE Seal(c)
    <3>1. Owns(c)
      BY <2>8 DEF Seal
    <3>0. ClaimStep(c)
      BY <2>8 DEF ClaimStep
    <3>2. batch'.token = batch.token
      BY <1>1, <2>8, SealIs
    <3> QED
      BY <3>0, <3>1, <3>2 DEF Owns
  <2> QED
    BY <2>3, <2>4, <2>5, <2>6, <2>7, <2>8 DEF Works
<1> QED
  BY <1>1, Invariant, PTL DEF Spec, OnlyOwnerMovesBatch
----------------------------------------------------------------------------
(* Closed cycles.                                                           *)

\* What the finalizer saw of a cycle when it closed it, and what nothing that
\* happens afterwards can change.
ClosedOK ==
  batch.status \in {"processed", "failed"} =>
    /\ batch.sealed = batch.canonical
    /\ Manifests(segment) = 0 .. SegmentsFor(batch.canonical) - 1
    /\ \A s \in Manifests(segment) :
         /\ segment[s].status = "processed"
         /\ batch.status = "processed" => ~(segment[s].failed > 0)

\* What the finalizer sees when it closes a batch.
LEMMA ClosingOK ==
  ASSUME IInv, [Next]_vars, ClosesNow, SameWork(batch', batch) PROVE ClosedOK'
<1>1. PICK b : Closes(batch', b, item', segment', receipt') /\ SameWork(b, batch) /\ b.status = batch.status
  BY DEF ClosesNow
<1>2. Reconciled(b, item', segment')
  BY <1>1 DEF Closes, FinalizationReady
<1>3. b.sealed = batch'.sealed /\ b.canonical = batch'.canonical
  BY <1>1 DEF SameWork
<1>4. batch'.sealed = batch'.canonical /\ Manifests(segment') = 0 .. SegmentsFor(batch'.canonical) - 1
      /\ \A s \in Manifests(segment') : segment'[s].status = "processed"
  BY <1>2, <1>3 DEF Reconciled
<1>5. batch'.status = "processed" => \A s \in Manifests(segment') : ~(segment'[s].failed > 0)
  BY <1>1 DEF Closes
<1> QED
  BY <1>4, <1>5 DEF ClosedOK, Manifests

\* A closed batch is synchronized: what still works for it finds nothing to do.
LEMMA ClosedRests ==
  ASSUME IInv, ClosedOK, [Next]_vars, batch.status \in {"processed", "failed"}
  PROVE  /\ batch'.sealed = batch.sealed /\ batch'.canonical = batch.canonical
         /\ Manifests(segment)' = Manifests(segment)
<1>1. batch.phase = "synchronized"
  BY DEF IInv, StatusOK
<1>2. CASE Still
  BY <1>2 DEF Still, SameWork, SameManifests, Manifests
<1>3. ASSUME NEW c \in Claims, Works(c)
      PROVE  /\ batch'.sealed = batch.sealed /\ batch'.canonical = batch.canonical
             /\ Manifests(segment)' = Manifests(segment)
  <2>1. ~Admit(c) /\ ~Materialize(c) /\ ~Lists(c) /\ ~Resolves(c)
    BY <1>1, AdmitIs, ListingBatch, ResolveIs DEF Resolves
  <2>2. ~Seal(c)
    <3>1. PICK prefix : prefix = (batch.phase = "listing")
      OBVIOUS
    <3> QED
      BY <1>1, <3>1, SealIs
  <2>3. Marks(c) \/ DetailAnswer(c)
    BY <1>3, <2>1, <2>2 DEF Works
  <2>4. segment' = segment
    BY <2>3 DEF Marks, Mark, DetailAnswer
  <2>5. batch' = batch \/ \E n : batch' = [batch EXCEPT !.terminal = n]
    BY <2>3, MarksIs, AnswerIs
  <2> QED
    BY <2>4, <2>5, OnlyTerminal DEF Manifests
<1>4. ASSUME NEW chosen \in SUBSET SegmentOrdinals, Publish(chosen) PROVE FALSE
  <2>1. PICK s \in chosen : s \in SegmentOrdinals /\ segment[s].status = "sealed"
    BY <1>4 DEF Publish
  <2> QED
    BY <2>1 DEF ClosedOK, Manifests
<1> QED
  BY <1>2, <1>3, <1>4, StillOrWorks

\* Every step keeps what the finalizer saw.
LEMMA ClosedKept ==
  ASSUME IInv, ClosedOK, [Next]_vars PROVE ClosedOK'
<1>1. CASE batch'.status \notin {"processed", "failed"}
  BY <1>1 DEF ClosedOK
<1>2. CASE batch.status \in {"processed", "failed"}
  <2>1. batch'.status = batch.status
    BY <1>2, StatusKept
  <2>2. ASSUME NEW s \in Manifests(segment)
        PROVE  /\ segment'[s].status = "processed"
               /\ batch'.status = "processed" => ~(segment'[s].failed > 0)
    <3>1. segment[s].status = "processed" /\ s \in SegmentOrdinals
      BY <1>2 DEF ClosedOK, Manifests
    <3>2. segment'[s].status = "processed" /\ segment'[s].failed = segment[s].failed
      BY <3>1, SegmentsGrow DEF SegmentGrows
    <3> QED
      BY <1>2, <2>1, <3>2 DEF ClosedOK
  <2>3. /\ batch'.sealed = batch.sealed /\ batch'.canonical = batch.canonical
        /\ Manifests(segment)' = Manifests(segment)
    BY <1>2, ClosedRests
  <2> QED
    BY <1>2, <2>1, <2>2, <2>3 DEF ClosedOK
<1>3. CASE batch'.status \in {"processed", "failed"} /\ batch.status \notin {"processed", "failed"}
  <2>1. ClosesNow
    BY <1>3, StatusKept
  <2>2. ~\E c \in Claims : Works(c)
    BY <1>3, StatusWorks
  <2>3. ~\E chosen \in SUBSET SegmentOrdinals : Publish(chosen)
    BY <1>3, PublishIs
  <2>4. SameWork(batch', batch)
    BY <2>2, <2>3, StillOrWorks DEF Still
  <2> QED
    BY <2>1, <2>4, ClosingOK
<1> QED
  BY <1>1, <1>2, <1>3

\* Sealed as many items as there are: every item is in a manifest.
LEMMA AllSealed ==
  ASSUME IInv, batch.sealed = batch.canonical, NEW o \in 0 .. batch.canonical - 1
  PROVE  \E s \in Manifests(segment) : o \in ItemsOf(s)
<1>1. batch.canonical \in Nat /\ batch.canonical <= Jobs /\ Cardinality(SealedItems) = batch.canonical
  BY Bounds DEF IInv, ManifestsOK
<1>2. SealedItems \subseteq 0 .. batch.canonical - 1
  <2> SUFFICES ASSUME NEW q \in SealedItems PROVE q \in 0 .. batch.canonical - 1
    OBVIOUS
  <2>1. q < batch.canonical /\ q \in Ordinals
    BY ManifestIs DEF SealedItems
  <2> QED
    BY <1>1, <2>1, Sizes DEF Ordinals
<1>3. o \in SealedItems
  BY <1>1, <1>2, FullSet
<1> QED
  BY <1>3 DEF SealedItems

\* A processed segment without errors has handled all its items.
LEMMA AllHandled ==
  ASSUME IInv, NEW s \in Manifests(segment), segment[s].status = "processed", ~(segment[s].failed > 0)
  PROVE  ItemsOf(s) \subseteq handled
<1>1. s \in SegmentOrdinals /\ s \in Nat /\ FirstOrdinal(s) \in Nat /\ SegmentOK(s)
  BY ManifestIs DEF IInv, TurnsOK
<1>2. segment[s] \in SegmentRows
  BY <1>1, Typed
<1>3. segment[s].count \in Nat /\ segment[s].failed = 0 /\ segment[s].offset = segment[s].count
  <2>1. segment[s].failed \in Nat /\ segment[s].count \in Nat
    BY <1>2, Sizes DEF SegmentRows
  <2>2. segment[s].offset = segment[s].count
    BY <1>1 DEF SegmentOK
  <2> QED
    BY <2>1, <2>2
<1>4. Cardinality(Left(handled, s, 0, segment[s].count)) <= 0
  BY <1>1, <1>3 DEF SegmentOK
<1>5. /\ IsFiniteSet(Left(handled, s, 0, segment[s].count))
      /\ Cardinality(Left(handled, s, 0, segment[s].count)) \in Nat
  BY <1>1, <1>3, LeftFinite
<1>6. Left(handled, s, 0, segment[s].count) = {}
  BY <1>4, <1>5, FS_EmptySet
<1>7. ItemsOf(s) = FirstOrdinal(s) + 0 .. FirstOrdinal(s) + segment[s].count - 1
  BY <1>1 DEF ItemsOf
<1> QED
  BY <1>6, <1>7 DEF Left

\* A cycle that is closed has nothing outstanding: its catalogue was listed to
\* the end, every segment is processed, and if the cycle is "processed", every
\* item reached the Job tables (finalizeAtsV2BatchIfReady, whatever still runs).
THEOREM ClosedIsDone == Spec => []ClosedMeansDone
<1>1. Init => ClosedOK
  BY DEF Init, ClosedOK
<1>2. IInv /\ ClosedOK /\ [Next]_vars => ClosedOK'
  BY ClosedKept
<1>3. ASSUME IInv, ClosedOK PROVE ClosedMeansDone
  <2> SUFFICES ASSUME batch.status \in {"processed", "failed"}
               PROVE  /\ batch.raw = total
                      /\ Manifests(segment) = 0 .. SegmentsFor(batch.canonical) - 1
                      /\ \A s \in Manifests(segment) : segment[s].status = "processed"
                      /\ batch.status = "processed" => 0 .. batch.canonical - 1 \subseteq handled
    BY DEF ClosedMeansDone
  <2>1. batch.raw = total
    <3>1. batch.phase = "synchronized"
      BY <1>3 DEF IInv, StatusOK
    <3>2. IncompletePages = {} /\ batch.listingOffset = total
      BY <1>3, <3>1 DEF IInv, ListingOK
    <3> QED
      BY <1>3, <3>2 DEF IInv, ListingOK, Unfinished
  <2>2. ASSUME batch.status = "processed", NEW o \in 0 .. batch.canonical - 1 PROVE o \in handled
    <3>1. PICK s \in Manifests(segment) : o \in ItemsOf(s)
      BY <1>3, AllSealed DEF ClosedOK
    <3>2. segment[s].status = "processed" /\ ~(segment[s].failed > 0)
      BY <1>3, <2>2 DEF ClosedOK
    <3> QED
      BY <1>3, <3>1, <3>2, AllHandled
  <2> QED
    BY <1>3, <2>1, <2>2 DEF ClosedOK
<1> QED
  BY <1>1, <1>2, <1>3, Invariant, PTL DEF Spec
----------------------------------------------------------------------------
(* The ledger implements the promise of a board's cycle.                    *)

\* No cursor and no count of errors moves, and no manifest is made.
CursorsStill ==
  \A s \in SegmentOrdinals :
    /\ segment'[s].status = "none" <=> segment[s].status = "none"
    /\ segment'[s].offset = segment[s].offset /\ segment'[s].failed = segment[s].failed

\* Cursors that stand account for nothing new.
LEMMA CursorsSame ==
  ASSUME CursorsStill PROVE Accounted' = Accounted /\ Errors' = Errors
<1>1. Manifests(segment)' = Manifests(segment) /\ Manifests(segment) \subseteq SegmentOrdinals
  BY DEF CursorsStill, Manifests
<1>2. \A s \in Manifests(segment) : segment'[s].offset = segment[s].offset /\ segment'[s].failed = segment[s].failed
  BY <1>1 DEF CursorsStill
<1> QED
  BY <1>1, <1>2 DEF Accounted, Errors

\* A turn that still has its segment completes its part of it.
Advances(p) ==
  \E interrupted \in BOOLEAN, hold \in BOOLEAN :
    /\ EndTurn(p, interrupted)
    /\ segment[proc[p].segment].token = p
    /\ segment' = [segment EXCEPT ![proc[p].segment] = Advanced(proc[p].segment, proc[p], hold)]

\* Of the steps of a turn only its completion moves a cursor.
LEMMA TurnCursors ==
  ASSUME IInv, NEW p \in Procs,
         \/ TurnStep(p) \/ TurnTrouble(p)
         \/ \E s \in SegmentOrdinals : ClaimSegment(p, s)
  PROVE  CursorsStill \/ Advances(p)
<1>0. PICK q : q = proc[p].segment
  OBVIOUS
<1>1. segment \in [SegmentOrdinals -> SegmentRows]
  BY Typed
<1>2. CASE segment' = segment
  BY <1>2 DEF CursorsStill
<1>3. ASSUME q \in SegmentOrdinals, segment[q].token = p, segment' = [segment EXCEPT ![q] = Released(q, TRUE)]
      PROVE  CursorsStill
  <2>1. segment[q].status = "processing"
    BY <1>3, TokenMeansProcessing
  <2> QED
    BY <1>1, <1>3, <2>1, ReleasedIs DEF CursorsStill
<1>4. CASE HeartbeatSegment(p)
  <2>1. q \in SegmentOrdinals
    BY <1>0, <1>4, TurnAt DEF HeartbeatSegment
  <2> QED
    BY <1>0, <1>1, <1>4, <2>1 DEF HeartbeatSegment, CursorsStill, SegmentRows
<1>5. CASE FailTurn(p)
  <2>1. q \in SegmentOrdinals
    BY <1>0, <1>5, TurnAt DEF FailTurn
  <2> QED
    BY <1>0, <1>2, <1>3, <1>5, <2>1 DEF FailTurn
<1>6. ASSUME NEW interrupted \in BOOLEAN, EndTurn(p, interrupted) PROVE CursorsStill \/ Advances(p)
  <2>1. q \in SegmentOrdinals
    BY <1>0, <1>6, EndTurnIs
  <2> QED
    BY <1>0, <1>2, <1>3, <1>6, <2>1, EndTurnIs DEF Advances
<1>7. ASSUME NEW r \in SegmentOrdinals, ClaimSegment(p, r) PROVE CursorsStill
  <2>1. segment[r].status \in {"published", "processing"} /\ segment[r] \in SegmentRows
    BY <1>1, <1>7 DEF ClaimSegment, ClaimableSegment
  <2> QED
    BY <1>1, <1>7, <2>1 DEF ClaimSegment, CursorsStill, SegmentRows
<1>8. CASE CrashTurn(p) \/ ProcessItem(p) \/ ProcessAhead(p)
  BY <1>2, <1>8 DEF CrashTurn, ProcessItem, ProcessAhead
<1> QED
  BY <1>4, <1>5, <1>6, <1>7, <1>8 DEF TurnStep, TurnTrouble

\* A segment is sealed with its cursor at its first item and no errors.
LEMMA SealCursors ==
  ASSUME IInv, NEW c \in Claims, Seal(c) PROVE Accounted' = Accounted /\ Errors' = Errors
<1>0. PICK prefix \in BOOLEAN : prefix = (batch.phase = "listing")
  OBVIOUS
<1>1. ASSUME NEW s \in SegmentOrdinals
      PROVE  \/ segment'[s] = segment[s]
             \/ /\ segment[s].status = "none" /\ segment'[s].status = "sealed"
                /\ segment'[s].offset = 0 /\ segment'[s].failed = 0
  <2>1. segment' = [r \in SegmentOrdinals |->
              IF r \in SealedNow(prefix)
              THEN [NoSegment EXCEPT !.status = "sealed", !.count = ItemCount(r, batch.canonical)]
              ELSE segment[r]]
    BY <1>0, SealIs
  <2>2. CASE s \in SealedNow(prefix)
    <3>1. segment[s].status = "none"
      BY <2>2 DEF SealedNow, ReadySegments
    <3>2. segment'[s] = [NoSegment EXCEPT !.status = "sealed", !.count = ItemCount(s, batch.canonical)]
      BY <2>1, <2>2
    <3> QED
      BY <3>1, <3>2 DEF NoSegment
  <2>3. CASE s \notin SealedNow(prefix)
    BY <2>1, <2>3
  <2> QED
    BY <2>2, <2>3
<1>2. Manifests(segment) \subseteq Manifests(segment)' /\ Manifests(segment)' \subseteq SegmentOrdinals
  BY <1>1 DEF Manifests
<1>3. \A s \in Manifests(segment) : segment'[s] = segment[s]
  BY <1>1 DEF Manifests
<1>4. ASSUME NEW s \in Manifests(segment)', s \notin Manifests(segment)
      PROVE  /\ FirstOrdinal(s) .. FirstOrdinal(s) + segment'[s].offset - 1 = {}
             /\ 1 .. segment'[s].failed = {}
  <2>1. s \in SegmentOrdinals /\ s \in Nat
    BY <1>2, Sizes DEF SegmentOrdinals, Ordinals
  <2>2. segment'[s].offset = 0 /\ segment'[s].failed = 0
    BY <1>1, <1>4, <2>1 DEF Manifests
  <2>3. FirstOrdinal(s) \in Nat
    BY <2>1, Multiples
  <2> QED
    BY <2>2, <2>3
<1>5. Accounted' = Accounted
  <2>1. \A o : o \in Accounted' => o \in Accounted
    BY <1>3, <1>4 DEF Accounted
  <2>2. \A o : o \in Accounted => o \in Accounted'
    BY <1>2, <1>3 DEF Accounted
  <2> QED
    BY <2>1, <2>2
<1>6. Errors' = Errors
  <2>1. \A e : e \in Errors' => e \in Errors
    <3> SUFFICES ASSUME NEW s \in Manifests(segment)', NEW e \in {s} \X (1 .. segment'[s].failed)
                 PROVE  e \in Errors
      BY DEF Errors
    <3>1. s \in Manifests(segment)
      BY <1>4
    <3> QED
      BY <1>3, <3>1 DEF Errors
  <2>2. \A e : e \in Errors => e \in Errors'
    <3> SUFFICES ASSUME NEW s \in Manifests(segment), NEW e \in {s} \X (1 .. segment[s].failed)
                 PROVE  e \in Errors'
      BY DEF Errors
    <3>1. s \in Manifests(segment)' /\ segment'[s] = segment[s]
      BY <1>2, <1>3
    <3> QED
      BY <3>1 DEF Errors
  <2> QED
    BY <2>1, <2>2
<1> QED
  BY <1>5, <1>6

\* Of all steps, only the completion of a turn accounts for anything.
LEMMA WhoAccounts ==
  ASSUME IInv, [Next]_vars
  PROVE  (Accounted' = Accounted /\ Errors' = Errors) \/ \E p \in Procs : Advances(p)
<1>1. ASSUME NEW c \in Claims, ClaimStep(c) \/ ClaimTrouble(c) PROVE Accounted' = Accounted /\ Errors' = Errors
  <2>1. CASE Seal(c)
    BY <2>1, SealCursors
  <2>2. CASE ~Seal(c)
    <3>1. segment' = segment
      BY <1>1, <2>2 DEF ClaimStep, ClaimTrouble, OpenReceipt, Settle, LoseFence, Materialize, ResumeListing,
         CommitPage, Resolve, Mark, ClaimDetail, DetailAnswer, Admit, TakeContinuation, Heartbeat, Abandon,
         Crash, DetailError
    <3> QED
      BY <3>1, CursorsSame DEF CursorsStill
  <2> QED
    BY <2>1, <2>2
<1>2. segment \in [SegmentOrdinals -> SegmentRows]
  BY Typed
<1>3. ASSUME NEW chosen \in SUBSET SegmentOrdinals, Publish(chosen) PROVE CursorsStill
  <2>1. ASSUME NEW s \in SegmentOrdinals
        PROVE  \/ segment'[s] = segment[s]
               \/ segment[s].status = "sealed" /\ segment'[s] = [segment[s] EXCEPT !.status = "published"]
    BY <1>3, PublishIs
  <2>2. ASSUME NEW s \in SegmentOrdinals
        PROVE  /\ segment'[s].status = "none" <=> segment[s].status = "none"
               /\ segment'[s].offset = segment[s].offset /\ segment'[s].failed = segment[s].failed
    <3>1. segment[s] \in SegmentRows
      BY <1>2
    <3> QED
      BY <2>1, <3>1 DEF SegmentRows
  <2> QED
    BY <2>2 DEF CursorsStill
<1>4. CASE Reconcile
  <2>1. CursorsStill
    BY <1>4, ReleasedIs DEF Reconcile, ExpiredSegments, CursorsStill
  <2> QED
    BY <2>1, CursorsSame
<1>5. CASE Tick
  <2>1. CursorsStill
    BY <1>2, <1>5 DEF Tick, CursorsStill, SegmentRows
  <2> QED
    BY <2>1, CursorsSame
<1>6. CASE UNCHANGED vars
  BY <1>6, CursorsSame DEF vars, CursorsStill
<1> QED
  BY <1>1, <1>3, <1>4, <1>5, <1>6, TurnCursors, CursorsSame DEF Next

\* The errors can be counted.
LEMMA ErrorsFinite == ASSUME IInv PROVE IsFiniteSet(Errors) /\ Cardinality(Errors) \in Nat
<1>1. IsFiniteSet(SegmentOrdinals) /\ IsFiniteSet(1 .. SegmentSize)
  BY OrdinalsFinite, FS_Interval, Sizes DEF SegmentOrdinals
<1>2. IsFiniteSet(SegmentOrdinals \X (1 .. SegmentSize))
  BY <1>1, FS_Product
<1>3. Errors \subseteq SegmentOrdinals \X (1 .. SegmentSize)
  <2> SUFFICES ASSUME NEW s \in Manifests(segment), NEW e \in {s} \X (1 .. segment[s].failed)
               PROVE  e \in SegmentOrdinals \X (1 .. SegmentSize)
    BY DEF Errors
  <2>1. s \in SegmentOrdinals /\ segment[s].failed \in 0 .. SegmentSize
    BY Typed DEF Manifests, SegmentRows
  <2>2. 1 .. segment[s].failed \subseteq 1 .. SegmentSize
    BY <2>1, Sizes
  <2> QED
    BY <2>1, <2>2
<1>4. IsFiniteSet(Errors)
  BY <1>2, <1>3, FS_Subset
<1> QED
  BY <1>4, FS_CardinalityType

\* The errors of one turn: the e that follow the segment's first f.
ErrorsAfter(s, f, e) == {s} \X (f + 1 .. f + e)

\* A turn adds as many errors as it counted.
LEMMA NewErrors ==
  ASSUME NEW s, NEW f \in Nat, NEW e \in Nat
  PROVE  IsFiniteSet(ErrorsAfter(s, f, e)) /\ Cardinality(ErrorsAfter(s, f, e)) = e
<1>1. PICK one, some : one = {s} /\ some = f + 1 .. f + e
  OBVIOUS
<1>2. IsFiniteSet(one) /\ Cardinality(one) = 1
  BY <1>1, FS_Singleton
<1>3. IsFiniteSet(some) /\ Cardinality(some) = e
  <2>1. PICK a, b : a = f + 1 /\ b = f + e /\ a \in Int /\ b \in Int
    OBVIOUS
  <2>2. IsFiniteSet(a .. b) /\ Cardinality(a .. b) = IF a > b THEN 0 ELSE b - a + 1
    BY <2>1, FS_Interval
  <2> QED
    BY <1>1, <2>1, <2>2
<1>4. IsFiniteSet(one \X some) /\ Cardinality(one \X some) = Cardinality(one) * Cardinality(some)
  BY <1>2, <1>3, FS_Product
<1>5. Cardinality(one \X some) = e
  BY <1>2, <1>3, <1>4
<1> QED
  BY <1>1, <1>4, <1>5 DEF ErrorsAfter

\* What the completion of a turn accounts for: the items it walked, of which
\* those that were not handled are counted among its errors.
LEMMA AdvanceIs ==
  ASSUME IInv, NEW p \in Procs, Advances(p)
  PROVE  \E set \in SUBSET (0 .. batch.canonical - 1), failed \in Nat :
           /\ set \cap Accounted = {}
           /\ Accounted' = Accounted \cup set /\ Cardinality(Errors') = Cardinality(Errors) + failed
           /\ IsFiniteSet(set) /\ failed <= Cardinality(set) /\ Cardinality(set \ handled) <= failed
           /\ IsFiniteSet(Errors')
           /\ set = {} => Errors' = Errors
<1>s. PICK s : s = proc[p].segment
  OBVIOUS
<1>0. PICK interrupted \in BOOLEAN, hold \in BOOLEAN :
        /\ s = proc[p].segment /\ EndTurn(p, interrupted) /\ segment[s].token = p
        /\ segment' = [segment EXCEPT ![s] = Advanced(s, proc[p], hold)]
  BY <1>s DEF Advances
<1>1. /\ s # None /\ s \in SegmentOrdinals /\ s \in Nat /\ segment \in [SegmentOrdinals -> SegmentRows]
      /\ segment[s].status = "processing" /\ s \in Manifests(segment)
  <2>1. s \in SegmentOrdinals /\ s # None
    BY <1>0, EndTurnIs DEF EndTurn
  <2>2. segment[s].status = "processing"
    BY <1>0, <2>1, TokenMeansProcessing
  <2> QED
    BY <2>1, <2>2, Typed, Sizes DEF SegmentOrdinals, Ordinals, Manifests
<1>2. PICK n, d, e, f : n = segment[s].offset /\ d = proc[p].done /\ e = proc[p].erred /\ f = segment[s].failed
  OBVIOUS
<1>3. /\ proc[p].base = n /\ d \in Nat /\ e \in Nat /\ e <= d /\ n + d <= segment[s].count
      /\ n \in Nat /\ f \in Nat /\ segment[s].count \in Nat
  <2>1. /\ proc[p].base = n /\ d \in Nat /\ e \in Nat /\ e <= d /\ n + d <= segment[s].count
    BY <1>0, <1>1, <1>2, TurnAt, Sizes
  <2>2. segment[s] \in SegmentRows
    BY <1>1
  <2> QED
    BY <1>2, <2>1, <2>2, Sizes DEF SegmentRows
<1>4. PICK first : first = FirstOrdinal(s) /\ first \in Nat
  BY <1>1, Multiples
<1>5. /\ segment'[s].offset = n + d /\ segment'[s].failed = f + e /\ segment'[s].status # "none"
      /\ \A r \in SegmentOrdinals : r # s => segment'[r] = segment[r]
  BY <1>0, <1>1, <1>2, AdvancedType
<1>6. Manifests(segment)' = Manifests(segment) /\ Manifests(segment) \subseteq SegmentOrdinals
  BY <1>1, <1>5 DEF Manifests
<1>7. PICK set : set = first + n .. first + n + d - 1
  OBVIOUS
<1>8. Accounted' = Accounted \cup set
  <2>1. first .. first + (n + d) - 1 = (first .. first + n - 1) \cup set
    BY <1>3, <1>4, <1>7
  <2>2. \A r \in Manifests(segment) : r # s => segment'[r].offset = segment[r].offset
    BY <1>5, <1>6
  <2>3. \A o : o \in Accounted' => o \in Accounted \cup set
    <3> SUFFICES ASSUME NEW r \in Manifests(segment),
                        NEW o \in FirstOrdinal(r) .. FirstOrdinal(r) + segment'[r].offset - 1
                 PROVE  o \in Accounted \cup set
      BY <1>6 DEF Accounted
    <3>1. CASE r = s
      <4>1. o \in first .. first + (n + d) - 1
        BY <1>4, <1>5, <3>1
      <4>2. first .. first + n - 1 \subseteq Accounted
        BY <1>1, <1>2, <1>4 DEF Accounted
      <4> QED
        BY <2>1, <4>1, <4>2
    <3>2. CASE r # s
      <4>1. o \in FirstOrdinal(r) .. FirstOrdinal(r) + segment[r].offset - 1
        BY <2>2, <3>2
      <4> QED
        BY <4>1 DEF Accounted
    <3> QED
      BY <3>1, <3>2
  <2>4. \A o : o \in Accounted \cup set => o \in Accounted'
    <3>1. first .. first + (n + d) - 1 \subseteq Accounted'
      BY <1>1, <1>4, <1>5, <1>6 DEF Accounted
    <3>2. ASSUME NEW r \in Manifests(segment),
                 NEW o \in FirstOrdinal(r) .. FirstOrdinal(r) + segment[r].offset - 1
          PROVE  o \in Accounted'
      <4>1. CASE r = s
        <5>1. o \in first .. first + n - 1
          BY <1>2, <1>4, <4>1
        <5> QED
          BY <2>1, <3>1, <5>1
      <4>2. CASE r # s
        <5>1. o \in FirstOrdinal(r) .. FirstOrdinal(r) + segment'[r].offset - 1
          BY <2>2, <4>2
        <5> QED
          BY <1>6, <5>1 DEF Accounted
      <4> QED
        BY <4>1, <4>2
    <3>3. \A o \in Accounted : o \in Accounted'
      BY <3>2 DEF Accounted
    <3> QED
      BY <2>1, <3>1, <3>3
  <2> QED
    BY <2>3, <2>4
<1>9. set \cap Accounted = {}
  <2> SUFFICES ASSUME NEW o \in set, NEW r \in Manifests(segment),
                      o \in FirstOrdinal(r) .. FirstOrdinal(r) + segment[r].offset - 1
               PROVE  FALSE
    BY DEF Accounted
  <2>1. o \in ItemsOf(r)
    <3>1. segment[r].offset <= segment[r].count /\ r \in SegmentOrdinals
      BY <1>6 DEF IInv, TurnsOK, SegmentOK, Manifests
    <3>2. segment[r].offset \in Nat /\ segment[r].count \in Nat /\ FirstOrdinal(r) \in Nat
      BY <3>1, ManifestIs, Typed, Sizes DEF SegmentRows
    <3> QED
      BY <3>1, <3>2 DEF ItemsOf
  <2>2. o \in ItemsOf(s)
    BY <1>3, <1>4, <1>7 DEF ItemsOf
  <2>3. r = s
    BY <1>1, <2>1, <2>2, ManifestIs
  <2> QED
    BY <1>2, <1>3, <1>4, <1>7, <2>3
<1>10. set \subseteq 0 .. batch.canonical - 1
  <2>1. first + segment[s].count <= batch.canonical /\ batch.canonical \in Nat
    BY <1>1, <1>4, ManifestIs, Bounds
  <2> QED
    BY SMTT(20), <1>3, <1>4, <1>7, <2>1
<1>11. IsFiniteSet(set) /\ Cardinality(set) = d
  <2>1. PICK a, b : a = first + n /\ b = first + n + d - 1 /\ a \in Int /\ b \in Int
    BY <1>3, <1>4
  <2>2. IsFiniteSet(a .. b) /\ Cardinality(a .. b) = IF a > b THEN 0 ELSE b - a + 1
    BY <2>1, FS_Interval
  <2>3. set = a .. b
    BY <1>7, <2>1
  <2>4. (IF a > b THEN 0 ELSE b - a + 1) = d
    BY <1>3, <1>4, <2>1
  <2> QED
    BY <2>2, <2>3, <2>4
<1>12. Cardinality(set \ handled) <= e
  <2>1. Cardinality(Left(handled, s, n, n + d)) <= e
    BY <1>0, <1>1, <1>2, <1>3 DEF IInv, TurnsOK, TurnOK
  <2>2. Left(handled, s, n, n + d) = set \ handled
    <3>1. first + (n + d) - 1 = first + n + d - 1
      BY <1>3, <1>4
    <3> QED
      BY <1>4, <1>7, <3>1 DEF Left
  <2> QED
    BY <2>1, <2>2
<1>13. PICK new : new = ErrorsAfter(s, f, e)
  OBVIOUS
<1>14. Errors' = Errors \cup new
  <2>1. 1 .. f + e = (1 .. f) \cup (f + 1 .. f + e)
    BY <1>3
  <2>2. {s} \X (1 .. f + e) = ({s} \X (1 .. f)) \cup new
    BY <1>13, <2>1 DEF ErrorsAfter
  <2>3. \A r \in Manifests(segment) : r # s => segment'[r].failed = segment[r].failed
    BY <1>5, <1>6
  <2>4. \A x : x \in Errors' => x \in Errors \cup new
    <3> SUFFICES ASSUME NEW r \in Manifests(segment), NEW x \in {r} \X (1 .. segment'[r].failed)
                 PROVE  x \in Errors \cup new
      BY <1>6 DEF Errors
    <3>1. {s} \X (1 .. f) \subseteq Errors
      BY <1>1, <1>2 DEF Errors
    <3>2. CASE r = s
      BY <1>5, <2>2, <3>1, <3>2
    <3>3. CASE r # s
      <4>1. x \in {r} \X (1 .. segment[r].failed)
        BY <2>3, <3>3
      <4> QED
        BY <4>1 DEF Errors
    <3> QED
      BY <3>2, <3>3
  <2>5. \A x : x \in Errors \cup new => x \in Errors'
    <3>1. {s} \X (1 .. f + e) \subseteq Errors'
      BY <1>1, <1>5, <1>6 DEF Errors
    <3>2. ASSUME NEW r \in Manifests(segment), NEW x \in {r} \X (1 .. segment[r].failed)
          PROVE  x \in Errors'
      <4>1. CASE r = s
        BY <1>2, <2>2, <3>1, <4>1
      <4>2. CASE r # s
        <5>1. x \in {r} \X (1 .. segment'[r].failed)
          BY <2>3, <4>2
        <5> QED
          BY <1>6, <5>1 DEF Errors
      <4> QED
        BY <4>1, <4>2
    <3>3. \A x \in Errors : x \in Errors'
      BY <3>2 DEF Errors
    <3> QED
      BY <2>2, <3>1, <3>3
  <2> QED
    BY <2>4, <2>5
<1>15. Errors \cap new = {}
  <2> SUFFICES ASSUME NEW r \in Manifests(segment), NEW x \in {r} \X (1 .. segment[r].failed), x \in new
               PROVE  FALSE
    BY DEF Errors
  <2>1. x[1] = r /\ x[2] \in 1 .. segment[r].failed /\ x[1] = s /\ x[2] \in f + 1 .. f + e
    BY <1>13 DEF ErrorsAfter
  <2> QED
    BY <1>2, <1>3, <2>1
<1>16. Cardinality(Errors') = Cardinality(Errors) + e /\ IsFiniteSet(Errors')
  <2>1. IsFiniteSet(new) /\ Cardinality(new) = e
    BY <1>3, <1>13, NewErrors
  <2>2. IsFiniteSet(Errors) /\ Cardinality(Errors) \in Nat
    BY ErrorsFinite
  <2>3. Cardinality(Errors \cup new) = Cardinality(Errors) + Cardinality(new) - Cardinality(Errors \cap new)
       /\ IsFiniteSet(Errors \cup new)
    BY <2>1, <2>2, FS_Union
  <2>4. Cardinality(Errors \cap new) = 0
    BY <1>15, FS_EmptySet
  <2> QED
    BY <1>3, <1>14, <2>1, <2>2, <2>3, <2>4
<1>17. set = {} => Errors' = Errors
  <2>1. set = {} => e = 0
    BY <1>3, <1>4, <1>7
  <2>2. e = 0 => new = {}
    BY <1>3, <1>13 DEF ErrorsAfter
  <2> QED
    BY <1>14, <2>1, <2>2
<1>18. e <= Cardinality(set)
  BY <1>3, <1>11
<1> QED
  BY <1>3, <1>8, <1>9, <1>10, <1>11, <1>12, <1>16, <1>17, <1>18

\* The number of segments is such that every item is in one of them.
LEMMA SegmentExists ==
  ASSUME NEW n \in Nat, NEW o \in Nat, o < n
  PROVE  o \div SegmentSize \in 0 .. SegmentsFor(n) - 1
<1>1. PICK s : s = o \div SegmentSize
  OBVIOUS
<1>2. PICK m : m = n + SegmentSize - 1 /\ m \in Nat
  BY Sizes
<1>3. PICK q : q = m \div SegmentSize
  OBVIOUS
<1>4. s \in Nat /\ FirstOrdinal(s) <= o
  BY <1>1, SegmentOf
<1>5. q \in Nat /\ m < FirstOrdinal(q) + SegmentSize
  BY <1>2, <1>3, SegmentOf
<1>6. FirstOrdinal(q) \in Nat /\ FirstOrdinal(s) \in Nat
  BY <1>4, <1>5, Multiples
<1>7. FirstOrdinal(s) < FirstOrdinal(q)
  BY <1>2, <1>4, <1>5, <1>6, Sizes
<1>8. s < q
  <2>1. q <= s => FirstOrdinal(q) <= FirstOrdinal(s)
    BY <1>4, <1>5, Sizes, TimesMonotone DEF FirstOrdinal
  <2> QED
    BY <1>4, <1>5, <1>6, <1>7, <2>1
<1>9. SegmentsFor(n) = q
  BY <1>2, <1>3 DEF SegmentsFor
<1> QED
  BY <1>1, <1>4, <1>5, <1>8, <1>9

\* Segments whose cursors are at their ends have passed all n items.
LEMMA AllPassed ==
  ASSUME NEW segments, NEW n \in Nat, n <= Jobs,
         Manifests(segments) = 0 .. SegmentsFor(n) - 1,
         \A s \in Manifests(segments) :
           segments[s].count = ItemCount(s, n) /\ segments[s].offset = segments[s].count
  PROVE  UNION {FirstOrdinal(s) .. FirstOrdinal(s) + segments[s].offset - 1 : s \in Manifests(segments)}
           = 0 .. n - 1
<1>1. \A s \in Manifests(segments) :
        /\ s \in Nat /\ FirstOrdinal(s) \in Nat
        /\ segments[s].offset = ItemCount(s, n) /\ ItemCount(s, n) \in Int
  <2> SUFFICES ASSUME NEW s \in Manifests(segments)
               PROVE  /\ s \in Nat /\ FirstOrdinal(s) \in Nat
                      /\ segments[s].offset = ItemCount(s, n) /\ ItemCount(s, n) \in Int
    OBVIOUS
  <2>1. s \in Nat
    BY Sizes DEF Manifests, SegmentOrdinals, Ordinals
  <2>2. FirstOrdinal(s) \in Nat
    BY <2>1, Multiples
  <2>3. segments[s].offset = ItemCount(s, n)
    OBVIOUS
  <2>4. ItemCount(s, n) \in Int
    BY <2>2, Sizes DEF ItemCount, Lesser
  <2> QED
    BY <2>1, <2>2, <2>3, <2>4
<1>2. ASSUME NEW s \in Manifests(segments), NEW o \in FirstOrdinal(s) .. FirstOrdinal(s) + segments[s].offset - 1
      PROVE  o \in 0 .. n - 1
  BY <1>1, Sizes DEF ItemCount, Lesser
<1>3. ASSUME NEW o \in 0 .. n - 1
      PROVE  \E s \in Manifests(segments) : o \in FirstOrdinal(s) .. FirstOrdinal(s) + segments[s].offset - 1
  <2>1. PICK s : s = o \div SegmentSize
    OBVIOUS
  <2>2. s \in Manifests(segments)
    BY <2>1, SegmentExists
  <2>3. FirstOrdinal(s) <= o /\ o < FirstOrdinal(s) + SegmentSize
    BY <2>1, SegmentOf
  <2>4. FirstOrdinal(s) \in Nat /\ segments[s].offset \in Int
    BY <1>1, <2>2
  <2>5. o < FirstOrdinal(s) + segments[s].offset
    <3>1. segments[s].offset = ItemCount(s, n)
      BY <1>1, <2>2
    <3>2. ItemCount(s, n) = SegmentSize \/ ItemCount(s, n) = n - FirstOrdinal(s)
      BY DEF ItemCount, Lesser
    <3>3. o < FirstOrdinal(s) + SegmentSize /\ o < FirstOrdinal(s) + (n - FirstOrdinal(s))
      BY <2>3, <2>4, Sizes
    <3> QED
      BY <3>1, <3>2, <3>3
  <2>6. o \in FirstOrdinal(s) .. FirstOrdinal(s) + segments[s].offset - 1
    BY <2>3, <2>4, <2>5
  <2> QED
    BY <2>2, <2>6
<1> QED
  BY <1>2, <1>3

\* When the ledger closes a batch, everything is listed, resolved and passed,
\* and the outcome is "failed" exactly when an error was counted.
LEMMA ClosingIs ==
  ASSUME IInv, [Next]_vars, ClosesNow, SameWork(batch', batch)
  PROVE  /\ batch.raw = total /\ batch.canonical + batch.compacted = batch.raw
         /\ Accounted' = 0 .. batch.canonical - 1
         /\ batch'.status = IF Cardinality(Errors') > 0 THEN "failed" ELSE "processed"
<1>1. PICK b : Closes(batch', b, item', segment', receipt') /\ SameWork(b, batch) /\ b.status = batch.status
  BY DEF ClosesNow
<1>2. /\ Manifests(segment') = 0 .. SegmentsFor(batch.canonical) - 1
      /\ \A s \in Manifests(segment') :
           segment'[s].count = ItemCount(s, batch.canonical) /\ segment'[s].offset = segment'[s].count
  BY <1>1 DEF Closes, FinalizationReady, Reconciled, SameWork
<1>3. batch.phase = "synchronized"
  BY ClosesFrom
<1>4. batch.raw = total /\ batch.canonical + batch.compacted = batch.raw
  <2>1. IncompletePages = {} /\ batch.listingOffset = total
    BY <1>3 DEF IInv, ListingOK
  <2>2. batch.raw = batch.listingOffset
    BY <2>1 DEF IInv, ListingOK, Unfinished
  <2> QED
    BY <1>3, <2>1, <2>2 DEF IInv, ItemsOK
<1>5. Accounted' = 0 .. batch.canonical - 1
  <2>1. batch.canonical \in Nat /\ batch.canonical <= Jobs
    BY Bounds
  <2> QED
    BY <1>2, <2>1, AllPassed DEF Accounted, Manifests
<1>6. (\E s \in Manifests(segment)' : segment'[s].failed > 0) <=> Errors' # {}
  <2>1. \A s \in Manifests(segment)' : segment'[s].failed \in Nat
    <3>1. TypeOK'
      BY TypesKept
    <3>2. segment' \in [SegmentOrdinals -> SegmentRows]
      BY <3>1 DEF TypeOK
    <3> QED
      BY <3>2, Sizes DEF Manifests, SegmentRows
  <2>2. ASSUME NEW s \in Manifests(segment)', segment'[s].failed > 0 PROVE Errors' # {}
    <3>1. 1 \in 1 .. segment'[s].failed
      BY <2>1, <2>2
    <3>2. <<s, 1>> \in Errors'
      BY <3>1 DEF Errors
    <3> QED
      BY <3>2
  <2>3. ASSUME Errors' # {} PROVE \E s \in Manifests(segment)' : segment'[s].failed > 0
    <3>1. PICK s \in Manifests(segment)' : {s} \X (1 .. segment'[s].failed) # {}
      BY <2>3 DEF Errors
    <3>2. 1 .. segment'[s].failed # {}
      BY <3>1
    <3> QED
      BY <2>1, <3>2
  <2> QED
    BY <2>2, <2>3
<1>7. Cardinality(Errors') > 0 <=> Errors' # {}
  <2>1. IsFiniteSet(Errors')
    BY WhoAccounts, ErrorsFinite, AdvanceIs
  <2> QED
    BY <2>1, FS_EmptySet, FS_CardinalityType
<1> QED
  BY <1>1, <1>4, <1>5, <1>6, <1>7 DEF Closes, Manifests

\* The outcome of the promise, as the mapping reads it from the batch row.
Outcome == IF batch.status \in {"processed", "failed"} THEN batch.status ELSE "open"

\* No more is listed than the catalogue has.
LEMMA RawFits ==
  ASSUME IInv, [Next]_vars PROVE batch'.raw \in Nat /\ batch'.raw <= total'
<1>1. ListingOK' /\ TypeOK'
  BY ListingKept, TypesKept
<1>2. batch'.raw \in Nat /\ batch'.listingOffset \in Nat /\ total' \in Nat
  <2>1. batch' \in BatchRows /\ total' \in Nat
    BY <1>1, Sizes DEF TypeOK
  <2> QED
    BY <2>1 DEF BatchRows
<1>3. batch'.listingOffset <= total'
  BY <1>1 DEF ListingOK
<1>4. CASE batch'.raw = batch'.listingOffset
  BY <1>2, <1>3, <1>4
<1>5. CASE \E o \in Offsets : Unfinished(o)'
  <2>1. PICK o \in Offsets : /\ page'[o].materialized < page'[o].size
                             /\ batch'.raw + page'[o].size - page'[o].materialized = batch'.listingOffset
    BY <1>5 DEF Unfinished, IncompletePages
  <2>2. page'[o] \in PageRows
    BY <1>1 DEF TypeOK
  <2>3. page'[o].size \in Nat /\ page'[o].materialized \in Nat
    BY <2>2, Sizes DEF PageRows
  <2> QED
    BY <1>2, <1>3, <2>1, <2>3
<1> QED
  BY <1>1, <1>4, <1>5 DEF ListingOK

\* The outcome moves only when the ledger closes the batch.
LEMMA OutcomeStill ==
  ASSUME IInv, [Next]_vars, ~ClosesNow PROVE Outcome' = Outcome
<1>1. CASE batch.status \in {"processed", "failed"}
  BY <1>1, StatusKept DEF Outcome
<1>2. CASE batch.status \notin {"processed", "failed"}
  BY <1>2, StatusKept DEF Outcome
<1> QED
  BY <1>1, <1>2

\* A turn that completes its part does so in an open cycle.
LEMMA AdvancesIs ==
  ASSUME IInv, ClosedOK, NEW p \in Procs, Advances(p)
  PROVE  proc' # proc /\ handled' = handled /\ Outcome = "open"
<1>1. PICK interrupted \in BOOLEAN :
        EndTurn(p, interrupted) /\ segment[proc[p].segment].token = p
  BY DEF Advances
<1>2. PICK s : s = proc[p].segment
  OBVIOUS
<1>3. s \in SegmentOrdinals /\ s # None
  BY <1>1, <1>2, EndTurnIs DEF EndTurn
<1>4. segment[s].status = "processing"
  BY <1>1, <1>2, <1>3, TokenMeansProcessing
<1>5. batch.status \notin {"processed", "failed"}
  BY <1>3, <1>4 DEF ClosedOK, Manifests
<1>6. proc' # proc
  <2>1. proc' = [proc EXCEPT ![p] = NoTurn] /\ p \in DOMAIN proc
    BY <1>1, Typed DEF EndTurn
  <2>2. proc'[p] = NoTurn
    BY <2>1
  <2> QED
    BY <1>2, <1>3, <2>2 DEF NoTurn
<1> QED
  BY <1>1, <1>5, <1>6 DEF EndTurn, Outcome

\* Listing, resolving and sealing are steps of the promise.
LEMMA WorksRefined ==
  ASSUME IInv, ClosedOK, [Next]_vars, NEW c \in Claims, Works(c)
  PROVE  [Cycle!CycleNext]_(Cycle!cycle)
<1>1. proc' = proc /\ handled' = handled /\ total' = total
  BY DEF Works, Admit, Materialize, Lists, CommitPage, Resolves, Resolve, Marks, Mark, DetailAnswer, Seal
<1>2. Accounted' = Accounted /\ Cardinality(Errors)' = Cardinality(Errors)
  BY <1>1, WhoAccounts, AdvancesIs
<1>3. Outcome' = Outcome
  BY StatusWorks DEF Outcome
<1>4. ASSUME batch'.raw = batch.raw, batch'.canonical = batch.canonical, batch'.compacted = batch.compacted
      PROVE  UNCHANGED Cycle!cycle
  BY <1>1, <1>2, <1>3, <1>4 DEF Cycle!cycle, Outcome
<1>5. batch.phase \in {"listing", "compaction"} => Outcome = "open"
  BY DEF IInv, StatusOK, Outcome
<1>6. CASE Admit(c)
  BY <1>4, <1>6, AdmitIs
<1>7. CASE Marks(c) \/ DetailAnswer(c)
  <2>1. batch' = batch \/ \E n : batch' = [batch EXCEPT !.terminal = n]
    BY <1>7, MarksIs, AnswerIs
  <2> QED
    BY <1>4, <2>1, OnlyTerminal
<1>8. CASE Seal(c)
  <2>1. PICK prefix : prefix = (batch.phase = "listing")
    OBVIOUS
  <2> QED
    BY <1>4, <1>8, <2>1, SealIs
<1>9. CASE Materialize(c) \/ Lists(c)
  <2>1. /\ batch'.raw \in Nat /\ batch.raw <= batch'.raw /\ batch.phase = "listing"
        /\ batch'.canonical = batch.canonical /\ batch'.compacted = batch.compacted
    BY <1>9, ListingBatch
  <2>2. batch'.raw <= total /\ total \in Nat /\ batch.raw \in Nat
    BY <1>1, RawFits, Typed, Bounds
  <2>3. CASE batch'.raw = batch.raw
    BY <1>4, <2>1, <2>3
  <2>4. CASE batch'.raw # batch.raw
    <3>1. batch.raw < total /\ batch'.raw \in batch.raw + 1 .. total
      BY <2>1, <2>2, <2>4
    <3>2. Cycle!List
      BY <1>1, <1>2, <1>3, <1>5, <2>1, <3>1 DEF Cycle!List, Outcome
    <3> QED
      BY <3>2 DEF Cycle!CycleNext
  <2> QED
    BY <2>3, <2>4
<1>10. CASE Resolves(c)
  <2>1. PICK kept \in 0 .. Chunk, invalid \in SUBSET Ordinals : Resolve(c, kept, invalid)
    BY <1>10 DEF Resolves
  <2>2. PICK n : n = Lesser(Chunk, batch.raw - (batch.canonical + batch.compacted))
    OBVIOUS
  <2>3. n \in Nat /\ kept \in Nat /\ kept <= n /\ batch.canonical + batch.compacted + n <= batch.raw
    BY <2>1, <2>2, ChunkFits
  <2>4. batch'.canonical = batch.canonical + kept /\ batch'.raw = batch.raw
        /\ batch.phase \in {"listing", "compaction"}
    BY <2>1, ResolveIs
  <2>5. batch'.compacted = batch.compacted + n - kept
    <3>1. batch \in BatchRows
      BY Typed
    <3> QED
      BY <2>1, <2>2, <3>1 DEF Resolve, BatchRows
  <2>6. batch.raw \in Nat /\ batch.canonical \in Nat /\ batch.compacted \in Nat
    BY Bounds
  <2>7. CASE n = 0
    BY <1>4, <2>3, <2>4, <2>5, <2>6, <2>7
  <2>8. CASE n # 0
    <3>1. /\ batch.canonical + batch.compacted < batch.raw
          /\ batch'.canonical \in batch.canonical .. batch.raw
          /\ batch'.compacted \in batch.compacted .. batch.raw
          /\ batch.canonical + batch.compacted < batch'.canonical + batch'.compacted
          /\ batch'.canonical + batch'.compacted <= batch.raw
      BY <2>3, <2>4, <2>5, <2>6, <2>8
    <3>2. Cycle!Decide
      BY <1>1, <1>2, <1>3, <1>5, <2>4, <3>1 DEF Cycle!Decide, Outcome
    <3> QED
      BY <3>2 DEF Cycle!CycleNext
  <2> QED
    BY <2>7, <2>8
<1> QED
  BY <1>6, <1>7, <1>8, <1>9, <1>10 DEF Works

\* The promise counts as the ledger does.
LEMMA SameCardinality ==
  ASSUME NEW S PROVE Cycle!Cardinality(S) = Cardinality(S)
BY DEF Cycle!Cardinality, Cardinality

\* The end of a turn that still has its segment accounts for the items it
\* walked, closes the cycle, or does both.
LEMMA AdvanceRefined ==
  ASSUME IInv, ClosedOK, [Next]_vars, Still, NEW p \in Procs, Advances(p)
  PROVE  [Cycle!CycleNext]_(Cycle!cycle)
<1>1. total' = total /\ batch'.raw = batch.raw /\ batch'.canonical = batch.canonical
      /\ batch'.compacted = batch.compacted /\ SameWork(batch', batch)
  BY DEF Still, SameWork
<1>2. handled' = handled /\ Outcome = "open"
  BY AdvancesIs
<1>3. PICK set \in SUBSET (0 .. batch.canonical - 1), failed \in Nat :
           /\ set \cap Accounted = {}
           /\ Accounted' = Accounted \cup set /\ Cardinality(Errors') = Cardinality(Errors) + failed
           /\ IsFiniteSet(set) /\ failed <= Cardinality(set) /\ Cardinality(set \ handled) <= failed
           /\ IsFiniteSet(Errors')
           /\ set = {} => Errors' = Errors
  BY AdvanceIs
<1>4. Cycle!Closing(Accounted', Cardinality(Errors')) \/ Outcome' = Outcome
  <2>1. CASE ClosesNow
    <3>1. /\ batch.raw = total /\ batch.canonical + batch.compacted = batch.raw
          /\ Accounted' = 0 .. batch.canonical - 1
          /\ batch'.status = IF Cardinality(Errors') > 0 THEN "failed" ELSE "processed"
      BY <1>1, <2>1, ClosingIs
    <3> QED
      BY <3>1 DEF Cycle!Closing, Cycle!Items
  <2> QED
    BY <2>1, OutcomeStill
<1>5. CASE set = {}
  <2>1. Accounted' = Accounted /\ Cardinality(Errors)' = Cardinality(Errors)
    BY <1>3, <1>5
  <2>2. CASE Outcome' = Outcome
    BY <1>1, <1>2, <2>1, <2>2 DEF Cycle!cycle, Outcome
  <2>3. CASE Cycle!Closing(Accounted', Cardinality(Errors'))
    <3>1. Cycle!Close
      BY <1>1, <1>2, <2>1, <2>3 DEF Cycle!Close, Outcome
    <3> QED
      BY <3>1 DEF Cycle!CycleNext
  <2> QED
    BY <1>4, <2>2, <2>3
<1>6. CASE set # {}
  <2>1. set \in SUBSET (Cycle!Items \ Accounted)
    BY <1>3 DEF Cycle!Items
  <2>2. failed \in 0 .. Cardinality(set)
    BY <1>3, FS_CardinalityType
  <2>3. Cardinality(set \ handled) <= failed /\ failed <= Cardinality(set)
        /\ Accounted' = Accounted \cup set /\ Cardinality(Errors)' = Cardinality(Errors) + failed
    BY <1>3
  <2>4. Cycle!Closing(Accounted', Cardinality(Errors)') \/ Outcome' = Outcome
    BY <1>4
  <2>5. Cycle!Account(set, failed)
    BY <1>1, <1>2, <1>6, <2>3, <2>4, SameCardinality DEF Cycle!Account, Outcome
  <2>6. \E f \in 0 .. Cardinality(set) : Cycle!Account(set, f)
    BY <2>2, <2>5
  <2>7. \E accounting \in SUBSET (Cycle!Items \ Accounted) :
          \E f \in 0 .. Cardinality(accounting) : Cycle!Account(accounting, f)
    BY <2>1, <2>6
  <2> QED
    BY <2>7, SameCardinality DEF Cycle!CycleNext
<1> QED
  BY <1>5, <1>6

\* A turn at work handles an item of the cycle, unless it was handled before.
LEMMA HandleRefined ==
  ASSUME IInv, ClosedOK, [Next]_vars, NEW p \in Procs, ProcessItem(p) \/ ProcessAhead(p)
  PROVE  [Cycle!CycleNext]_(Cycle!cycle)
<1>1. batch' = batch /\ total' = total /\ segment' = segment
  BY DEF ProcessItem, ProcessAhead
<1>2. Accounted' = Accounted /\ Cardinality(Errors)' = Cardinality(Errors)
  BY <1>1, CursorsSame DEF CursorsStill
<1>3. handled' = handled \/ \E o \in Cycle!Items : handled' = handled \cup {o}
  <2>1. PICK s : s = proc[p].segment
    OBVIOUS
  <2>2. s # None /\ s \in Manifests(segment)
    BY <2>1 DEF ProcessItem, ProcessAhead, IInv, TurnsOK, TurnOK
  <2>3. PICK next, left : next = NextOrdinal(p) /\ left = Remaining(p)
    OBVIOUS
  <2>4. next \in Nat /\ left \in Nat /\ next + left <= batch.canonical /\ batch.canonical \in Nat
    <3>1. PICK first, count, base, done :
            first = FirstOrdinal(s) /\ count = segment[s].count /\ base = proc[p].base /\ done = proc[p].done
      OBVIOUS
    <3>2. first \in Nat /\ first + count <= batch.canonical /\ count \in Nat /\ batch.canonical \in Nat
      BY <2>2, <3>1, ManifestIs, Bounds, Sizes
    <3>3. base \in Nat /\ done \in Nat /\ base + done <= count
      BY <2>1, <2>2, <3>1, TurnAt, Sizes
    <3>4. next = first + base + done /\ left = count - base - done
      BY <2>1, <2>3, <3>1 DEF NextOrdinal, Remaining
    <3> QED
      BY <3>2, <3>3, <3>4
  <2>5. CASE ProcessItem(p)
    <3>1. left > 0 /\ (handled' = handled \/ handled' = handled \cup {next})
      BY <2>3, <2>5 DEF ProcessItem
    <3>2. next \in Cycle!Items
      BY <2>4, <3>1 DEF Cycle!Items
    <3> QED
      BY <3>1, <3>2
  <2>6. CASE ProcessAhead(p)
    <3>1. PICK o \in next + 1 .. next + left - 1 : handled' = handled \cup {o}
      BY <2>3, <2>6 DEF ProcessAhead
    <3>2. o \in Cycle!Items
      BY <2>4, <3>1 DEF Cycle!Items
    <3> QED
      BY <3>1, <3>2
  <2> QED
    BY <2>5, <2>6
<1>4. CASE handled' = handled
  BY <1>1, <1>2, <1>4 DEF Cycle!cycle
<1>5. ASSUME NEW o \in Cycle!Items, handled' = handled \cup {o}, o \notin handled
      PROVE  Cycle!CycleNext
  <2>1. Cycle!Handle(o)
    BY <1>1, <1>2, <1>5 DEF Cycle!Handle
  <2> QED
    BY <2>1 DEF Cycle!CycleNext
<1> QED
  BY <1>3, <1>4, <1>5

\* Every step of the ledger is one of the promise, or none.
LEMMA StepRefined ==
  ASSUME IInv, ClosedOK, [Next]_vars PROVE [Cycle!CycleNext]_(Cycle!cycle)
<1>1. ASSUME ~(\E p \in Procs : ProcessItem(p) \/ ProcessAhead(p)) PROVE handled' = handled
  <2>1. ASSUME NEW c \in Claims, ClaimStep(c) \/ ClaimTrouble(c) PROVE handled' = handled
    BY <2>1 DEF ClaimStep, ClaimTrouble, OpenReceipt, Settle, LoseFence, Materialize, ResumeListing,
       CommitPage, Resolve, Mark, ClaimDetail, DetailAnswer, Seal, Admit, TakeContinuation, Heartbeat, Abandon,
       Crash, DetailError
  <2>2. ASSUME NEW p \in Procs, TurnStep(p) \/ TurnTrouble(p) PROVE handled' = handled
    BY <1>1, <2>2 DEF TurnStep, TurnTrouble, HeartbeatSegment, EndTurn, FailTurn, CrashTurn
  <2>3. ASSUME NEW p \in Procs, NEW s \in SegmentOrdinals, ClaimSegment(p, s) PROVE handled' = handled
    BY <2>3 DEF ClaimSegment
  <2>4. ASSUME NEW chosen \in SUBSET SegmentOrdinals, Publish(chosen) PROVE handled' = handled
    BY <2>4 DEF Publish
  <2> QED
    BY <2>1, <2>2, <2>3, <2>4 DEF Next, Reconcile, Tick, vars
<1>2. CASE \E p \in Procs : ProcessItem(p) \/ ProcessAhead(p)
  BY <1>2, HandleRefined
<1>3. CASE \E c \in Claims : Works(c)
  BY <1>3, WorksRefined
<1>4. ASSUME NEW chosen \in SUBSET SegmentOrdinals, Publish(chosen) PROVE UNCHANGED Cycle!cycle
  <2>1. total' = total /\ proc' = proc /\ handled' = handled
    BY <1>4 DEF Publish
  <2>2. Accounted' = Accounted /\ Cardinality(Errors)' = Cardinality(Errors)
    BY <2>1, WhoAccounts, AdvancesIs
  <2> QED
    BY <1>4, <2>1, <2>2, PublishIs DEF Cycle!cycle
<1>5. ASSUME Still, ~(\E p \in Procs : ProcessItem(p) \/ ProcessAhead(p)), ~(\E p \in Procs : Advances(p))
      PROVE  [Cycle!CycleNext]_(Cycle!cycle)
  <2>1. total' = total /\ batch'.raw = batch.raw /\ batch'.canonical = batch.canonical
        /\ batch'.compacted = batch.compacted /\ SameWork(batch', batch)
    BY <1>5 DEF Still, SameWork
  <2>2. handled' = handled /\ Accounted' = Accounted /\ Cardinality(Errors)' = Cardinality(Errors)
    BY <1>1, <1>5, WhoAccounts
  <2>3. CASE ClosesNow
    <3>1. /\ batch.raw = total /\ batch.canonical + batch.compacted = batch.raw
          /\ Accounted' = 0 .. batch.canonical - 1
          /\ batch'.status = IF Cardinality(Errors') > 0 THEN "failed" ELSE "processed"
      BY <2>1, <2>3, ClosingIs
    <3>2. Cycle!Closing(Accounted, Cardinality(Errors))
      BY <2>2, <3>1 DEF Cycle!Closing, Cycle!Items
    <3>3. Outcome = "open"
      BY <2>3, ClosesFrom DEF Outcome
    <3>4. Cycle!Close
      BY <2>1, <2>2, <3>2, <3>3 DEF Cycle!Close, Outcome
    <3> QED
      BY <3>4 DEF Cycle!CycleNext
  <2>4. CASE ~ClosesNow
    BY <2>1, <2>2, <2>4, OutcomeStill DEF Cycle!cycle, Outcome
  <2> QED
    BY <2>3, <2>4
<1> QED
  BY <1>2, <1>3, <1>4, <1>5, StillOrWorks, AdvanceRefined

\* The ledger begins as the promise does.
LEMMA InitRefined == ASSUME Init PROVE Cycle!CycleInit
<1>1. Manifests(segment) = {}
  BY DEF Init, Manifests, NoSegment
<1>2. Accounted = {} /\ Errors = {}
  BY <1>1 DEF Accounted, Errors
<1>3. total \in Nat /\ batch.raw = 0 /\ batch.canonical = 0 /\ batch.compacted = 0 /\ batch.status = "none"
      /\ handled = {}
  BY Sizes DEF Init
<1> QED
  BY <1>2, <1>3, FS_EmptySet DEF Cycle!CycleInit

\* The ledger of atsAcquisitionLedger.ts, with its claims, leases, pages, segments,
\* crashes and repeated turns, implements the promise of one board cycle: every
\* posting is listed and decided once, an item is accounted for only when its
\* posting reached the Job tables or is a counted error, and the cycle closes
\* once, when nothing is left, as "failed" exactly if an error was counted.
THEOREM CycleImplemented == Spec => ImplementsCycle
<1>1. Init => Cycle!CycleInit
  BY InitRefined
<1>2. Init => ClosedOK
  BY DEF Init, ClosedOK
<1>3. IInv /\ ClosedOK /\ [Next]_vars => ClosedOK'
  BY ClosedKept
<1>4. IInv /\ ClosedOK /\ [Next]_vars => [Cycle!CycleNext]_(Cycle!cycle)
  BY StepRefined
<1> QED
  BY <1>1, <1>2, <1>3, <1>4, Invariant, PTL DEF Spec, ImplementsCycle, Cycle!CycleSpec
=============================================================================
