------------------------------ MODULE AtsBatch ------------------------------
(***************************************************************************)
(* One board's batch in the ATS acquisition ledger: the rows that the      *)
(* acquisition claims (AtsAcquisition) and the segment processors          *)
(* (AtsSegments) share, and the finalizer both of them call.               *)
(*                                                                         *)
(* Time is a countdown: a lease is the number of ticks it has left, 0 once *)
(* it has expired; a row that waits for its retry time is `held` until the *)
(* next tick.  A claim, with its token and its fence, is one member of     *)
(* Claims; it may be minted again once no row remembers it, so that TLC    *)
(* explores unboundedly many claims.  Members of Procs stand for segment   *)
(* lease tokens in the same way.                                           *)
(*                                                                         *)
(* A posting is its position in the board's catalogue, a canonical item    *)
(* its ordinal, a page the number of postings it returned: two saved       *)
(* responses for one offset have the same hash exactly when they have the  *)
(* same size.                                                              *)
(***************************************************************************)
EXTENDS Integers, FiniteSets

CONSTANTS
  Claims,        \* acquisition claims: token, fence and the worker that holds it
  Procs,         \* segment leases: token and the processing turn that holds it
  None,          \* NULL token
  Jobs,          \* the largest catalogue
  PageSize,      \* postings a full listing page has
  Chunk,         \* ATS_LEDGER_OBSERVATION_CHUNK_SIZE
  SegmentSize,   \* items per segment
  SealPerPass,   \* ATS_LEDGER_SEAL_SEGMENTS_PER_PASS
  ClaimLease,    \* ATS_LEDGER_WORK_LEASE_MS, in ticks
  SegmentLease,  \* ATS_LEDGER_SEGMENT_LEASE_MS, in ticks
  MaxGlitches,   \* bound: pages the provider cuts short
  MaxErrors      \* bound: failed requests, exceptions and crashes

ASSUME BatchAssumption ==
  /\ None \notin Claims \cup Procs
  /\ Jobs \in Nat
  /\ {PageSize, Chunk, SegmentSize, SealPerPass, ClaimLease, SegmentLease}
       \subseteq Nat \ {0}
  /\ MaxGlitches \in Nat /\ MaxErrors \in Nat

VARIABLES
  total,     \* postings in the board's catalogue
  batch,     \* the AtsIngestionBatch row
  page,      \* offset -> the AtsIngestionPage saved for it
  item,      \* ordinal -> the AtsIngestionItem
  segment,   \* segment ordinal -> the AtsIngestionSegment
  receipt,   \* claim -> its AtsAcquisitionWorkReceipt
  claim,     \* claim -> the worker that runs its quantum
  proc,      \* segment lease -> the turn that runs under it
  handled,   \* ordinals whose posting has reached the Job tables
  glitches, errors   \* bounded counters

rows == <<batch, page, item, segment, receipt>>
vars == <<total, batch, page, item, segment, receipt, claim, proc, handled,
          glitches, errors>>

-----------------------------------------------------------------------------
Offsets  == 0 .. Jobs
Ordinals == 0 .. Jobs - 1
SegmentOrdinals == Ordinals

Lesser(a, b) == IF a <= b THEN a ELSE b

Phases == {"none", "listing", "compaction", "enrichment", "sealing", "synchronized"}
Statuses == {"none", "fetching", "partial", "synchronized", "processed", "failed"}
ItemStates == {"none", "pending", "network", "terminal"}
SegmentStatuses == {"none", "sealed", "published", "processing", "processed"}

BatchRows ==
  [status : Statuses, phase : Phases, token : Claims \cup {None}, lease : 0 .. ClaimLease,
   held : BOOLEAN, listingOffset : Nat, raw : Nat, canonical : Nat, compacted : Nat,
   terminal : Nat, sealed : Nat, published : Nat]
PageRows == [saved : BOOLEAN, size : 0 .. PageSize, materialized : 0 .. PageSize]
ItemRows ==
  [state : ItemStates, token : Claims \cup {None}, lease : 0 .. ClaimLease, held : BOOLEAN]
SegmentRows ==
  [status : SegmentStatuses, count : 0 .. SegmentSize, token : Procs \cup {None},
   lease : 0 .. SegmentLease, attempts : 0 .. 3, held : BOOLEAN,
   offset : 0 .. SegmentSize, failed : 0 .. SegmentSize]

NoPage == [saved |-> FALSE, size |-> 0, materialized |-> 0]
NoItem == [state |-> "none", token |-> None, lease |-> 0, held |-> FALSE]
NewItem == [state |-> "pending", token |-> None, lease |-> 0, held |-> FALSE]
TerminalItem == [state |-> "terminal", token |-> None, lease |-> 0, held |-> FALSE]
NoSegment ==
  [status |-> "none", count |-> 0, token |-> None, lease |-> 0, attempts |-> 0,
   held |-> FALSE, offset |-> 0, failed |-> 0]

IncompletePages == {o \in Offsets : page[o].saved /\ page[o].materialized < page[o].size}

Manifests(segments) == {s \in SegmentOrdinals : segments[s].status # "none"}
FirstOrdinal(s) == s * SegmentSize
ItemsOf(s) == FirstOrdinal(s) .. FirstOrdinal(s) + segment[s].count - 1
SegmentsFor(n) == (n + SegmentSize - 1) \div SegmentSize

\* A canonical prefix of n items is cut into segments; this is how many of
\* those items fall into segment s.
ItemCount(s, n) == Lesser(SegmentSize, n - FirstOrdinal(s))

-----------------------------------------------------------------------------
(* atsV2BatchFinalizationReady and finalizeAtsV2BatchIfReady.              *)

Reconciled(b, items, segments) ==
  /\ IncompletePages = {}
  /\ b.raw = b.canonical + b.compacted
  /\ b.terminal = b.canonical
  /\ Cardinality({o \in Ordinals : items[o].state = "terminal"}) = b.canonical
  /\ b.sealed = b.canonical /\ b.published = b.canonical
  /\ Manifests(segments) = 0 .. SegmentsFor(b.canonical) - 1
  /\ \A s \in Manifests(segments) :
       /\ segments[s].status = "processed"
       /\ segments[s].count = ItemCount(s, b.canonical)
       /\ segments[s].offset = segments[s].count

NoLiveLease(b, items, segments, receipts) ==
  /\ ~(b.token # None /\ b.lease > 0)
  /\ \A c \in Claims : ~(receipts[c].open /\ receipts[c].lease > 0)
  /\ \A o \in Ordinals : ~(items[o].token # None /\ items[o].lease > 0)
  /\ \A s \in Manifests(segments) : ~(segments[s].token # None /\ segments[s].lease > 0)

FinalizationReady_SegmentsOnly(b, items, segments, receipts) ==   \* mutant
  /\ b.token = None
  /\ \A s \in Manifests(segments) : segments[s].status = "processed"

FinalizationReady(b, items, segments, receipts) ==
  /\ b.status = "synchronized" /\ b.phase = "synchronized"
  /\ Reconciled(b, items, segments)
  /\ NoLiveLease(b, items, segments, receipts)

FinalizeIfReady_IgnoresErrors(b, items, segments, receipts) ==   \* mutant
  IF FinalizationReady(b, items, segments, receipts)
  THEN [b EXCEPT !.status = "processed"] ELSE b

FinalizeIfReady(b, items, segments, receipts) ==
  IF FinalizationReady(b, items, segments, receipts)
  THEN [b EXCEPT !.status = IF \E s \in Manifests(segments) : segments[s].failed > 0
                            THEN "failed" ELSE "processed"]
  ELSE b
=============================================================================
