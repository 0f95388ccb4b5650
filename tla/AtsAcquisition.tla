--------------------------- MODULE AtsAcquisition ---------------------------
(***************************************************************************)
(* Acquisition claims of the ATS ledger: admission of a board, claims that *)
(* continue its batch, and the quantum a claim runs.                       *)
(*                                                                         *)
(* A quantum is a sequence of database transactions with network awaits    *)
(* between them.  `claim[c].stage` is the transaction the worker of claim  *)
(* c runs next:                                                            *)
(*   listing      pages -> resolve -> mark -> detail -> seal -> fetch ...  *)
(*   compaction   resolve ...                                              *)
(*   enrichment   mark -> detail ... -> seal                               *)
(*   sealing      seal                                                     *)
(* and every one of them ends in "settle" (finishAtsV2Claim).  Between any *)
(* two steps the lease may run out and another claim may take the batch.   *)
(***************************************************************************)
EXTENDS AtsBatch

Stages == {"idle", "opening", "pages", "resolve", "mark", "detail", "answer",
           "seal", "fetch", "body", "settle"}
Kinds == {"listing", "compaction", "enrichment", "sealing"}

ClaimRows ==
  [stage : Stages, kind : Kinds, cursor : Offsets, item : Ordinals \cup {None}]

FirstStage(kind) ==
  IF kind = "listing" THEN "pages"
  ELSE IF kind = "compaction" THEN "resolve"
  ELSE IF kind = "enrichment" THEN "mark" ELSE "seal"

\* No row and no worker remembers c: it stands for a fresh token.
Fresh(c) ==
  /\ claim[c].stage = "idle" /\ ~receipt[c].open /\ batch.token # c
  /\ \A o \in Ordinals : item[o].token # c

\* mutant: that some claim holds the batch is enough
Owns_AnyClaim(c) == batch.token # None /\ batch.lease > 0

\* assertClaimMatchesBatch: every write of a quantum but the detail answer.
Owns(c) == batch.token = c /\ batch.lease > 0

Go(c, stage) == claim' = [claim EXCEPT ![c].stage = stage]

-----------------------------------------------------------------------------
(* Claims.                                                                 *)

\* admitAtsV2Board: batch, sweep and work receipt in one transaction; refused
\* while the board has an active batch.
Admit(c) ==
  /\ batch.status = "none" /\ Fresh(c)
  /\ batch' = [batch EXCEPT !.status = "fetching", !.phase = "listing",
                            !.token = c, !.lease = ClaimLease]
  /\ receipt' = [receipt EXCEPT ![c] = [open |-> TRUE, lease |-> ClaimLease]]
  /\ claim' = [claim EXCEPT ![c] =
                 [stage |-> "pages", kind |-> "listing", cursor |-> 0, item |-> None]]
  /\ UNCHANGED <<total, page, item, segment, proc, handled, glitches, errors>>

\* claimNextAtsV2Continuation: one conditional update ...
TakeContinuation(c) ==
  /\ Fresh(c)
  /\ batch.status \in {"fetching", "partial", "synchronized"}
  /\ batch.phase \in Kinds
  /\ ~batch.held
  /\ batch.token = None \/ batch.lease = 0
  /\ batch' = [batch EXCEPT !.token = c, !.lease = ClaimLease]
  /\ claim' = [claim EXCEPT ![c] =
                 [stage |-> "opening", kind |-> batch.phase,
                  cursor |-> batch.listingOffset, item |-> None]]
  /\ UNCHANGED <<total, page, item, segment, receipt, proc, handled, glitches,
                 errors>>

\* ... and a separate statement that opens the work receipt, with the expiry
\* computed for the claim.
OpenReceipt(c) ==
  /\ claim[c].stage = "opening"
  /\ receipt' = [receipt EXCEPT ![c] =
                   [open |-> TRUE, lease |-> IF batch.token = c THEN batch.lease ELSE 0]]
  /\ Go(c, FirstStage(claim[c].kind))
  /\ UNCHANGED <<total, batch, page, item, segment, proc, handled, glitches, errors>>

\* heartbeatAtsV2Claim: neither update asks whether the lease has expired, and
\* the receipt is renewed even when the batch has a new owner.
Heartbeat(c) ==
  /\ claim[c].stage \notin {"idle", "opening"}
  /\ batch.token = c \/ receipt[c].open
  /\ batch' = IF batch.token = c THEN [batch EXCEPT !.lease = ClaimLease] ELSE batch
  /\ receipt' = IF receipt[c].open
                THEN [receipt EXCEPT ![c].lease = ClaimLease] ELSE receipt
  /\ UNCHANGED <<total, page, item, segment, claim, proc, handled, glitches, errors>>

ReleasedBatch(hold) == [batch EXCEPT !.token = None, !.lease = 0, !.held = hold]

\* finishAtsV2Claim, in one transaction.  `hold` is the retry time: none when
\* the quantum progressed, later otherwise.
Settle(c) ==
  /\ claim[c].stage = "settle"
  /\ Go(c, "idle")
  /\ LET closed == [receipt EXCEPT ![c] = [open |-> FALSE, lease |-> 0]] IN
     IF ~receipt[c].open
     THEN UNCHANGED <<receipt, batch>>
     ELSE /\ receipt' = closed
          /\ IF batch.token # c THEN UNCHANGED batch
             ELSE \E hold \in BOOLEAN :
                    batch' = FinalizeIfReady(ReleasedBatch(hold), item, segment, closed)
  /\ UNCHANGED <<total, page, item, segment, proc, handled, glitches, errors>>

\* A write that finds the claim gone throws; the quantum ends in its finish.
LoseFence(c) ==
  /\ claim[c].stage \in {"pages", "resolve", "mark", "detail", "seal", "fetch", "body"}
  /\ ~Owns(c)
  /\ Go(c, "settle")
  /\ UNCHANGED <<total, batch, page, item, segment, receipt, proc, handled,
                 glitches, errors>>

\* A failed request, a pause, an abort, an exception outside the detail fetch,
\* or a time budget used up before a listing claim's first request.
Abandon(c) ==
  /\ errors < MaxErrors
  /\ claim[c].stage \notin {"idle", "opening", "answer", "settle"}
  /\ errors' = errors + 1
  /\ Go(c, "settle")
  /\ UNCHANGED <<total, batch, page, item, segment, receipt, proc, handled, glitches>>

\* The worker process dies; its rows keep its token until their leases expire.
Crash(c) ==
  /\ errors < MaxErrors
  /\ claim[c].stage # "idle"
  /\ errors' = errors + 1
  /\ claim' = [claim EXCEPT ![c].stage = "idle", ![c].item = None]
  /\ UNCHANGED <<total, batch, page, item, segment, receipt, proc, handled, glitches>>

-----------------------------------------------------------------------------
(* Listing pages.                                                          *)

\* planAtsV2PageCompletion for a provider that reports its total.
Anomalous(o, n) == n < PageSize /\ o + n < total

ListingComplete_ShortPage(o, n) == n < PageSize \/ o + n = total   \* mutant

ListingComplete(o, n) == ~Anomalous(o, n) /\ (n < PageSize \/ o + n = total)

SavedPages == {o \in Offsets : page[o].saved}
LatestPage == CHOOSE o \in SavedPages : \A p \in SavedPages : p <= o
PendingPage == CHOOSE o \in IncompletePages : \A p \in IncompletePages : o <= p

\* Listing is over when the latest response ends it and no page is unfinished.
MaterializedPhase(done, latestEnds, others) ==
  IF done /\ latestEnds /\ others = {} THEN "compaction" ELSE "listing"

\* materializeAtsV2PageObservations: the next chunk of the oldest unfinished
\* page.  In stage "body" it is the page this quantum has just saved.
Materialize(c) ==
  /\ claim[c].stage \in {"pages", "body"} /\ Owns(c)
  /\ IncompletePages # {}
  /\ LET o == PendingPage
         n == Lesser(Chunk, page[o].size - page[o].materialized)
         next == page[o].materialized + n
         done == next = page[o].size
         ends == ListingComplete(LatestPage, page[LatestPage].size)
         over == ends \/ Anomalous(LatestPage, page[LatestPage].size)
     IN
     /\ page' = [page EXCEPT ![o].materialized = next]
     /\ batch' = [batch EXCEPT
                    !.raw = @ + n,
                    !.phase = MaterializedPhase(done, ends, IncompletePages \ {o})]
     /\ \E stage \in (IF ~done THEN {claim[c].stage, "settle"}
                      ELSE IF claim[c].stage = "pages" THEN {"pages", "settle"}
                      ELSE IF over THEN {"settle"} ELSE {"fetch", "settle"}) :
          Go(c, stage)
  /\ UNCHANGED <<total, item, segment, receipt, proc, handled, glitches, errors>>

\* readAtsV2ListingCheckpoint with nothing left to materialize.
ResumeListing(c) ==
  /\ claim[c].stage = "pages" /\ Owns(c)
  /\ IncompletePages = {}
  /\ Go(c, IF SavedPages # {} /\ ListingComplete(LatestPage, page[LatestPage].size)
           THEN "settle" ELSE "resolve")
  /\ UNCHANGED <<total, batch, page, item, segment, receipt, proc, handled,
                 glitches, errors>>

\* What the provider returns for an offset: a full page or the catalogue's
\* tail, or now and then fewer postings with the same reported total.
Responses(o) ==
  LET whole == Lesser(PageSize, total - o) IN
  IF glitches < MaxGlitches THEN 0 .. whole ELSE {whole}

SavedPage(n) ==
  [saved |-> TRUE, size |-> n, materialized |-> IF n <= Chunk THEN n ELSE 0]

PageRefused_Upserts(o) ==   \* mutant
  batch.phase # "listing" \/ batch.listingOffset # o

PageRefused(o) == batch.phase # "listing" \/ page[o].saved \/ batch.listingOffset # o

\* commitAtsV2ListingPage of n postings at the offset the claim asked for.  A
\* saved page of the same size is adopted and one of another size is refused;
\* neither moves the listing.
CommitPage(c, n) ==
  LET o == claim[c].cursor
      inline == n <= Chunk
  IN
  /\ claim[c].stage = "fetch" /\ Owns(c)
  /\ n \in Responses(o)
  /\ glitches' = IF n < Lesser(PageSize, total - o) THEN glitches + 1 ELSE glitches
  /\ IF PageRefused(o)
     THEN Go(c, "settle") /\ UNCHANGED <<batch, page>>
     ELSE /\ page' = [page EXCEPT ![o] = SavedPage(n)]
          /\ batch' = [batch EXCEPT
                         !.listingOffset = o + n,
                         !.raw = IF inline THEN @ + n ELSE @,
                         !.phase = IF inline /\ ListingComplete(o, n)
                                   THEN "compaction" ELSE "listing"]
          /\ \E stage \in (IF ~inline THEN {"body"}
                           ELSE IF ListingComplete(o, n) \/ Anomalous(o, n) THEN {"settle"}
                           ELSE {"fetch", "settle"}) :
               claim' = [claim EXCEPT ![c].stage = stage, ![c].cursor = o + n]
  /\ UNCHANGED <<total, item, segment, receipt, proc, handled, errors>>

-----------------------------------------------------------------------------
(* From observations to terminal items.                                    *)

\* The batch phases in which a claim may work on items: a listing claim drains
\* the prefix it has listed so far.
MayDrain(c, phase) ==
  batch.phase = phase \/ (claim[c].kind = "listing" /\ batch.phase = "listing")

AfterResolve(c) ==
  IF claim[c].kind = "listing" THEN {"mark", "seal"} ELSE {"resolve", "settle"}

ResolvedPhase(prefix, done) ==
  IF prefix THEN "listing" ELSE IF done THEN "enrichment" ELSE "compaction"

\* resolveNextAtsV2ObservationChunk: each observation of the chunk is compacted
\* or becomes the next canonical item; an empty provider object is terminal at
\* once.  (Its early returns for another phase or an unfinished page cannot
\* happen to an owner: only the owner moves the phase and adds pages.)
Resolve(c, kept, invalid) ==
  LET prefix == batch.phase = "listing"
      n == Lesser(Chunk, batch.raw - (batch.canonical + batch.compacted))
      new == batch.canonical .. batch.canonical + kept - 1
      done == batch.canonical + batch.compacted + n = batch.raw
  IN
  /\ claim[c].stage = "resolve" /\ Owns(c)
  /\ MayDrain(c, "compaction") /\ ~(prefix /\ IncompletePages # {})
  /\ kept \in 0 .. n /\ invalid \subseteq new
  /\ item' = [o \in Ordinals |->
                IF o \in invalid THEN TerminalItem
                ELSE IF o \in new THEN NewItem ELSE item[o]]
  /\ batch' = [batch EXCEPT
                 !.canonical = @ + kept, !.compacted = @ + n - kept,
                 !.terminal = @ + Cardinality(invalid),
                 !.phase = ResolvedPhase(prefix, done)]
  /\ \E stage \in (IF claim[c].kind # "listing" /\ done THEN {"settle"} ELSE AfterResolve(c)) :
       Go(c, stage)
  /\ UNCHANGED <<total, page, segment, receipt, proc, handled, glitches, errors>>

Unmarked == {o \in Ordinals : item[o].state = "pending" /\ ~item[o].held
                                /\ item[o].token = None}

\* terminalizeAtsV2NoNetworkItems: the listing alone settles some items, the
\* others are marked as needing a detail request.
Mark(c, settled) ==
  /\ claim[c].stage = "mark" /\ Owns(c)
  /\ settled \subseteq Unmarked
  /\ IF MayDrain(c, "enrichment")
     THEN /\ item' = [o \in Ordinals |->
                        IF o \in settled THEN TerminalItem
                        ELSE IF o \in Unmarked THEN [item[o] EXCEPT !.state = "network"]
                        ELSE item[o]]
          /\ batch' = [batch EXCEPT !.terminal = @ + Cardinality(settled)]
     ELSE settled = {} /\ UNCHANGED <<item, batch>>
  /\ \E stage \in (IF claim[c].kind = "listing" THEN {"detail", "seal"} ELSE {"detail"}) :
       Go(c, stage)
  /\ UNCHANGED <<total, page, segment, receipt, proc, handled, glitches, errors>>

DetailDue == {o \in Ordinals : item[o].state = "network" /\ ~item[o].held
                                 /\ item[o].token = None}

\* enrichNextAtsV2DetailItem up to its network request: the due item with the
\* lowest ordinal gets a lease of its own.
ClaimDetail(c) ==
  /\ claim[c].stage = "detail" /\ Owns(c)
  /\ IF MayDrain(c, "enrichment") /\ DetailDue # {}
     THEN LET o == CHOOSE o \in DetailDue : \A q \in DetailDue : o <= q IN
          /\ item' = [item EXCEPT ![o].token = c, ![o].lease = ClaimLease]
          /\ claim' = [claim EXCEPT ![c].stage = "answer", ![c].item = o]
     ELSE Go(c, "seal") /\ UNCHANGED item
  /\ UNCHANGED <<total, batch, page, segment, receipt, proc, handled, glitches, errors>>

AnswerFits_ById(c, o) == TRUE   \* mutant

\* The guard of the terminal write: the item's own token and fence, neither
\* its lease nor the batch claim.
AnswerFits(c, o) == item[o].state = "network" /\ item[o].token = c

\* The detail response arrives, perhaps long after every lease has run out.
DetailAnswer(c) ==
  LET o == claim[c].item IN
  /\ claim[c].stage = "answer"
  /\ IF AnswerFits(c, o)
     THEN /\ item' = [item EXCEPT ![o] = TerminalItem]
          /\ batch' = [batch EXCEPT !.terminal = @ + 1]
     ELSE UNCHANGED <<item, batch>>
  /\ \E stage \in (IF AnswerFits(c, o) THEN {"detail", "seal"} ELSE {"seal"}) :
       claim' = [claim EXCEPT ![c].stage = stage, ![c].item = None]
  /\ UNCHANGED <<total, page, segment, receipt, proc, handled, glitches, errors>>

\* The request fails: the item waits for its retry time; an abort also ends
\* the quantum.
DetailError(c) ==
  LET o == claim[c].item IN
  /\ errors < MaxErrors
  /\ claim[c].stage = "answer"
  /\ errors' = errors + 1
  /\ item' = IF item[o].token = c
             THEN [item EXCEPT ![o].token = None, ![o].lease = 0, ![o].held = TRUE]
             ELSE item
  /\ \E stage \in {"seal", "settle"} :
       claim' = [claim EXCEPT ![c].stage = stage, ![c].item = None]
  /\ UNCHANGED <<total, batch, page, segment, receipt, proc, handled, glitches>>

-----------------------------------------------------------------------------
(* Sealing.                                                                *)

Sealable_PartialTail(prefix) == batch.canonical   \* mutant

\* Only full ranges until the listing is complete: a manifest is never extended.
Sealable(prefix) ==
  IF prefix THEN (batch.canonical \div SegmentSize) * SegmentSize ELSE batch.canonical

ReadySegments(prefix) ==
  {s \in SegmentOrdinals :
     /\ segment[s].status = "none"
     /\ FirstOrdinal(s) < Sealable(prefix)
     /\ \A o \in FirstOrdinal(s) .. FirstOrdinal(s) + ItemCount(s, Sealable(prefix)) - 1 :
          item[o].state = "terminal"}

\* The first SealPerPass of them.
SealedNow(prefix) ==
  {s \in ReadySegments(prefix) :
     Cardinality({q \in ReadySegments(prefix) : q < s}) < SealPerPass}

ItemsSealedNow(prefix) ==
  {o \in Ordinals : o < Sealable(prefix) /\ o \div SegmentSize \in SealedNow(prefix)}

SealedPhase_Trapdoor(allTerminal) == "sealing"   \* mutant

\* "sealing" means that every item is terminal and only manifests remain.
SealedPhase(allTerminal) == IF allTerminal THEN "sealing" ELSE "enrichment"

\* sealReadyAtsV2Segments.
Seal(c) ==
  LET prefix == batch.phase = "listing"
      nextSealed == batch.sealed + Cardinality(ItemsSealedNow(prefix))
      allTerminal == batch.terminal = batch.canonical
      complete == ~prefix /\ nextSealed = batch.canonical /\ allTerminal
  IN
  /\ claim[c].stage = "seal" /\ Owns(c)
  /\ IF prefix /\ claim[c].kind # "listing"
     THEN UNCHANGED <<batch, segment>>
     ELSE /\ segment' = [s \in SegmentOrdinals |->
                IF s \in SealedNow(prefix)
                THEN [NoSegment EXCEPT !.status = "sealed",
                                       !.count = ItemCount(s, batch.canonical)]
                ELSE segment[s]]
          /\ batch' = [batch EXCEPT
                !.sealed = nextSealed,
                !.phase = IF prefix THEN "listing"
                          ELSE IF complete THEN "synchronized" ELSE SealedPhase(allTerminal),
                !.status = IF prefix THEN @
                           ELSE IF complete THEN "synchronized" ELSE "partial"]
  /\ Go(c, IF claim[c].kind = "listing" THEN "fetch" ELSE "settle")
  /\ UNCHANGED <<total, page, item, receipt, proc, handled, glitches, errors>>

-----------------------------------------------------------------------------
ClaimStep(c) ==
  \/ OpenReceipt(c)
  \/ Settle(c)
  \/ LoseFence(c)
  \/ Materialize(c)
  \/ ResumeListing(c)
  \/ \E n \in 0 .. PageSize : CommitPage(c, n)
  \/ \E kept \in 0 .. Chunk : \E invalid \in SUBSET Ordinals : Resolve(c, kept, invalid)
  \/ \E settled \in SUBSET Ordinals : Mark(c, settled)
  \/ ClaimDetail(c)
  \/ DetailAnswer(c)
  \/ Seal(c)

ClaimTrouble(c) ==
  \/ Admit(c)
  \/ TakeContinuation(c)
  \/ Heartbeat(c)
  \/ Abandon(c)
  \/ Crash(c)
  \/ DetailError(c)
=============================================================================
