------------------------------ MODULE AtsLedger ------------------------------
(***************************************************************************)
(* The ATS acquisition ledger of one board: acquisition claims, segment    *)
(* processing, and the reconciler that clears expired leases, together.    *)
(***************************************************************************)
EXTENDS AtsAcquisition, AtsSegments

\* What the board has to show: the items behind the cursors of its segments,
\* and the errors these count, each a segment and a number.
Accounted ==
  UNION {FirstOrdinal(s) .. FirstOrdinal(s) + segment[s].offset - 1 : s \in Manifests(segment)}

Errors == UNION {{s} \X (1 .. segment[s].failed) : s \in Manifests(segment)}

Cycle ==
  INSTANCE BoardCycle WITH
    listed <- batch.raw,
    kept <- batch.canonical,
    dropped <- batch.compacted,
    accounted <- Accounted,
    failures <- Cardinality(Errors),
    outcome <- IF batch.status \in {"processed", "failed"} THEN batch.status ELSE "open"

-----------------------------------------------------------------------------
(* reconcileExpiredAtsV2Work: one transaction.                             *)

\* Chosen before any lease is cleared: a synchronized batch whose own
\* acquisition lease has just expired.
FinalizationCandidate ==
  /\ batch.status = "synchronized" /\ batch.phase = "synchronized"
  /\ batch.token # None /\ batch.lease = 0

ExpiredReceipts ==
  [c \in Claims |-> IF receipt[c].open /\ receipt[c].lease = 0
                    THEN [open |-> FALSE, lease |-> 0] ELSE receipt[c]]

ExpiredItems ==
  [o \in Ordinals |->
     IF item[o].state \in {"pending", "network"} /\ item[o].token # None /\ item[o].lease = 0
     THEN [item[o] EXCEPT !.token = None, !.held = FALSE] ELSE item[o]]

ExpiredSegments ==
  [s \in SegmentOrdinals |->
     IF segment[s].status = "processing" /\ segment[s].lease = 0
     THEN Released(s, FALSE) ELSE segment[s]]

Reconcile ==
  LET b == IF batch.token # None /\ batch.lease = 0
           THEN [batch EXCEPT !.token = None, !.held = FALSE] ELSE batch
  IN
  /\ receipt' = ExpiredReceipts
  /\ item' = ExpiredItems
  /\ segment' = ExpiredSegments
  /\ batch' = IF FinalizationCandidate
              THEN FinalizeIfReady(b, ExpiredItems, ExpiredSegments, ExpiredReceipts) ELSE b
  /\ UNCHANGED <<total, page, claim, proc, handled, glitches, errors>>

\* Every lease loses a tick and every retry time has come.
Less(n) == IF n = 0 THEN 0 ELSE n - 1

Tick ==
  /\ batch' = [batch EXCEPT !.lease = Less(@), !.held = FALSE]
  /\ receipt' = [c \in Claims |-> [receipt[c] EXCEPT !.lease = Less(@)]]
  /\ item' = [o \in Ordinals |-> [item[o] EXCEPT !.lease = Less(@), !.held = FALSE]]
  /\ segment' = [s \in SegmentOrdinals |->
                   [segment[s] EXCEPT !.lease = Less(@), !.held = FALSE]]
  /\ UNCHANGED <<total, page, claim, proc, handled, glitches, errors>>

-----------------------------------------------------------------------------
Init ==
  /\ total \in 0 .. Jobs
  /\ batch = [status |-> "none", phase |-> "none", token |-> None, lease |-> 0,
              held |-> FALSE, listingOffset |-> 0, raw |-> 0, canonical |-> 0,
              compacted |-> 0, terminal |-> 0, sealed |-> 0, published |-> 0]
  /\ page = [o \in Offsets |-> NoPage]
  /\ item = [o \in Ordinals |-> NoItem]
  /\ segment = [s \in SegmentOrdinals |-> NoSegment]
  /\ receipt = [c \in Claims |-> [open |-> FALSE, lease |-> 0]]
  /\ claim = [c \in Claims |->
                [stage |-> "idle", kind |-> "listing", cursor |-> 0, item |-> None]]
  /\ proc = [p \in Procs |-> NoTurn]
  /\ handled = {} /\ glitches = 0 /\ errors = 0

Next ==
  \/ \E c \in Claims : ClaimStep(c) \/ ClaimTrouble(c)
  \/ \E p \in Procs : TurnStep(p) \/ TurnTrouble(p)
  \/ \E p \in Procs, s \in SegmentOrdinals : ClaimSegment(p, s)
  \/ \E chosen \in SUBSET SegmentOrdinals : Publish(chosen)
  \/ Reconcile
  \/ Tick

Spec == Init /\ [][Next]_vars

-----------------------------------------------------------------------------
(* Type invariant: the columns, and the memory of workers and turns, hold  *)
(* the values the code gives them.                                         *)
TypeOK ==
  /\ total \in 0 .. Jobs
  /\ batch \in BatchRows
  /\ page \in [Offsets -> PageRows]
  /\ item \in [Ordinals -> ItemRows]
  /\ segment \in [SegmentOrdinals -> SegmentRows]
  /\ receipt \in [Claims -> [open : BOOLEAN, lease : 0 .. ClaimLease]]
  /\ claim \in [Claims -> ClaimRows]
  /\ proc \in [Procs -> ProcRows]
  /\ handled \subseteq Ordinals
  /\ glitches \in 0 .. MaxGlitches /\ errors \in 0 .. MaxErrors

\* The counters of the batch row, which every later decision reads instead of
\* the rows, agree with the rows at all times: late detail answers, repeated
\* quanta, adopted pages and expired claims never count anything twice.
CountersAgree ==
  /\ batch.terminal = Cardinality({o \in Ordinals : item[o].state = "terminal"})
  /\ batch.canonical = Cardinality({o \in Ordinals : item[o].state # "none"})
  /\ batch.sealed = Cardinality({o \in Ordinals :
                      \E s \in Manifests(segment) : o \in ItemsOf(s)})
  /\ batch.published = Cardinality({o \in Ordinals :
                      \E s \in Manifests(segment) :
                        o \in ItemsOf(s) /\ segment[s].status # "sealed"})

\* A manifest is final from the moment it is sealed: its items are terminal
\* and a segment other than the catalogue's last is full, also when it was
\* sealed from a prefix of a listing that has since grown.
ManifestsFinal ==
  \A s \in Manifests(segment) :
    /\ ManifestIntact(s)
    /\ segment[s].count = ItemCount(s, batch.canonical)

\* The phase never runs ahead of the work (the "one-way trapdoor" the sealing
\* code describes): past listing every page is materialized and the catalogue
\* listed in full, past compaction every observation is resolved, and in
\* sealing no item is pending, since only the enrichment phase serves it.
PhaseMatchesWork ==
  /\ batch.phase \in {"compaction", "enrichment", "sealing", "synchronized"} =>
       IncompletePages = {} /\ batch.raw = total
  /\ batch.phase \in {"enrichment", "sealing", "synchronized"} =>
       batch.canonical + batch.compacted = batch.raw
  /\ batch.phase \in {"sealing", "synchronized"} => batch.terminal = batch.canonical

\* A segment's cursor passes an item only when its posting has reached the Job
\* tables or is one of the errors the segment counts, and a processed segment
\* has passed all its items.
CursorBehindJobs ==
  \A s \in Manifests(segment) :
    /\ Cardinality((FirstOrdinal(s) .. FirstOrdinal(s) + segment[s].offset - 1) \ handled)
         <= segment[s].failed
    /\ segment[s].status = "processed" => segment[s].offset = segment[s].count

\* A closed cycle has nothing outstanding: the whole catalogue was listed,
\* every posting was compacted or handled or is a counted error, and the cycle
\* is "processed" only if every item was handled.
ClosedMeansDone ==
  batch.status \in {"processed", "failed"} =>
    /\ batch.raw = total
    /\ Manifests(segment) = 0 .. SegmentsFor(batch.canonical) - 1
    /\ \A s \in Manifests(segment) : segment[s].status = "processed"
    /\ batch.status = "processed" => 0 .. batch.canonical - 1 \subseteq handled

\* A synchronized batch whose evidence is complete, that nobody holds, and
\* that no worker of a claim or of a turn will finish any more.
Stranded ==
  /\ batch.status = "synchronized" /\ batch.token = None
  /\ Reconciled(batch, item, segment)
  /\ \A c \in Claims : ~receipt[c].open /\ claim[c].stage = "idle"

\* "Remember those exact batches so expiry reconciliation can retry
\* finalization after every live lease is gone": no such batch is left open.
\* The board gets no further cycle before it is closed.
NotStranded == ~Stranded

\* The ledger implements the promise of one board cycle.
ImplementsCycle == Cycle!CycleSpec

\* What each step may do to evidence: a saved page keeps its size, a terminal
\* item stays terminal, a sealed manifest keeps its range, a cursor and its
\* error count never go back, and nothing about a closed cycle moves again.
EvidenceOnlyGrows ==
  [][/\ \A o \in Offsets : page[o].saved =>
          page'[o].saved /\ page'[o].size = page[o].size
     /\ \A o \in Ordinals : item[o].state = "terminal" => item'[o].state = "terminal"
     /\ \A s \in SegmentOrdinals : segment[s].status # "none" =>
          /\ segment'[s].count = segment[s].count
          /\ segment'[s].offset >= segment[s].offset
          /\ segment'[s].failed >= segment[s].failed
          /\ segment[s].status = "processed" => segment'[s].status = "processed"
     /\ batch.status \in {"processed", "failed"} => batch'.status = batch.status
    ]_vars

\* What the quanta of acquisition claims build: the phase, the listing and its
\* pages, the observations, the items made of them and the manifests.  (That an
\* item is settled is not among it: a late detail answer may do that.)
BuildsBatch ==
  \/ page' # page
  \/ batch'.phase # batch.phase \/ batch'.listingOffset # batch.listingOffset
  \/ batch'.raw # batch.raw \/ batch'.canonical # batch.canonical
  \/ batch'.compacted # batch.compacted \/ batch'.sealed # batch.sealed

\* Only the claim whose own token and live lease are on the batch at that moment
\* builds it (assertClaimMatchesBatch in every transaction of a quantum): the
\* step is one of that claim, not of a superseded one that is still at work
\* while another holds the batch, and leaves it the owner.  Otherwise it is the
\* admission.
OnlyOwnerMovesBatch ==
  [][BuildsBatch =>
       \E c \in Claims :
         \/ Admit(c)
         \/ batch.token = c /\ batch.lease > 0 /\ batch'.token = c /\ ClaimStep(c)]_vars

-----------------------------------------------------------------------------
(* Liveness.                                                               *)

\* A tick that ends the lease of a worker or turn that is still at work, which
\* its heartbeats (every third of a lease) prevent unless the host stalls.
Stalls ==
  \/ batch.lease = 1 /\ batch.token # None /\ claim[batch.token].stage # "idle"
  \/ \E o \in Ordinals : item[o].lease = 1 /\ item[o].token # None
                           /\ claim[item[o].token].item = o
  \/ \E s \in SegmentOrdinals : segment[s].lease = 1 /\ segment[s].token # None
                                  /\ proc[segment[s].token].segment = s

PunctualTick == Tick /\ ~Stalls

\* The dispatcher's workers and the processing loop keep running and keep
\* claiming, the publisher's gate opens again and again, and the reconciler
\* runs every minute.  Crashes, failures and glitches are bounded, and hosts
\* stop stalling at some time.
Fairness ==
  /\ \A c \in Claims : WF_vars(ClaimStep(c))
  /\ WF_vars(\E c \in Claims : Admit(c)) /\ SF_vars(\E c \in Claims : TakeContinuation(c))
  /\ \A p \in Procs : WF_vars(TurnStep(p))
  /\ SF_vars(\E p \in Procs, s \in SegmentOrdinals : ClaimSegment(p, s))
  /\ WF_vars(\E chosen \in SUBSET SegmentOrdinals : Publish(chosen))
  /\ WF_vars(Reconcile) /\ SF_vars(PunctualTick)
  /\ <>[][Tick => ~Stalls]_vars

FairSpec == Spec /\ Fairness

Closed == batch.status \in {"processed", "failed"}

\* Every admitted board's cycle ends, with whatever crashes, expired leases,
\* failed requests and repeated turns in between; otherwise the board is never
\* collected again.  The one exception is the one NotStranded is about.
BoardCloses == batch.status # "none" ~> Closed \/ Stranded
=============================================================================
