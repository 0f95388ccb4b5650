# Verification of the career dashboard

This directory holds TLA+ specifications of the parts of the career dashboard
(`src/`, a Next.js application with a PostgreSQL database and a pipeline that
runs on more than one host) in which several actors change the same state:
the pipeline lock, the ledger that collects an employer's job board, the leases
around requests to a job platform, the durable search tasks, and the job cards
themselves: their triage and description recovery, their manual scoring in
exported batches, and the combining of cards that are the same job. TLC checks
each of them on a small instance; TLAPS proves every safety and action property
of the passing runs, and the one refinement, for every value of the constants. `PROJECT.json` is the index: components,
runs, the source lines of every definition, hazards, findings and theorems.

    tlc -workers 2 -config SearchTask_main.cfg MCSearchTask   # a run
    tlapm SearchTaskProofs.tla                                # a proof

## 1. The system

A *host* (the laptop or the cloud worker) runs the pipeline: loops that search
providers, crawl applicant tracking systems (ATS), recover job descriptions and
score jobs. All of them meet in one database; nothing else is shared, and no
process survives a crash except through its rows. Coordination is therefore
always of one form: *a row names its holder by a random token and an expiry,
every write of the holder is conditional on the token, and whoever finds the
expiry in the past may take over.* What is hard is what happens to a holder
that does not notice.

| component | state | operations | who else touches it | modelled |
|---|---|---|---|---|
| Pipeline lock, Stop, progress mirror (`pipelineState.ts`, `latestOnlyWriter.ts`, `stop/route.ts`) | `PipelineState` row (token, heartbeat, flags, pause), each host's status file, each host's mirror queue | acquire, heartbeat, mirror, poll, release, Stop in three modes, scheduled start | the other host, side runs (local scoring, JD extraction), operator | `PipelineLock` |
| ATS ledger v2 and its dispatcher (`atsAcquisitionLedger.ts`, `atsAcquisitionDispatcherV2.ts`) | batch, pages, items, segments, claim receipts of a board cycle | admit, continue, list a page, resolve, enrich, seal, publish, process a segment, finish, reconcile expiries | superseded workers, the ingestion process, the reconciler | `AtsLedger` and its parts |
| Request capacity and provider circuit (`ingestionControl.ts`, `atsProviderRequest.ts`, `atsRequestConcurrency.ts`) | lease rows of a platform, its circuit row, each process's slots and pause | take fence and slot, send, record, release, report once more | all processes that crawl the platform | `AtsRequests`, `ProviderCircuit` |
| Durable search tasks (`ingestionControl.ts`, `jsearch.ts`, `ingestJobs`) | `IngestionTask` row: lease, next run, watermark, cursor | claim, renew, page, checkpoint, complete, put off, abandon, reconcile with the catalog | other turns, a new release | `SearchTask` |
| Provider budget (`ingestionControl.ts`) | daily and hourly counters of a provider | reserve, release, roll over, name a retry time | every search | `ProviderBudget`, in `SearchTask` |
| Pipeline supervisor and run route | one loop per lane | start, hold, back off, stop | Stop, storage guard | no |
| Legacy ATS batches | the V1 ledger | as V2 | conversion | no |
| First-collection admission, rotation, exclusion, yield | scheduling columns of boards | choose, rest, exclude | dispatcher | no: policy before `Admit` |
| Browser sweeps and crawling rotation | `AtsBrowserSweep` cursor | page, save under task lease, defer | task scheduler | no |
| ATS task mode | set of task rows | split or merge lanes | every start | no |
| Ingestion of one posting | job rows, observations | match, merge, create | everything | only as a step of a turn |
| Triage and description recovery (`jobScoring.ts`, `batch-jd-submit/route.ts`, `scrape/route.ts`) | `batchJobId`, `jdBatchId`, scoring status and counts of a card | lease, judge, hand over, recover, refresh, clean up | user edits, a second worker, the cleanups | `CardQueue` |
| Manual scoring exchange (`scoringRun.ts`, `scoringRunImport.ts`, `scoringImport.ts`) | run, child batches, their items, score events | export, preview, apply child by child, extend, release | a second import, edits and rescores, local triage | `ScoringExchange` |
| Combine and separate (`sameJobConsolidation.ts`) | the card a copy is folded into, sightings, attachments, fold events, exceptions | plan, fold, separate | a second pass, workers, exports, the user | `SameJob` |
| Lifecycle, applied duplicates, cooldowns | job status and its events | transitions by rule or by the user | all of the above | no |
| Web discovery queue, Common Crawl | local SQLite, files | enqueue, lease, finish | one worker | no |
| Parsers, UI, scripts | none of interest | | | no |

Behaviours that make these parts hard, and the properties they ask for:

* *Expired but alive.* A holder whose lease ran out keeps working: it must not
  write into what a successor owns, release it, or keep it alive.
  (`LockMovesFairly`, `OnlyOwnerMovesBatch`, `CursorBehindJobs`, `AtMostTwo`,
  `SearchKept`, `OvertakenWritesNothing`.)
* *Dead in the middle.* Work is split over transactions; the next holder must
  find a state it can go on from, and must actually get there. (`DeadLockAges`,
  `PhaseMatchesWork`, `BoardCloses`, `NoLeak`, `WatermarkCovered`, `OneFile`,
  `CardsSettle`.)
* *Late and out of order.* Mirrors, answers and reports land after newer ones.
  (`IdleRowAtRest`, `PauseHolds`, `ProtectionKept`, `EvidenceOnlyGrows`.)
* *Read, then write.* A claim is computed from a row that was read several
  calls earlier, a fold from a plan, an import from a preview.
  (`WatermarkMonotone`, `RetiredIdle`, `CountersAgree`, `FoldsEnd`, `ActedOnStand`,
  `ShownIsDone`, `PaidOnce`.)

## 2. Modules

    PipelineLock ---------------- MCPipelineLock     PipelineLockProofs
    AtsBatch -> AtsAcquisition \
             -> AtsSegments    -> AtsLedger -- MCAtsLedger
    BoardCycle (abstract) <--- refined by ---/       AtsLedgerProofs
    ProviderCircuit -> AtsRequests -- MCAtsRequests  AtsRequestsProofs
    ProviderBudget -> SearchTask --- MCSearchTask    ProviderBudgetProofs, SearchTaskProofs
    CardQueue ------------------ MCCardQueue         CardQueueProofs
    ScoringExchange ------------ MCScoringExchange   ScoringExchangeProofs
    SameJob -------------------- MCSameJob           SameJobProofs

Each `MC` module only adds symmetry sets and definitions for constants;
`MCCardQueue` also restricts the initial states. The three
card models are kept apart: each sees what the others do to a card as one action
of its environment (`Claim` and `ExportLease` in `SameJob`, `Triage` in
`ScoringExchange`), guarded as the code guards it. Time is
a clock of ticks (lock, requests, search) or, in the ledger, a countdown per
lease; either way a lease expires by a comparison in a guard, as in the code.
Operators marked `\* mutant` are variants of the operator that follows them, with
a plausible mistake; nothing in the specification uses them. They record which
line of code each property depends on (`PROJECT.json`, "mutants").

### 2.1 PipelineLock

State: `row` (the `PipelineState` row), `file` (each host's JSON file), `mirror`
(each host's latest-only writer: one value in flight, one waiting), `owned` and
`controller` (the token and the abort controller a process remembers),
`pollCache` (its three-second answer to "should I stop?"), `run` (one record per
token), `aborted`, `unreachable` hosts, the clock and the fault counters.
Actions: start of a main or side run (`acquire`), heartbeats, progress mirrors
in three steps (local write, push, arrival at the database), the stop poll with
its three-second cache, unwinding and release, the Stop route in its three
modes, scheduled starts, a crash, a database outage. A mirror carries the whole
local file as it was when pushed: this is what lets an old one overwrite a
newer flag.

Properties. `NoOverlap`: before the first outage two runs never work at once.
`IdleRowAtRest`: when every run ended in an orderly way and no write is on its
way, the row says so. `LockMovesFairly`: the token leaves the row only by its own release or after
its expiry. `DeadLockAges`: nothing refreshes the lease of a dead owner.
`PauseHolds`: a pause is lifted only by its end or a manual start.
`AbortedRunEnds` (liveness): an aborted run unwinds and releases.

Finding: a Stop answered by the other host is undone by the owner's next
mirror (`StopReachesOwner`, run `lock_stop`). `NoOverlap` is about main runs: a
side run (`extraction/route.ts`, `local/route.ts`) starts no heartbeat timer, so
a quiet one loses its lock while it works; with side runs the property does not
hold.

### 2.2 The ATS ledger: AtsBatch, AtsAcquisition, AtsSegments, AtsLedger

One board cycle: the batch row with its four counters and phase, its listing
pages, items, segments, and the claim receipts of the workers. `AtsBatch` holds
the rows and what is computed from them (readiness to finalize, the counters a
transaction writes back); `AtsAcquisition` the worker: admission or
continuation, receipt, heartbeat, listing, materialization of a page into items
in chunks, resolution, detail enrichment, sealing, publication, completion,
error path and crash; `AtsSegments` the ingestion of published segments under
their own lease; `AtsLedger` composes them with the expiry reconciler and time.

`BoardCycle` is what a cycle promises, without claims, leases, pages or
segments: every posting of the catalogue is listed once, every listed posting is
compacted or becomes an item once, an item is accounted for once and only after
it was handled or failed, and the cycle closes when nothing is left, as "failed"
exactly if an item failed. `ImplementsCycle` checks that the ledger refines it
(`Cycle` in `AtsLedger` is the mapping: the counters of the batch row, the items
behind the cursors of the segments, `Accounted`, and the errors these count).

Choices. One board. A claim's token and fence are a member of `Claims`, free
again when no row remembers it (tokens are random: a superseded holder is told
apart by its slot). Lease lengths are ticks left; `nextAcquireAt`,
`nextDetailAt` and `nextProcessAt` hold until the next tick. A page's hash is
its size, for the provider's total is fixed and a page can only be short or
empty by a glitch. Which sealed segments are published is nondeterministic (the
gate compares backlogs outside the board). A settled continuation is held back
or not, nondeterministically. A Stop with nothing handled leaves the same rows
as a failed turn.

Properties. `CountersAgree`: the counters equal what counting the rows gives,
whatever claims were superseded. `OnlyOwnerMovesBatch`: whatever builds the
batch (phase, listing, pages, items, manifests) is the admission or a step of the
very claim whose token and live lease are on the row, and leaves them its own.
`ManifestsFinal`: a sealed segment's items are terminal, and it is full unless
it ends the catalogue, also if the listing has grown since. `PhaseMatchesWork`:
no phase is entered before the work that only earlier phases serve is done.
`CursorBehindJobs`: a segment's cursor passes only items
that were ingested or counted as errors. `ClosedMeansDone`: nothing of a closed
cycle is outstanding. `EvidenceOnlyGrows`: saved pages, terminal items, sealed
ranges, cursors and the outcome never go back;
and the liveness property `BoardCloses`: every admitted board closes, unless it
was stranded.

Finding: that exception exists (`NotStranded`, run `ats_stranded`: a superseded
worker's receipt outlives the last attempt to finalize). `BoardCloses` is checked
without listing glitches: an empty page before the reported total
(`atsAcquisitionLedger.ts:1036`) is asked for again for as long as the platform
answers so, and the total once reported is never lowered.

### 2.3 AtsRequests and ProviderCircuit

Every call goes through the stages take, ready, sent, record, release and, for
a listing of the V2 dispatcher, commit. `lease` has two slot rows and one row
per employer; a call takes the employer's fence, then either slot (or, if
the employer is unknown, both slots in order, which excludes everybody), and gives
both back after it has recorded the answer. `circuit` is the failure state of the platform: each report is one
guarded update with the time of the answer it speaks of. `pause` is the
in-process pause after a 429.

The process's own turn, its pause and its capacity are waited for in one step,
and the pause is looked at again before the request is sent. Both releases and
the return to the caller are one step, with a variant in which the database
write is lost. Pacing between requests is left out: any delay is possible.
`RequestMax < Lease` is the one assumption about durations; the source states
it at `ingestionControl.ts:187`.

Properties. `AtMostTwo`: never three requests at the platform. `FenceHolds`:
two requests to the same employer overlap only if a fence expired while its
holder waited for a slot (it is not renewed; this is the code's behaviour, and
the property says exactly how far it goes). `NoLeak`: without faults every
lease belongs to a call that will release it. `ProtectionKept`: no report,
however late, shortens a cooldown that is running.

The V2 listing quantum reports a refusal that the request boundary has already
recorded (`atsAcquisitionDispatcherV2.ts:800-805`; `Record` and `Commit`), so one answer counts
twice towards the circuit; `ProtectionKept` is stated of every report, repeated
or not.

### 2.4 ProviderBudget and SearchTask

One `IngestionTask` row of a JSearch query, and turns that read it, claim it,
page through results and save their place. A turn's window comes from the row
it *read*; its cursor from the row *after* the claim. A saved search keeps its
window and its provider date filter; a finished one moves the watermark to its
window's end. A release may delist the task, after which reconciliation
retires the row in one transaction if no lease is on it. The blocked outcomes of `completeIngestionTask`
are merged, and `Retry` stands for its retry and continuation delays.

`ProviderBudget` is the policy of a paid provider without state of its own: the
`ProviderCircuit` row's day and month counters, which roll over when a caller's
clock names another day; the hourly release of the day's limit; the time a
refusal names. `SearchTask` holds the row. Each page is a reservation (`Reserve`,
also of a refused request, which rolls the row over too), other tasks spend
(`Spend`), and the circuit opens and closes (`Close`, `Recover`). A reservation
reads its clock before a transaction that is retried (`reserveProviderRequest`),
so it may commit in the next hour: a *late* one. A tick is an hour here; the
jitter of up to half an hour that the code adds to a blocked task's next run is
left out.

The ghost `sent` counts today's requests and late reservations; `got` records which pages of which window were handled, `since` where
the first completed window began, and `missed` the postings the code gives up:
those older than the week a window may reach back, and those a saved date
filter had become too short for.

Properties. `WatermarkCovered`: every posting time between `since` and the
watermark lies in a window all of whose pages were handled, or is in `missed`.
`WatermarkMonotone`; `RetiredIdle`: a retired task's row carries no token (a turn
that lost its lease, and whose task was taken over, ended and retired since, may
still read pages and spend budget; it saves nothing); `SearchKept`:
an unfinished search is continued or dropped, never replaced by one over
another window and never set back. `BudgetHolds`: a day's requests stay within
the limit, save what late reservations give away, each at most the first hour's
portion and itself. `WakesInTime`: a refused task is due again as soon as the
row, as it stands, lets a request through.

The comment at `ingestionControl.ts:1243-1245` says that concurrent callers
"cannot spend tomorrow's portions early". A late reservation about midnight does
something like it: it puts yesterday's day back on the row, and the next caller
starts the new day's count from nothing again. In the instance of
`search_main` a day of three sends four. `BudgetHolds` says that this is all
it can do: the hourly release, meant for pacing, bounds the loss.

### 2.5 CardQueue

A card waits for local triage (`queued`), is being triaged (`scoring`, under the
token in `batchJobId`), waits for description recovery (`needs_jd`, claimed by a
run in `jdBatchId`), or is done (`scored`, `skipped`, `failed`). A *worker* is
one pass of triage over one card, one recovery run over a set of cards, or one
refresh of a card from its link. It works on what it read when it began (`read`);
`fresh` says whether the row was written since, which is what its comparisons of
`updatedAt` find out, and the ghost `lost` whether somebody took a card from it.
A description is *full*, *terse* (enough if it came from a structured source) or
*poor*. Every answer of a worker is an action: a verdict, a text, a failure that
is counted, a refusal of the provider's budget that is waited out, an exception,
a write that found another row. Cleanups take rows nobody has written for
minutes: of dead workers, and, counted in `MaxFaults`, of slow ones. Joseph's
edits with and without a rescore (which may carry a decision), new links,
decisions, restores, refreshes and retries happen at any point.

Properties. `LeasesFit`: no requeue leaves a lease behind, which would make the
card unclaimable; a card never carries both tokens. `OvertakenWritesNothing`: a
worker whose claim was taken back changes nothing of the card, whatever it still
sends. `CardsSettle` (liveness): no card waits for ever between the two queues.

What the model shows about the code, short of these:

* A card that starved in triage (`jobScoring.ts:1009-1021`) keeps its lease: the
  terminal update does not clear `batchJobId`, and the release that follows only
  looks at `scoring` rows. `LeasesFit` therefore excepts `failed`. Joseph's retry
  asks for `batchJobId: null` (`failedJobRecovery.ts:24`) and is refused, though
  `jdEnrichmentDeferral.ts:113-115` counts on it.
* A link saved without a rescore while the card is being triaged
  (`jobUrlReconciliation.ts:264`) clears the lease and leaves `scoring`: no queue
  and no cleanup selects the row. Only a refresh from the link heals it, which
  is why `Waiting` leaves such a row out.
* A description edited without a rescore is overwritten by the worker that read
  the old one: the guards compare the token, not the text.
* A recovered terse text is accepted by where it was *fetched* and judged in
  triage by where the card *came from*. While every fetch returns such a text the
  card goes round, and each round resets both counts. The model bounds these
  answers by `MaxFaults`; `CardsSettle` rests on this.

### 2.6 ScoringExchange

`run` and `kid` are the scoring run and its child batches, `item` the child a
card was exported in and its text then, `job` the card with the newest Aim and
Experience events. An export reads its candidates in one transaction and leases
them in another, which compares `updatedAt`. An import is shown (`PreviewRun`),
approved, and applied: the preview is built again and compared, each child is
committed in a transaction of its own that compares once more, and a last one
completes the run. Between any two of these the request may die, another request may import
another file of the same run, release it or extend it, and cards may be edited,
rescored, triaged or decided on. A text is a model value, a file a verdict per
child; `scored` holds the texts whose Aim event exists, since its unique key
outlives the score, and `basis` the text a current Aim event and its extraction
were made from, which an Experience export and import compare.

What a preview says of a card (`Shown`) is its status, what the import will do
with its result, and the status the result proposes. The preview does not ask for
admission to the Inbox; the commit does (`resolveInboxAdmission`,
`scoringImport.ts:1527-1544`). So a card shown with the Inbox as its proposed
status may end on the cooldown of its company or dismissed as the repeat of an
application, and nothing Joseph approved said so. `Landed` has this branch
(`Admission`). "decided" stands for every status that closes a card to automatic
scoring: Joseph's decisions, cooldown, expiry, dismissal as a repeat. Left out: that
a card Joseph promoted to the Inbox goes back to waiting when he asks for a
rescore, that a cooldown ends, and that Manual Imports are always closed.

Properties. `OneLease`, `PaidOnce`: a card is in one batch, and not scored again
while a current score stands, though the export read it earlier. `OneFile`: the
children of a run hold the results of one file. `RunSettled`: a run ends with
its children. `ShownIsDone`: a commit does what the approved preview said,
the status of every card included, the Inbox alone excepted, from which the card
may be turned away. `ScoreFits`: a score of either stage enters a card only with
the child exported for it, while the posting reads as it was exported and no score
of the stage stands, an Experience score also only beside a passed Aim of that
text. `DecisionStands`: neither imports nor rescores move a decided card.

Finding: a rescore without an edit can never be stored, unless it is a safe failure (`FreshResultLands`, run
`exchange_rescore`), because the unique key of the stale event refuses it; the
same holds for an edit that is taken back with a rescore
(`persistAimExtraction`, `scoringImport.ts:1281-1286`). Also: rescoring one card supersedes
the whole batch that leases it (`scoreInvalidation.ts:81-91`), which the import
then refuses as a whole (`scoringImport.ts:926`), while the comment at
`scoringImport.ts:1104-1107` speaks of the one card being retained.

### 2.7 SameJob

All cards share a title, so they form one matching group; `like` says how alike
two descriptions are, and edits change it. A pass plans folds from one reading
of all cards and tries them one transaction each, however old the plan; a second
pass overlaps. A fold moves the copy's sightings and attachments, gives the
survivor the employer's link, and notes in `fold` what separating needs. Around
them cards are scored, claimed, leased by an export that read them earlier,
rewritten (an edit of Joseph's asks for new scores, which also clears the reason
that names the survivor), moved by rules (placed in the Inbox or on cooldown,
released from it, expired, dismissed for their scores, by a local rule, or as the
repeat of an application), and decided on, also from a page that shows the card
before a fold. `into` is the reason that names the survivor: whatever states
another reason, or clears it, unfolds the copy (`Unnamed`). The cards and exceptions a
pass plans from are several queries without a transaction (`StartPass` reads them at
once): the plan may be stale anyway, and each fold is judged again.

Properties. `FoldsEnd`: no circle of folds. `SightingsLand`: every sighting is
kept on a standing card, except LinkedIn's of another posting than the LinkedIn
link the survivor had when the card was folded; a LinkedIn card folded into an
employer's takes its sighting along. `HeldInPlay`: no fold reaches a card that is
claimed or leased, and nobody is given a hold on a folded copy. It says so of every
step: what is held and a folded copy afterwards was held and combined before. This
leaves a case the code has: a copy Joseph restored to play keeps the reason, may
be claimed, and when a rule dismisses it for its scores, which states no reason,
it is a held folded copy again. Neither Joseph nor a rule looks at claims and leases
when dismissing a card; a card he dismisses names no survivor and is no copy.
`ApartNotFolded`, `ActedOnStand`: Joseph's word holds against plans of any age.

What the model shows about separating: it does not always undo a fold "exactly",
as the comment at `sameJobConsolidation.ts:615-619` says. The sighting of a copy
whose survivor was itself combined stays with the last survivor; two separated cards
may meet again on a third; of two employer copies folded in a chain the first
finds its link taken, and the unique index on `postingIdentity` may refuse the
transaction (for this reason no liveness is stated of passes); a survivor
without an identity of its own keeps the copy's; a copy restored to
`pending_af` does not count as acted on, against the comment near line 698; a
decision made on a stale page lands on the folded card; the rank "a scored card
always outranks an unscored one" is decided in the plan and not judged again in
the fold. The chain above a survivor is followed to its end; the code stops after
five cards.

## 3. Runs

| run | instance | shows |
|---|---|---|
| `lock_main` | 2 hosts, 2 tokens, times 0-2, lease 1, 1 Stop, 1 outage, crashes free (3.1M states) | all safety and action properties of the lock |
| `lock_live` | 2 hosts, 1 token, both kinds, no tick | `AbortedRunEnds` |
| `lock_stop` | 2 hosts, 1 token | violation: `StopReachesOwner` |
| `ats_claims` | 2 claims, 2 jobs in one page and chunk, 1 error, no glitch | counters, ownership, refinement of `BoardCycle`, `BoardCloses` |
| `ats_work` | 1 claim, 2 ingesting processes, 3 jobs, pages and segments of 2, chunks of 1, 1 glitch, 2 errors (1.4M) | phases, manifests, cursors, evidence |
| `ats_stranded` | 2 claims, 1 job, no error | violation: `NotStranded` |
| `requests_main` | 3 calls, 3 processes, 1 employer, lease 2, times 0-3, 1 fault, 1 refusal (3.0M) | slots, fences, leaks, cooldowns |
| `search_main` | 2 turns, 2 pages, times 3-5, days of 2 hours, months of 3 days, 3 requests a day and 5 a month, 1 fault or late reservation, 2 requests of others or opened circuits, 1 deploy (3.7M) | watermark, retirement, saved searches, budget, waking |
| `cards_main` | 2 cards (one queued and poor, one waiting for recovery), 2 workers, limits 2, 1 move, 1 fault (0.5M) | leases, overtaken workers, `CardsSettle` |
| `exchange_main` | 2 cards, 2 runs of 2 children, 2 requests, 1 export, 2 files that agree on the first child, 2 texts, 1 edit (1.9M) | leases, children, previews, decisions |
| `exchange_rescore` | 1 card, 2 runs, 1 request | violation: `FreshResultLands` |
| `samejob_main` | 3 cards, the first an employer's, two from LinkedIn, 2 passes, 3 moves (5.9M) | folds, sightings, separations, leases |

Why the bounds are enough to be worth something. Two holders are the least
number at which one can be superseded; three requests are the least that could
break a limit of two; three cards the least in which a survivor is combined
itself. A lease of one tick can expire between any two
steps of its holder; `Tick` waits only where an assumption on durations says so
(a heartbeat timer of a live process of the lock that reaches the database, a
request in flight for `RequestMax`). Pages larger than a chunk (`ats_work`),
segments shorter than the listing, children of one card and a budget spent
between two pages make every loop stop in its middle. A month of five requests
is spent on the second day of three. One fault of each kind reaches every error
path; the conjunction of two is reached where the run allows two. A limit of two
failures and two refusals (`cards_main`; three and twenty-four in the code) lets a card be
charged, sent back and charged for the last time; one card with limits of three
and two moves was checked as well. Every action and every alternative of the
next-state relations fires in some passing run. What an instance does not reach:
`KeyClash` needs two cards with one identity and stays false in `samejob_main`;
its effect, a refused fold, is the same as that of the other refusals.

`CHECK_DEADLOCK FALSE` is set for every model but the ledger: at the last tick, or
when every card is done and the bounds are used up, everything may stand still.
The ledger has no last tick and is checked for deadlock.

Symmetry is used for hosts, tokens, claims, calls, processes, turns, requests,
runs and texts, which no formula tells apart, and in no run with a liveness property.

## 4. Fairness

* `lock_live`, `lock_stop`: what the event loop of a live process keeps doing is
  weakly fair: delivering its queued mirror, beginning a started run, polling for
  a stop, unwinding, releasing. Starts, Stops, crashes, repairs of the database
  and the end of a run's work are not.
* `ats_claims`: each step of a worker and of a segment turn is weakly
  fair, and so are admission, publication and the reconciler (a loop that is
  restarted, a gate that opens again and again, a job of every minute). Taking
  up a continuation or a segment, and time, are strongly fair: they are enabled
  again and again as holds and leases come and go, and the loops come back to
  them. A host may stall past its lease, but not for ever (`Stalls`): if every
  worker always lost its lease at work no board could close, and nothing in the
  code excludes it. Faults are bounded.
* `cards_main`: triage selects by `createdAt` and the recovery loop by
  `updatedAt`, oldest first, so a card that can be claimed again and again is
  claimed: strong fairness per card. The cleanups of a running pipeline are
  weakly fair for rows of dead workers, and a living worker answers (weakly
  fair). That the pipeline runs, that Joseph and the faults leave a card alone in
  the end, and that not every fetch returns a terse text (2.5) are assumptions
  on the environment.
* Everything else is checked without fairness.

## 5. Proofs

TLAPS proves, from the assumptions named in each module and nothing else, and
for any number of hosts, calls, turns, cards, workers, runs and passes:

* `PipelineLockProofs`: `TypeCorrect`; `LockIsFenced`, the action property
  `LockMovesFairly`; and `MutualExclusion`, `NoOverlap` for any number of hosts
  and starts. Its inductive invariant `Calm` holds until the first outage: each
  unfinished run holds the lock in the row, and its heartbeat is at most one tick
  old. The argument needs the heartbeat's punctuality, which the model grants to
  processes that reach the database: this is why it ends at the first outage.
  `MainRunsOnly` excludes side runs, which really do overlap (2.1). Further
  `PauseStands` (`PauseHolds`); `DeadLocksAge` (`DeadLockAges`), which needs that
  heartbeats, queued mirrors and remembered tokens are those of living runs
  (`TokensKnown`); and `RowAtRest` (`IdleRowAtRest`). The last rests on `Shown`,
  which orders what a host has written: the file is the newest, then the waiting
  value, then the one in flight, then the row; a row that says "running" was
  written by a host whose file still says so or that has a newer value to send.
  A file says so only beside a live run, so once every run has ended and every
  queue is empty the row cannot.
* `AtsRequestsProofs`: `TypeCorrect`; `LeasesOwned`; `TwoSlots`; `OneFence`;
  `LeasesUnwound`; `CooldownsKept`. The inductive invariant says that from
  taking its slot until the answer is recorded a call owns that slot's lease
  (its token is in the row and `RequestMax` ends before the expiry), and its
  fence until the fence's expiry. Two calls in one slot would own one row under
  two tokens, so at most `Slots` many are out.
* `SearchTaskProofs`: `TypeCorrect`; `NoneOnRetired`; `WatermarkNeverFalls`;
  `BudgetKept`; `NeverOversleeps`; `SearchContinues` (`SearchKept`);
  `WatermarkHonest` (`WatermarkCovered`).
  The watermark needs an invariant that follows a window from the read to the
  completion: a turn that has read the row holds a window that reaches the
  watermark *or* the row has been put off beyond the time of that read, so its
  claim will fail; a holder's window and a saved search reach the watermark. It
  is the comparison `nextRunAt <= now` with the *read's* clock, not a version
  column, that makes this true, and completion puts every row off. `BudgetKept`
  needs `Books`, which relates the row to the requests really sent: if the row
  is of today, it counts all of them but those given away; if a late reservation
  has set it back, all of them are given away already. A late reservation that
  crosses midnight commits in the first hour, when at most that hour's portion
  was on the row. The last two theorems rest on `Place`, which says of a saved
  search and of every turn, holder or not, which pages of its window are handled,
  that a turn which still has the row continues what the row has saved, and that
  what lies between the watermark and the holder's window was given up. A turn
  that lost the row keeps its own pages, and none of its writes arrive.
* `AtsLedgerProofs`: `TypeCorrect`; `CountersExact`; `ManifestsAreFinal`;
  `PhaseIsEarned`; `CursorIsHonest`; `EvidenceKept`; `OwnerMoves`; `ClosedIsDone`;
  and `CycleImplemented`, the refinement of `BoardCycle`: any catalogue, page,
  chunk and segment sizes, any number of claims and turns. The inductive
  invariant `IInv` has a part per concern. `ListingOK`: the saved pages end at
  the listing's offset, at most one is unfinished, and the observations are the
  offset less what that page lacks. `WorkersOK`: a claim that has the batch finds
  the phase its stage is for, so no superseded plan is carried out. `ItemsOK`:
  ordinals are an initial segment, and the counters are sizes of sets of rows.
  `ManifestsOK`: a manifest's items are terminal, and until the listing is
  resolved only full segments are sealed, which is why none has to be extended.
  `TurnsOK`: behind a cursor, and behind what a turn has walked, lie no more
  unhandled items than are counted as errors; as long as the segment has the
  turn's token the turn began at the cursor, so its completion can add the two.
  `StatusOK` ties status and phase together, and `ClosedOK` keeps what the
  finalizer saw. Of each action the proof asks first whether it moves any
  work (`StillOrWorks`); most do not. For the refinement, only the completion of a
  turn that still has its segment accounts for anything (`WhoAccounts`), and the
  items it accounts for were accounted for by nobody before (`AdvanceIs`), since
  segments do not overlap; when the finalizer closes the cycle every cursor is
  at its segment's end, so all items are (`ClosingIs`).
  Two choices in the code (the oldest unfinished page, the lowest due item) are
  modelled by `CHOOSE`; that the least exists is `LeastOf`, by well-foundedness
  of the strict subsets of a finite set rather than by induction.
* `ProviderBudgetProofs`: `RetryLater`; `RefusedUntilRetry`, from which
  `NeverOversleeps` follows. They rest on lemmas about division: the hour that
  releases one request more is a division rounded up and is the first such hour
  (`NextHourFirst`), and lies in the same day (`NextHourToday`).
* `CardQueueProofs`: `TypeCorrect`; `LeasesStayFit`; `Overtaken`. Typing needs
  that a card in a queue has failed fewer than `MaxTries` times (`TriesLeft`).
  `Overtaken` rests on `TokensHeld`, which ties tokens and memory together: a
  token on a row is that of a worker which still has the card, and a worker's
  token is on no card it has lost.
* `ScoringExchangeProofs`: `TypeCorrect`; `Leases`; `Paid`; `Files`; `Settled`;
  `Shown_Done`; `Scores`; `Decisions`. The inductive invariant follows a request
  through the children: those behind it are absent or completed with its own
  file's result (`Walk`), and children complete in order whoever applies them
  (`InOrder`). So when a request commits a child every completed one lies behind
  it, and all hold results of its file (`OneFile`). `Paid` is carried by the
  export's reading (`ReadFresh`): a write that scores a card cancels the export
  that has read it.
* `SameJobProofs`: `TypeCorrect`; `NoCircles`; `Landed`; `HeldStays`;
  `ApartStays`; `ActedOnNotFolded`. A circle is a set of cards each folded into
  another of the set; a fold adds one edge to a card that stands, which is in no
  such set. `ApartStays` needs the lemma that a survivor's chain, followed to
  its end, never leads back to the copy (`ChainNeverReturns`), which uses
  `FoldsEnd`. `Landed` follows the link the survivor had at the fold (`LinkAtFold`):
  whether a sighting moved depends on it, and no later step changes it, because
  a card whose link was taken never took one itself (`LinksPass`). `HeldStays` needs that an export has
  read, and not seen change, only cards that are no folded copies (`ReadInPlay`).

Each inductive invariant was first checked by TLC. Typing is
proved of every module, as the first conjunct of its inductive invariant.
What is assumed of the constants is that lengths, sizes and limits are natural
numbers, positive where the code divides by them or lets them run out (lease
lengths, page, chunk and segment sizes, the default pause), that sets of cards
are finite and an export's cards fit into its children, that the values that
stand for "none" are none of the others, and the assumptions on durations named
in section 2; TLC evaluates all of them in the runs.

Only model-checked: the liveness properties `AbortedRunEnds`, `BoardCloses` and
`CardsSettle`. Liveness (fairness and `ENABLED`) is out of the prover's reach, and
so is induction over data, such as what a fold over rows returns. The theorems
of the ledger hold of `Spec`, and therefore of `FairSpec`. No module uses
`RECURSIVE`.

## 6. Not modelled, and why

Inside the modelled parts: the saved-end recovery of two ATS platforms,
operator resets, admission pressure and lane planning, the hysteresis of the
publication gate, request pacing, incident rows, the share of a provider's hourly
release that is kept for enrichment, wording and telemetry; of the cards, which gate decides a verdict, the
legacy evaluation batch, links Joseph supplies, batches outside a run, the deploy of new scoring
inputs, replay receipts of a completed run, the suppression and retry series of
failed Aim results. The remaining components are listed in
`PROJECT.json` with the reason for each: some are planned (below), some are
policy arithmetic or conversions without state, some are pure I/O.

Hazards without a property: a database outage longer than the lease
(`pipelineState.ts:426`), after which nothing in the code keeps two runs apart;
the saved date filter of a long search (`jobIngestion.ts:4938`), which
`WatermarkCovered` excepts; a delisted task with a dead worker's token
(`ingestionControl.ts:661`), whose row stays as it is.

## 7. Plan

1. Done: lock; ledger; request leases and circuit; search tasks under their
   provider's budget; cards in triage
   and recovery; the manual exchange; combine and separate; the theorems of
   section 5.
2. The gaps noted in `SearchTask` (a date filter that grew too short,
   reconciliation blocked by a dead token) get properties of their own; the
   enrichment share of a release.
3. Lifecycle invariants and cooldowns, applied duplicates.
4. `BrowserSweep`, task mode, supervisor, web discovery queue.
5. Theorems: what the ledger's invariant says beyond its properties (that no
   two turns walk one segment under one token, that a closed cycle rests); the
   extent of `NoOverlap` after an outage that ended; lemmas of `ProviderBudget`
   about months.
