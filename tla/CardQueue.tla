------------------------------ MODULE CardQueue ------------------------------
(***************************************************************************)
(* How a card gets its description and its local verdict.                  *)
(*                                                                         *)
(* Local triage leases queued cards one by one; a card whose text cannot   *)
(* be judged goes to description recovery, which holds a batch of cards    *)
(* under the id of its run and sends them back.  Both write only where the *)
(* row still carries their token.  Joseph edits, links, decides, restores  *)
(* and refreshes cards meanwhile; workers die or are overtaken by the      *)
(* cleanups that look for rows nobody has written for some minutes.        *)
(*                                                                         *)
(* Elapsed time is left out: a cleanup may take any row whose worker died, *)
(* and, within the bounds, the row of a worker that is merely slow.        *)
(***************************************************************************)
EXTENDS Integers, FiniteSets

CONSTANTS
  Card,
  Structured,  \* cards whose source is an API: a terse text of theirs is enough
  Worker,      \* a pass of local triage, a recovery run or a refresh of a link
  None,
  Gone,        \* the token of a worker that no longer exists
  MaxTries,    \* failures a card may have, LOCAL_SCORING_TERMINAL_ATTEMPTS
  MaxWaits,    \* refusals it may wait out, MAX_JD_ENRICHMENT_DEFERRALS
  MaxMoves,    \* bound on what Joseph does
  MaxFaults    \* bound on deaths, stops, slow workers and ambiguous answers

Text == {"poor", "terse", "full"}

ASSUME TokenAssumption == None \notin Worker /\ Gone \notin Worker /\ None # Gone
ASSUME LimitAssumption == MaxTries \in Nat \ {0} /\ MaxWaits \in Nat \ {0}
ASSUME BoundAssumption == MaxMoves \in Nat /\ MaxFaults \in Nat /\ Structured \subseteq Card

VARIABLES
  active,      \* the status is one that is scored: waiting for a decision, or inbox
  scoring,     \* scoringStatus
  lease,       \* batchJobId: the triage pass that holds the card
  jd,          \* jdBatchId: the recovery run, or the refresh, that holds it
  tries,       \* scoreAttempts
  waits,       \* jdDeferrals
  text,        \* the stored description
  kind,        \* what a worker is doing
  todo,        \* the cards it has claimed and not answered
  read,        \* the texts it works on
  fresh,       \* the row is as the worker read it
  lost,        \* history: cards whose claim somebody has taken back
  moves, faults

cardVars == <<active, scoring, lease, jd, tries, waits, text>>
workVars == <<kind, todo, read, fresh, lost>>
vars == <<active, scoring, lease, jd, tries, waits, text, kind, todo, read, fresh, lost, moves, faults>>

Token == Worker \cup {None, Gone}

TypeOK ==
  /\ active \in [Card -> BOOLEAN]
  /\ scoring \in [Card -> {"queued", "scoring", "needs_jd", "scored", "skipped", "failed"}]
  /\ lease \in [Card -> Token] /\ jd \in [Card -> Token]
  /\ tries \in [Card -> 0..MaxTries] /\ waits \in [Card -> 0..(MaxWaits - 1)]
  /\ text \in [Card -> Text]
  /\ kind \in [Worker -> {"idle", "triage", "recovery", "refresh"}]
  /\ todo \in [Worker -> SUBSET Card]
  /\ read \in [Worker -> [Card -> Text]]
  /\ fresh \in [Worker -> BOOLEAN]
  /\ lost \in [Worker -> SUBSET Card]
  /\ moves \in 0..MaxMoves /\ faults \in 0..MaxFaults

Unread == [c \in Card |-> "poor"]

Init ==
  /\ active = [c \in Card |-> TRUE]
  /\ scoring \in [Card -> {"queued", "needs_jd"}]
  /\ lease = [c \in Card |-> None] /\ jd = [c \in Card |-> None]
  /\ tries = [c \in Card |-> 0] /\ waits = [c \in Card |-> 0]
  /\ text \in [Card -> Text]
  /\ kind = [w \in Worker |-> "idle"]
  /\ todo = [w \in Worker |-> {}]
  /\ read = [w \in Worker |-> Unread]
  /\ fresh = [w \in Worker |-> TRUE]
  /\ lost = [w \in Worker |-> {}]
  /\ moves = 0 /\ faults = 0

-----------------------------------------------------------------------------
Move == moves < MaxMoves /\ moves' = moves + 1 /\ faults' = faults

Fault == faults < MaxFaults /\ faults' = faults + 1 /\ moves' = moves

\* The text can be judged as it is stored, given where the card comes from.
Scorable(c, t) == t = "full" \/ (t = "terse" /\ c \in Structured)

\* A worker takes the cards S, and reads them after the claim.
Begin(w, k, S) ==
  /\ kind' = [kind EXCEPT ![w] = k]
  /\ todo' = [todo EXCEPT ![w] = S]
  /\ read' = [read EXCEPT ![w] = [c \in Card |-> IF c \in S THEN text[c] ELSE "poor"]]
  /\ fresh' = [fresh EXCEPT ![w] = TRUE]
  /\ lost' = [lost EXCEPT ![w] = {}]

End(w) ==
  /\ kind' = [kind EXCEPT ![w] = "idle"]
  /\ todo' = [todo EXCEPT ![w] = {}]
  /\ read' = [read EXCEPT ![w] = Unread]
  /\ fresh' = [fresh EXCEPT ![w] = TRUE]
  /\ lost' = [lost EXCEPT ![w] = {}]

\* A write of the card by somebody else: it is no longer as its workers read it.
Touch(c) ==
  /\ fresh' = [w \in Worker |-> fresh[w] /\ c \notin todo[w]]
  /\ UNCHANGED <<kind, todo, read, lost>>

\* The same, and whoever held the card holds it no longer.
Overtake(c) ==
  /\ fresh' = [w \in Worker |-> fresh[w] /\ c \notin todo[w]]
  /\ lost' = [w \in Worker |-> IF c \in todo[w] THEN lost[w] \cup {c} ELSE lost[w]]
  /\ UNCHANGED <<kind, todo, read>>

-----------------------------------------------------------------------------
\* Local triage.

Claim(w, c) ==
  /\ kind[w] = "idle"
  /\ scoring[c] = "queued" /\ active[c] /\ lease[c] = None /\ jd[c] = None
  /\ scoring' = [scoring EXCEPT ![c] = "scoring"]
  /\ lease' = [lease EXCEPT ![c] = w]
  /\ Begin(w, "triage", {c})
  /\ UNCHANGED <<active, jd, tries, waits, text, moves, faults>>

Holds_AnyToken(w, c) == scoring[c] = "scoring" /\ active[c]   \* mutant
Holds(w, c) == lease[c] = w /\ scoring[c] = "scoring" /\ active[c]

\* A verdict: passed on to scoring, or out; an imported card keeps its status.
Judged(w, c) ==
  /\ kind[w] = "triage" /\ c \in todo[w] /\ Holds(w, c)
  /\ \E s \in {"scored", "skipped"}, a \in BOOLEAN :
       /\ s = "scored" => a
       /\ scoring' = [scoring EXCEPT ![c] = s]
       /\ active' = [active EXCEPT ![c] = a]
  /\ \E t \in {text[c], read[w][c], "full"} : text' = [text EXCEPT ![c] = t]
  /\ lease' = [lease EXCEPT ![c] = None]
  /\ tries' = [tries EXCEPT ![c] = 0]
  /\ End(w)
  /\ UNCHANGED <<jd, waits, moves, faults>>

\* The card has failed as often as it may: it is Joseph's, or it is dropped
\* when its source never shows more than a snippet.
GiveUp(c) ==
  /\ tries' = [tries EXCEPT ![c] = MaxTries]
  /\ \/ scoring' = [scoring EXCEPT ![c] = "failed"] /\ active' = active
     \/ scoring' = [scoring EXCEPT ![c] = "skipped"] /\ active' = [active EXCEPT ![c] = FALSE]

Failure_Uncounted(c) ==   \* mutant
  /\ scoring' = [scoring EXCEPT ![c] = "needs_jd"]
  /\ UNCHANGED <<active, tries>>
\* One more failure: back to recovery, or the end.
Failure(c) ==
  \/ tries[c] + 1 >= MaxTries /\ GiveUp(c)
  \/ /\ tries[c] + 1 < MaxTries
     /\ tries' = [tries EXCEPT ![c] = tries[c] + 1]
     /\ scoring' = [scoring EXCEPT ![c] = "needs_jd"]
     /\ active' = active

\* No text that can be judged was found.
NeedsReview(w, c) ==
  /\ kind[w] = "triage" /\ c \in todo[w] /\ Holds(w, c)
  /\ ~Scorable(c, read[w][c])
  /\ Failure(c)
  /\ lease' = [lease EXCEPT ![c] = None]
  /\ End(w)
  /\ UNCHANGED <<jd, waits, text, moves, faults>>

\* The provider was not asked.  A card that has waited long enough fails, and
\* keeps the token of a pass that will not come back to it.
TriageRefused(w, c) ==
  /\ kind[w] = "triage" /\ c \in todo[w] /\ Holds(w, c)
  /\ ~Scorable(c, read[w][c])
  /\ \/ /\ waits[c] + 1 < MaxWaits
        /\ scoring' = [scoring EXCEPT ![c] = "needs_jd"]
        /\ waits' = [waits EXCEPT ![c] = waits[c] + 1]
        /\ lease' = [lease EXCEPT ![c] = None]
        /\ tries' = tries
     \/ /\ waits[c] + 1 >= MaxWaits
        /\ scoring' = [scoring EXCEPT ![c] = "failed"]
        /\ waits' = [waits EXCEPT ![c] = 0]
        /\ lease' = [lease EXCEPT ![c] = Gone]
        /\ tries' = [tries EXCEPT ![c] = MaxTries]
  /\ End(w)
  /\ UNCHANGED <<active, jd, text, moves, faults>>

\* An exception, or an invariant of the lifecycle that the write would break.
TriageFails(w, c) ==
  /\ kind[w] = "triage" /\ c \in todo[w] /\ Holds(w, c)
  /\ \E n \in {tries[c] + 1, MaxTries} :
       /\ tries' = [tries EXCEPT ![c] = n]
       /\ scoring' = [scoring EXCEPT ![c] = IF n >= MaxTries THEN "failed" ELSE "queued"]
  /\ lease' = [lease EXCEPT ![c] = None]
  /\ End(w)
  /\ UNCHANGED <<active, jd, waits, text, moves, faults>>

\* The guarded write found another row, or, after a check on the network, a row
\* that was written meanwhile: the pass gives back what it still holds.
TriageMissed(w, c) ==
  /\ kind[w] = "triage" /\ c \in todo[w]
  /\ ~Holds(w, c) \/ ~fresh[w]
  /\ IF lease[c] = w /\ scoring[c] = "scoring"
     THEN /\ scoring' = [scoring EXCEPT ![c] = IF active[c] THEN "queued" ELSE "scored"]
          /\ lease' = [lease EXCEPT ![c] = None]
     ELSE UNCHANGED <<scoring, lease>>
  /\ End(w)
  /\ UNCHANGED <<active, jd, tries, waits, text, moves, faults>>

-----------------------------------------------------------------------------
\* Description recovery.

Needy(c) == scoring[c] = "needs_jd" /\ active[c] /\ jd[c] = None /\ tries[c] < MaxTries

StartRun(w, S) ==
  /\ kind[w] = "idle"
  /\ S # {} /\ \A c \in S : Needy(c)
  /\ jd' = [c \in Card |-> IF c \in S THEN w ELSE jd[c]]
  /\ Begin(w, "recovery", S)
  /\ UNCHANGED <<active, scoring, lease, tries, waits, text, moves, faults>>

\* The pipeline's loop starts a run only while none is under way.
LoopRun(w, S) ==
  /\ \A c \in Card : scoring[c] = "needs_jd" /\ active[c] => jd[c] = None
  /\ StartRun(w, S)

Owns(w, c) == jd[c] = w /\ scoring[c] = "needs_jd" /\ active[c]

Answered(w, c) ==
  /\ todo' = [todo EXCEPT ![w] = todo[w] \ {c}]
  /\ UNCHANGED <<kind, read, fresh, lost>>

\* Closed, in another language or ruled out by its facts, an imported card being
\* passed on instead; or the text found is that of another card.
RecoverEnds(w, c) ==
  /\ kind[w] = "recovery" /\ c \in todo[w] /\ Owns(w, c)
  /\ \/ /\ \E a \in BOOLEAN :
             /\ scoring' = [scoring EXCEPT ![c] = IF a THEN "scored" ELSE "skipped"]
             /\ active' = [active EXCEPT ![c] = a]
        /\ tries' = [tries EXCEPT ![c] = 0]
        /\ text' = text
     \/ /\ ~Scorable(c, read[w][c])
        /\ scoring' = [scoring EXCEPT ![c] = "skipped"]
        /\ active' = [active EXCEPT ![c] = FALSE]
        /\ text' = [text EXCEPT ![c] = "full"]
        /\ tries' = tries
  /\ jd' = [jd EXCEPT ![c] = None] /\ lease' = [lease EXCEPT ![c] = None]
  /\ Answered(w, c)
  /\ UNCHANGED <<waits, moves, faults>>

\* The stored text will do, or one was found; a structured answer may be terse.
RecoverReady(w, c) ==
  /\ kind[w] = "recovery" /\ c \in todo[w] /\ Owns(w, c)
  /\ \/ /\ Scorable(c, read[w][c])
        /\ UNCHANGED <<waits, text, moves, faults>>
     \/ /\ ~Scorable(c, read[w][c])
        /\ waits' = [waits EXCEPT ![c] = 0]
        /\ \/ text' = [text EXCEPT ![c] = "full"] /\ UNCHANGED <<moves, faults>>
           \/ text' = [text EXCEPT ![c] = "terse"] /\ Fault
  /\ scoring' = [scoring EXCEPT ![c] = "queued"]
  /\ jd' = [jd EXCEPT ![c] = None] /\ lease' = [lease EXCEPT ![c] = None]
  /\ tries' = [tries EXCEPT ![c] = 0]
  /\ Answered(w, c)
  /\ UNCHANGED active

\* Nothing usable came back, or the request failed.
RecoverFails(w, c) ==
  /\ kind[w] = "recovery" /\ c \in todo[w] /\ Owns(w, c)
  /\ ~Scorable(c, read[w][c])
  /\ Failure(c)
  /\ jd' = [jd EXCEPT ![c] = None]
  /\ Answered(w, c)
  /\ UNCHANGED <<lease, waits, text, moves, faults>>

\* The provider was not asked.
RecoverRefused(w, c) ==
  /\ kind[w] = "recovery" /\ c \in todo[w] /\ Owns(w, c)
  /\ ~Scorable(c, read[w][c])
  /\ \/ /\ waits[c] + 1 < MaxWaits
        /\ waits' = [waits EXCEPT ![c] = waits[c] + 1]
        /\ jd' = [jd EXCEPT ![c] = None] /\ lease' = [lease EXCEPT ![c] = None]
        /\ UNCHANGED <<scoring, tries>>
     \/ /\ waits[c] + 1 >= MaxWaits
        /\ waits' = [waits EXCEPT ![c] = 0]
        /\ scoring' = [scoring EXCEPT ![c] = "failed"]
        /\ tries' = [tries EXCEPT ![c] = MaxTries]
        /\ UNCHANGED <<jd, lease>>
  /\ Answered(w, c)
  /\ UNCHANGED <<active, text, moves, faults>>

RecoverMissed(w, c) ==
  /\ kind[w] = "recovery" /\ c \in todo[w] /\ ~Owns(w, c)
  /\ Answered(w, c)
  /\ UNCHANGED <<active, scoring, lease, jd, tries, waits, text, moves, faults>>

Released(w) == [c \in Card |-> IF jd[c] = w THEN None ELSE jd[c]]

FinishRun(w) ==
  /\ kind[w] = "recovery" /\ todo[w] = {}
  /\ jd' = Released(w)
  /\ End(w)
  /\ UNCHANGED <<active, scoring, lease, tries, waits, text, moves, faults>>

\* The pipeline is stopped: the run leaves its other cards as they are.
AbortRun(w) ==
  /\ kind[w] = "recovery" /\ todo[w] # {}
  /\ Fault
  /\ jd' = Released(w)
  /\ End(w)
  /\ UNCHANGED <<active, scoring, lease, tries, waits, text>>

-----------------------------------------------------------------------------
\* Joseph refreshes a card from its link.  Saving the link comes first and takes
\* the card from everybody (LinkKept); the claim refuses a row written since.

StartRefresh(w, c) ==
  /\ kind[w] = "idle" /\ lease[c] = None /\ jd[c] = None
  /\ Move
  /\ jd' = [jd EXCEPT ![c] = w]
  /\ scoring' = [scoring EXCEPT ![c] =
       IF scoring[c] # "scoring" THEN scoring[c] ELSE IF active[c] THEN "queued" ELSE "scored"]
  /\ kind' = [kind EXCEPT ![w] = "refresh"]
  /\ todo' = [todo EXCEPT ![w] = {c}]
  /\ read' = read
  /\ fresh' = [v \in Worker |-> v = w \/ (fresh[v] /\ c \notin todo[v])]
  /\ lost' = [v \in Worker |-> IF v = w THEN {} ELSE IF c \in todo[v] THEN lost[v] \cup {c} ELSE lost[v]]
  /\ UNCHANGED <<active, lease, tries, waits, text>>

\* The details are saved, with or without a new evaluation of the card.
RefreshLands(w, c) ==
  /\ kind[w] = "refresh" /\ c \in todo[w]
  /\ jd[c] = w /\ fresh[w] /\ lease[c] = None
  /\ jd' = [jd EXCEPT ![c] = None]
  /\ \E t \in Text : text' = [text EXCEPT ![c] = t]
  /\ \/ UNCHANGED <<active, scoring, tries>>
     \/ /\ \E a \in {TRUE, active[c]} : active' = [active EXCEPT ![c] = a]
        /\ scoring' = [scoring EXCEPT ![c] = "queued"]
        /\ tries' = [tries EXCEPT ![c] = 0]
  /\ End(w)
  /\ UNCHANGED <<lease, waits, moves, faults>>

\* The page could not be read, or the card was written meanwhile.
RefreshEnds(w) ==
  /\ kind[w] = "refresh"
  /\ jd' = Released(w)
  /\ End(w)
  /\ UNCHANGED <<active, scoring, lease, tries, waits, text, moves, faults>>

-----------------------------------------------------------------------------
\* A process dies: its tokens stay on the rows and nobody answers to them.
Crash(w) ==
  /\ kind[w] # "idle"
  /\ Fault
  /\ lease' = [c \in Card |-> IF lease[c] = w THEN Gone ELSE lease[c]]
  /\ jd' = [c \in Card |-> IF jd[c] = w THEN Gone ELSE jd[c]]
  /\ End(w)
  /\ UNCHANGED <<active, scoring, tries, waits, text>>

\* A row nobody has written for minutes: its worker died, or is slow.
Stale(token) ==
  \/ token = Gone /\ UNCHANGED <<moves, faults>>
  \/ token \in Worker /\ Fault

\* Recovery's own cleanup charges the card for the interrupted run.
ChargeStale(c) ==
  /\ scoring[c] = "needs_jd" /\ active[c] /\ Stale(jd[c])
  /\ jd' = [jd EXCEPT ![c] = None]
  /\ IF tries[c] < MaxTries - 1
     THEN tries' = [tries EXCEPT ![c] = tries[c] + 1] /\ scoring' = scoring
     ELSE tries' = [tries EXCEPT ![c] = MaxTries] /\ scoring' = [scoring EXCEPT ![c] = "failed"]
  /\ Overtake(c)
  /\ UNCHANGED <<active, lease, waits, text>>

ClearStale(c) ==
  /\ Stale(jd[c])
  /\ jd' = [jd EXCEPT ![c] = None]
  /\ Overtake(c)
  /\ UNCHANGED <<active, scoring, lease, tries, waits, text>>

RecoverLease_Kept(c) ==   \* mutant
  /\ scoring[c] = "scoring" /\ Stale(lease[c])
  /\ scoring' = [scoring EXCEPT ![c] = "queued"]
  /\ Overtake(c)
  /\ UNCHANGED <<active, lease, jd, tries, waits, text>>
RecoverLease(c) ==
  /\ scoring[c] = "scoring" /\ Stale(lease[c])
  /\ lease' = [lease EXCEPT ![c] = None]
  /\ scoring' = [scoring EXCEPT ![c] = "queued"]
  /\ Overtake(c)
  /\ UNCHANGED <<active, jd, tries, waits, text>>

-----------------------------------------------------------------------------
\* Joseph.

\* An edit after which the card is evaluated anew.  It puts a card of the inbox
\* back to waiting, which is scored as well; the same request may carry a decision
\* or restore the card.
Edit(c) ==
  /\ Move
  /\ \E t \in Text, s \in {"queued", "needs_jd"}, a \in BOOLEAN :
       /\ text' = [text EXCEPT ![c] = t]
       /\ scoring' = [scoring EXCEPT ![c] = s]
       /\ active' = [active EXCEPT ![c] = a]
  /\ lease' = [lease EXCEPT ![c] = None] /\ jd' = [jd EXCEPT ![c] = None]
  /\ tries' = [tries EXCEPT ![c] = 0]
  /\ Overtake(c)
  /\ UNCHANGED waits

\* An edit of the description that keeps the evaluation.
EditKept(c) ==
  /\ Move
  /\ \E t \in Text : text' = [text EXCEPT ![c] = t]
  /\ Touch(c)
  /\ UNCHANGED <<active, scoring, lease, jd, tries, waits>>

\* A new link takes the card from whoever reads the old one.
LinkKept(c) ==
  /\ Move
  /\ lease' = [lease EXCEPT ![c] = None] /\ jd' = [jd EXCEPT ![c] = None]
  /\ Overtake(c)
  /\ UNCHANGED <<active, scoring, tries, waits, text>>

\* Joseph decides on the card, or restores it.
Decide(c) ==
  /\ Move
  /\ active' = [active EXCEPT ![c] = ~active[c]]
  /\ Touch(c)
  /\ UNCHANGED <<scoring, lease, jd, tries, waits, text>>

RetryFailed(c) ==
  /\ scoring[c] = "failed" /\ active[c] /\ lease[c] = None /\ jd[c] = None
  /\ Move
  /\ scoring' = [scoring EXCEPT ![c] = "needs_jd"]
  /\ tries' = [tries EXCEPT ![c] = 0] /\ waits' = [waits EXCEPT ![c] = 0]
  /\ Touch(c)
  /\ UNCHANGED <<active, lease, jd, text>>

-----------------------------------------------------------------------------
Answer(w, c) ==
  \/ Judged(w, c) \/ NeedsReview(w, c) \/ TriageRefused(w, c) \/ TriageFails(w, c)
  \/ TriageMissed(w, c)

Recover(w, c) ==
  \/ RecoverEnds(w, c) \/ RecoverReady(w, c) \/ RecoverFails(w, c) \/ RecoverRefused(w, c)
  \/ RecoverMissed(w, c)

Next ==
  \/ \E w \in Worker :
       \/ \E c \in Card : \/ Claim(w, c) \/ Answer(w, c) \/ Recover(w, c)
                         \/ StartRefresh(w, c) \/ RefreshLands(w, c)
       \/ \E S \in SUBSET Card : StartRun(w, S)
       \/ FinishRun(w) \/ AbortRun(w) \/ RefreshEnds(w) \/ Crash(w)
  \/ \E c \in Card :
       \/ ChargeStale(c) \/ ClearStale(c) \/ RecoverLease(c)
       \/ Edit(c) \/ EditKept(c) \/ LinkKept(c) \/ Decide(c) \/ RetryFailed(c)

Spec == Init /\ [][Next]_vars

\* Triage and the loop take the oldest cards first, so a card that can be taken
\* again and again is taken.  A living worker answers, and the cleanups run.
Fairness ==
  /\ \A c \in Card :
       /\ SF_vars(\E w \in Worker : Claim(w, c))
       /\ SF_vars(\E w \in Worker, S \in SUBSET Card : c \in S /\ LoopRun(w, S))
       /\ WF_vars(\/ jd[c] = Gone /\ (ChargeStale(c) \/ ClearStale(c))
                  \/ lease[c] = Gone /\ RecoverLease(c))
  /\ \A w \in Worker :
       WF_vars(\/ \E c \in Card : Answer(w, c) \/ Recover(w, c) \/ RefreshLands(w, c)
               \/ FinishRun(w) \/ RefreshEnds(w))

FairSpec == Spec /\ Fairness

-----------------------------------------------------------------------------
\* A card that waits in a queue is free of triage's lease: a requeue that left
\* one behind would make the card unclaimable.  The two tokens never meet, and
\* only a card that starved in triage keeps the lease of a pass that is over.
LeasesFit == \A c \in Card :
  /\ lease[c] # None => scoring[c] = "scoring" \/ (scoring[c] = "failed" /\ lease[c] = Gone)
  /\ jd[c] # None => lease[c] = None /\ scoring[c] # "scoring"

State(c) == <<active[c], scoring[c], lease[c], jd[c], tries[c], waits[c], text[c]>>

\* A worker that was overtaken, by a cleanup that took it for dead, by an edit,
\* a new link or a refresh, leaves the card as the others made it, however late
\* it answers and however it ends.
LeftAlone == \A w \in Worker, c \in Card :
  c \in lost[w] /\ (kind'[w] # kind[w] \/ todo'[w] # todo[w]) => State(c)' = State(c)

OvertakenWritesNothing == [][LeftAlone]_vars

Waiting(c) == active[c] /\ (scoring[c] \in {"queued", "needs_jd"} \/ (scoring[c] = "scoring" /\ lease[c] # None))

\* No card waits for ever between triage and recovery: once Joseph and the
\* faults leave it alone, refusals, failures, interrupted runs and lost leases
\* are charged to it until it is judged or fails for good, and it never waits
\* behind a batch that nobody works on.
CardsSettle == <>[](\A c \in Card : ~Waiting(c))
=============================================================================
