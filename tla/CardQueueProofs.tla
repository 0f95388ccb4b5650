--------------------------- MODULE CardQueueProofs ---------------------------
(***************************************************************************)
(* Proofs about CardQueue: for any number of cards and workers the tokens   *)
(* on a row fit together, and a worker that was overtaken writes nothing.   *)
(***************************************************************************)
EXTENDS CardQueue, TLAPS

\* A card that is still in a queue, or being judged, has a try left.
TriesLeft == \A c \in Card :
  scoring[c] \in {"queued", "scoring", "needs_jd"} => tries[c] < MaxTries

\* A token on a row is that of a worker at work on it, one whose claim nobody
\* has taken back, or of nobody.
TokensHeld == \A w \in Worker :
  /\ kind[w] = "idle" => todo[w] = {} /\ lost[w] = {}
  /\ \A c \in Card :
       /\ lease[c] = w => kind[w] = "triage" /\ todo[w] = {c}
       /\ jd[c] = w => kind[w] = "recovery" \/ (kind[w] = "refresh" /\ todo[w] = {c})
       /\ c \in lost[w] => lease[c] # w /\ jd[c] # w

IInv == TypeOK /\ TriesLeft /\ LeasesFit /\ TokensHeld

\* Initial states satisfy the invariant.
LEMMA InitInv == Init => IInv
  BY TokenAssumption, LimitAssumption, BoundAssumption
  DEF Init, IInv, TypeOK, TriesLeft, LeasesFit, TokensHeld, Token, Text, Unread

\* Every step of triage, recovery, the cleanups and Joseph keeps the types.
LEMMA TypeNext == ASSUME TypeOK, TriesLeft, [Next]_vars PROVE TypeOK'
<1>1. ASSUME NEW w \in Worker, NEW c \in Card, Claim(w, c) PROVE TypeOK'
  BY <1>1, TokenAssumption, LimitAssumption, BoundAssumption DEF TypeOK, TriesLeft, Token, Text, Claim, Begin
<1>2. ASSUME NEW w \in Worker, NEW c \in Card, Judged(w, c) PROVE TypeOK'
  <2>1. active' \in [Card -> BOOLEAN]
    BY <1>2 DEF TypeOK, Judged
  <2>2. scoring' \in [Card -> {"queued", "scoring", "needs_jd", "scored", "skipped", "failed"}]
    BY <1>2 DEF TypeOK, Judged
  <2>3. lease' \in [Card -> Token] /\ jd' \in [Card -> Token]
    BY <1>2 DEF TypeOK, Judged, Token
  <2>4. tries' \in [Card -> 0..MaxTries]
    BY <1>2, LimitAssumption DEF TypeOK, Judged
  <2>5. text' \in [Card -> Text]
    <3>1. text[c] \in Text /\ read[w][c] \in Text /\ text \in [Card -> Text]
      BY DEF TypeOK
    <3>2. \E t \in Text : text' = [text EXCEPT ![c] = t]
      BY <1>2, <3>1 DEF Judged, Text
    <3> QED
      BY <3>1, <3>2
  <2>6. /\ kind' \in [Worker -> {"idle", "triage", "recovery", "refresh"}] /\ todo' \in [Worker -> SUBSET Card]
       /\ read' \in [Worker -> [Card -> Text]] /\ fresh' \in [Worker -> BOOLEAN]
       /\ lost' \in [Worker -> SUBSET Card]
    BY <1>2 DEF TypeOK, Text, Judged, End, Unread
  <2> QED
    BY <1>2, <2>1, <2>2, <2>3, <2>4, <2>5, <2>6 DEF TypeOK, Judged
<1>3. ASSUME NEW w \in Worker, NEW c \in Card, NeedsReview(w, c) PROVE TypeOK'
  <2>1. active' \in [Card -> BOOLEAN]
    BY <1>3 DEF TypeOK, NeedsReview, Failure, GiveUp
  <2>2. scoring' \in [Card -> {"queued", "scoring", "needs_jd", "scored", "skipped", "failed"}]
    BY <1>3 DEF TypeOK, NeedsReview, Failure, GiveUp
  <2>3. lease' \in [Card -> Token] /\ jd' \in [Card -> Token]
    BY <1>3 DEF TypeOK, NeedsReview, Failure, GiveUp, Token
  <2>4. tries' \in [Card -> 0..MaxTries]
    <3>1. MaxTries \in Nat \ {0} /\ tries \in [Card -> 0..MaxTries]
      BY LimitAssumption DEF TypeOK
    <3>2. CASE tries[c] + 1 < MaxTries
      BY <1>3, <3>1, <3>2 DEF NeedsReview, Failure, GiveUp
    <3>3. CASE ~(tries[c] + 1 < MaxTries)
      BY <1>3, <3>1, <3>3 DEF NeedsReview, Failure, GiveUp
    <3> QED
      BY <3>2, <3>3
  <2>5. waits' \in [Card -> 0..(MaxWaits - 1)]
    BY <1>3, LimitAssumption DEF TypeOK, NeedsReview, Failure, GiveUp
  <2>6. text' \in [Card -> Text]
    BY <1>3 DEF TypeOK, NeedsReview, Failure, GiveUp, Text
  <2>7. /\ kind' \in [Worker -> {"idle", "triage", "recovery", "refresh"}] /\ todo' \in [Worker -> SUBSET Card]
       /\ read' \in [Worker -> [Card -> Text]] /\ fresh' \in [Worker -> BOOLEAN]
       /\ lost' \in [Worker -> SUBSET Card]
    BY <1>3 DEF TypeOK, Text, NeedsReview, Holds, Failure, GiveUp, End, Unread
  <2>8. moves' \in 0..MaxMoves /\ faults' \in 0..MaxFaults
    BY <1>3, BoundAssumption DEF TypeOK, NeedsReview, Holds, Failure, GiveUp, End, Unread
  <2> QED
    BY <2>1, <2>2, <2>3, <2>4, <2>5, <2>6, <2>7, <2>8 DEF TypeOK
<1>4. ASSUME NEW w \in Worker, NEW c \in Card, TriageRefused(w, c) PROVE TypeOK'
  <2>1. active' \in [Card -> BOOLEAN]
    BY <1>4 DEF TypeOK, TriageRefused
  <2>2. scoring' \in [Card -> {"queued", "scoring", "needs_jd", "scored", "skipped", "failed"}]
    <3>1. scoring \in [Card -> {"queued", "scoring", "needs_jd", "scored", "skipped", "failed"}]
      BY DEF TypeOK
    <3>2. scoring' = [scoring EXCEPT ![c] = "needs_jd"] \/ scoring' = [scoring EXCEPT ![c] = "failed"]
      BY <1>4 DEF TriageRefused
    <3> QED
      BY <3>1, <3>2
  <2>3. lease' \in [Card -> Token] /\ jd' \in [Card -> Token]
    BY <1>4 DEF TypeOK, TriageRefused, Token
  <2>4. tries' \in [Card -> 0..MaxTries]
    BY <1>4, LimitAssumption DEF TypeOK, TriageRefused
  <2>5. waits' \in [Card -> 0..(MaxWaits - 1)]
    <3>1. MaxWaits \in Nat \ {0} /\ waits \in [Card -> 0..(MaxWaits - 1)]
      BY LimitAssumption DEF TypeOK
    <3>2. CASE waits[c] + 1 < MaxWaits
      BY <1>4, <3>1, <3>2 DEF TriageRefused
    <3>3. CASE ~(waits[c] + 1 < MaxWaits)
      BY <1>4, <3>1, <3>3 DEF TriageRefused
    <3> QED
      BY <3>2, <3>3
  <2>6. text' \in [Card -> Text]
    BY <1>4 DEF TypeOK, TriageRefused, Text
  <2>7. /\ kind' \in [Worker -> {"idle", "triage", "recovery", "refresh"}] /\ todo' \in [Worker -> SUBSET Card]
       /\ read' \in [Worker -> [Card -> Text]] /\ fresh' \in [Worker -> BOOLEAN]
       /\ lost' \in [Worker -> SUBSET Card]
    BY <1>4 DEF TypeOK, Text, TriageRefused, Holds, End, Unread
  <2>8. moves' \in 0..MaxMoves /\ faults' \in 0..MaxFaults
    BY <1>4, BoundAssumption DEF TypeOK, TriageRefused, Holds, End, Unread
  <2> QED
    BY <2>1, <2>2, <2>3, <2>4, <2>5, <2>6, <2>7, <2>8 DEF TypeOK
<1>5. ASSUME NEW w \in Worker, NEW c \in Card, TriageFails(w, c) PROVE TypeOK'
  BY <1>5, TokenAssumption, LimitAssumption, BoundAssumption DEF TypeOK, TriesLeft, Token, Text, TriageFails, Holds, End, Unread
<1>6. ASSUME NEW w \in Worker, NEW c \in Card, TriageMissed(w, c) PROVE TypeOK'
  BY <1>6, TokenAssumption, LimitAssumption, BoundAssumption DEF TypeOK, TriesLeft, Token, Text, TriageMissed, End, Unread
<1>7. ASSUME NEW w \in Worker, NEW S \in SUBSET Card, StartRun(w, S) PROVE TypeOK'
  BY <1>7, TokenAssumption, LimitAssumption, BoundAssumption DEF TypeOK, TriesLeft, Token, Text, StartRun, Needy, Begin
<1>8. ASSUME NEW w \in Worker, NEW c \in Card, RecoverEnds(w, c) PROVE TypeOK'
  <2>1. active' \in [Card -> BOOLEAN]
    BY <1>8 DEF TypeOK, RecoverEnds
  <2>2. scoring' \in [Card -> {"queued", "scoring", "needs_jd", "scored", "skipped", "failed"}]
    BY <1>8 DEF TypeOK, RecoverEnds
  <2>3. lease' \in [Card -> Token] /\ jd' \in [Card -> Token]
    BY <1>8 DEF TypeOK, RecoverEnds, Token
  <2>4. tries' \in [Card -> 0..MaxTries]
    BY <1>8, LimitAssumption DEF TypeOK, RecoverEnds
  <2>5. text' \in [Card -> Text]
    BY <1>8 DEF TypeOK, RecoverEnds, Text
  <2>6. todo' \in [Worker -> SUBSET Card]
    BY <1>8 DEF TypeOK, RecoverEnds, Answered
  <2> QED
    BY <1>8, <2>1, <2>2, <2>3, <2>4, <2>5, <2>6 DEF TypeOK, RecoverEnds, Answered
<1>9. ASSUME NEW w \in Worker, NEW c \in Card, RecoverReady(w, c) PROVE TypeOK'
  <2>1. active' \in [Card -> BOOLEAN]
    BY <1>9 DEF TypeOK, RecoverReady
  <2>2. scoring' \in [Card -> {"queued", "scoring", "needs_jd", "scored", "skipped", "failed"}]
    BY <1>9 DEF TypeOK, RecoverReady
  <2>3. lease' \in [Card -> Token] /\ jd' \in [Card -> Token]
    BY <1>9 DEF TypeOK, RecoverReady, Token
  <2>4. tries' \in [Card -> 0..MaxTries]
    BY <1>9, LimitAssumption DEF TypeOK, RecoverReady
  <2>5. waits' \in [Card -> 0..(MaxWaits - 1)]
    <3>1. MaxWaits \in Nat \ {0} /\ waits \in [Card -> 0..(MaxWaits - 1)]
      BY LimitAssumption DEF TypeOK
    <3>2. CASE waits[c] + 1 < MaxWaits
      BY <1>9, <3>1, <3>2 DEF RecoverReady
    <3>3. CASE ~(waits[c] + 1 < MaxWaits)
      BY <1>9, <3>1, <3>3 DEF RecoverReady
    <3> QED
      BY <3>2, <3>3
  <2>6. text' \in [Card -> Text]
    BY <1>9 DEF TypeOK, RecoverReady, Text
  <2>7. /\ kind' \in [Worker -> {"idle", "triage", "recovery", "refresh"}] /\ todo' \in [Worker -> SUBSET Card]
       /\ read' \in [Worker -> [Card -> Text]] /\ fresh' \in [Worker -> BOOLEAN]
       /\ lost' \in [Worker -> SUBSET Card]
    BY <1>9 DEF TypeOK, Text, RecoverReady, Owns, Answered, Fault
  <2>8. moves' \in 0..MaxMoves /\ faults' \in 0..MaxFaults
    BY <1>9, BoundAssumption DEF TypeOK, RecoverReady, Owns, Answered, Fault
  <2> QED
    BY <2>1, <2>2, <2>3, <2>4, <2>5, <2>6, <2>7, <2>8 DEF TypeOK
<1>10. ASSUME NEW w \in Worker, NEW c \in Card, RecoverFails(w, c) PROVE TypeOK'
  <2>1. active' \in [Card -> BOOLEAN]
    BY <1>10 DEF TypeOK, RecoverFails, Failure, GiveUp
  <2>2. scoring' \in [Card -> {"queued", "scoring", "needs_jd", "scored", "skipped", "failed"}]
    BY <1>10 DEF TypeOK, RecoverFails, Failure, GiveUp
  <2>3. lease' \in [Card -> Token] /\ jd' \in [Card -> Token]
    BY <1>10 DEF TypeOK, RecoverFails, Failure, GiveUp, Token
  <2>4. tries' \in [Card -> 0..MaxTries]
    <3>1. MaxTries \in Nat \ {0} /\ tries \in [Card -> 0..MaxTries]
      BY LimitAssumption DEF TypeOK
    <3>2. CASE tries[c] + 1 < MaxTries
      BY <1>10, <3>1, <3>2 DEF RecoverFails, Failure, GiveUp
    <3>3. CASE ~(tries[c] + 1 < MaxTries)
      BY <1>10, <3>1, <3>3 DEF RecoverFails, Failure, GiveUp
    <3> QED
      BY <3>2, <3>3
  <2>5. waits' \in [Card -> 0..(MaxWaits - 1)]
    BY <1>10, LimitAssumption DEF TypeOK, RecoverFails, Failure, GiveUp
  <2>6. text' \in [Card -> Text]
    BY <1>10 DEF TypeOK, RecoverFails, Failure, GiveUp, Text
  <2>7. /\ kind' \in [Worker -> {"idle", "triage", "recovery", "refresh"}] /\ todo' \in [Worker -> SUBSET Card]
       /\ read' \in [Worker -> [Card -> Text]] /\ fresh' \in [Worker -> BOOLEAN]
       /\ lost' \in [Worker -> SUBSET Card]
    BY <1>10 DEF TypeOK, Text, RecoverFails, Owns, Failure, GiveUp, Answered
  <2>8. moves' \in 0..MaxMoves /\ faults' \in 0..MaxFaults
    BY <1>10, BoundAssumption DEF TypeOK, RecoverFails, Owns, Failure, GiveUp, Answered
  <2> QED
    BY <2>1, <2>2, <2>3, <2>4, <2>5, <2>6, <2>7, <2>8 DEF TypeOK
<1>11. ASSUME NEW w \in Worker, NEW c \in Card, RecoverRefused(w, c) PROVE TypeOK'
  <2>1. active' \in [Card -> BOOLEAN]
    BY <1>11 DEF TypeOK, RecoverRefused
  <2>2. scoring' \in [Card -> {"queued", "scoring", "needs_jd", "scored", "skipped", "failed"}]
    BY <1>11 DEF TypeOK, RecoverRefused
  <2>3. lease' \in [Card -> Token] /\ jd' \in [Card -> Token]
    BY <1>11 DEF TypeOK, RecoverRefused, Token
  <2>4. tries' \in [Card -> 0..MaxTries]
    BY <1>11, LimitAssumption DEF TypeOK, RecoverRefused
  <2>5. waits' \in [Card -> 0..(MaxWaits - 1)]
    <3>1. MaxWaits \in Nat \ {0} /\ waits \in [Card -> 0..(MaxWaits - 1)]
      BY LimitAssumption DEF TypeOK
    <3>2. CASE waits[c] + 1 < MaxWaits
      BY <1>11, <3>1, <3>2 DEF RecoverRefused
    <3>3. CASE ~(waits[c] + 1 < MaxWaits)
      BY <1>11, <3>1, <3>3 DEF RecoverRefused
    <3> QED
      BY <3>2, <3>3
  <2>6. text' \in [Card -> Text]
    BY <1>11 DEF TypeOK, RecoverRefused, Text
  <2>7. /\ kind' \in [Worker -> {"idle", "triage", "recovery", "refresh"}] /\ todo' \in [Worker -> SUBSET Card]
       /\ read' \in [Worker -> [Card -> Text]] /\ fresh' \in [Worker -> BOOLEAN]
       /\ lost' \in [Worker -> SUBSET Card]
    BY <1>11 DEF TypeOK, Text, RecoverRefused, Owns, Answered
  <2>8. moves' \in 0..MaxMoves /\ faults' \in 0..MaxFaults
    BY <1>11, BoundAssumption DEF TypeOK, RecoverRefused, Owns, Answered
  <2> QED
    BY <2>1, <2>2, <2>3, <2>4, <2>5, <2>6, <2>7, <2>8 DEF TypeOK
<1>12. ASSUME NEW w \in Worker, NEW c \in Card, RecoverMissed(w, c) PROVE TypeOK'
  BY <1>12, TokenAssumption, LimitAssumption, BoundAssumption DEF TypeOK, TriesLeft, Token, Text, RecoverMissed, Answered
<1>13. ASSUME NEW w \in Worker, FinishRun(w) PROVE TypeOK'
  BY <1>13, TokenAssumption, LimitAssumption, BoundAssumption DEF TypeOK, TriesLeft, Token, Text, FinishRun, Released, End, Unread
<1>14. ASSUME NEW w \in Worker, AbortRun(w) PROVE TypeOK'
  BY <1>14, TokenAssumption, LimitAssumption, BoundAssumption DEF TypeOK, TriesLeft, Token, Text, AbortRun, Released, End, Unread, Fault
<1>15. ASSUME NEW w \in Worker, NEW c \in Card, StartRefresh(w, c) PROVE TypeOK'
  BY <1>15, TokenAssumption, LimitAssumption, BoundAssumption DEF TypeOK, TriesLeft, Token, Text, StartRefresh, Move
<1>16. ASSUME NEW w \in Worker, NEW c \in Card, RefreshLands(w, c) PROVE TypeOK'
  <2>1. active' \in [Card -> BOOLEAN]
    <3>1. active \in [Card -> BOOLEAN]
      BY DEF TypeOK
    <3>2. active' = active \/ \E a \in BOOLEAN : active' = [active EXCEPT ![c] = a]
      BY <1>16, <3>1 DEF RefreshLands
    <3> QED
      BY <3>1, <3>2
  <2>2. scoring' \in [Card -> {"queued", "scoring", "needs_jd", "scored", "skipped", "failed"}]
    BY <1>16 DEF TypeOK, RefreshLands
  <2>3. lease' \in [Card -> Token] /\ jd' \in [Card -> Token]
    BY <1>16 DEF TypeOK, RefreshLands, Token
  <2>4. tries' \in [Card -> 0..MaxTries]
    BY <1>16, LimitAssumption DEF TypeOK, RefreshLands
  <2>5. waits' \in [Card -> 0..(MaxWaits - 1)]
    BY <1>16, LimitAssumption DEF TypeOK, RefreshLands
  <2>6. text' \in [Card -> Text]
    BY <1>16 DEF TypeOK, RefreshLands, Text
  <2>7. /\ kind' \in [Worker -> {"idle", "triage", "recovery", "refresh"}] /\ todo' \in [Worker -> SUBSET Card]
       /\ read' \in [Worker -> [Card -> Text]] /\ fresh' \in [Worker -> BOOLEAN]
       /\ lost' \in [Worker -> SUBSET Card]
    BY <1>16 DEF TypeOK, Text, RefreshLands, End, Unread
  <2>8. moves' \in 0..MaxMoves /\ faults' \in 0..MaxFaults
    BY <1>16, BoundAssumption DEF TypeOK, RefreshLands, End, Unread
  <2> QED
    BY <2>1, <2>2, <2>3, <2>4, <2>5, <2>6, <2>7, <2>8 DEF TypeOK
<1>17. ASSUME NEW w \in Worker, RefreshEnds(w) PROVE TypeOK'
  BY <1>17, TokenAssumption, LimitAssumption, BoundAssumption DEF TypeOK, TriesLeft, Token, Text, RefreshEnds, Released, End, Unread
<1>18. ASSUME NEW w \in Worker, Crash(w) PROVE TypeOK'
  BY <1>18, TokenAssumption, LimitAssumption, BoundAssumption DEF TypeOK, TriesLeft, Token, Text, Crash, End, Unread, Fault
<1>19. ASSUME NEW c \in Card, ChargeStale(c) PROVE TypeOK'
  <2>1. active' \in [Card -> BOOLEAN]
    BY <1>19 DEF TypeOK, ChargeStale
  <2>2. scoring' \in [Card -> {"queued", "scoring", "needs_jd", "scored", "skipped", "failed"}]
    BY <1>19 DEF TypeOK, ChargeStale
  <2>3. lease' \in [Card -> Token] /\ jd' \in [Card -> Token]
    BY <1>19 DEF TypeOK, ChargeStale, Token
  <2>4. tries' \in [Card -> 0..MaxTries]
    <3>1. MaxTries \in Nat \ {0} /\ tries \in [Card -> 0..MaxTries]
      BY LimitAssumption DEF TypeOK
    <3>2. CASE tries[c] < MaxTries - 1
      BY <1>19, <3>1, <3>2 DEF ChargeStale
    <3>3. CASE ~(tries[c] < MaxTries - 1)
      BY <1>19, <3>1, <3>3 DEF ChargeStale
    <3> QED
      BY <3>2, <3>3
  <2>5. waits' \in [Card -> 0..(MaxWaits - 1)]
    BY <1>19, LimitAssumption DEF TypeOK, ChargeStale
  <2>6. text' \in [Card -> Text]
    BY <1>19 DEF TypeOK, ChargeStale, Text
  <2>7. /\ kind' \in [Worker -> {"idle", "triage", "recovery", "refresh"}] /\ todo' \in [Worker -> SUBSET Card]
       /\ read' \in [Worker -> [Card -> Text]] /\ fresh' \in [Worker -> BOOLEAN]
       /\ lost' \in [Worker -> SUBSET Card]
    BY <1>19 DEF TypeOK, Text, ChargeStale, Stale, Overtake, Fault
  <2>8. moves' \in 0..MaxMoves /\ faults' \in 0..MaxFaults
    BY <1>19, BoundAssumption DEF TypeOK, ChargeStale, Stale, Overtake, Fault
  <2> QED
    BY <2>1, <2>2, <2>3, <2>4, <2>5, <2>6, <2>7, <2>8 DEF TypeOK
<1>20. ASSUME NEW c \in Card, ClearStale(c) PROVE TypeOK'
  BY <1>20, TokenAssumption, LimitAssumption, BoundAssumption DEF TypeOK, TriesLeft, Token, Text, ClearStale, Stale, Overtake, Fault
<1>21. ASSUME NEW c \in Card, RecoverLease(c) PROVE TypeOK'
  BY <1>21, TokenAssumption, LimitAssumption, BoundAssumption DEF TypeOK, TriesLeft, Token, Text, RecoverLease, Stale, Overtake, Fault
<1>22. ASSUME NEW c \in Card, Edit(c) PROVE TypeOK'
  BY <1>22, TokenAssumption, LimitAssumption, BoundAssumption DEF TypeOK, TriesLeft, Token, Text, Edit, Move, Overtake
<1>23. ASSUME NEW c \in Card, EditKept(c) PROVE TypeOK'
  BY <1>23, TokenAssumption, LimitAssumption, BoundAssumption DEF TypeOK, TriesLeft, Token, Text, EditKept, Move, Touch
<1>24. ASSUME NEW c \in Card, LinkKept(c) PROVE TypeOK'
  BY <1>24, TokenAssumption, LimitAssumption, BoundAssumption DEF TypeOK, TriesLeft, Token, Text, LinkKept, Move, Overtake
<1>25. ASSUME NEW c \in Card, Decide(c) PROVE TypeOK'
  BY <1>25, TokenAssumption, LimitAssumption, BoundAssumption DEF TypeOK, TriesLeft, Token, Text, Decide, Move, Touch
<1>26. ASSUME NEW c \in Card, RetryFailed(c) PROVE TypeOK'
  BY <1>26, TokenAssumption, LimitAssumption, BoundAssumption DEF TypeOK, TriesLeft, Token, Text, RetryFailed, Move, Touch
<1>27. CASE UNCHANGED vars
  BY <1>27 DEF TypeOK, TriesLeft, Token, Text, vars
<1> QED
  BY <1>1, <1>2, <1>3, <1>4, <1>5, <1>6, <1>7, <1>8, <1>9, <1>10, <1>11, <1>12, <1>13, <1>14, <1>15, <1>16, <1>17, <1>18, <1>19, <1>20, <1>21, <1>22, <1>23, <1>24, <1>25, <1>26, <1>27 DEF Next, Answer, Recover

\* Every step leaves a try to the cards it puts into a queue.
LEMMA TriesNext == ASSUME TypeOK, TriesLeft, [Next]_vars PROVE TriesLeft'
<1>1. ASSUME NEW w \in Worker, NEW c \in Card, Claim(w, c) PROVE TriesLeft'
  BY <1>1, LimitAssumption DEF TypeOK, TriesLeft, Claim, Begin
<1>2. ASSUME NEW w \in Worker, NEW c \in Card, Judged(w, c) PROVE TriesLeft'
  BY <1>2, LimitAssumption DEF TypeOK, TriesLeft, Judged, Holds, End, Unread
<1>3. ASSUME NEW w \in Worker, NEW c \in Card, NeedsReview(w, c) PROVE TriesLeft'
  BY <1>3, LimitAssumption DEF TypeOK, TriesLeft, NeedsReview, Holds, Failure, GiveUp, End, Unread
<1>4. ASSUME NEW w \in Worker, NEW c \in Card, TriageRefused(w, c) PROVE TriesLeft'
  BY <1>4, LimitAssumption DEF TypeOK, TriesLeft, TriageRefused, Holds, End, Unread
<1>5. ASSUME NEW w \in Worker, NEW c \in Card, TriageFails(w, c) PROVE TriesLeft'
  BY <1>5, LimitAssumption DEF TypeOK, TriesLeft, TriageFails, Holds, End, Unread
<1>6. ASSUME NEW w \in Worker, NEW c \in Card, TriageMissed(w, c) PROVE TriesLeft'
  BY <1>6, LimitAssumption DEF TypeOK, TriesLeft, TriageMissed, End, Unread
<1>7. ASSUME NEW w \in Worker, NEW S \in SUBSET Card, StartRun(w, S) PROVE TriesLeft'
  BY <1>7, LimitAssumption DEF TypeOK, TriesLeft, StartRun, Needy, Begin
<1>8. ASSUME NEW w \in Worker, NEW c \in Card, RecoverEnds(w, c) PROVE TriesLeft'
  BY <1>8, LimitAssumption DEF TypeOK, TriesLeft, RecoverEnds, Owns, Answered
<1>9. ASSUME NEW w \in Worker, NEW c \in Card, RecoverReady(w, c) PROVE TriesLeft'
  BY <1>9, LimitAssumption DEF TypeOK, TriesLeft, RecoverReady, Owns, Answered, Fault
<1>10. ASSUME NEW w \in Worker, NEW c \in Card, RecoverFails(w, c) PROVE TriesLeft'
  BY <1>10, LimitAssumption DEF TypeOK, TriesLeft, RecoverFails, Owns, Failure, GiveUp, Answered
<1>11. ASSUME NEW w \in Worker, NEW c \in Card, RecoverRefused(w, c) PROVE TriesLeft'
  BY <1>11, LimitAssumption DEF TypeOK, TriesLeft, RecoverRefused, Owns, Answered
<1>12. ASSUME NEW w \in Worker, NEW c \in Card, RecoverMissed(w, c) PROVE TriesLeft'
  BY <1>12, LimitAssumption DEF TypeOK, TriesLeft, RecoverMissed, Answered
<1>13. ASSUME NEW w \in Worker, FinishRun(w) PROVE TriesLeft'
  BY <1>13, LimitAssumption DEF TypeOK, TriesLeft, FinishRun, Released, End, Unread
<1>14. ASSUME NEW w \in Worker, AbortRun(w) PROVE TriesLeft'
  BY <1>14, LimitAssumption DEF TypeOK, TriesLeft, AbortRun, Released, End, Unread, Fault
<1>15. ASSUME NEW w \in Worker, NEW c \in Card, StartRefresh(w, c) PROVE TriesLeft'
  BY <1>15, LimitAssumption DEF TypeOK, TriesLeft, StartRefresh, Move
<1>16. ASSUME NEW w \in Worker, NEW c \in Card, RefreshLands(w, c) PROVE TriesLeft'
  BY <1>16, LimitAssumption DEF TypeOK, TriesLeft, RefreshLands, End, Unread
<1>17. ASSUME NEW w \in Worker, RefreshEnds(w) PROVE TriesLeft'
  BY <1>17, LimitAssumption DEF TypeOK, TriesLeft, RefreshEnds, Released, End, Unread
<1>18. ASSUME NEW w \in Worker, Crash(w) PROVE TriesLeft'
  BY <1>18, LimitAssumption DEF TypeOK, TriesLeft, Crash, End, Unread, Fault
<1>19. ASSUME NEW c \in Card, ChargeStale(c) PROVE TriesLeft'
  <2>1. MaxTries \in Nat /\ tries \in [Card -> 0..MaxTries]
    BY LimitAssumption DEF TypeOK
  <2>2. CASE tries[c] < MaxTries - 1
    BY <1>19, <2>1, <2>2 DEF TriesLeft, ChargeStale
  <2>3. CASE ~(tries[c] < MaxTries - 1)
    BY <1>19, <2>1, <2>3 DEF TypeOK, TriesLeft, ChargeStale
  <2> QED
    BY <2>2, <2>3
<1>20. ASSUME NEW c \in Card, ClearStale(c) PROVE TriesLeft'
  BY <1>20, LimitAssumption DEF TypeOK, TriesLeft, ClearStale, Stale, Overtake, Fault
<1>21. ASSUME NEW c \in Card, RecoverLease(c) PROVE TriesLeft'
  BY <1>21, LimitAssumption DEF TypeOK, TriesLeft, RecoverLease, Stale, Overtake, Fault
<1>22. ASSUME NEW c \in Card, Edit(c) PROVE TriesLeft'
  BY <1>22, LimitAssumption DEF TypeOK, TriesLeft, Edit, Move, Overtake
<1>23. ASSUME NEW c \in Card, EditKept(c) PROVE TriesLeft'
  BY <1>23, LimitAssumption DEF TypeOK, TriesLeft, EditKept, Move, Touch
<1>24. ASSUME NEW c \in Card, LinkKept(c) PROVE TriesLeft'
  BY <1>24, LimitAssumption DEF TypeOK, TriesLeft, LinkKept, Move, Overtake
<1>25. ASSUME NEW c \in Card, Decide(c) PROVE TriesLeft'
  BY <1>25, LimitAssumption DEF TypeOK, TriesLeft, Decide, Move, Touch
<1>26. ASSUME NEW c \in Card, RetryFailed(c) PROVE TriesLeft'
  BY <1>26, LimitAssumption DEF TypeOK, TriesLeft, RetryFailed, Move, Touch
<1>27. CASE UNCHANGED vars
  BY <1>27 DEF TypeOK, TriesLeft, vars
<1> QED
  BY <1>1, <1>2, <1>3, <1>4, <1>5, <1>6, <1>7, <1>8, <1>9, <1>10, <1>11, <1>12, <1>13, <1>14, <1>15, <1>16, <1>17, <1>18, <1>19, <1>20, <1>21, <1>22, <1>23, <1>24, <1>25, <1>26, <1>27 DEF Next, Answer, Recover

\* Every step keeps the two tokens of a row apart, and triage's from the queues.
LEMMA LeasesNext == ASSUME TypeOK, LeasesFit, [Next]_vars PROVE LeasesFit'
<1>1. ASSUME NEW w \in Worker, NEW c \in Card, Claim(w, c) PROVE LeasesFit'
  BY <1>1, TokenAssumption DEF TypeOK, LeasesFit, Claim, Begin
<1>2. ASSUME NEW w \in Worker, NEW c \in Card, Judged(w, c) PROVE LeasesFit'
  BY <1>2, TokenAssumption DEF TypeOK, LeasesFit, Judged, Holds, End, Unread
<1>3. ASSUME NEW w \in Worker, NEW c \in Card, NeedsReview(w, c) PROVE LeasesFit'
  BY <1>3, TokenAssumption DEF TypeOK, LeasesFit, NeedsReview, Holds, Failure, GiveUp, End, Unread
<1>4. ASSUME NEW w \in Worker, NEW c \in Card, TriageRefused(w, c) PROVE LeasesFit'
  BY <1>4, TokenAssumption DEF TypeOK, LeasesFit, TriageRefused, Holds, End, Unread
<1>5. ASSUME NEW w \in Worker, NEW c \in Card, TriageFails(w, c) PROVE LeasesFit'
  BY <1>5, TokenAssumption DEF TypeOK, LeasesFit, TriageFails, Holds, End, Unread
<1>6. ASSUME NEW w \in Worker, NEW c \in Card, TriageMissed(w, c) PROVE LeasesFit'
  BY <1>6, TokenAssumption DEF TypeOK, LeasesFit, TriageMissed, End, Unread
<1>7. ASSUME NEW w \in Worker, NEW S \in SUBSET Card, StartRun(w, S) PROVE LeasesFit'
  BY <1>7, TokenAssumption DEF TypeOK, LeasesFit, StartRun, Needy, Begin
<1>8. ASSUME NEW w \in Worker, NEW c \in Card, RecoverEnds(w, c) PROVE LeasesFit'
  BY <1>8, TokenAssumption DEF TypeOK, LeasesFit, RecoverEnds, Owns, Answered
<1>9. ASSUME NEW w \in Worker, NEW c \in Card, RecoverReady(w, c) PROVE LeasesFit'
  BY <1>9, TokenAssumption DEF TypeOK, LeasesFit, RecoverReady, Owns, Answered, Fault
<1>10. ASSUME NEW w \in Worker, NEW c \in Card, RecoverFails(w, c) PROVE LeasesFit'
  BY <1>10, TokenAssumption DEF TypeOK, LeasesFit, RecoverFails, Owns, Failure, GiveUp, Answered
<1>11. ASSUME NEW w \in Worker, NEW c \in Card, RecoverRefused(w, c) PROVE LeasesFit'
  BY <1>11, TokenAssumption DEF TypeOK, LeasesFit, RecoverRefused, Owns, Answered
<1>12. ASSUME NEW w \in Worker, NEW c \in Card, RecoverMissed(w, c) PROVE LeasesFit'
  BY <1>12, TokenAssumption DEF TypeOK, LeasesFit, RecoverMissed, Answered
<1>13. ASSUME NEW w \in Worker, FinishRun(w) PROVE LeasesFit'
  BY <1>13, TokenAssumption DEF TypeOK, LeasesFit, FinishRun, Released, End, Unread
<1>14. ASSUME NEW w \in Worker, AbortRun(w) PROVE LeasesFit'
  BY <1>14, TokenAssumption DEF TypeOK, LeasesFit, AbortRun, Released, End, Unread, Fault
<1>15. ASSUME NEW w \in Worker, NEW c \in Card, StartRefresh(w, c) PROVE LeasesFit'
  BY <1>15, TokenAssumption DEF TypeOK, LeasesFit, StartRefresh, Move
<1>16. ASSUME NEW w \in Worker, NEW c \in Card, RefreshLands(w, c) PROVE LeasesFit'
  BY <1>16, TokenAssumption DEF TypeOK, LeasesFit, RefreshLands, End, Unread
<1>17. ASSUME NEW w \in Worker, RefreshEnds(w) PROVE LeasesFit'
  BY <1>17, TokenAssumption DEF TypeOK, LeasesFit, RefreshEnds, Released, End, Unread
<1>18. ASSUME NEW w \in Worker, Crash(w) PROVE LeasesFit'
  BY <1>18, TokenAssumption DEF TypeOK, LeasesFit, Crash, End, Unread, Fault
<1>19. ASSUME NEW c \in Card, ChargeStale(c) PROVE LeasesFit'
  BY <1>19, TokenAssumption DEF TypeOK, LeasesFit, ChargeStale, Stale, Overtake, Fault
<1>20. ASSUME NEW c \in Card, ClearStale(c) PROVE LeasesFit'
  BY <1>20, TokenAssumption DEF TypeOK, LeasesFit, ClearStale, Stale, Overtake, Fault
<1>21. ASSUME NEW c \in Card, RecoverLease(c) PROVE LeasesFit'
  BY <1>21, TokenAssumption DEF TypeOK, LeasesFit, RecoverLease, Stale, Overtake, Fault
<1>22. ASSUME NEW c \in Card, Edit(c) PROVE LeasesFit'
  BY <1>22, TokenAssumption DEF TypeOK, LeasesFit, Edit, Move, Overtake
<1>23. ASSUME NEW c \in Card, EditKept(c) PROVE LeasesFit'
  BY <1>23, TokenAssumption DEF TypeOK, LeasesFit, EditKept, Move, Touch
<1>24. ASSUME NEW c \in Card, LinkKept(c) PROVE LeasesFit'
  BY <1>24, TokenAssumption DEF TypeOK, LeasesFit, LinkKept, Move, Overtake
<1>25. ASSUME NEW c \in Card, Decide(c) PROVE LeasesFit'
  BY <1>25, TokenAssumption DEF TypeOK, LeasesFit, Decide, Move, Touch
<1>26. ASSUME NEW c \in Card, RetryFailed(c) PROVE LeasesFit'
  BY <1>26, TokenAssumption DEF TypeOK, LeasesFit, RetryFailed, Move, Touch
<1>27. CASE UNCHANGED vars
  BY <1>27 DEF TypeOK, LeasesFit, vars
<1> QED
  BY <1>1, <1>2, <1>3, <1>4, <1>5, <1>6, <1>7, <1>8, <1>9, <1>10, <1>11, <1>12, <1>13, <1>14, <1>15, <1>16, <1>17, <1>18, <1>19, <1>20, <1>21, <1>22, <1>23, <1>24, <1>25, <1>26, <1>27 DEF Next, Answer, Recover

\* Every step keeps tokens and workers together.
LEMMA TokensNext == ASSUME TypeOK, LeasesFit, TokensHeld, [Next]_vars PROVE TokensHeld'
<1>1. ASSUME NEW w \in Worker, NEW c \in Card, Claim(w, c) PROVE TokensHeld'
  BY <1>1, TokenAssumption DEF TypeOK, LeasesFit, TokensHeld, Token, Claim, Begin
<1>2. ASSUME NEW w \in Worker, NEW c \in Card, Judged(w, c) PROVE TokensHeld'
  BY <1>2, TokenAssumption DEF TypeOK, LeasesFit, TokensHeld, Token, Judged, Holds, End, Unread
<1>3. ASSUME NEW w \in Worker, NEW c \in Card, NeedsReview(w, c) PROVE TokensHeld'
  BY <1>3, TokenAssumption DEF TypeOK, LeasesFit, TokensHeld, Token, NeedsReview, Holds, Failure, GiveUp, End, Unread
<1>4. ASSUME NEW w \in Worker, NEW c \in Card, TriageRefused(w, c) PROVE TokensHeld'
  BY <1>4, TokenAssumption DEF TypeOK, LeasesFit, TokensHeld, Token, TriageRefused, Holds, End, Unread
<1>5. ASSUME NEW w \in Worker, NEW c \in Card, TriageFails(w, c) PROVE TokensHeld'
  BY <1>5, TokenAssumption DEF TypeOK, LeasesFit, TokensHeld, Token, TriageFails, Holds, End, Unread
<1>6. ASSUME NEW w \in Worker, NEW c \in Card, TriageMissed(w, c) PROVE TokensHeld'
  BY <1>6, TokenAssumption DEF TypeOK, LeasesFit, TokensHeld, Token, TriageMissed, End, Unread
<1>7. ASSUME NEW w \in Worker, NEW S \in SUBSET Card, StartRun(w, S) PROVE TokensHeld'
  BY <1>7, TokenAssumption DEF TypeOK, LeasesFit, TokensHeld, Token, StartRun, Needy, Begin
<1>8. ASSUME NEW w \in Worker, NEW c \in Card, RecoverEnds(w, c) PROVE TokensHeld'
  BY <1>8, TokenAssumption DEF TypeOK, LeasesFit, TokensHeld, Token, RecoverEnds, Owns, Answered
<1>9. ASSUME NEW w \in Worker, NEW c \in Card, RecoverReady(w, c) PROVE TokensHeld'
  BY <1>9, TokenAssumption DEF TypeOK, LeasesFit, TokensHeld, Token, RecoverReady, Owns, Answered, Fault
<1>10. ASSUME NEW w \in Worker, NEW c \in Card, RecoverFails(w, c) PROVE TokensHeld'
  BY <1>10, TokenAssumption DEF TypeOK, LeasesFit, TokensHeld, Token, RecoverFails, Owns, Failure, GiveUp, Answered
<1>11. ASSUME NEW w \in Worker, NEW c \in Card, RecoverRefused(w, c) PROVE TokensHeld'
  BY <1>11, TokenAssumption DEF TypeOK, LeasesFit, TokensHeld, Token, RecoverRefused, Owns, Answered
<1>12. ASSUME NEW w \in Worker, NEW c \in Card, RecoverMissed(w, c) PROVE TokensHeld'
  BY <1>12, TokenAssumption DEF TypeOK, LeasesFit, TokensHeld, Token, RecoverMissed, Answered
<1>13. ASSUME NEW w \in Worker, FinishRun(w) PROVE TokensHeld'
  BY <1>13, TokenAssumption DEF TypeOK, LeasesFit, TokensHeld, Token, FinishRun, Released, End, Unread
<1>14. ASSUME NEW w \in Worker, AbortRun(w) PROVE TokensHeld'
  BY <1>14, TokenAssumption DEF TypeOK, LeasesFit, TokensHeld, Token, AbortRun, Released, End, Unread, Fault
<1>15. ASSUME NEW w \in Worker, NEW c \in Card, StartRefresh(w, c) PROVE TokensHeld'
  BY <1>15, TokenAssumption DEF TypeOK, LeasesFit, TokensHeld, Token, StartRefresh, Move
<1>16. ASSUME NEW w \in Worker, NEW c \in Card, RefreshLands(w, c) PROVE TokensHeld'
  BY <1>16, TokenAssumption DEF TypeOK, LeasesFit, TokensHeld, Token, RefreshLands, End, Unread
<1>17. ASSUME NEW w \in Worker, RefreshEnds(w) PROVE TokensHeld'
  BY <1>17, TokenAssumption DEF TypeOK, LeasesFit, TokensHeld, Token, RefreshEnds, Released, End, Unread
<1>18. ASSUME NEW w \in Worker, Crash(w) PROVE TokensHeld'
  BY <1>18, TokenAssumption DEF TypeOK, LeasesFit, TokensHeld, Token, Crash, End, Unread, Fault
<1>19. ASSUME NEW c \in Card, ChargeStale(c) PROVE TokensHeld'
  BY <1>19, TokenAssumption DEF TypeOK, LeasesFit, TokensHeld, Token, ChargeStale, Stale, Overtake, Fault
<1>20. ASSUME NEW c \in Card, ClearStale(c) PROVE TokensHeld'
  BY <1>20, TokenAssumption DEF TypeOK, LeasesFit, TokensHeld, Token, ClearStale, Stale, Overtake, Fault
<1>21. ASSUME NEW c \in Card, RecoverLease(c) PROVE TokensHeld'
  BY <1>21, TokenAssumption DEF TypeOK, LeasesFit, TokensHeld, Token, RecoverLease, Stale, Overtake, Fault
<1>22. ASSUME NEW c \in Card, Edit(c) PROVE TokensHeld'
  BY <1>22, TokenAssumption DEF TypeOK, LeasesFit, TokensHeld, Token, Edit, Move, Overtake
<1>23. ASSUME NEW c \in Card, EditKept(c) PROVE TokensHeld'
  BY <1>23, TokenAssumption DEF TypeOK, LeasesFit, TokensHeld, Token, EditKept, Move, Touch
<1>24. ASSUME NEW c \in Card, LinkKept(c) PROVE TokensHeld'
  BY <1>24, TokenAssumption DEF TypeOK, LeasesFit, TokensHeld, Token, LinkKept, Move, Overtake
<1>25. ASSUME NEW c \in Card, Decide(c) PROVE TokensHeld'
  BY <1>25, TokenAssumption DEF TypeOK, LeasesFit, TokensHeld, Token, Decide, Move, Touch
<1>26. ASSUME NEW c \in Card, RetryFailed(c) PROVE TokensHeld'
  BY <1>26, TokenAssumption DEF TypeOK, LeasesFit, TokensHeld, Token, RetryFailed, Move, Touch
<1>27. CASE UNCHANGED vars
  BY <1>27 DEF TypeOK, LeasesFit, TokensHeld, Token, vars
<1> QED
  BY <1>1, <1>2, <1>3, <1>4, <1>5, <1>6, <1>7, <1>8, <1>9, <1>10, <1>11, <1>12, <1>13, <1>14, <1>15, <1>16, <1>17, <1>18, <1>19, <1>20, <1>21, <1>22, <1>23, <1>24, <1>25, <1>26, <1>27 DEF Next, Answer, Recover

LEMMA Invariance == Spec => []IInv
<1>1. IInv /\ [Next]_vars => IInv'
  BY TypeNext, TriesNext, LeasesNext, TokensNext DEF IInv
<1> QED
  BY InitInv, <1>1, PTL DEF Spec

\* Every reachable state is well typed.
THEOREM TypeCorrect == Spec => []TypeOK
<1>1. IInv => TypeOK
  BY DEF IInv
<1> QED
  BY <1>1, Invariance, PTL

\* No queued card carries a lease and no card carries two tokens (scoreJobs,
\* the recovery route, the refresh of a link, edits and cleanups).
THEOREM LeasesStayFit == Spec => []LeasesFit
<1>1. IInv => LeasesFit
  BY DEF IInv
<1> QED
  BY <1>1, Invariance, PTL

\* A card whose claim was taken back is left alone by the worker that lost it.
LEMMA LostStays ==
  ASSUME IInv, [Next]_vars, NEW v \in Worker, NEW d \in Card, d \in lost[v],
         kind'[v] # kind[v] \/ todo'[v] # todo[v]
  PROVE  State(d)' = State(d)
<1>1. ASSUME NEW w \in Worker, NEW c \in Card, Claim(w, c) PROVE State(d)' = State(d)
  BY <1>1, TokenAssumption DEF IInv, TypeOK, TokensHeld, State, Claim, Begin
<1>2. ASSUME NEW w \in Worker, NEW c \in Card, Judged(w, c) PROVE State(d)' = State(d)
  BY <1>2, TokenAssumption DEF IInv, TypeOK, TokensHeld, State, Judged, Holds, End, Unread
<1>3. ASSUME NEW w \in Worker, NEW c \in Card, NeedsReview(w, c) PROVE State(d)' = State(d)
  BY <1>3, TokenAssumption DEF IInv, TypeOK, TokensHeld, State, NeedsReview, Holds, Failure, GiveUp, End, Unread
<1>4. ASSUME NEW w \in Worker, NEW c \in Card, TriageRefused(w, c) PROVE State(d)' = State(d)
  BY <1>4, TokenAssumption DEF IInv, TypeOK, TokensHeld, State, TriageRefused, Holds, End, Unread
<1>5. ASSUME NEW w \in Worker, NEW c \in Card, TriageFails(w, c) PROVE State(d)' = State(d)
  BY <1>5, TokenAssumption DEF IInv, TypeOK, TokensHeld, State, TriageFails, Holds, End, Unread
<1>6. ASSUME NEW w \in Worker, NEW c \in Card, TriageMissed(w, c) PROVE State(d)' = State(d)
  BY <1>6, TokenAssumption DEF IInv, TypeOK, TokensHeld, State, TriageMissed, End, Unread
<1>7. ASSUME NEW w \in Worker, NEW S \in SUBSET Card, StartRun(w, S) PROVE State(d)' = State(d)
  BY <1>7, TokenAssumption DEF IInv, TypeOK, TokensHeld, State, StartRun, Needy, Begin
<1>8. ASSUME NEW w \in Worker, NEW c \in Card, RecoverEnds(w, c) PROVE State(d)' = State(d)
  BY <1>8, TokenAssumption DEF IInv, TypeOK, TokensHeld, State, RecoverEnds, Owns, Answered
<1>9. ASSUME NEW w \in Worker, NEW c \in Card, RecoverReady(w, c) PROVE State(d)' = State(d)
  BY <1>9, TokenAssumption DEF IInv, TypeOK, TokensHeld, State, RecoverReady, Owns, Answered, Fault
<1>10. ASSUME NEW w \in Worker, NEW c \in Card, RecoverFails(w, c) PROVE State(d)' = State(d)
  BY <1>10, TokenAssumption DEF IInv, TypeOK, TokensHeld, State, RecoverFails, Owns, Failure, GiveUp, Answered
<1>11. ASSUME NEW w \in Worker, NEW c \in Card, RecoverRefused(w, c) PROVE State(d)' = State(d)
  BY <1>11, TokenAssumption DEF IInv, TypeOK, TokensHeld, State, RecoverRefused, Owns, Answered
<1>12. ASSUME NEW w \in Worker, NEW c \in Card, RecoverMissed(w, c) PROVE State(d)' = State(d)
  BY <1>12, TokenAssumption DEF IInv, TypeOK, TokensHeld, State, RecoverMissed, Answered
<1>13. ASSUME NEW w \in Worker, FinishRun(w) PROVE State(d)' = State(d)
  BY <1>13, TokenAssumption DEF IInv, TypeOK, TokensHeld, State, FinishRun, Released, End, Unread
<1>14. ASSUME NEW w \in Worker, AbortRun(w) PROVE State(d)' = State(d)
  BY <1>14, TokenAssumption DEF IInv, TypeOK, TokensHeld, State, AbortRun, Released, End, Unread, Fault
<1>15. ASSUME NEW w \in Worker, NEW c \in Card, StartRefresh(w, c) PROVE State(d)' = State(d)
  BY <1>15, TokenAssumption DEF IInv, TypeOK, TokensHeld, State, StartRefresh, Move
<1>16. ASSUME NEW w \in Worker, NEW c \in Card, RefreshLands(w, c) PROVE State(d)' = State(d)
  BY <1>16, TokenAssumption DEF IInv, TypeOK, TokensHeld, State, RefreshLands, End, Unread
<1>17. ASSUME NEW w \in Worker, RefreshEnds(w) PROVE State(d)' = State(d)
  BY <1>17, TokenAssumption DEF IInv, TypeOK, TokensHeld, State, RefreshEnds, Released, End, Unread
<1>18. ASSUME NEW w \in Worker, Crash(w) PROVE State(d)' = State(d)
  BY <1>18, TokenAssumption DEF IInv, TypeOK, TokensHeld, State, Crash, End, Unread, Fault
<1>19. ASSUME NEW c \in Card, ChargeStale(c) PROVE State(d)' = State(d)
  BY <1>19, TokenAssumption DEF IInv, TypeOK, TokensHeld, State, ChargeStale, Stale, Overtake, Fault
<1>20. ASSUME NEW c \in Card, ClearStale(c) PROVE State(d)' = State(d)
  BY <1>20, TokenAssumption DEF IInv, TypeOK, TokensHeld, State, ClearStale, Stale, Overtake, Fault
<1>21. ASSUME NEW c \in Card, RecoverLease(c) PROVE State(d)' = State(d)
  BY <1>21, TokenAssumption DEF IInv, TypeOK, TokensHeld, State, RecoverLease, Stale, Overtake, Fault
<1>22. ASSUME NEW c \in Card, Edit(c) PROVE State(d)' = State(d)
  BY <1>22, TokenAssumption DEF IInv, TypeOK, TokensHeld, State, Edit, Move, Overtake
<1>23. ASSUME NEW c \in Card, EditKept(c) PROVE State(d)' = State(d)
  BY <1>23, TokenAssumption DEF IInv, TypeOK, TokensHeld, State, EditKept, Move, Touch
<1>24. ASSUME NEW c \in Card, LinkKept(c) PROVE State(d)' = State(d)
  BY <1>24, TokenAssumption DEF IInv, TypeOK, TokensHeld, State, LinkKept, Move, Overtake
<1>25. ASSUME NEW c \in Card, Decide(c) PROVE State(d)' = State(d)
  BY <1>25, TokenAssumption DEF IInv, TypeOK, TokensHeld, State, Decide, Move, Touch
<1>26. ASSUME NEW c \in Card, RetryFailed(c) PROVE State(d)' = State(d)
  BY <1>26, TokenAssumption DEF IInv, TypeOK, TokensHeld, State, RetryFailed, Move, Touch
<1>27. CASE UNCHANGED vars
  BY <1>27 DEF IInv, TypeOK, TokensHeld, State, vars
<1> QED
  BY <1>1, <1>2, <1>3, <1>4, <1>5, <1>6, <1>7, <1>8, <1>9, <1>10, <1>11, <1>12, <1>13, <1>14, <1>15, <1>16, <1>17, <1>18, <1>19, <1>20, <1>21, <1>22, <1>23, <1>24, <1>25, <1>26, <1>27 DEF Next, Answer, Recover

\* A worker that was overtaken by a cleanup, an edit, a link or a refresh writes
\* nothing to the card (claimedJobSnapshot, claimedUpdateWhere).
THEOREM Overtaken == Spec => OvertakenWritesNothing
<1>1. IInv /\ [Next]_vars => [LeftAlone]_vars
  BY LostStays DEF LeftAlone
<1> QED
  BY <1>1, Invariance, PTL DEF Spec, OvertakenWritesNothing
=============================================================================
