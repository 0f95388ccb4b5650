--------------------------- MODULE SameJobProofs ---------------------------
(***************************************************************************)
(* Proofs about SameJob: for any number of cards and of overlapping passes,*)
(* folds end, sightings land, nothing held is folded and Joseph's word      *)
(* holds.                                                                  *)
(***************************************************************************)
EXTENDS SameJob, TLAPS

\* An export that has just read a card will lease a card in play: every write
\* that dismisses one makes the read stale.
ReadInPlay == \A c \in Card : prep[c] = "read" => ~FoldedCopy(c)

\* Links pass from employers' cards to others, so that a card whose link was
\* taken never took one itself.
LinksPass == \A c \in Card : fold[c].linked => c \in Feed /\ fold[c].into \notin Feed

IInv ==
  /\ TypeOK /\ FoldsEnd /\ SightingsLand
  /\ LinksPass /\ ReadInPlay /\ ApartNotFolded

\* What every write of a card's row does to the cards.
Wrote(c) ==
  /\ row' \in [Card -> Row] /\ prep' = Touched(c)
  /\ \A d \in Card : row'[d].link = row[d].link
  /\ \A d \in Card \ {c} : row'[d].status = row[d].status

-----------------------------------------------------------------------------
(***************************************************************************)
(* Types.                                                                  *)
(***************************************************************************)
\* Initial states are well typed (a card as ingestion creates it).
LEMMA InitType == Init => TypeOK
  BY CardAssumption, KindAssumption, BoundAssumption
  DEF Init, TypeOK, Row, Status, CardStatus, Foldable, Decided, UrlKey, MaybeCard,
      FoldEvent, NoFold, Pairs, Folds

\* Writing one well-typed row keeps the table well typed and every link (SetRow).
LEMMA SetRowType ==
  ASSUME TypeOK, NEW c \in Card, NEW t \in Status, NEW n \in 0..2,
         NEW g \in {"queued", "scored", "skipped"}, NEW o \in BOOLEAN, SetRow(c, t, n, g, o)
  PROVE  Wrote(c)
<1>1. row \in [Card -> Row] /\ row[c] \in Row /\ prep \in [Card -> {"none", "read", "stale"}]
  BY DEF TypeOK
<1>2. [status |-> t, scores |-> n, scoring |-> g, own |-> o,
       link |-> row[c].link, key |-> row[c].key] \in Row
  BY <1>1 DEF Row
<1> DEFINE new == [status |-> t, scores |-> n, scoring |-> g, own |-> o,
                   link |-> row[c].link, key |-> row[c].key]
<1>3. row' = [row EXCEPT ![c] = new] /\ prep' = Touched(c)
  BY DEF SetRow
<1>4. new \in Row /\ new.link = row[c].link
  BY <1>2
<1> HIDE DEF new
<1> QED
  BY <1>1, <1>3, <1>4 DEF Wrote

\* Every card of a planned fold is a card (planSameJobConsolidation).
LEMMA PlannedType == Planned \subseteq Folds
  BY DEF Planned, PlannedIn, Group, InView, Folds

\* The links and identities a fold writes are links and identities (foldSameJob).
LEMMA LinkType ==
  ASSUME TypeOK, NEW c \in Card, NEW s \in Card
  PROVE  /\ LinkAfter(c, s) \in Card
         /\ KeyAfter(c, s) \in MaybeCard
         /\ KeyBack(c, s) \in MaybeCard
<1>1. row[c] \in Row /\ row[s] \in Row /\ fold[c] \in FoldEvent
  BY DEF TypeOK
<1> QED
  BY <1>1 DEF Row, FoldEvent, LinkAfter, KeyAfter, KeyBack, FirstOf, UrlKey, MaybeCard

\* A fold leaves the cards well typed (foldSameJob).
LEMMA FoldType ==
  ASSUME TypeOK, NEW c \in Card, NEW s \in Card, c # s, FoldEffect(c, s)
  PROVE  /\ row' \in [Card -> Row]
         /\ into' \in [Card -> MaybeCard]
         /\ at' \in [Card -> Card]
         /\ files' \in [Card -> Card]
         /\ fold' \in [Card -> FoldEvent]
<1>1. /\ row \in [Card -> Row] /\ into \in [Card -> MaybeCard] /\ at \in [Card -> Card]
      /\ files \in [Card -> Card] /\ fold \in [Card -> FoldEvent]
  BY DEF TypeOK
<1>2. LinkAfter(c, s) \in Card /\ KeyAfter(c, s) \in MaybeCard
  BY LinkType
<1>3. row[c] \in Row /\ row[s] \in Row
  BY <1>1
<1> DEFINE copy == [status |-> "dismissed", scores |-> row[c].scores,
                    scoring |-> ScoringAfterDismissal(c),
                    own |-> row[c].own, link |-> row[c].link, key |-> NoCard]
           kept == [status |-> row[s].status, scores |-> row[s].scores,
                    scoring |-> row[s].scoring, own |-> row[s].own,
                    link |-> LinkAfter(c, s), key |-> KeyAfter(c, s)]
           event == [into |-> s, status |-> row[c].status, scoring |-> row[c].scoring,
                     key |-> row[c].key, files |-> {a \in Card : files[a] = c},
                     linked |-> TakesLink(c, s),
                     oldLink |-> row[s].link, oldKey |-> row[s].key]
<1>4. copy \in Row
  BY <1>3 DEF Row, MaybeCard, Status, ScoringAfterDismissal
<1>5. kept \in Row
  BY <1>2, <1>3 DEF Row
<1>6. TakesLink(c, s) \in BOOLEAN
  BY DEF TakesLink
<1>7. event \in FoldEvent
  BY <1>3, <1>6, CardAssumption DEF FoldEvent, Row, MaybeCard
<1>8. row' = [row EXCEPT ![c] = copy, ![s] = kept]
  BY DEF FoldEffect
<1>9. fold' = [fold EXCEPT ![c] = event]
  BY DEF FoldEffect
<1>10. row' \in [Card -> Row]
  <2> HIDE DEF copy, kept
  <2> QED BY <1>1, <1>4, <1>5, <1>8
<1>11. fold' \in [Card -> FoldEvent]
  <2> HIDE DEF event
  <2> QED BY <1>1, <1>7, <1>9
<1>12. into' \in [Card -> MaybeCard] /\ at' \in [Card -> Card] /\ files' \in [Card -> Card]
  BY <1>1 DEF FoldEffect, MaybeCard
<1> QED
  BY <1>10, <1>11, <1>12

\* Separating leaves the cards well typed (separateSameJob).
LEMMA SeparateType ==
  ASSUME TypeOK, NEW c \in Card, NEW s \in Card, SeparateEffect(c, s)
  PROVE  /\ row' \in [Card -> Row]
         /\ into' \in [Card -> MaybeCard]
         /\ at' \in [Card -> Card]
         /\ files' \in [Card -> Card]
         /\ prep' \in [Card -> {"none", "read", "stale"}]
         /\ s # c => apart' \subseteq Pairs
<1>1. /\ row \in [Card -> Row] /\ into \in [Card -> MaybeCard] /\ at \in [Card -> Card]
      /\ files \in [Card -> Card] /\ fold \in [Card -> FoldEvent]
      /\ prep \in [Card -> {"none", "read", "stale"}] /\ apart \subseteq Pairs
  BY DEF TypeOK
<1>2. KeyBack(c, s) \in MaybeCard
  BY LinkType
<1>3. row[c] \in Row /\ row[s] \in Row /\ fold[c] \in FoldEvent
  BY <1>1
<1> DEFINE linkBack == IF GivesLinkBack(c, s) THEN fold[c].oldLink ELSE row[s].link
           scoringBack == IF row[c].scoring = "skipped" THEN fold[c].scoring ELSE row[c].scoring
           keyFree == IF KeyFree(c, s) THEN fold[c].key ELSE row[c].key
           kept == [status |-> row[s].status, scores |-> row[s].scores,
                    scoring |-> row[s].scoring, own |-> row[s].own,
                    link |-> linkBack, key |-> KeyBack(c, s)]
           copy == [status |-> fold[c].status, scores |-> row[c].scores,
                    scoring |-> scoringBack, own |-> fold[c].status # "pending_af",
                    link |-> row[c].link, key |-> keyFree]
<1>4. linkBack \in Card
  <2>1. fold[c].linked => fold[c].oldLink \in Card
    BY <1>3 DEF FoldEvent, MaybeCard
  <2> QED
    BY <1>3, <2>1 DEF Row, GivesLinkBack
<1>5. kept \in Row
  <2> HIDE DEF linkBack
  <2> QED BY <1>2, <1>3, <1>4 DEF Row
<1>6. copy \in Row
  BY <1>3 DEF Row, FoldEvent
<1>7. row' = [row EXCEPT ![s] = kept, ![c] = copy]
  BY DEF SeparateEffect
<1>8. row' \in [Card -> Row]
  <2> HIDE DEF copy, kept
  <2> QED BY <1>1, <1>5, <1>6, <1>7
<1>9. at' \in [Card -> Card] /\ files' \in [Card -> Card] /\ into' \in [Card -> MaybeCard]
  BY <1>1 DEF SeparateEffect, MaybeCard
<1>10. prep' \in [Card -> {"none", "read", "stale"}]
  BY <1>1 DEF SeparateEffect, Touched
<1>11. s # c => apart' \subseteq Pairs
  BY <1>1 DEF SeparateEffect, ChainAbove, Pairs
<1> QED
  BY <1>8, <1>9, <1>10, <1>11

\* Scores, rules, decisions and rewritten descriptions write one card, take it out
\* of what it was combined into or leave it there, and give nobody a hold on it.
LEMMA WriteFacts ==
  ASSUME TypeOK, NEW c \in Card, Score(c) \/ Automate(c) \/ Decide(c) \/ Rewrite(c)
  PROVE  /\ Wrote(c)
         /\ into' = into \/ into' = Unnamed(c)
         /\ held' = held \/ held' = [held EXCEPT ![c] = FALSE]
         /\ UNCHANGED <<at, files, fold, apart, pass>>
<1>0. /\ row \in [Card -> Row] /\ held \in [Card -> BOOLEAN] /\ row[c] \in Row
  BY DEF TypeOK
<1>1. /\ row[c].status \in Status /\ row[c].scores \in 0..2 /\ row[c].own \in BOOLEAN
      /\ row[c].scoring \in {"queued", "scored", "skipped"}
      /\ ScoringAfterDismissal(c) \in {"queued", "scored", "skipped"}
  BY <1>0 DEF Row, ScoringAfterDismissal
<1>2. /\ Foldable \cup {"dismissed", "expired", "applied", "passed"} \subseteq Status
      /\ "inbox" \in Status /\ "cooldown" \in Status /\ "pending_af" \in Status
  BY DEF Status, CardStatus, Foldable, Decided
<1>3. \A h \in {held[c], FALSE} : [held EXCEPT ![c] = h] = held \/ [held EXCEPT ![c] = h] = [held EXCEPT ![c] = FALSE]
  BY <1>0
<1>4. CASE Score(c)
  <2>1. CASE SetRow(c, row[c].status, row[c].scores, "scored", row[c].own) /\ UNCHANGED into
    <3>1. Wrote(c)
      BY <1>1, <2>1, SetRowType
    <3> QED BY <1>4, <2>1, <3>1 DEF Score
  <2>2. ASSUME NEW t \in IF row[c].own \/ row[c].status = "cooldown" THEN {row[c].status}
                                                           ELSE Foldable \cup {"dismissed"},
               row[c].scores < 2, SetRow(c, t, row[c].scores + 1, "scored", row[c].own),
               into' \in {into} \cup {i \in {Unnamed(c)} : t = "dismissed"}
        PROVE  Wrote(c) /\ (into' = into \/ into' = Unnamed(c))
    <3>1. t \in Status
      BY <1>1, <1>2
    <3>2. row[c].scores + 1 \in 0..2
      BY <1>1, <2>2
    <3>3. Wrote(c)
      BY <1>1, <2>2, <3>1, <3>2, SetRowType
    <3> QED BY <2>2, <3>3
  <2>3. UNCHANGED <<at, files, fold, held, like, apart, pass>>
    BY <1>4 DEF Score
  <2> QED
    BY <1>4, <2>1, <2>2, <2>3 DEF Score
<1>5. CASE Automate(c)
  <2>1. CASE Place(c)
    <3>1. PICK t \in {"inbox", "cooldown"} : SetRow(c, t, row[c].scores, row[c].scoring, row[c].own)
      BY <2>1 DEF Place
    <3>2. t \in Status
      BY <1>2
    <3>3. Wrote(c)
      BY <1>1, <3>1, <3>2, SetRowType
    <3> QED BY <1>5, <2>1, <3>3 DEF Place, Automate
  <2>2. CASE Release(c)
    <3>1. CASE SetRow(c, "pending_af", row[c].scores, row[c].scoring, row[c].own) /\ UNCHANGED held
      <4>1. Wrote(c)
        BY <1>1, <1>2, <3>1, SetRowType
      <4> QED BY <1>5, <2>2, <3>1, <4>1 DEF Release, Automate
    <3>2. CASE /\ SetRow(c, "pending_af", 0, "queued", row[c].own)
               /\ \E h \in {held[c], FALSE} : held' = [held EXCEPT ![c] = h]
      <4>1. Wrote(c)
        BY <1>1, <1>2, <3>2, SetRowType
      <4> QED BY <1>3, <1>5, <2>2, <3>2, <4>1 DEF Release, Automate
    <3> QED BY <2>2, <3>1, <3>2 DEF Release
  <2>3. CASE Expire(c)
    <3>1. Wrote(c)
      BY <1>1, <1>2, <2>3, SetRowType DEF Expire
    <3> QED BY <1>5, <2>3, <3>1 DEF Expire, Automate
  <2>4. CASE Dismiss(c)
    <3>1. PICK n \in 0..2, g \in {"queued", "scored", "skipped"}, o \in BOOLEAN : SetRow(c, "dismissed", n, g, o)
      BY <1>1, <2>4 DEF Dismiss
    <3>2. Wrote(c)
      BY <1>2, <3>1, SetRowType
    <3> QED BY <1>5, <2>4, <3>2 DEF Dismiss, Automate
  <2> QED
    BY <1>5, <2>1, <2>2, <2>3, <2>4 DEF Automate
<1>6. CASE Decide(c)
  <2>1. ASSUME NEW t \in {"inbox", "applied", "passed", "dismissed"},
               SetRow(c, t, row[c].scores, row[c].scoring, row[c].own \/ row[c].status # t)
        PROVE  Wrote(c)
    <3>1. t \in Status /\ (row[c].own \/ row[c].status # t) \in BOOLEAN
      BY <1>2
    <3> QED
      BY <1>1, <2>1, <3>1, SetRowType
  <2>2. ASSUME \/ SetRow(c, "cooldown", row[c].scores, row[c].scoring, row[c].own)
               \/ SetRow(c, "dismissed", row[c].scores, row[c].scoring, FALSE)
        PROVE  Wrote(c)
    BY <1>1, <1>2, <2>2, SetRowType
  <2> QED
    BY <1>6, <2>1, <2>2 DEF Decide
<1>7. CASE Rewrite(c)
  <2>1. CASE Rescored(c)
    <3>1. (IF row[c].status = "inbox" THEN "pending_af" ELSE row[c].status) \in Status
      BY <1>1, <1>2
    <3>2. SetRow(c, IF row[c].status = "inbox" THEN "pending_af" ELSE row[c].status,
                 0, "queued", FALSE)
      BY <2>1 DEF Rescored
    <3>3. 0 \in 0..2 /\ FALSE \in BOOLEAN /\ "queued" \in {"queued", "scored", "skipped"}
      OBVIOUS
    <3>4. Wrote(c)
      BY <3>1, <3>2, <3>3, SetRowType
    <3> QED BY <1>3, <1>7, <2>1, <3>4 DEF Rescored, Rewrite
  <2>2. CASE prep' = Touched(c) /\ UNCHANGED <<row, into, held>>
    BY <1>0, <1>7, <2>2 DEF Rewrite, Wrote
  <2> QED
    BY <1>7, <2>1, <2>2 DEF Rewrite
<1> QED
  BY <1>4, <1>5, <1>6, <1>7

\* Every step keeps the types.
LEMMA NextType == TypeOK /\ [Next]_vars => TypeOK'
<1> SUFFICES ASSUME TypeOK, [Next]_vars PROVE TypeOK'
  OBVIOUS
<1> DEFINE Typed(r, i, a, f, e, h, p, l, x, q, n) ==
      /\ r \in [Card -> Row] /\ i \in [Card -> MaybeCard] /\ a \in [Card -> Card]
      /\ f \in [Card -> Card] /\ e \in [Card -> FoldEvent] /\ h \in [Card -> BOOLEAN]
      /\ p \in [Card -> {"none", "read", "stale"}] /\ l \in [Pairs -> {"same", "close", "other"}]
      /\ x \subseteq Pairs /\ q \in [Pass -> SUBSET Folds] /\ n \in 0..MaxMoves
<1>1. Typed(row, into, at, files, fold, held, prep, like, apart, pass, moves)
  BY DEF TypeOK
<1>3. Move => moves' \in 0..MaxMoves
  BY <1>1, BoundAssumption DEF Move
<1>4. ASSUME NEW p \in Pass, StartPass(p) PROVE TypeOK'
  BY <1>1, <1>4, PlannedType DEF StartPass, TypeOK
<1>5. ASSUME NEW p \in Pass, Fold(p) PROVE TypeOK'
  <2>1. PICK f \in pass[p] : /\ FoldEffect(f[1], f[2]) /\ prep' = Touched(f[1]) /\ Take(p, f)
                             /\ UNCHANGED <<held, like, apart, moves>>
    BY <1>5 DEF Fold
  <2>2. f \in Folds /\ pass[p] \subseteq Folds
    BY <1>1
  <2>3. f[1] \in Card /\ f[2] \in Card /\ f[1] # f[2]
    BY <2>2 DEF Folds
  <2>4. /\ row' \in [Card -> Row] /\ into' \in [Card -> MaybeCard] /\ at' \in [Card -> Card]
        /\ files' \in [Card -> Card] /\ fold' \in [Card -> FoldEvent]
    BY <2>1, <2>3, FoldType
  <2>5. pass' \in [Pass -> SUBSET Folds]
    BY <1>1, <2>1, <2>2 DEF Take
  <2>6. prep' \in [Card -> {"none", "read", "stale"}]
    BY <1>1, <2>1 DEF Touched
  <2> QED
    BY <1>1, <2>1, <2>4, <2>5, <2>6 DEF TypeOK
<1>6. ASSUME NEW p \in Pass, SkipFold(p) PROVE TypeOK'
  <2>1. pass' \in [Pass -> SUBSET Folds]
    BY <1>1, <1>6 DEF SkipFold, Take
  <2> QED
    BY <1>1, <1>6, <2>1 DEF SkipFold, TypeOK
<1>7. ASSUME NEW p \in Pass, PassDies(p) PROVE TypeOK'
  BY <1>1, <1>3, <1>7 DEF PassDies, TypeOK
<1>8. ASSUME NEW c \in Card, Separate(c) PROVE TypeOK'
  <2> DEFINE s == fold[c].into
  <2>1. s \in Card
    BY <1>1, <1>8 DEF Separate, FoldEvent, MaybeCard
  <2> HIDE DEF s
  <2>2. SeparateEffect(c, s) /\ Move /\ UNCHANGED <<fold, held, like, pass>>
    BY <1>8 DEF Separate, s
  <2>3. /\ row' \in [Card -> Row] /\ into' \in [Card -> MaybeCard] /\ at' \in [Card -> Card]
        /\ files' \in [Card -> Card] /\ prep' \in [Card -> {"none", "read", "stale"}]
    BY <2>1, <2>2, SeparateType
  <2>4. apart' \subseteq Pairs
    <3>1. apart' = apart \cup {{c, o} : o \in ({s} \cup ChainAbove(s)) \ {c}}
      BY <2>2 DEF SeparateEffect
    <3>2. ({s} \cup ChainAbove(s)) \ {c} \subseteq Card \ {c}
      BY <2>1 DEF ChainAbove
    <3> QED BY <1>1, <3>1, <3>2 DEF Pairs
  <2> QED
    BY <1>1, <1>3, <2>2, <2>3, <2>4 DEF TypeOK
<1>9. ASSUME NEW c \in Card, Score(c) \/ Automate(c) \/ Decide(c) \/ Rewrite(c) PROVE TypeOK'
  <2>1. /\ Wrote(c)
        /\ into' = into \/ into' = Unnamed(c)
        /\ held' = held \/ held' = [held EXCEPT ![c] = FALSE]
        /\ UNCHANGED <<at, files, fold, apart, pass>>
    BY <1>9, WriteFacts
  <2>2. row' \in [Card -> Row] /\ prep' \in [Card -> {"none", "read", "stale"}]
    BY <1>1, <2>1 DEF Wrote, Touched
  <2>3. into' \in [Card -> MaybeCard] /\ held' \in [Card -> BOOLEAN]
    BY <1>1, <2>1 DEF Unnamed, MaybeCard
  <2>4. like' \in [Pairs -> {"same", "close", "other"}]
    BY <1>1, <1>9 DEF Score, Automate, Decide, Rewrite
  <2>5. moves' \in 0..MaxMoves
    BY <1>3, <1>9 DEF Score, Automate, Decide, Rewrite
  <2> QED
    BY <1>1, <2>1, <2>2, <2>3, <2>4, <2>5 DEF TypeOK
<1>15. ASSUME NEW c \in Card, Claim(c) PROVE TypeOK'
  BY <1>1, <1>3, <1>15 DEF Claim, Touched, TypeOK
<1>16. ASSUME NEW c \in Card, ExportRead(c) \/ ExportLease(c) \/ ExportRefused(c) \/ LetGo(c)
       PROVE TypeOK'
  BY <1>1, <1>3, <1>16 DEF ExportRead, ExportLease, ExportRefused, LetGo, Touched, TypeOK
<1>17. CASE UNCHANGED vars
  BY <1>17 DEF vars, TypeOK
<1> QED
  BY <1>4, <1>5, <1>6, <1>7, <1>8, <1>9, <1>15, <1>16, <1>17 DEF Next, Around

-----------------------------------------------------------------------------
(***************************************************************************)
(* Circles.                                                                *)
(***************************************************************************)
\* Folding into a standing card closes no circle (foldSameJob refuses a
\* survivor that was itself combined).
LEMMA FoldNoCircle ==
  ASSUME TypeOK, FoldsEnd, NEW c \in Card, NEW s \in Card, c # s, Standing(s),
         into' = [into EXCEPT ![c] = s]
  PROVE  FoldsEnd'
<1> SUFFICES ASSUME NEW X \in SUBSET Card, X # {} PROVE \E d \in X : into'[d] \notin X
  BY DEF FoldsEnd
<1>1. into \in [Card -> MaybeCard]
  BY DEF TypeOK
<1>2. ASSUME s \in X PROVE \E d \in X : into'[d] \notin X
  BY <1>1, <1>2, CardAssumption DEF Standing
<1>3. ASSUME s \notin X PROVE \E d \in X : into'[d] \notin X
  <2>1. PICK d \in X : into[d] \notin X
    BY DEF FoldsEnd
  <2>2. into'[d] = into[d] \/ into'[d] = s
    BY <1>1, <2>1
  <2> QED
    BY <1>3, <2>1, <2>2
<1> QED
  BY <1>2, <1>3

\* A card that stands again closes no circle (separateSameJob, PATCH).
LEMMA StandNoCircle ==
  ASSUME TypeOK, FoldsEnd, NEW c \in Card, into' = [into EXCEPT ![c] = NoCard]
  PROVE  FoldsEnd'
<1> SUFFICES ASSUME NEW X \in SUBSET Card, X # {} PROVE \E d \in X : into'[d] \notin X
  BY DEF FoldsEnd
<1>1. into \in [Card -> MaybeCard]
  BY DEF TypeOK
<1>2. PICK d \in X : into[d] \notin X
  BY DEF FoldsEnd
<1>3. into'[d] = into[d] \/ into'[d] = NoCard
  BY <1>1, <1>2
<1> QED
  BY <1>2, <1>3, CardAssumption

\* No card above the survivor of c was folded into c: what separateSameJob
\* walks up from the survivor never leads back.
LEMMA ChainNeverReturns ==
  ASSUME TypeOK, FoldsEnd, NEW c \in Card, NEW s \in Card, NEW o \in Card,
         into[c] = s, o \in {s} \cup ChainAbove(s)
  PROVE  into[o] # c
<1> DEFINE Up(X) == \A d \in X : into[d] # NoCard => into[d] \in X
           Above(d) == {e \in Card : \A X \in SUBSET Card : d \in X /\ Up(X) => e \in X}
           Circle == {d \in Above(s) : c \in Above(d)}
<1>1. SUFFICES ASSUME into[o] = c PROVE FALSE
  OBVIOUS
<1>2. into \in [Card -> MaybeCard]
  BY DEF TypeOK
<1>3. o \in Above(s)
  BY DEF ChainAbove
<1>4. ASSUME NEW d \in Card, NEW e \in Above(d), into[e] # NoCard PROVE into[e] \in Above(d)
  BY <1>2, <1>4 DEF MaybeCard
<1>5. c \in Above(s)
  BY <1>1, <1>3, <1>4, CardAssumption
<1>6. ASSUME NEW d \in Card, d # c, c \in Above(d)
      PROVE  into[d] # NoCard /\ c \in Above(into[d])
  <2>1. into[d] # NoCard
    <3>1. SUFFICES ASSUME into[d] = NoCard PROVE FALSE
      OBVIOUS
    <3>2. {d} \in SUBSET Card /\ d \in {d} /\ Up({d})
      BY <3>1
    <3>3. c \in {d}
      BY <1>6, <3>2
    <3> QED
      BY <1>6, <3>3
  <2>2. ASSUME NEW X \in SUBSET Card, into[d] \in X, Up(X) PROVE c \in X
    <3>1. X \cup {d} \in SUBSET Card /\ d \in X \cup {d} /\ Up(X \cup {d})
      BY <2>2
    <3>2. c \in X \cup {d}
      BY <1>6, <3>1
    <3> QED
      BY <1>6, <3>2
  <2>3. c \in Above(into[d])
    BY <2>2
  <2> QED
    BY <2>1, <2>3
<1>7. c \in Circle
  BY <1>5
<1>8. ASSUME NEW d \in Circle PROVE into[d] \in Circle
  <2>1. d \in Card /\ d \in Above(s) /\ c \in Above(d)
    OBVIOUS
  <2>2. ASSUME d = c PROVE into[d] \in Circle
    <3>1. s \in Above(s)
      OBVIOUS
    <3> QED
      BY <1>5, <2>2, <3>1
  <2>3. ASSUME d # c PROVE into[d] \in Circle
    <3>1. into[d] # NoCard /\ c \in Above(into[d])
      BY <1>6, <2>1, <2>3
    <3>2. into[d] \in Above(s)
      BY <1>4, <2>1, <3>1
    <3> QED
      BY <3>1, <3>2
  <2> QED
    BY <2>2, <2>3
<1>9. Circle \in SUBSET Card
  OBVIOUS
<1> HIDE DEF Circle
<1> QED
  BY <1>7, <1>8, <1>9 DEF FoldsEnd

-----------------------------------------------------------------------------
(***************************************************************************)
(* The inductive step.                                                     *)
(***************************************************************************)
\* What a fold transaction finds and does (foldSameJob).
LEMMA FoldFacts ==
  ASSUME IInv, NEW p \in Pass, Fold(p)
  PROVE  \E c, s \in Card :
           /\ c # s /\ MayFold(c, s)
           /\ into' = [into EXCEPT ![c] = s]
           /\ \A o \in Card : at'[o] = IF MovesOver(o, c, s) THEN s ELSE at[o]
           /\ row'[c].status = "dismissed" /\ row'[c].link = row[c].link
           /\ \A d \in Card \ {c} : row'[d].status = row[d].status
           /\ \A d \in Card \ {s} : row'[d].link = row[d].link
           /\ fold'[c].into = s /\ fold'[c].linked = TakesLink(c, s) /\ fold'[c].oldLink = row[s].link
           /\ \A d \in Card \ {c} : fold'[d] = fold[d]
           /\ prep' = Touched(c)
           /\ held' = held /\ apart' = apart
<1>1. PICK f \in pass[p] : /\ MayFold(f[1], f[2]) /\ FoldEffect(f[1], f[2])
                           /\ prep' = Touched(f[1])
                           /\ UNCHANGED <<held, like, apart, moves>>
  BY DEF Fold
<1>2. f \in Folds
  BY DEF IInv, TypeOK
<1> DEFINE c == f[1]
           s == f[2]
<1>3. c \in Card /\ s \in Card /\ c # s
  BY <1>2 DEF Folds
<1>4. row \in [Card -> Row] /\ fold \in [Card -> FoldEvent]
  BY DEF IInv, TypeOK
<1> HIDE DEF c, s
<1>5. MayFold(c, s) /\ FoldEffect(c, s) /\ prep' = Touched(c) /\ held' = held /\ apart' = apart
  BY <1>1 DEF c, s
<1>6. into' = [into EXCEPT ![c] = s]
  BY <1>5 DEF FoldEffect
<1>7. \A o \in Card : at'[o] = IF MovesOver(o, c, s) THEN s ELSE at[o]
  BY <1>5 DEF FoldEffect
<1>8. /\ row'[c].status = "dismissed" /\ row'[c].link = row[c].link
      /\ \A d \in Card \ {c} : row'[d].status = row[d].status
      /\ \A d \in Card \ {s} : row'[d].link = row[d].link
  BY <1>3, <1>4, <1>5 DEF FoldEffect
<1>9. /\ fold'[c].into = s /\ fold'[c].linked = TakesLink(c, s) /\ fold'[c].oldLink = row[s].link
      /\ \A d \in Card \ {c} : fold'[d] = fold[d]
  BY <1>3, <1>4, <1>5 DEF FoldEffect
<1> QED
  BY <1>3, <1>5, <1>6, <1>7, <1>8, <1>9

\* What a separation finds and does (separateSameJob).
LEMMA SeparateFacts ==
  ASSUME IInv, NEW c \in Card, Separate(c)
  PROVE  \E s \in Card :
           /\ s # c /\ into[c] = s
           /\ into' = [into EXCEPT ![c] = NoCard]
           /\ at' = [at EXCEPT ![c] = IF at[c] = s THEN c ELSE at[c]]
           /\ apart' = apart \cup {{c, o} : o \in ({s} \cup ChainAbove(s)) \ {c}}
           /\ row'[c].status \in Foldable
           /\ \A d \in Card \ {c} : row'[d].status = row[d].status
           /\ \A d \in Card : row'[d].link = row[d].link \/ (d = s /\ fold[c].linked)
           /\ fold' = fold /\ fold[c].into = s
           /\ prep' = Touched(c) /\ held' = held
<1> DEFINE s == fold[c].into
<1>1. /\ row \in [Card -> Row] /\ fold \in [Card -> FoldEvent] /\ at \in [Card -> Card]
      /\ FoldsEnd
  BY DEF IInv, TypeOK
<1>2. s \in Card
  BY <1>1 DEF Separate, FoldEvent, MaybeCard
<1> HIDE DEF s
<1>3. /\ into[c] = s /\ fold[c].status \in Foldable /\ SeparateEffect(c, s) /\ held' = held
      /\ fold' = fold /\ fold[c].into = s
  BY DEF Separate, s
<1>4. s # c
  <2>1. {c} \in SUBSET Card /\ {c} # {}
    OBVIOUS
  <2>2. \E d \in {c} : into[d] \notin {c}
    BY <1>1, <2>1 DEF FoldsEnd
  <2> QED
    BY <1>3, <2>2
<1>5. row'[c].status = fold[c].status /\ \A d \in Card \ {c} : row'[d].status = row[d].status
  BY <1>1, <1>2, <1>3, <1>4 DEF SeparateEffect
<1>6. \A d \in Card : row'[d].link = row[d].link \/ (d = s /\ fold[c].linked)
  BY <1>1, <1>2, <1>3, <1>4 DEF SeparateEffect, GivesLinkBack
<1> QED
  BY <1>1, <1>2, <1>3, <1>4, <1>5, <1>6 DEF SeparateEffect

\* A claim, an export and an end of either change no card but for its updatedAt,
\* read and hold only cards in play, and a claimed card is not newly read.
LEMMA HoldFacts ==
  ASSUME IInv, NEW c \in Card,
         Claim(c) \/ ExportRead(c) \/ ExportLease(c) \/ ExportRefused(c) \/ LetGo(c)
  PROVE  /\ UNCHANGED <<row, into, at, fold, apart>>
         /\ ReadInPlay'
         /\ \A d \in Card : held'[d] => held[d] \/ ~FoldedCopy(d)
<1>1. /\ row \in [Card -> Row] /\ held \in [Card -> BOOLEAN]
      /\ prep \in [Card -> {"none", "read", "stale"}] /\ ReadInPlay
  BY DEF IInv, TypeOK
<1>2. UNCHANGED <<row, into, at, fold, apart>>
  BY DEF Claim, ExportRead, ExportLease, ExportRefused, LetGo
<1>3. \A d \in Card : FoldedCopy(d)' = FoldedCopy(d)
  BY <1>2 DEF FoldedCopy, Standing
<1>4. row[c].status \in Foldable => ~FoldedCopy(c)
  BY DEF FoldedCopy, Foldable
<1>5. \A d \in Card : prep'[d] = "read" => prep[d] = "read" \/ (d = c /\ row[c].status \in Foldable)
  BY <1>1 DEF Claim, ExportRead, ExportLease, ExportRefused, LetGo, Touched
<1>6. \A d \in Card :
        held'[d] => (held[d] \/ (d = c /\ (row[c].status \in Foldable \/ prep[c] = "read")))
  BY <1>1 DEF Claim, ExportRead, ExportLease, ExportRefused, LetGo
<1> QED
  BY <1>1, <1>2, <1>3, <1>4, <1>5, <1>6 DEF ReadInPlay

\* The invariant holds at first.
LEMMA InitInv == Init => IInv
<1> SUFFICES ASSUME Init PROVE IInv
  OBVIOUS
<1>1. TypeOK
  BY InitType
<1>2. FoldsEnd /\ SightingsLand /\ LinksPass /\ ReadInPlay /\ ApartNotFolded
  BY CardAssumption DEF Init, FoldsEnd, SightingsLand, Standing, LinksPass, NoFold, ReadInPlay, ApartNotFolded
<1> QED
  BY <1>1, <1>2 DEF IInv

\* Every step keeps the invariant.
LEMMA NextInv == IInv /\ [Next]_vars => IInv'
<1> SUFFICES ASSUME IInv, [Next]_vars PROVE IInv'
  OBVIOUS
<1>1. /\ TypeOK /\ FoldsEnd /\ SightingsLand /\ LinksPass /\ ReadInPlay /\ ApartNotFolded
  BY DEF IInv
<1>2. TypeOK'
  BY <1>1, NextType
<1>3. /\ into \in [Card -> MaybeCard] /\ at \in [Card -> Card] /\ row \in [Card -> Row]
      /\ prep \in [Card -> {"none", "read", "stale"}] /\ held \in [Card -> BOOLEAN]
  BY <1>1 DEF TypeOK
<1>4. ASSUME UNCHANGED <<row, into, at, fold, apart>>, ReadInPlay' PROVE IInv'
  <2>1. \A o \in Card : Standing(at[o])' = Standing(at[o]) /\ OtherPosting(o, at[o])' = OtherPosting(o, at[o])
    BY <1>4 DEF Standing, OtherPosting, LinkAtFold
  <2> QED
    BY <1>1, <1>2, <1>4, <2>1 DEF IInv, FoldsEnd, SightingsLand, LinksPass, ApartNotFolded
<1>5. ASSUME UNCHANGED <<into, at, apart, fold, row, prep>> PROVE IInv'
  BY <1>1, <1>4, <1>5 DEF ReadInPlay, FoldedCopy, Standing
<1>6. ASSUME NEW p \in Pass, Fold(p) PROVE IInv'
  <2>1. PICK c \in Card, s \in Card :
           /\ c # s /\ MayFold(c, s)
           /\ into' = [into EXCEPT ![c] = s]
           /\ \A o \in Card : at'[o] = IF MovesOver(o, c, s) THEN s ELSE at[o]
           /\ row'[c].status = "dismissed" /\ row'[c].link = row[c].link
           /\ \A d \in Card \ {c} : row'[d].status = row[d].status
           /\ \A d \in Card \ {s} : row'[d].link = row[d].link
           /\ fold'[c].into = s /\ fold'[c].linked = TakesLink(c, s) /\ fold'[c].oldLink = row[s].link
           /\ \A d \in Card \ {c} : fold'[d] = fold[d]
           /\ prep' = Touched(c)
           /\ held' = held /\ apart' = apart
    BY <1>6, FoldFacts
  <2>2. FoldsEnd'
    BY <1>1, <2>1, FoldNoCircle DEF MayFold
  <2>3. SightingsLand'
    <3> SUFFICES ASSUME NEW o \in Card PROVE Standing(at[o])' \/ OtherPosting(o, at[o])'
      BY DEF SightingsLand
    <3>1. Standing(s)' /\ Standing(s) /\ (\A d \in Card \ {c} : into'[d] = into[d])
      BY <1>3, <2>1 DEF MayFold, Standing
    <3>2. ASSUME MovesOver(o, c, s) PROVE Standing(at[o])'
      BY <2>1, <3>1, <3>2 DEF Standing
    <3>3. ASSUME at[o] = c, ~MovesOver(o, c, s) PROVE OtherPosting(o, at[o])'
      <4>1. at'[o] = c
        BY <2>1, <3>3
      <4>2. o \in LinkedIn /\ LinkAfter(c, s) \in LinkedIn \ {o}
        BY <3>3 DEF MovesOver
      <4>3. LinkAtFold(c)' = LinkAfter(c, s)
        BY <2>1 DEF LinkAtFold, LinkAfter
      <4> QED
        BY <4>1, <4>2, <4>3 DEF OtherPosting, LinkAtFold
    <3>4. ASSUME at[o] # c PROVE Standing(at[o])' \/ OtherPosting(o, at[o])'
      <4>1. at'[o] = at[o] /\ at[o] \in Card \ {c}
        BY <1>3, <2>1, <3>4 DEF MovesOver
      <4>2. CASE Standing(at[o])
        BY <3>1, <4>1, <4>2 DEF Standing
      <4>3. CASE ~Standing(at[o])
        <5>1. OtherPosting(o, at[o])
          BY <1>1, <4>3 DEF SightingsLand
        <5>2. at[o] # s
          BY <3>1, <4>3
        <5>3. LinkAtFold(at[o])' = LinkAtFold(at[o])
          BY <2>1, <4>1, <5>2 DEF LinkAtFold
        <5> QED
          BY <4>1, <5>1, <5>3 DEF OtherPosting, LinkAtFold
      <4> QED
        BY <4>2, <4>3
    <3> QED
      BY <3>2, <3>3, <3>4
  <2>4. LinksPass'
    BY <1>1, <2>1 DEF LinksPass, TakesLink
  <2>5. ReadInPlay'
    BY <1>1, <1>3, <2>1 DEF ReadInPlay, Touched, FoldedCopy, Standing
  <2>6. ApartNotFolded'
    BY <1>1, <1>3, <2>1 DEF ApartNotFolded, MayFold
  <2> QED
    BY <1>2, <2>2, <2>3, <2>4, <2>5, <2>6 DEF IInv
<1>7. ASSUME NEW c \in Card, Separate(c) PROVE IInv'
  <2>1. PICK s \in Card :
           /\ s # c /\ into[c] = s
           /\ into' = [into EXCEPT ![c] = NoCard]
           /\ at' = [at EXCEPT ![c] = IF at[c] = s THEN c ELSE at[c]]
           /\ apart' = apart \cup {{c, o} : o \in ({s} \cup ChainAbove(s)) \ {c}}
           /\ row'[c].status \in Foldable
           /\ \A d \in Card \ {c} : row'[d].status = row[d].status
           /\ \A d \in Card : row'[d].link = row[d].link \/ (d = s /\ fold[c].linked)
           /\ fold' = fold /\ fold[c].into = s
           /\ prep' = Touched(c) /\ held' = held
    BY <1>7, SeparateFacts
  <2>2. FoldsEnd'
    BY <1>1, <2>1, StandNoCircle
  <2>3. SightingsLand'
    <3> SUFFICES ASSUME NEW o \in Card PROVE Standing(at[o])' \/ OtherPosting(o, at[o])'
      BY DEF SightingsLand
    <3>1. at'[o] = at[o] \/ at'[o] = c
      BY <1>3, <2>1
    <3>2. CASE at'[o] = c
      BY <1>3, <2>1, <3>2 DEF Standing
    <3>3. CASE at'[o] = at[o] /\ at[o] # c
      <4>1. into'[at[o]] = into[at[o]]
        BY <1>3, <2>1, <3>3
      <4>2. CASE Standing(at[o])
        BY <3>3, <4>1, <4>2 DEF Standing
      <4>3. CASE OtherPosting(o, at[o])
        <5>1. fold[at[o]].linked => row'[at[o]].link = row[at[o]].link
          BY <1>1, <1>3, <2>1 DEF LinksPass
        <5>2. LinkAtFold(at[o])' = LinkAtFold(at[o])
          BY <2>1, <3>3, <5>1 DEF LinkAtFold
        <5> QED
          BY <3>3, <4>3, <5>2 DEF OtherPosting, LinkAtFold
      <4> QED
        BY <1>1, <4>2, <4>3 DEF SightingsLand
    <3> QED
      BY <3>1, <3>2, <3>3
  <2>4. LinksPass'
    BY <1>1, <2>1 DEF LinksPass
  <2>5. ReadInPlay'
    BY <1>1, <1>3, <2>1 DEF ReadInPlay, Touched, FoldedCopy, Foldable, Standing
  <2>6. ApartNotFolded'
    <3> SUFFICES ASSUME NEW d \in Card, into'[d] # NoCard PROVE {d, into'[d]} \notin apart'
      BY DEF ApartNotFolded
    <3>1. d # c /\ into'[d] = into[d] /\ into[d] # NoCard
      BY <1>3, <2>1
    <3>2. {d, into[d]} \notin apart
      BY <1>1, <3>1 DEF ApartNotFolded
    <3>3. ASSUME NEW o \in ({s} \cup ChainAbove(s)) \ {c}, {d, into[d]} = {c, o} PROVE FALSE
      <4>1. o \in Card
        BY <3>3 DEF ChainAbove
      <4>2. into[o] # c
        BY <1>1, <2>1, <3>3, <4>1, ChainNeverReturns
      <4>3. d = o /\ into[d] = c
        BY <3>1, <3>3
      <4> QED
        BY <4>2, <4>3
    <3> QED
      BY <2>1, <3>1, <3>2, <3>3
  <2> QED
    BY <1>2, <2>2, <2>3, <2>4, <2>5, <2>6 DEF IInv
<1>8. ASSUME NEW c \in Card, Score(c) \/ Automate(c) \/ Decide(c) \/ Rewrite(c) PROVE IInv'
  <2>1. /\ Wrote(c)
        /\ into' = into \/ into' = Unnamed(c)
        /\ UNCHANGED <<at, fold, apart>>
    BY <1>1, <1>8, WriteFacts
  <2>2. \A d \in Card : into'[d] = into[d] \/ into'[d] = NoCard
    BY <1>3, <2>1 DEF Unnamed
  <2>3. FoldsEnd'
    <3>1. CASE into' = into
      BY <1>1, <3>1 DEF FoldsEnd
    <3>2. CASE into' = Unnamed(c)
      BY <1>1, <3>2, StandNoCircle DEF Unnamed
    <3> QED
      BY <2>1, <3>1, <3>2
  <2>4. SightingsLand'
    <3> SUFFICES ASSUME NEW o \in Card PROVE Standing(at[o])' \/ OtherPosting(o, at[o])'
      BY DEF SightingsLand
    <3>1. Standing(at[o]) \/ OtherPosting(o, at[o])
      BY <1>1 DEF SightingsLand
    <3>2. LinkAtFold(at[o])' = LinkAtFold(at[o])
      BY <1>3, <2>1 DEF Wrote, LinkAtFold
    <3>3. Standing(at[o]) => Standing(at[o])'
      BY <1>3, <2>1, <2>2 DEF Standing
    <3>4. OtherPosting(o, at[o]) => OtherPosting(o, at[o])'
      BY <2>1, <3>2 DEF OtherPosting, LinkAtFold
    <3> QED
      BY <3>1, <3>3, <3>4
  <2>5. LinksPass'
    BY <1>1, <2>1 DEF LinksPass
  <2>6. ReadInPlay'
    <3> SUFFICES ASSUME NEW d \in Card, prep'[d] = "read", FoldedCopy(d)' PROVE FALSE
      BY DEF ReadInPlay
    <3>1. d # c /\ prep[d] = "read"
      BY <1>3, <2>1 DEF Wrote, Touched
    <3>2. into'[d] = into[d] /\ row'[d].status = row[d].status
      BY <1>3, <2>1, <3>1 DEF Wrote, Unnamed
    <3> QED
      BY <1>1, <3>1, <3>2 DEF ReadInPlay, FoldedCopy, Standing
  <2>7. ApartNotFolded'
    BY <1>1, <1>3, <2>1, <2>2 DEF ApartNotFolded
  <2> QED
    BY <1>2, <2>3, <2>4, <2>5, <2>6, <2>7 DEF IInv
<1>9. ASSUME NEW c \in Card,
             Claim(c) \/ ExportRead(c) \/ ExportLease(c) \/ ExportRefused(c) \/ LetGo(c)
      PROVE  IInv'
  BY <1>4, <1>9, HoldFacts
<1>10. ASSUME NEW p \in Pass, StartPass(p) \/ SkipFold(p) \/ PassDies(p) PROVE IInv'
  BY <1>5, <1>10 DEF StartPass, SkipFold, PassDies
<1>11. ASSUME UNCHANGED vars PROVE IInv'
  BY <1>5, <1>11 DEF vars
<1> QED
  BY <1>6, <1>7, <1>8, <1>9, <1>10, <1>11 DEF Next, Around

-----------------------------------------------------------------------------
(***************************************************************************)
(* The theorems.                                                           *)
(***************************************************************************)
\* The invariant holds in every reachable state.
LEMMA Invariance == Spec => []IInv
  BY InitInv, NextInv, PTL DEF Spec

\* Every reachable state is well typed and no pass plans to fold a card into
\* itself.
THEOREM TypeCorrect == Spec => []TypeOK
<1>1. IInv => TypeOK
  BY DEF IInv
<1> QED
  BY <1>1, Invariance, PTL

\* Folds never form a circle (foldSameJob).
THEOREM NoCircles == Spec => []FoldsEnd
<1>1. IInv => FoldsEnd
  BY DEF IInv
<1> QED
  BY <1>1, Invariance, PTL

\* Observations land on cards that stand (foldSameJob).
THEOREM Landed == Spec => []SightingsLand
<1>1. IInv => SightingsLand
  BY DEF IInv
<1> QED
  BY <1>1, Invariance, PTL

\* No step makes a held card a folded copy or gives anybody a hold on one
\* (foldSameJob, createScoringBatchInTransaction); a card that is both was combined
\* and held before.
THEOREM HeldStays == Spec => HeldInPlay
<1>1. IInv /\ [Next]_vars
        => [\A c \in Card : held'[c] /\ FoldedCopy(c)' => held[c] /\ ~Standing(c)]_vars
  <2> SUFFICES ASSUME IInv, [Next]_vars, NEW d \in Card, held'[d], FoldedCopy(d)'
               PROVE  held[d] /\ ~Standing(d)
    OBVIOUS
  <2>1. into \in [Card -> MaybeCard] /\ held \in [Card -> BOOLEAN] /\ TypeOK
    BY DEF IInv, TypeOK
  <2>2. into'[d] # NoCard /\ row'[d].status = "dismissed"
    BY DEF FoldedCopy, Standing
  <2>3. ASSUME into'[d] = into[d], held'[d] = held[d] PROVE held[d] /\ ~Standing(d)
    BY <2>2, <2>3 DEF Standing
  <2>4. ASSUME NEW p \in Pass, Fold(p) PROVE held[d] /\ ~Standing(d)
    <3>1. PICK c \in Card, s \in Card :
             MayFold(c, s) /\ into' = [into EXCEPT ![c] = s] /\ held' = held
      BY <2>4, FoldFacts
    <3>2. d # c
      BY <3>1 DEF MayFold
    <3> QED
      BY <2>1, <2>3, <3>1, <3>2
  <2>5. ASSUME NEW c \in Card, Separate(c) PROVE held[d] /\ ~Standing(d)
    <3>1. into' = [into EXCEPT ![c] = NoCard] /\ held' = held
      BY <2>5, SeparateFacts
    <3>2. d # c
      BY <2>1, <2>2, <3>1
    <3> QED
      BY <2>1, <2>3, <3>1, <3>2
  <2>6. ASSUME NEW c \in Card, Score(c) \/ Automate(c) \/ Decide(c) \/ Rewrite(c)
        PROVE  held[d] /\ ~Standing(d)
    <3>1. /\ into' = into \/ into' = Unnamed(c)
          /\ held' = held \/ held' = [held EXCEPT ![c] = FALSE]
      BY <2>1, <2>6, WriteFacts
    <3>2. into'[d] = into[d]
      BY <2>1, <2>2, <3>1 DEF Unnamed
    <3>3. held[d]
      BY <2>1, <3>1
    <3> QED
      BY <2>2, <3>2, <3>3 DEF Standing
  <2>7. ASSUME NEW c \in Card,
               Claim(c) \/ ExportRead(c) \/ ExportLease(c) \/ ExportRefused(c) \/ LetGo(c)
        PROVE  held[d] /\ ~Standing(d)
    <3>1. UNCHANGED <<row, into>> /\ (held[d] \/ ~FoldedCopy(d))
      BY <2>7, HoldFacts
    <3> QED
      BY <2>2, <3>1 DEF FoldedCopy, Standing
  <2>8. ASSUME NEW p \in Pass, StartPass(p) \/ SkipFold(p) \/ PassDies(p) PROVE held[d] /\ ~Standing(d)
    BY <2>3, <2>8 DEF StartPass, SkipFold, PassDies
  <2>9. ASSUME UNCHANGED vars PROVE held[d] /\ ~Standing(d)
    BY <2>3, <2>9 DEF vars
  <2> QED
    BY <2>4, <2>5, <2>6, <2>7, <2>8, <2>9 DEF Next, Around
<1> QED
  BY <1>1, Invariance, PTL DEF Spec, HeldInPlay

\* Cards Joseph separated are not folded into each other (separateSameJob).
THEOREM ApartStays == Spec => []ApartNotFolded
<1>1. IInv => ApartNotFolded
  BY DEF IInv
<1> QED
  BY <1>1, Invariance, PTL

\* A card Joseph acted on is not folded (foldSameJob).
THEOREM ActedOnNotFolded == Spec => ActedOnStand
<1>1. IInv /\ [Next]_vars => [\A c \in Card : ActedOn(c) /\ Standing(c) => Standing(c)']_vars
  <2> SUFFICES ASSUME IInv, [Next]_vars, NEW d \in Card, ActedOn(d), Standing(d)
               PROVE  Standing(d)'
    OBVIOUS
  <2>1. into \in [Card -> MaybeCard]
    BY DEF IInv, TypeOK
  <2>2. ASSUME into' = into PROVE Standing(d)'
    BY <2>2 DEF Standing
  <2>3. ASSUME NEW c \in Card, into' = [into EXCEPT ![c] = NoCard] PROVE Standing(d)'
    BY <2>1, <2>3 DEF Standing
  <2>4. ASSUME NEW p \in Pass, Fold(p) PROVE Standing(d)'
    <3>1. PICK c \in Card, s \in Card : MayFold(c, s) /\ into' = [into EXCEPT ![c] = s]
      BY <2>4, FoldFacts
    <3>2. ~ActedOn(c)
      BY <3>1 DEF MayFold, ActedOn, Foldable, Decided
    <3> QED
      BY <2>1, <3>1, <3>2 DEF Standing
  <2>5. ASSUME NEW c \in Card, Separate(c) PROVE Standing(d)'
    BY <2>3, <2>5 DEF Separate, SeparateEffect
  <2>6. ASSUME NEW c \in Card, Score(c) \/ Automate(c) \/ Decide(c) \/ Rewrite(c)
        PROVE  Standing(d)'
    <3>1. into' = into \/ into' = Unnamed(c)
      BY <2>6, WriteFacts DEF IInv
    <3> QED
      BY <2>2, <2>3, <3>1 DEF Unnamed
  <2>7. ASSUME NEW c \in Card,
               Claim(c) \/ ExportRead(c) \/ ExportLease(c) \/ ExportRefused(c) \/ LetGo(c)
        PROVE  Standing(d)'
    BY <2>2, <2>7, HoldFacts
  <2>8. ASSUME NEW p \in Pass, StartPass(p) \/ SkipFold(p) \/ PassDies(p) PROVE Standing(d)'
    BY <2>2, <2>8 DEF StartPass, SkipFold, PassDies
  <2>9. ASSUME UNCHANGED vars PROVE Standing(d)'
    BY <2>2, <2>9 DEF vars
  <2> QED
    BY <2>4, <2>5, <2>6, <2>7, <2>8, <2>9 DEF Next, Around
<1> QED
  BY <1>1, Invariance, PTL DEF Spec, ActedOnStand

=============================================================================
