------------------------------- MODULE SameJob -------------------------------
(***************************************************************************)
(* Cards that are the same job, found through different sources.           *)
(*                                                                         *)
(* A combine pass reads every card, plans which copies to fold into which  *)
(* card, and then folds them one transaction at a time, however old the    *)
(* plan has become; passes of two processes overlap.  Joseph may separate  *)
(* a copy again.  Around them scores arrive, descriptions change, cards    *)
(* expire, workers claim cards, the scoring export leases cards it read    *)
(* earlier, and Joseph decides on cards, from pages that may show a card   *)
(* as it was before a fold.                                                *)
(*                                                                         *)
(* All cards share one title, so they form one group.  Links supplied by   *)
(* Joseph are left out.                                                    *)
(***************************************************************************)
EXTENDS Integers, FiniteSets

CONSTANTS
  Card,        \* cards, numbered in the order they were created
  Feed,        \* cards that come from an employer's own feed
  LinkedIn,    \* cards whose own link is a LinkedIn posting
  Keyed,       \* cards whose link carries a posting identity
  Anchored,    \* cards that name one city
  Pass,        \* processes that run combine passes
  NoCard,      \* null
  MaxMoves     \* bound on everything that happens besides passes

ASSUME CardAssumption == Card \subseteq Nat /\ IsFiniteSet(Card) /\ NoCard \notin Card
ASSUME KindAssumption == Feed \cup LinkedIn \cup Keyed \cup Anchored \subseteq Card
ASSUME BoundAssumption == MaxMoves \in Nat

VARIABLES
  row,      \* per card: status, scores, scoring status, own decision, link, identity
  into,     \* the card it is folded into (its consolidated pass reason), or NoCard
  at,       \* the card on which the source observation of a card is kept
  files,    \* the card on which the attachment of a card is kept
  fold,     \* the last fold event of a card
  held,     \* a worker's claim or a leased batch item is on the card
  prep,     \* what a scoring export that has read the card knows of it
  like,     \* how alike two cards are
  apart,    \* pairs that Joseph said are different jobs
  pass,     \* the folds a pass has planned and not yet tried
  moves

vars == <<row, into, at, files, fold, held, prep, like, apart, pass, moves>>

Foldable == {"pending_af", "inbox", "cooldown"}

Decided == {"bookmarked", "applied", "interviewing", "passed"}

CardStatus == Foldable \cup Decided

Status == CardStatus \cup {"expired", "dismissed"}

Pairs == {p \in SUBSET Card : \E c, d \in Card : c # d /\ p = {c, d}}

MaybeCard == Card \cup {NoCard}

Row == [status : Status, scores : 0..2, scoring : {"queued", "scored", "skipped"},
        own : BOOLEAN, link : Card, key : MaybeCard]

FoldEvent ==
  {e \in [into : MaybeCard, status : Status, scoring : {"queued", "scored", "skipped"},
          key : MaybeCard, files : SUBSET Card,
          linked : BOOLEAN, oldLink : MaybeCard, oldKey : MaybeCard] :
     e.linked => e.oldLink # NoCard}

NoFold == [into |-> NoCard, status |-> "dismissed", scoring |-> "queued",
           key |-> NoCard, files |-> {}, linked |-> FALSE,
           oldLink |-> NoCard, oldKey |-> NoCard]

\* A copy and the card it is to be folded into.
Folds == {f \in Card \X Card : f[1] # f[2]}

\* One well-typed state space, in which no pass (planSameJobConsolidation) plans
\* to fold a card into itself.
TypeOK ==
  /\ row \in [Card -> Row]
  /\ into \in [Card -> MaybeCard]
  /\ at \in [Card -> Card]
  /\ files \in [Card -> Card]
  /\ fold \in [Card -> FoldEvent]
  /\ held \in [Card -> BOOLEAN]
  /\ prep \in [Card -> {"none", "read", "stale"}]
  /\ like \in [Pairs -> {"same", "close", "other"}]
  /\ apart \subseteq Pairs
  /\ pass \in [Pass -> SUBSET Folds]
  /\ moves \in 0..MaxMoves

UrlKey(c) == IF c \in Keyed THEN c ELSE NoCard

Init ==
  /\ row = [c \in Card |-> [status |-> "pending_af", scores |-> 0, scoring |-> "queued",
                            own |-> FALSE, link |-> c, key |-> UrlKey(c)]]
  /\ into = [c \in Card |-> NoCard]
  /\ at = [c \in Card |-> c]
  /\ files = [c \in Card |-> c]
  /\ fold = [c \in Card |-> NoFold]
  /\ held = [c \in Card |-> FALSE]
  /\ prep = [c \in Card |-> "none"]
  /\ like \in [Pairs -> {"same", "close", "other"}]
  /\ apart = {}
  /\ pass = [p \in Pass |-> {}]
  /\ moves = 0

-----------------------------------------------------------------------------
(***************************************************************************)
(* Planning.                                                               *)
(***************************************************************************)
Standing(c) == into[c] = NoCard

InView(c) == Standing(c) /\ row[c].status \in CardStatus

ActedOn(c) == row[c].own \/ row[c].status \in Decided

Linked(c, d) ==
  /\ c # d
  /\ ~(ActedOn(c) /\ ActedOn(d))
  /\ {c, d} \notin apart
  /\ like[{c, d}] = "same"

\* The cards reached from c over links: the smallest set that holds c and
\* every card linked to a member.
Group(c) ==
  LET V == {d \in Card : InView(d)}
      Closed(X) == \A d \in X, e \in V : Linked(d, e) => e \in X
  IN  {d \in V : \A X \in SUBSET V : c \in X /\ Closed(X) => d \in X}

UserRank(s) ==
  CASE s = "interviewing" -> 90 [] s = "applied" -> 85 [] s = "bookmarked" -> 60
    [] s = "passed" -> 30 [] s = "inbox" -> 20 [] s = "cooldown" -> 15
    [] s = "pending_af" -> 10 [] OTHER -> 0

MachineRank(s) ==
  CASE s = "cooldown" -> 3 [] s = "inbox" -> 2 [] s = "pending_af" -> 1 [] OTHER -> 0

\* What a card is ranked by, the weightiest first.
RankKey(c) ==
  IF ActedOn(c)
  THEN <<UserRank(row[c].status), row[c].scores, 0, 0 - c>>
  ELSE <<row[c].scores, MachineRank(row[c].status), IF c \in Feed THEN 1 ELSE 0, 0 - c>>

Outranks(k, l) == \E i \in 1..4 : k[i] > l[i] /\ \A j \in 1..(i - 1) : k[j] = l[j]

Survivor(G) ==
  LET own  == {c \in G : ActedOn(c)}
      pool == IF own # {} THEN own ELSE G
  IN  CHOOSE c \in pool : \A d \in pool \ {c} : Outranks(RankKey(c), RankKey(d))

\* Every pair of the group is the same job; two copies that are only alike in
\* their text are accepted beside a survivor that names the city of both.
Coherent(G) ==
  LET s == Survivor(G)
  IN  \A c, d \in G :
        \/ c = d
        \/ ActedOn(c) /\ ActedOn(d)
        \/ Linked(c, d)
        \/ /\ {c, d} \notin apart
           /\ s \in Anchored /\ s \notin {c, d}
           /\ Linked(s, c) /\ Linked(s, d)
           /\ like[{c, d}] = "close"

\* The folds a pass plans for one group, as pairs <<copy, survivor>>.  A copy or
\* survivor that a worker or an export holds waits for a later pass.
PlannedIn(G) ==
  {f \in G \X G : /\ f[2] = Survivor(G) /\ f[1] # f[2]
                  /\ ~ActedOn(f[1]) /\ ~held[f[1]] /\ ~held[f[2]]}

Planned ==
  UNION {PlannedIn(G) : G \in {H \in {Group(c) : c \in {d \in Card : InView(d)}} : Coherent(H)}}

\* The queries that load the cards and the exceptions share no transaction; they
\* are read here at one moment, since the plan grows old after them all the same
\* and each of its folds is judged again.
StartPass(p) ==
  /\ pass[p] = {}
  /\ Planned # {}
  /\ pass' = [pass EXCEPT ![p] = Planned]
  /\ UNCHANGED <<row, into, at, files, fold, held, prep, like, apart, moves>>

-----------------------------------------------------------------------------
(***************************************************************************)
(* Folding.  The transaction locks both cards and judges them again.       *)
(***************************************************************************)
\* mutant: only the statuses say whether a card was combined
MayFoldTwice(c, s) ==
  /\ row[c].status \in Foldable
  /\ row[s].status \in CardStatus
  /\ ~row[c].own
  /\ ~held[c] /\ ~held[s]
  /\ {c, s} \notin apart
  /\ like[{c, s}] = "same"

\* mutant: claims and leases are not looked at again
MayFoldHeld(c, s) ==
  /\ Standing(c) /\ Standing(s)
  /\ row[c].status \in Foldable
  /\ row[s].status \in CardStatus
  /\ ~row[c].own
  /\ {c, s} \notin apart
  /\ like[{c, s}] = "same"

\* mutant: the exceptions of the plan are trusted
MayFoldApart(c, s) ==
  /\ Standing(c) /\ Standing(s)
  /\ row[c].status \in Foldable
  /\ row[s].status \in CardStatus
  /\ ~row[c].own
  /\ ~held[c] /\ ~held[s]
  /\ like[{c, s}] = "same"

\* mutant: only the status is judged again, not Joseph's own decisions
MayFoldOwn(c, s) ==
  /\ Standing(c) /\ Standing(s)
  /\ row[c].status \in Foldable
  /\ row[s].status \in CardStatus
  /\ ~held[c] /\ ~held[s]
  /\ {c, s} \notin apart
  /\ like[{c, s}] = "same"

MayFold(c, s) ==
  /\ Standing(c) /\ Standing(s)
  /\ row[c].status \in Foldable
  /\ row[s].status \in CardStatus
  /\ ~row[c].own
  /\ ~held[c] /\ ~held[s]
  /\ {c, s} \notin apart
  /\ like[{c, s}] = "same"

\* The survivor takes the link of the copy when the copy is the employer's own
\* posting and the survivor a reprint.
TakesLink(c, s) == s \notin Feed /\ c \in Feed

LinkAfter(c, s) == IF TakesLink(c, s) THEN row[c].link ELSE row[s].link

FirstOf(a, b) == IF a # NoCard THEN a ELSE b

KeyAfter(c, s) ==
  IF TakesLink(c, s)
  THEN FirstOf(UrlKey(row[c].link), FirstOf(row[c].key, row[s].key))
  ELSE FirstOf(row[s].key, row[c].key)

\* The unique index on the posting identity rejects a fold that would give the
\* survivor an identity a third card holds.
KeyClash(c, s) ==
  /\ KeyAfter(c, s) # NoCard
  /\ \E d \in Card \ {c, s} : row[d].key = KeyAfter(c, s)

\* mutant: the sighting is compared with the link the survivor had before
MovesByOldLink(o, c, s) ==
  at[o] = c /\ ~(o \in LinkedIn /\ row[s].link \in LinkedIn /\ o # row[s].link)

\* Every observation on the copy moves, except a LinkedIn sighting of another
\* posting than the survivor's own LinkedIn link.
MovesOver(o, c, s) ==
  at[o] = c /\ ~(o \in LinkedIn /\ LinkAfter(c, s) \in LinkedIn /\ o # LinkAfter(c, s))

\* Dismissing a card that was never scored takes it out of the scoring queue.
ScoringAfterDismissal(c) ==
  IF row[c].scores = 0 /\ row[c].scoring # "scored" THEN "skipped" ELSE row[c].scoring

FoldEffect(c, s) ==
  /\ row' = [row EXCEPT
               ![c] = [status |-> "dismissed", scores |-> row[c].scores,
                       scoring |-> ScoringAfterDismissal(c),
                       own |-> row[c].own, link |-> row[c].link, key |-> NoCard],
               ![s] = [status |-> row[s].status, scores |-> row[s].scores,
                       scoring |-> row[s].scoring, own |-> row[s].own,
                       link |-> LinkAfter(c, s), key |-> KeyAfter(c, s)]]
  /\ into' = [into EXCEPT ![c] = s]
  /\ at' = [o \in Card |-> IF MovesOver(o, c, s) THEN s ELSE at[o]]
  /\ files' = [a \in Card |-> IF files[a] = c THEN s ELSE files[a]]
  /\ fold' = [fold EXCEPT ![c] =
                [into |-> s, status |-> row[c].status, scoring |-> row[c].scoring,
                 key |-> row[c].key, files |-> {a \in Card : files[a] = c},
                 linked |-> TakesLink(c, s),
                 oldLink |-> row[s].link, oldKey |-> row[s].key]]

\* A write of the card moves its updatedAt, so an export that read it before
\* will find it changed.  A fold keeps the updatedAt of the survivor.
Touched(c) == [prep EXCEPT ![c] = IF @ = "none" THEN "none" ELSE "stale"]

Take(p, f) == pass' = [pass EXCEPT ![p] = @ \ {f}]

Fold(p) == \E f \in pass[p] :
  LET c == f[1]
      s == f[2]
  IN  /\ MayFold(c, s)
      /\ ~KeyClash(c, s)
      /\ FoldEffect(c, s)
      /\ prep' = Touched(c)
      /\ Take(p, f)
      /\ UNCHANGED <<held, like, apart, moves>>

\* A fold that is refused does not stop the pass.
SkipFold(p) == \E f \in pass[p] :
  /\ MayFold(f[1], f[2]) => KeyClash(f[1], f[2])
  /\ Take(p, f)
  /\ UNCHANGED <<row, into, at, files, fold, held, prep, like, apart, moves>>

-----------------------------------------------------------------------------
(***************************************************************************)
(* Separating a copy.                                                      *)
(***************************************************************************)
\* The card c was combined into, following later combines to the end.
ChainAbove(c) ==
  LET Closed(X) == \A d \in X : into[d] # NoCard => into[d] \in X
  IN  {d \in Card \ {c} : \A X \in SUBSET Card : c \in X /\ Closed(X) => d \in X}

Move == moves < MaxMoves /\ moves' = moves + 1

\* The survivor gives back the link it took, unless it has another one by now.
GivesLinkBack(c, s) == fold[c].linked /\ row[s].link = row[c].link

KeyBack(c, s) == IF GivesLinkBack(c, s) THEN fold[c].oldKey ELSE row[s].key

KeyFree(c, s) ==
  /\ fold[c].key # NoCard
  /\ KeyBack(c, s) # fold[c].key
  /\ \A d \in Card \ {s} : row[d].key # fold[c].key

SeparateEffect(c, s) ==
  /\ apart' = apart \cup {{c, o} : o \in ({s} \cup ChainAbove(s)) \ {c}}
  /\ at' = [at EXCEPT ![c] = IF @ = s THEN c ELSE @]
  /\ files' = [a \in Card |-> IF a \in fold[c].files /\ files[a] = s THEN c ELSE files[a]]
  /\ row' = [row EXCEPT
               ![s] = [status |-> row[s].status, scores |-> row[s].scores,
                       scoring |-> row[s].scoring, own |-> row[s].own,
                       link |-> IF GivesLinkBack(c, s) THEN fold[c].oldLink ELSE row[s].link,
                       key |-> KeyBack(c, s)],
               ![c] = [status |-> fold[c].status, scores |-> row[c].scores,
                       scoring |-> IF row[c].scoring = "skipped" THEN fold[c].scoring
                                                                 ELSE row[c].scoring,
                       own |-> fold[c].status # "pending_af",
                       link |-> row[c].link,
                       key |-> IF KeyFree(c, s) THEN fold[c].key ELSE row[c].key]]
  /\ into' = [into EXCEPT ![c] = NoCard]
  /\ prep' = Touched(c)

\* Joseph's decision counts as final unless the card goes back to be scored.
\* The unique index refuses an identity that another card holds.
Separate(c) ==
  LET s == fold[c].into
  IN  /\ Move
      /\ s # NoCard
      /\ into[c] = s
      /\ row[c].status = "dismissed"
      /\ fold[c].status \in Foldable
      /\ GivesLinkBack(c, s) /\ fold[c].oldKey # NoCard
           => \A d \in Card \ {s} : row[d].key # fold[c].oldKey
      /\ SeparateEffect(c, s)
      /\ UNCHANGED <<fold, held, like, pass>>

-----------------------------------------------------------------------------
(***************************************************************************)
(* What else changes cards.                                                *)
(***************************************************************************)
SetRow(c, status, scores, scoring, own) ==
  /\ row' = [row EXCEPT ![c] = [status |-> status, scores |-> scores, scoring |-> scoring,
                                own |-> own, link |-> row[c].link, key |-> row[c].key]]
  /\ prep' = Touched(c)

\* The reason that named the survivor gives way to another one, or to none.
Unnamed(c) == [into EXCEPT ![c] = NoCard]

\* The local triage lets a card pass, or an import gives it the next score; the
\* import also moves it, unless Joseph has decided on it or it is on cooldown.
\* A dismissal for its scores leaves the reason as it is; one for repeating an
\* application replaces it.
Score(c) ==
  /\ Move
  /\ row[c].status \in Foldable
  /\ \/ /\ SetRow(c, row[c].status, row[c].scores, "scored", row[c].own)
        /\ UNCHANGED into
     \/ \E s \in IF row[c].own \/ row[c].status = "cooldown" THEN {row[c].status}
                                                           ELSE Foldable \cup {"dismissed"} :
          /\ row[c].scores < 2
          /\ SetRow(c, s, row[c].scores + 1, "scored", row[c].own)
          /\ into' \in {into} \cup {i \in {Unnamed(c)} : s = "dismissed"}
  /\ UNCHANGED <<at, files, fold, held, like, apart, pass>>

\* Into the Inbox, or into the cooldown of its company.
Place(c) ==
  /\ \E s \in {"inbox", "cooldown"} \ {row[c].status} :
       /\ s = "inbox" => row[c].scores > 0
       /\ SetRow(c, s, row[c].scores, row[c].scoring, row[c].own)
  /\ UNCHANGED <<into, held>>

\* From cooldown back to be scored.  A card without scores is queued again, and
\* the claims on it are cleared (a leased batch item is not).
Release(c) ==
  /\ row[c].status = "cooldown"
  /\ \/ SetRow(c, "pending_af", row[c].scores, row[c].scoring, row[c].own) /\ UNCHANGED held
     \/ /\ row[c].scores = 0
        /\ SetRow(c, "pending_af", 0, "queued", row[c].own)
        /\ \E h \in {held[c], FALSE} : held' = [held EXCEPT ![c] = h]
  /\ UNCHANGED into

\* Only an expiry at the end of a cooldown states no reason of its own.
Expire(c) ==
  /\ SetRow(c, "expired", row[c].scores, row[c].scoring, row[c].own)
  /\ into' = IF row[c].status = "cooldown" THEN into ELSE Unnamed(c)
  /\ UNCHANGED held

\* A cooldown ends in a dismissal: for the scores, which gives no reason; by a
\* local rule, which is applied only to a card without scores that nobody holds
\* and Joseph left alone; or because the card repeats an application, an event
\* that is not Joseph's own.  The local triage rejects a card it has claimed.
Dismiss(c) ==
  /\ \/ /\ row[c].status = "cooldown" /\ row[c].scores > 0
        /\ SetRow(c, "dismissed", row[c].scores, row[c].scoring, row[c].own)
        /\ UNCHANGED into
     \/ /\ row[c].status = "cooldown" /\ row[c].scores = 0 /\ row[c].scoring = "scored"
        /\ ~held[c] /\ ~row[c].own
        /\ SetRow(c, "dismissed", 0, "scored", row[c].own)
        /\ into' = Unnamed(c)
     \/ /\ row[c].status = "cooldown"
        /\ SetRow(c, "dismissed", row[c].scores, ScoringAfterDismissal(c), FALSE)
        /\ into' = Unnamed(c)
     \/ /\ held[c] /\ row[c].status = "pending_af"
        /\ SetRow(c, "dismissed", row[c].scores, "skipped", row[c].own)
        /\ into' = Unnamed(c)
  /\ UNCHANGED held

\* Rules move a card on.
Automate(c) ==
  /\ Move
  /\ row[c].status \in Foldable
  /\ Place(c) \/ Release(c) \/ Expire(c) \/ Dismiss(c)
  /\ UNCHANGED <<at, files, fold, like, apart, pass>>

\* Joseph decides on a card.  The page he clicks on may be older than a fold,
\* and the write looks neither at that nor at claims and leases: an application
\* is then recorded on the copy, and a rejection or dismissal replaces the reason
\* that named the survivor.  A change of status is his own decision.  The Inbox
\* may be refused, for a cooldown of the company or as the repeat of an
\* application.
Decide(c) ==
  /\ Move
  /\ \/ \E s \in {"inbox", "applied", "passed", "dismissed"} :
          /\ SetRow(c, s, row[c].scores, row[c].scoring, row[c].own \/ row[c].status # s)
          /\ into' = IF s \in {"passed", "dismissed"} THEN Unnamed(c) ELSE into
     \/ /\ SetRow(c, "cooldown", row[c].scores, row[c].scoring, row[c].own)
        /\ UNCHANGED into
     \/ /\ SetRow(c, "dismissed", row[c].scores, row[c].scoring, FALSE)
        /\ into' = Unnamed(c)
  /\ UNCHANGED <<at, files, fold, held, like, apart, pass>>

\* Joseph's edit asks for new scores: the old ones, the reason and the claims go,
\* a card of the Inbox waits again, and his earlier decision no longer counts.
Rescored(c) ==
  /\ SetRow(c, IF row[c].status = "inbox" THEN "pending_af" ELSE row[c].status,
            0, "queued", FALSE)
  /\ into' = Unnamed(c)
  /\ \E h \in {held[c], FALSE} : held' = [held EXCEPT ![c] = h]

\* The description of c is replaced, by Joseph's edit or by the recovery of a
\* missing one, which touches nothing else of the card here, and now reads more
\* or less like that of another card.
Rewrite(c) ==
  /\ Move
  /\ \E d \in Card \ {c} : \E l \in {"same", "close", "other"} \ {like[{c, d}]} :
       like' = [like EXCEPT ![{c, d}] = l]
  /\ Rescored(c) \/ (prep' = Touched(c) /\ UNCHANGED <<row, into, held>>)
  /\ UNCHANGED <<at, files, fold, apart, pass>>

\* A scorer or an extractor claims a card by a guarded update.
Claim(c) ==
  /\ Move
  /\ row[c].status \in Foldable /\ ~held[c]
  /\ held' = [held EXCEPT ![c] = TRUE]
  /\ prep' = Touched(c)
  /\ UNCHANGED <<row, into, at, files, fold, like, apart, pass>>

\* The export reads its candidates first, and leases them in a transaction
\* that compares their updatedAt with what was read.
ExportRead(c) ==
  /\ Move
  /\ row[c].status \in Foldable /\ ~held[c] /\ prep[c] = "none"
  /\ prep' = [prep EXCEPT ![c] = "read"]
  /\ UNCHANGED <<row, into, at, files, fold, held, like, apart, pass>>

ExportLease(c) ==
  /\ prep[c] = "read" /\ ~held[c]
  /\ held' = [held EXCEPT ![c] = TRUE]
  /\ prep' = [prep EXCEPT ![c] = "none"]
  /\ UNCHANGED <<row, into, at, files, fold, like, apart, pass, moves>>

ExportRefused(c) ==
  /\ prep[c] = "stale"
  /\ prep' = [prep EXCEPT ![c] = "none"]
  /\ UNCHANGED <<row, into, at, files, fold, held, like, apart, pass, moves>>

LetGo(c) ==
  /\ held[c]
  /\ held' = [held EXCEPT ![c] = FALSE]
  /\ prep' = Touched(c)
  /\ UNCHANGED <<row, into, at, files, fold, like, apart, pass, moves>>

PassDies(p) ==
  /\ Move
  /\ pass[p] # {}
  /\ pass' = [pass EXCEPT ![p] = {}]
  /\ UNCHANGED <<row, into, at, files, fold, held, prep, like, apart>>

Around(c) ==
  \/ Separate(c) \/ Score(c) \/ Automate(c) \/ Decide(c) \/ Rewrite(c)
  \/ Claim(c) \/ ExportRead(c) \/ ExportLease(c) \/ ExportRefused(c) \/ LetGo(c)

Next ==
  \/ \E p \in Pass : StartPass(p) \/ Fold(p) \/ SkipFold(p) \/ PassDies(p)
  \/ \E c \in Card : Around(c)

Spec == Init /\ [][Next]_vars

-----------------------------------------------------------------------------
(***************************************************************************)
(* Properties.                                                             *)
(***************************************************************************)
\* Chains of folds end: overlapping passes with plans of different age never
\* fold cards into each other in a circle, in which the job would be on no
\* card at all (foldSameJob's check "A card was already combined").
FoldsEnd == \A X \in SUBSET Card : X # {} => \E c \in X : into[c] \notin X

\* The link the survivor of c had when c was folded into it, after the fold.
LinkAtFold(c) == IF fold[c].linked THEN row[c].link ELSE fold[c].oldLink

\* A LinkedIn sighting of another posting than the survivor's LinkedIn link.
OtherPosting(o, c) == o \in LinkedIn /\ LinkAtFold(c) \in LinkedIn \ {o}

\* A later sighting from any source lands on a card that stands, however many
\* combines and separations there were.  The only sightings left on a folded card
\* are LinkedIn's, and only where the survivor had the link of another LinkedIn
\* posting when the card was folded (the comment at the movable observations of
\* foldSameJob); a LinkedIn sighting follows its card into an employer's.
SightingsLand == \A o \in Card : Standing(at[o]) \/ OtherPosting(o, at[o])

\* A dismissed copy, whose reason still names the card it was combined into.
FoldedCopy(c) == ~Standing(c) /\ row[c].status = "dismissed"

\* Neither a fold of an old plan nor an export prepared before a fold leaves a
\* folded copy claimed or leased: a card is held and a folded copy only if it was
\* combined and held before the step (Joseph put the copy back into play, it was
\* claimed, and a rule dismissed it for its scores).
HeldInPlay ==
  [][\A c \in Card : held'[c] /\ FoldedCopy(c)' => held[c] /\ ~Standing(c)]_vars

\* Once Joseph has separated two cards neither is folded into the other, by
\* a plan however old.
ApartNotFolded == \A c \in Card : into[c] # NoCard => {c, into[c]} \notin apart

\* A card Joseph has acted on is never folded, also if he acted after the
\* pass made its plan.
ActedOnStand == [][\A c \in Card : ActedOn(c) /\ Standing(c) => Standing(c)']_vars

=============================================================================
