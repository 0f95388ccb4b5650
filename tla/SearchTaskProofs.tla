--------------------------- MODULE SearchTaskProofs ---------------------------
(* Theorems about SearchTask, for any number of turns and pages and any     *)
(* lengths of the lease, the cadence and the windows.                       *)
EXTENDS SearchTask, ProviderBudgetProofs, TLAPS

(* The inductive invariant, in two parts: what holds of the row, and what   *)
(* holds of a turn's record against the row.                                *)

\* The row: times are of the past, the window of an unfinished search ends
\* where the watermark or later, and a retired row has no holder.
TaskOK(k, n) ==
  /\ k \in Tasks
  /\ k.watermark <= n
  /\ k.search # None => k.search.window.to <= n
  /\ Unfinished(k.search) => k.watermark <= k.search.window.to
  /\ k.lifecycle = "retired" => k.token = None

\* A turn about to claim either has a window that ends at the watermark or
\* later, or the row has been put off beyond the time of its read: its claim
\* will be refused.
Reading(r, t, k) ==
  r.pc = "claim" => k.token # t /\ (k.watermark <= r.window.to \/ r.at < k.next)

\* The holder's windows end at the watermark or later.
Holding(r, t, k) ==
  k.token = t /\ r.pc # "idle" =>
    /\ k.watermark <= r.window.to
    /\ Unfinished(r.search) => k.watermark <= r.search.window.to

\* A turn reads pages of an unfinished search, and ends in success only with a
\* finished one.
Paging(r) ==
  /\ r.pc \in {"page", "save"} => Unfinished(r.search)
  /\ r.status = "succeeded" => r.pc \in {"finish", "complete", "abandon"} /\ ~Unfinished(r.search)

TurnOK(r, t, k, n) ==
  /\ r \in TurnRecords
  /\ r.at <= n /\ r.window.to <= n
  /\ r.search # None => r.search.window.to <= n
  /\ Reading(r, t, k)
  /\ Holding(r, t, k)
  /\ Paging(r)

CountsOK == provider \in Providers /\ sent \in [day : Nat, count : Nat, late : Nat]

IInv ==
  /\ now \in Nat /\ Start <= now
  /\ CountsOK /\ listed \in BOOLEAN
  /\ got \subseteq Windows \X (1 .. Pages) /\ since \in Nat /\ missed \subseteq Times
  /\ TaskOK(task, now)
  /\ turn \in [Turns -> TurnRecords]
  /\ \A t \in Turns : TurnOK(turn[t], t, task, now)
----------------------------------------------------------------------------
(* Lemmas.                                                                  *)

\* A window derived for a turn ends now and starts no later.
LEMMA DerivedType ==
  ASSUME NEW n \in Nat, Start <= n, NEW w \in Nat
  PROVE  Derived(w, n) \in Windows /\ Derived(w, n).to = n
<1> DEFINE desired == IF w = 0 THEN n - Lookback ELSE w - Overlap
           from == Lower(Higher(desired, n - MaxCatchUp), n)
<1>1. desired \in Int
  BY SearchAssumption
<1>2. n - MaxCatchUp \in Nat
  BY SearchAssumption
<1> HIDE DEF desired
<1>3. Higher(desired, n - MaxCatchUp) \in Nat
  BY <1>1, <1>2 DEF Higher
<1>4. from \in Nat
  BY <1>3 DEF Lower
<1>5. Derived(w, n) = [from |-> from, to |-> n]
  BY DEF Derived, desired
<1> QED
  BY <1>4, <1>5 DEF Windows

\* What a turn knows stays true when the row changes hands, and when the row is
\* put off beyond the present.
LEMMA TurnKept ==
  ASSUME NEW r, NEW t \in Turns, NEW k \in Tasks, NEW k2 \in Tasks,
         NEW n \in Nat, NEW m \in Nat, n <= m,
         TurnOK(r, t, k, n),
         k2.token = t => k.token = t /\ k2.watermark = k.watermark,
         (k2.next = k.next /\ k2.watermark = k.watermark) \/ n < k2.next
  PROVE  TurnOK(r, t, k2, m)
<1>1. /\ r.at \in Nat /\ r.window.to \in Nat
      /\ r.search # None => r.search.window.to \in Nat
  BY DEF TurnOK, TurnRecords, Windows, Searches
<1>2. r.at <= m /\ r.window.to <= m /\ (r.search # None => r.search.window.to <= m)
  BY <1>1 DEF TurnOK
<1>3. Reading(r, t, k2)
  BY <1>1 DEF TurnOK, Reading, Tasks
<1>4. Holding(r, t, k2)
  BY DEF TurnOK, Holding
<1> QED
  BY <1>2, <1>3, <1>4 DEF TurnOK

\* A step of one turn: the other turns keep what they know.
LEMMA TurnStep ==
  ASSUME IInv, NEW t \in Turns, NEW r \in TurnRecords,
         turn' = [turn EXCEPT ![t] = r], now' = now,
         task' \in Tasks,
         \A u \in Turns \ {t} : task'.token = u => task.token = u /\ task'.watermark = task.watermark,
         (task'.next = task.next /\ task'.watermark = task.watermark) \/ now < task'.next,
         TurnOK(r, t, task', now)
  PROVE  /\ turn' \in [Turns -> TurnRecords]
         /\ \A u \in Turns : TurnOK(turn'[u], u, task', now')
<1>1. turn' \in [Turns -> TurnRecords]
  BY DEF IInv
<1>2. ASSUME NEW u \in Turns PROVE TurnOK(turn'[u], u, task', now')
  <2>1. CASE u = t
    BY <2>1 DEF IInv
  <2>2. CASE u # t
    <3>1. turn'[u] = turn[u]
      BY <2>2 DEF IInv
    <3>2. TurnOK(turn[u], u, task, now) /\ now \in Nat /\ task \in Tasks
      BY DEF IInv, TaskOK
    <3>3. task'.token = u => task.token = u /\ task'.watermark = task.watermark
      BY <2>2
    <3> QED
      BY <3>1, <3>2, <3>3, TurnKept
  <2> QED
    BY <2>1, <2>2
<1> QED
  BY <1>1, <1>2

\* A step that moves no turn.
LEMMA TurnsKept ==
  ASSUME IInv, UNCHANGED turn, now' \in Nat, now <= now', task' \in Tasks,
         task'.token = task.token, task'.watermark = task.watermark,
         task'.next = task.next \/ now < task'.next
  PROVE  \A u \in Turns : TurnOK(turn'[u], u, task', now')
<1> SUFFICES ASSUME NEW u \in Turns PROVE TurnOK(turn[u], u, task', now')
  BY DEF IInv
<1>1. TurnOK(turn[u], u, task, now) /\ now \in Nat /\ task \in Tasks
  BY DEF IInv, TaskOK
<1> QED
  BY <1>1, TurnKept

\* Saving an unfinished search, or the search of a turn that ends, keeps the row
\* well formed.
LEMMA SavedType ==
  ASSUME IInv, NEW s \in Searches \cup {None}, s # None => s.window.to <= now,
         Unfinished(s) => task.watermark <= s.window.to
  PROVE  /\ TaskOK(Saved(s), now)
         /\ Saved(s).token = task.token /\ Saved(s).next = task.next
         /\ Saved(s).watermark = task.watermark
<1>0. now + LeaseLen \in Nat /\ task \in Tasks
  BY SearchAssumption DEF IInv, TaskOK
<1>1. Saved(s) \in Tasks
  BY <1>0 DEF Saved, Tasks
<1>2. /\ Saved(s).token = task.token /\ Saved(s).next = task.next
      /\ Saved(s).watermark = task.watermark /\ Saved(s).search = s
      /\ Saved(s).lifecycle = task.lifecycle
  BY DEF IInv, TaskOK, Saved, Tasks
<1> QED
  BY <1>1, <1>2 DEF IInv, TaskOK

\* A row is released to run again later than now.
LEMMA ReleasedType ==
  ASSUME IInv, NEW status \in Statuses
  PROVE  /\ TaskOK(Released(status), now)
         /\ Released(status).token = None /\ now < Released(status).next
         /\ Released(status).watermark = task.watermark
         /\ Released(status).search = task.search
<1>1. NextRun(status) \in Nat /\ now < NextRun(status)
  BY RetryLater, SearchAssumption DEF IInv, CountsOK, NextRun
<1>2. Released(status) \in Tasks
  BY <1>1 DEF IInv, TaskOK, Released, Tasks
<1>3. /\ Released(status).token = None /\ Released(status).next = NextRun(status)
      /\ Released(status).watermark = task.watermark
      /\ Released(status).search = task.search
      /\ Released(status).lifecycle = task.lifecycle
  BY DEF IInv, TaskOK, Released, Tasks
<1> QED
  BY <1>1, <1>2, <1>3 DEF IInv, TaskOK
----------------------------------------------------------------------------
(* The steps of a turn.                                                     *)

\* What a step must establish.
TurnPart == turn' \in [Turns -> TurnRecords] /\ \A u \in Turns : TurnOK(turn'[u], u, task', now')
GhostPart == got' \subseteq Windows \X (1 .. Pages) /\ since' \in Nat /\ missed' \subseteq Times

LEMMA NoTurnOK ==
  ASSUME NEW t, NEW k, NEW n \in Nat
  PROVE  NoTurn \in TurnRecords /\ TurnOK(NoTurn, t, k, n)
<1>1. NoTurn \in TurnRecords
  BY DEF NoTurn, TurnRecords, Windows, Statuses
<1>2. /\ NoTurn.pc = "idle" /\ NoTurn.at = 0 /\ NoTurn.window.to = 0
      /\ NoTurn.search = None /\ NoTurn.status = "failed"
  BY DEF NoTurn
<1> QED
  BY <1>1, <1>2 DEF TurnOK, Reading, Holding, Paging

LEMMA InitIInv == Init => IInv
<1> SUFFICES ASSUME Init PROVE IInv
  OBVIOUS
<1>1. TaskOK(task, now)
  BY SearchAssumption DEF Init, TaskOK, Tasks, Statuses, Unfinished
<1>2. now \in Nat
  BY SearchAssumption DEF Init
<1>3. NoTurn \in TurnRecords /\ \A t \in Turns : TurnOK(NoTurn, t, task, now)
  BY <1>2, NoTurnOK
<1>4. CountsOK
  BY Calendar, SearchAssumption DEF Init, CountsOK, Providers
<1> QED
  BY <1>1, <1>2, <1>3, <1>4, SearchAssumption DEF Init, IInv

LEMMA ReadInv == ASSUME IInv, NEW t \in Turns, Read(t) PROVE IInv'
<1> DEFINE w == ClaimWindow(now)
           r == [NoTurn EXCEPT !.pc = "claim", !.at = now, !.window = w]
<1>1. now \in Nat /\ Start <= now /\ task \in Tasks /\ task.watermark \in Nat
  BY DEF IInv, TaskOK, Tasks
<1>2. w \in Windows /\ w.to <= now /\ task.watermark <= w.to
  <2>1. CASE Unfinished(task.search)
    <3>1. task.search \in Searches /\ task.search # None
      BY <1>1, <2>1 DEF Tasks, Unfinished
    <3> QED
      BY <2>1, <3>1 DEF IInv, TaskOK, ClaimWindow, Searches
  <2>2. CASE ~Unfinished(task.search)
    <3>1. w = Derived(task.watermark, now)
      BY <2>2 DEF ClaimWindow
    <3>2. task.watermark <= now
      BY DEF IInv, TaskOK
    <3> HIDE DEF w
    <3> QED
      BY <1>1, <3>1, <3>2, DerivedType
  <2> QED
    BY <2>1, <2>2
<1> HIDE DEF w
<1>3. r \in TurnRecords
  BY <1>1, <1>2 DEF NoTurn, TurnRecords, Statuses
<1>4. r.pc = "claim" /\ r.at = now /\ r.window = w /\ r.search = None /\ r.status = "failed"
  BY DEF NoTurn
<1>5. turn' = [turn EXCEPT ![t] = r] /\ task' = task /\ now' = now /\ task.token # t
  BY DEF Read, w
<1> HIDE DEF r
<1>6. TurnOK(r, t, task', now)
  BY <1>1, <1>2, <1>3, <1>4, <1>5 DEF TurnOK, Reading, Holding, Paging
<1>7. TurnPart
  BY <1>1, <1>3, <1>5, <1>6, TurnStep DEF TurnPart
<1> QED
  BY <1>5, <1>7 DEF Read, IInv, TurnPart, ghosts, counts, CountsOK

LEMMA ClaimInv == ASSUME IInv, NEW t \in Turns, Claim(t) PROVE IInv'
<1>1. now \in Nat /\ task \in Tasks /\ turn[t] \in TurnRecords /\ TurnOK(turn[t], t, task, now)
  BY DEF IInv, TaskOK
<1>3. CASE Claimable(t)
  <2> DEFINE r == [turn[t] EXCEPT !.pc = "open", !.search = task.search]
  <2>1. r \in TurnRecords
    BY <1>1 DEF TurnRecords, Tasks
  <2>2. /\ r.pc = "open" /\ r.at = turn[t].at /\ r.window = turn[t].window
        /\ r.search = task.search /\ r.status = turn[t].status
    BY <1>1 DEF TurnRecords
  <2>3. turn' = [turn EXCEPT ![t] = r] /\ now' = now
    BY <1>1, <1>3 DEF Claim, IInv
  <2>4. task' \in Tasks /\ task'.token = t /\ task'.next = task.next
        /\ task'.watermark = task.watermark /\ task'.search = task.search
        /\ task'.lifecycle = "active"
    <3>1. turn[t].at + LeaseLen \in Nat
      BY <1>1, SearchAssumption DEF TurnRecords
    <3> QED
      BY <1>1, <1>3, <3>1 DEF Claim, Claimable, Tasks, Statuses
  <2>5. task.watermark <= turn[t].window.to
    BY <1>1, <1>3 DEF Claim, Claimable, TurnOK, Reading, TurnRecords, Tasks
  <2>6. TaskOK(task', now)
    BY <2>4 DEF IInv, TaskOK
  <2> HIDE DEF r
  <2>7. TurnOK(r, t, task', now)
    BY <1>1, <2>1, <2>2, <2>4, <2>5, <2>6 DEF Claim, TurnOK, TaskOK, Reading, Holding, Paging
  <2>8. TurnPart
    BY <2>1, <2>3, <2>4, <2>7, TurnStep DEF TurnPart
  <2> QED
    BY <1>3, <2>3, <2>6, <2>8 DEF Claim, IInv, TurnPart, counts, CountsOK, Times
<1>4. CASE ~Claimable(t)
  <2>1. turn' = [turn EXCEPT ![t] = NoTurn] /\ task' = task /\ now' = now
    BY <1>4 DEF Claim
  <2>2. NoTurn \in TurnRecords /\ TurnOK(NoTurn, t, task', now)
    BY <1>1, NoTurnOK
  <2>3. TurnPart
    BY <1>1, <2>1, <2>2, TurnStep DEF TurnPart
  <2> QED
    BY <1>4, <2>1, <2>3 DEF Claim, IInv, TurnPart, counts, CountsOK
<1> QED
  BY <1>3, <1>4

\* A turn moves on without touching the row.
LEMMA TurnAlone ==
  ASSUME IInv, NEW t \in Turns, NEW r \in TurnRecords,
         UNCHANGED <<now, task>>, turn' = [turn EXCEPT ![t] = r], TurnOK(r, t, task, now)
  PROVE  TurnPart
BY TurnStep DEF TurnPart, IInv, TaskOK

\* The holder of the lease saves its place.
LEMMA TurnSaves ==
  ASSUME IInv, NEW t \in Turns, NEW r \in TurnRecords, NEW s \in Searches \cup {None},
         UNCHANGED now, turn' = [turn EXCEPT ![t] = r], TurnOK(r, t, task, now),
         task' = Saved(s), s # None => s.window.to <= now,
         Unfinished(s) => task.watermark <= s.window.to
  PROVE  TurnPart /\ TaskOK(task', now)
<1>1. /\ TaskOK(task', now)
      /\ task'.token = task.token /\ task'.next = task.next /\ task'.watermark = task.watermark
  BY SavedType
<1>2. task \in Tasks /\ task' \in Tasks /\ now \in Nat
  BY <1>1 DEF IInv, TaskOK
<1>3. TurnOK(r, t, task', now)
  BY <1>1, <1>2, TurnKept
<1>4. TurnPart
  BY <1>1, <1>2, <1>3, TurnStep DEF TurnPart
<1> QED
  BY <1>1, <1>4

LEMMA OpenInv == ASSUME IInv, NEW t \in Turns, Open(t) PROVE IInv'
<1> DEFINE s == IF Unfinished(turn[t].search) THEN turn[t].search
                ELSE [window |-> turn[t].window, filter |-> DateFilter(turn[t].window.from), page |-> 0]
<1>1. /\ now \in Nat /\ task \in Tasks /\ turn \in [Turns -> TurnRecords]
      /\ turn[t] \in TurnRecords /\ TurnOK(turn[t], t, task, now) /\ turn[t].pc = "open"
  BY DEF IInv, TaskOK, Open
<1>2. /\ s \in Searches /\ Unfinished(s) /\ s.window.to <= now
      /\ task.token = t => task.watermark <= s.window.to
  <2>1. CASE Unfinished(turn[t].search)
    BY <1>1, <2>1 DEF TurnOK, TurnRecords, Unfinished, Holding
  <2>2. CASE ~Unfinished(turn[t].search)
    <3>1. turn[t].window \in Windows /\ DateFilter(turn[t].window.from) \in Nat
      BY <1>1, SearchAssumption DEF TurnRecords, Windows, DateFilter
    <3>2. s = [window |-> turn[t].window, filter |-> DateFilter(turn[t].window.from), page |-> 0]
      BY <2>2
    <3> HIDE DEF s
    <3>3. s \in Searches
      BY <3>1, <3>2, SearchAssumption DEF Searches
    <3>4. Unfinished(s)
      BY <3>2, <3>3, SearchAssumption, NoneIsNoSearch DEF Unfinished, Complete
    <3> QED
      BY <1>1, <3>2, <3>3, <3>4 DEF TurnOK, Holding
  <2> QED
    BY <2>1, <2>2
<1> HIDE DEF s
<1>0. CountsOK' /\ GhostPart /\ listed' \in BOOLEAN
  BY DEF Open, IInv, ghosts, counts, CountsOK, GhostPart
<1>6. provider.open \in Nat
  BY DEF IInv, CountsOK, Providers
<1>3. CASE provider.open > now
  <2> DEFINE r == [turn[t] EXCEPT !.pc = "finish", !.search = None, !.status = "blocked"]
  <2>1. r \in TurnRecords
    BY <1>1 DEF TurnRecords, Statuses
  <2>2. /\ r.pc = "finish" /\ r.search = None /\ r.status = "blocked"
        /\ r.at = turn[t].at /\ r.window = turn[t].window
    BY <1>1 DEF TurnRecords
  <2>3. turn' = [turn EXCEPT ![t] = r] /\ UNCHANGED <<now, task>>
    BY <1>1, <1>3, <1>6 DEF Open
  <2> HIDE DEF r
  <2>4. TurnOK(r, t, task, now)
    BY <1>1, <2>1, <2>2 DEF TurnOK, Reading, Holding, Paging, Unfinished
  <2>5. TurnPart
    BY <2>1, <2>3, <2>4, TurnAlone
  <2> QED
    BY <1>0, <2>3, <2>5 DEF IInv, TurnPart, GhostPart
<1>4. CASE provider.open <= now /\ Owns(t)
  <2> DEFINE r == [turn[t] EXCEPT !.pc = "page", !.search = s]
  <2>1. r \in TurnRecords
    BY <1>1, <1>2 DEF TurnRecords
  <2>2. /\ r.pc = "page" /\ r.search = s /\ r.status = turn[t].status
        /\ r.at = turn[t].at /\ r.window = turn[t].window
    BY <1>1 DEF TurnRecords
  <2>3. turn' = [turn EXCEPT ![t] = r] /\ now' = now /\ task' = Saved(s)
    BY <1>1, <1>4, <1>6 DEF Open, s
  <2> HIDE DEF r
  <2>4. TurnOK(r, t, task, now)
    BY <1>1, <1>2, <2>1, <2>2 DEF TurnOK, Reading, Holding, Paging
  <2>5. TurnPart /\ TaskOK(task', now)
    BY <1>2, <1>4, <2>1, <2>3, <2>4, TurnSaves DEF Owns
  <2> QED
    BY <1>0, <2>3, <2>5 DEF IInv, TurnPart, GhostPart
<1>5. CASE provider.open <= now /\ ~Owns(t)
  <2> DEFINE r == [turn[t] EXCEPT !.pc = "finish", !.search = s, !.status = "failed"]
  <2>1. r \in TurnRecords
    BY <1>1, <1>2 DEF TurnRecords, Statuses
  <2>2. /\ r.pc = "finish" /\ r.search = s /\ r.status = "failed"
        /\ r.at = turn[t].at /\ r.window = turn[t].window
    BY <1>1 DEF TurnRecords
  <2>3. turn' = [turn EXCEPT ![t] = r] /\ UNCHANGED <<now, task>>
    BY <1>1, <1>5, <1>6 DEF Open, s
  <2> HIDE DEF r
  <2>4. TurnOK(r, t, task, now)
    BY <1>1, <1>2, <2>1, <2>2 DEF TurnOK, Reading, Holding, Paging
  <2>5. TurnPart
    BY <2>1, <2>3, <2>4, TurnAlone
  <2> QED
    BY <1>0, <2>3, <2>5 DEF IInv, TurnPart, GhostPart
<1> QED
  BY <1>1, <1>3, <1>4, <1>5, <1>6

\* A reservation keeps the row and the count well formed.
LEMMA ReserveCounts ==
  ASSUME IInv, NEW at \in Nat, NEW granted \in BOOLEAN, Reserve(at, granted)
  PROVE  CountsOK'
<1>1. provider' \in Providers
  <2>1. DayOf(at) \in Nat /\ MonthOf(at) \in Nat
    BY Calendar
  <2>2. DayUsed(provider, at) + 1 \in Nat /\ MonthUsed(provider, at) + 1 \in Nat
    BY UsedType DEF IInv, CountsOK
  <2>3. provider \in Providers
    BY DEF IInv, CountsOK
  <2> QED
    BY <2>1, <2>2, <2>3, UsedType, ChargedRow DEF Reserve
<1>2. sent' \in [day : Nat, count : Nat, late : Nat]
  <2>1. DayOf(now) \in Nat
    BY Calendar DEF IInv
  <2>2. SentToday \in Nat /\ LateToday \in Nat
    BY DEF SentToday, LateToday, IInv, CountsOK
  <2> QED
    BY <2>1, <2>2 DEF Reserve
<1> QED
  BY <1>1, <1>2 DEF CountsOK

LEMMA ReadPageInv == ASSUME IInv, NEW t \in Turns, ReadPage(t) PROVE IInv'
<1> DEFINE r == [turn[t] EXCEPT !.pc = "save"]
<1>1. /\ turn[t] \in TurnRecords /\ TurnOK(turn[t], t, task, now) /\ turn[t].pc = "page"
  BY DEF IInv, ReadPage
<1>2. r \in TurnRecords
  BY <1>1 DEF TurnRecords
<1>3. /\ r.pc = "save" /\ r.search = turn[t].search /\ r.status = turn[t].status
      /\ r.at = turn[t].at /\ r.window = turn[t].window
  BY <1>1 DEF TurnRecords
<1>4. turn' = [turn EXCEPT ![t] = r] /\ UNCHANGED <<now, task>>
  BY <1>1 DEF ReadPage, IInv
<1> HIDE DEF r
<1>5. TurnOK(r, t, task, now)
  BY <1>1, <1>2, <1>3 DEF TurnOK, Reading, Holding, Paging
<1>6. TurnPart
  BY <1>2, <1>4, <1>5, TurnAlone
<1>7. <<turn[t].search.window, turn[t].search.page + 1>> \in Windows \X (1 .. Pages)
  <2>1. Unfinished(turn[t].search)
    BY <1>1 DEF TurnOK, Paging
  <2>2. turn[t].search \in Searches /\ turn[t].search.page # Pages
    BY <1>1, <2>1 DEF TurnRecords, Unfinished, Complete
  <2> QED
    BY <2>2, SearchAssumption DEF Searches
<1>8. GhostPart
  BY <1>7 DEF GhostPart, ReadPage, IInv
<1>9. CountsOK'
  BY ReserveCounts DEF ReadPage, IInv
<1> QED
  BY <1>4, <1>6, <1>8, <1>9 DEF ReadPage, IInv, TurnPart, GhostPart

LEMMA RenewInv == ASSUME IInv, NEW t \in Turns, Renew(t) PROVE IInv'
<1>1. /\ now \in Nat /\ task \in Tasks /\ turn[t] \in TurnRecords
      /\ TurnOK(turn[t], t, task, now) /\ turn[t].pc \in {"page", "save"} /\ task.token = t
  BY DEF IInv, TaskOK, Renew, Owns
<1>2. /\ turn[t].search \in Searches \cup {None}
      /\ turn[t].search # None => turn[t].search.window.to <= now
      /\ Unfinished(turn[t].search) => task.watermark <= turn[t].search.window.to
  BY <1>1 DEF TurnOK, TurnRecords, Holding
<1>3. turn' = [turn EXCEPT ![t] = turn[t]] /\ UNCHANGED now /\ task' = Saved(turn[t].search)
  BY DEF Renew, IInv
<1>4. TurnPart /\ TaskOK(task', now)
  BY <1>1, <1>2, <1>3, TurnSaves
<1> QED
  BY <1>3, <1>4 DEF Renew, IInv, TurnPart, ghosts, counts, CountsOK

LEMMA PageEndsInv ==
  ASSUME IInv, NEW t \in Turns, NEW status \in Statuses, PageBlocked(t) \/ PageFails(t, status)
  PROVE  IInv'
<1>1. PICK end \in {"blocked", "failed", "partial"} :
        turn' = [turn EXCEPT ![t] = [@ EXCEPT !.pc = "finish", !.status = end]]
  BY DEF PageBlocked, PageFails
<1> DEFINE r == [turn[t] EXCEPT !.pc = "finish", !.status = end]
<1>2. turn[t] \in TurnRecords /\ TurnOK(turn[t], t, task, now) /\ turn[t].pc \in {"page", "save"}
  BY DEF IInv, PageBlocked, PageFails
<1>3. r \in TurnRecords
  BY <1>2 DEF TurnRecords, Statuses
<1>4. /\ r.pc = "finish" /\ r.search = turn[t].search /\ r.status = end
      /\ r.at = turn[t].at /\ r.window = turn[t].window
  BY <1>2 DEF TurnRecords
<1>5. turn' = [turn EXCEPT ![t] = r] /\ UNCHANGED <<now, task>>
  BY <1>1 DEF PageBlocked, PageFails, IInv
<1> HIDE DEF r
<1>6. TurnOK(r, t, task, now)
  BY <1>2, <1>3, <1>4 DEF TurnOK, Reading, Holding, Paging
<1>7. TurnPart
  BY <1>3, <1>5, <1>6, TurnAlone
<1>8. CountsOK'
  <2>1. CASE PageBlocked(t)
    BY <2>1, ReserveCounts DEF PageBlocked, IInv
  <2>2. CASE PageFails(t, status)
    BY <2>2 DEF PageFails, IInv, counts, CountsOK
  <2> QED
    BY <2>1, <2>2
<1> QED
  BY <1>5, <1>7, <1>8 DEF PageBlocked, PageFails, IInv, TurnPart, ghosts

LEMMA SavePageInv == ASSUME IInv, NEW t \in Turns, SavePage(t) PROVE IInv'
<1> DEFINE s == [turn[t].search EXCEPT !.page = @ + 1]
           over == Complete(s) \/ turn[t].pages + 1 = TurnPages
<1>1. /\ now \in Nat /\ turn[t] \in TurnRecords /\ TurnOK(turn[t], t, task, now)
      /\ turn[t].pc = "save" /\ Unfinished(turn[t].search)
  BY DEF IInv, SavePage, TurnOK, Paging
<1>2. s \in Searches /\ s.window = turn[t].search.window /\ s # None
  <2>1. turn[t].search \in Searches /\ turn[t].search.page # Pages
    BY <1>1 DEF TurnRecords, Unfinished, Complete
  <2> QED
    BY <2>1, SearchAssumption, NoneIsNoSearch DEF Searches
<1>3. /\ s.window.to <= now
      /\ task.token = t => task.watermark <= s.window.to
  BY <1>1, <1>2 DEF TurnOK, Holding, Unfinished
<1> HIDE DEF s
<1>4. CASE Owns(t)
  <2> DEFINE pc == IF over THEN "finish" ELSE "page"
             status == IF Complete(s) THEN "succeeded" ELSE "partial"
             r == [turn[t] EXCEPT !.pc = pc, !.search = s, !.pages = turn[t].pages + 1, !.status = status]
  <2>0. turn' = [turn EXCEPT ![t] = r] /\ now' = now /\ task' = Saved(s)
    BY <1>4 DEF SavePage, s
  <2>1. /\ pc \in {"finish", "page"} /\ (pc = "page" => ~Complete(s))
        /\ status \in {"succeeded", "partial"}
        /\ status = "succeeded" => Complete(s) /\ pc = "finish"
    <3>1. CASE Complete(s)
      BY <3>1
    <3>2. CASE ~Complete(s)
      BY <3>2
    <3> QED
      BY <3>1, <3>2
  <2> HIDE DEF pc, status
  <2>2. r \in TurnRecords
    <3>1. /\ turn[t].pages + 1 \in Nat /\ status \in Statuses
          /\ pc \in {"idle", "claim", "open", "page", "save", "finish", "complete", "abandon"}
      BY <1>1, <2>1 DEF TurnRecords, Statuses
    <3> QED
      BY <1>1, <1>2, <3>1 DEF TurnRecords
  <2>3. r.pc = pc /\ r.status = status /\ r.search = s /\ r.at = turn[t].at /\ r.window = turn[t].window
    BY <1>1 DEF TurnRecords
  <2> HIDE DEF r
  <2>6. Paging(r)
    BY <1>2, <2>1, <2>3 DEF Paging, Unfinished
  <2>7. TurnOK(r, t, task, now)
    BY <1>1, <1>2, <1>3, <2>1, <2>2, <2>3, <2>6 DEF TurnOK, Reading, Holding
  <2>8. TurnPart /\ TaskOK(task', now)
    BY <1>2, <1>3, <1>4, <2>0, <2>2, <2>7, TurnSaves DEF Owns
  <2> QED
    BY <2>0, <2>8 DEF SavePage, IInv, TurnPart, ghosts, counts, CountsOK
<1>5. CASE ~Owns(t)
  <2> DEFINE r == [turn[t] EXCEPT !.pc = "finish", !.status = "failed"]
  <2>1. r \in TurnRecords
    BY <1>1 DEF TurnRecords, Statuses
  <2>2. /\ r.pc = "finish" /\ r.search = turn[t].search /\ r.status = "failed"
        /\ r.at = turn[t].at /\ r.window = turn[t].window
    BY <1>1 DEF TurnRecords
  <2>3. turn' = [turn EXCEPT ![t] = r] /\ UNCHANGED <<now, task>>
    BY <1>1, <1>5 DEF SavePage, IInv
  <2> HIDE DEF r
  <2>4. TurnOK(r, t, task, now)
    BY <1>1, <2>1, <2>2 DEF TurnOK, Reading, Holding, Paging
  <2>5. TurnPart
    BY <2>1, <2>3, <2>4, TurnAlone
  <2> QED
    BY <2>3, <2>5 DEF SavePage, IInv, TurnPart, ghosts, counts, CountsOK
<1> QED
  BY <1>4, <1>5

LEMMA FinishInv == ASSUME IInv, NEW t \in Turns, Finish(t) PROVE IInv'
<1> DEFINE pc == IF Owns(t) \/ turn[t].search = None THEN "complete" ELSE "abandon"
           r == [turn[t] EXCEPT !.pc = pc]
<1>1. /\ turn[t] \in TurnRecords /\ TurnOK(turn[t], t, task, now) /\ turn[t].pc = "finish"
  BY DEF IInv, Finish
<1>2. turn' = [turn EXCEPT ![t] = r] /\ now' = now
  BY DEF Finish
<1>3. pc \in {"complete", "abandon"}
  OBVIOUS
<1> HIDE DEF pc
<1>4. r \in TurnRecords
  BY <1>1, <1>3 DEF TurnRecords
<1>5. /\ r.pc = pc /\ r.search = turn[t].search /\ r.status = turn[t].status
      /\ r.at = turn[t].at /\ r.window = turn[t].window
  BY <1>1 DEF TurnRecords
<1> HIDE DEF r
<1>6. TurnOK(r, t, task, now)
  BY <1>1, <1>3, <1>4, <1>5 DEF TurnOK, Reading, Holding, Paging
<1>7. CASE Owns(t)
  <2>1. task' = Saved(turn[t].search) /\ task.token = t
    BY <1>7 DEF Finish, Owns
  <2>2. /\ turn[t].search \in Searches \cup {None}
        /\ turn[t].search # None => turn[t].search.window.to <= now
        /\ Unfinished(turn[t].search) => task.watermark <= turn[t].search.window.to
    BY <1>1, <2>1 DEF TurnOK, TurnRecords, Holding
  <2>3. TurnPart /\ TaskOK(task', now)
    BY <1>2, <1>4, <1>6, <2>1, <2>2, TurnSaves
  <2> QED
    BY <1>2, <2>3 DEF Finish, IInv, TurnPart, ghosts, counts, CountsOK
<1>8. CASE ~Owns(t)
  <2>1. task' = task
    BY <1>8 DEF Finish
  <2>2. TurnPart
    BY <1>2, <1>4, <1>6, <2>1, TurnAlone
  <2> QED
    BY <1>2, <2>1, <2>2 DEF Finish, IInv, TurnPart, ghosts, counts, CountsOK
<1> QED
  BY <1>7, <1>8

LEMMA FinishFailsInv == ASSUME IInv, NEW t \in Turns, FinishFails(t) PROVE IInv'
<1> DEFINE r == [turn[t] EXCEPT !.pc = "abandon"]
<1>1. /\ turn[t] \in TurnRecords /\ TurnOK(turn[t], t, task, now)
      /\ turn[t].pc \in {"finish", "complete"}
  BY DEF IInv, FinishFails
<1>2. r \in TurnRecords
  BY <1>1 DEF TurnRecords
<1>3. /\ r.pc = "abandon" /\ r.search = turn[t].search /\ r.status = turn[t].status
      /\ r.at = turn[t].at /\ r.window = turn[t].window
  BY <1>1 DEF TurnRecords
<1>4. turn' = [turn EXCEPT ![t] = r] /\ UNCHANGED <<now, task>>
  BY <1>1 DEF FinishFails, IInv
<1> HIDE DEF r
<1>5. TurnOK(r, t, task, now)
  BY <1>1, <1>2, <1>3 DEF TurnOK, Reading, Holding, Paging
<1>6. TurnPart
  BY <1>2, <1>4, <1>5, TurnAlone
<1> QED
  BY <1>4, <1>6 DEF FinishFails, IInv, TurnPart, ghosts, counts, CountsOK

\* The turn is over, and the row is released or as it was.
LEMMA TurnLeaves ==
  ASSUME IInv, NEW t \in Turns, UNCHANGED now, turn' = [turn EXCEPT ![t] = NoTurn],
         TaskOK(task', now),
         task' = task \/ (task'.token = None /\ now < task'.next)
  PROVE  TurnPart
<1>1. now \in Nat /\ task' \in Tasks /\ None \notin Turns
  BY SearchAssumption DEF IInv, TaskOK
<1>2. NoTurn \in TurnRecords /\ TurnOK(NoTurn, t, task', now)
  BY <1>1, NoTurnOK
<1> QED
  BY <1>1, <1>2, TurnStep DEF TurnPart

\* The watermark that a completion writes.
LEMMA EndTask ==
  ASSUME IInv, NEW t \in Turns, NEW status \in Statuses, End(t, status), task.token = t
  PROVE  /\ TaskOK(task', now)
         /\ task'.token = None /\ now < task'.next
         /\ task.watermark <= task'.watermark
<1> DEFINE w == IF Advances(status) THEN turn[t].window.to ELSE task.watermark
<1>1. /\ TaskOK(Released(status), now)
      /\ Released(status).token = None /\ now < Released(status).next
      /\ Released(status).watermark = task.watermark
  BY ReleasedType
<1>2. task' = [Released(status) EXCEPT !.search = turn[t].search, !.watermark = w]
  BY <1>1 DEF End
<1>3. /\ turn[t] \in TurnRecords /\ TurnOK(turn[t], t, task, now) /\ turn[t].pc = "complete"
      /\ status = "succeeded" => turn[t].status = "succeeded"
  BY DEF IInv, End
<1>4. /\ turn[t].window.to \in Nat /\ task.watermark \in Nat
      /\ turn[t].search \in Searches \cup {None}
      /\ task.watermark <= turn[t].window.to /\ turn[t].window.to <= now
      /\ task.watermark <= now
      /\ turn[t].search # None => turn[t].search.window.to <= now
      /\ Unfinished(turn[t].search) => task.watermark <= turn[t].search.window.to
  BY <1>3 DEF TurnOK, TurnRecords, Windows, Holding, IInv, TaskOK, Tasks
<1>5. w \in Nat /\ task.watermark <= w /\ w <= now
  BY <1>4
<1>6. Unfinished(turn[t].search) => w = task.watermark
  BY <1>3 DEF Advances, TurnOK, Paging
<1> HIDE DEF w
<1>7. task' \in Tasks
  BY <1>1, <1>2, <1>4, <1>5 DEF TaskOK, Tasks
<1>8. /\ task'.search = turn[t].search /\ task'.watermark = w
      /\ task'.token = None /\ task'.next = Released(status).next
  BY <1>1, <1>2 DEF TaskOK, Tasks
<1> QED
  BY <1>1, <1>4, <1>5, <1>6, <1>7, <1>8 DEF TaskOK

LEMMA EndInv == ASSUME IInv, NEW t \in Turns, NEW status \in Statuses, End(t, status) PROVE IInv'
<1>1. turn' = [turn EXCEPT ![t] = NoTurn] /\ now' = now
  BY DEF End
<1>2. since' \in Nat
  BY DEF End, IInv, TurnRecords, Windows
<1>3. CASE task.token = t
  <2>1. TaskOK(task', now) /\ task'.token = None /\ now < task'.next
    BY <1>3, EndTask
  <2>2. TurnPart
    BY <1>1, <2>1, TurnLeaves
  <2> QED
    BY <1>1, <1>2, <2>1, <2>2 DEF End, IInv, TurnPart, counts, CountsOK
<1>4. CASE task.token # t
  <2>1. task' = task
    BY <1>4 DEF End
  <2>2. TurnPart
    BY <1>1, <2>1, TurnLeaves DEF IInv
  <2> QED
    BY <1>1, <1>2, <2>1, <2>2 DEF End, IInv, TurnPart, counts, CountsOK
<1> QED
  BY <1>3, <1>4

LEMMA LeaveInv == ASSUME IInv, NEW t \in Turns, Abandon(t) \/ Crash(t) PROVE IInv'
<1>1. turn' = [turn EXCEPT ![t] = NoTurn] /\ now' = now
  BY DEF Abandon, Crash
<1>2. task' = task \/ task' = Released("failed")
  BY DEF Abandon, Crash
<1>3. TaskOK(task', now) /\ (task' = task \/ (task'.token = None /\ now < task'.next))
  BY <1>2, ReleasedType DEF IInv, Statuses
<1>4. TurnPart
  BY <1>1, <1>3, TurnLeaves
<1> QED
  BY <1>1, <1>3, <1>4 DEF Abandon, Crash, IInv, TurnPart, ghosts, counts, CountsOK
----------------------------------------------------------------------------
(* The other steps.                                                         *)

LEMMA OutsideInv ==
  ASSUME IInv, PutOff \/ (\E until \in Times : Close(until)) \/ (\E granted \in BOOLEAN : Spend(granted))
        \/ Recover \/ Deploy \/ Reconcile \/ Tick
  PROVE  IInv'
<1>1. now \in Nat /\ task \in Tasks
  BY DEF IInv, TaskOK
<1>2. CASE PutOff
  <2>0. RetryAt(provider, now) \in Nat /\ now < RetryAt(provider, now)
    BY <1>1, <1>2, RetryLater DEF PutOff, IInv, CountsOK
  <2>1. task' \in Tasks
    BY <1>1, <1>2, <2>0 DEF PutOff, Tasks, Statuses
  <2>2. /\ task'.token = task.token /\ task'.watermark = task.watermark
        /\ task'.search = task.search /\ task'.lifecycle = task.lifecycle
        /\ task'.next = RetryAt(provider, now) /\ now < RetryAt(provider, now) /\ UNCHANGED <<now, turn>>
    BY <1>1, <1>2, <2>0 DEF PutOff, Tasks
  <2>3. TaskOK(task', now')
    BY <2>1, <2>2 DEF IInv, TaskOK
  <2>4. \A u \in Turns : TurnOK(turn'[u], u, task', now')
    BY <1>1, <2>1, <2>2, TurnsKept
  <2> QED
    BY <1>2, <2>3, <2>4 DEF PutOff, IInv, ghosts, counts, CountsOK
<1>3. CASE \/ \E until \in Times : Close(until)
           \/ \E granted \in BOOLEAN : Spend(granted)
           \/ Recover \/ Deploy
  <2>1. CountsOK'
    <3>1. CASE \E until \in Times : Close(until)
      <4>1. Times \subseteq Nat
        BY SearchAssumption DEF Times
      <4> QED
        BY <3>1, <4>1 DEF Close, IInv, CountsOK, Providers
    <3>2. CASE \E granted \in BOOLEAN : Spend(granted)
      <4>1. now - 1 \in Nat
        BY SearchAssumption DEF IInv
      <4> QED
        BY <1>1, <3>2, <4>1, ReserveCounts DEF Spend
    <3>3. CASE Recover
      BY <3>3 DEF Recover, IInv, CountsOK, Providers
    <3>4. CASE Deploy
      BY <3>4 DEF Deploy, IInv, counts, CountsOK
    <3> QED
      BY <1>3, <3>1, <3>2, <3>3, <3>4
  <2>2. listed' \in BOOLEAN /\ UNCHANGED <<now, task, turn, ghosts>>
    BY <1>3 DEF Close, Recover, Spend, Deploy, IInv
  <2> QED
    BY <2>1, <2>2 DEF IInv, ghosts
<1>4. CASE Reconcile
  <2>1. task' \in Tasks
    BY <1>1, <1>4 DEF Reconcile, Tasks
  <2>2. /\ task'.token = task.token /\ task'.watermark = task.watermark
        /\ task'.search = task.search /\ task'.next = task.next
        /\ task.token = None /\ UNCHANGED <<now, turn>>
    BY <1>1, <1>4 DEF Reconcile, Settled, Tasks
  <2>3. TaskOK(task', now')
    BY <2>1, <2>2 DEF IInv, TaskOK
  <2>4. \A u \in Turns : TurnOK(turn'[u], u, task', now')
    BY <1>1, <2>1, <2>2, TurnsKept
  <2> QED
    BY <1>4, <2>3, <2>4 DEF Reconcile, IInv, ghosts, counts, CountsOK
<1>5. CASE Tick
  <2>1. now' \in Nat /\ now <= now' /\ UNCHANGED <<task, turn>>
    BY <1>1, <1>5 DEF Tick
  <2>2. TaskOK(task', now')
    <3>1. task.watermark \in Nat /\ (task.search # None => task.search.window.to \in Nat)
      BY <1>1 DEF Tasks, Searches, Windows
    <3> QED
      BY <1>1, <2>1, <3>1 DEF IInv, TaskOK
  <2>3. \A u \in Turns : TurnOK(turn'[u], u, task', now')
    BY <1>1, <2>1, TurnsKept
  <2>4. Start <= now'
    BY <1>1, <2>1, SearchAssumption DEF IInv
  <2> QED
    BY <1>5, <2>1, <2>2, <2>3, <2>4 DEF Tick, IInv, ghosts, counts, CountsOK
<1> QED
  BY <1>2, <1>3, <1>4, <1>5

LEMMA StepInv == IInv /\ [Next]_vars => IInv'
<1> SUFFICES ASSUME IInv, [Next]_vars PROVE IInv'
  OBVIOUS
<1>1. ASSUME NEW t \in Turns, Step(t) PROVE IInv'
  BY <1>1, ReadInv, ClaimInv, OpenInv, ReadPageInv, RenewInv, PageEndsInv, SavePageInv,
     FinishInv, FinishFailsInv, EndInv, LeaveInv DEF Step, Statuses
<1>2. CASE PutOff \/ (\E until \in Times : Close(until)) \/ (\E granted \in BOOLEAN : Spend(granted))
        \/ Recover \/ Deploy \/ Reconcile \/ Tick
  BY <1>2, OutsideInv
<1>3. CASE UNCHANGED vars
  BY <1>3 DEF vars, ghosts, counts, CountsOK, bounds, IInv
<1> QED
  BY <1>1, <1>2, <1>3 DEF Next

LEMMA Invariant == Spec => []IInv
BY InitIInv, StepInv, PTL DEF Spec
----------------------------------------------------------------------------
\* The row, the turns' records and the clock always have their types
\* (ingestionControl.ts, claimDueIngestionTask to completeIngestionTask): no
\* search is saved past its last page.
THEOREM TypeCorrect == Spec => []TypeOK
<1>1. IInv => TypeOK
  BY DEF IInv, TaskOK, TypeOK, CountsOK
<1> QED
  BY <1>1, Invariant, PTL

\* A task that the catalog has retired has no holder, although a turn may have
\* read it before (claimDueIngestionTask against reconcileIngestionTaskCatalog).
THEOREM NoneOnRetired == Spec => []RetiredIdle
<1>1. IInv => RetiredIdle
  BY DEF IInv, TaskOK, RetiredIdle
<1> QED
  BY <1>1, Invariant, PTL

\* The watermark is never set back, whatever turns read the row before another
\* completed, lost their lease or crashed (completeIngestionTask).
THEOREM WatermarkNeverFalls == Spec => WatermarkMonotone
<1> DEFINE Rises == task'.watermark >= task.watermark
<1>1. IInv /\ [Next]_vars => [Rises]_vars
  <2> SUFFICES ASSUME IInv, [Next]_vars PROVE Rises
    OBVIOUS
  <2>1. task \in Tasks /\ task.watermark \in Nat
    BY DEF IInv, TaskOK, Tasks
  <2>2. task'.watermark = task.watermark => Rises
    BY <2>1
  <2>3. ASSUME NEW t \in Turns, Step(t) PROVE Rises
    <3>1. CASE \E status \in Statuses : End(t, status)
      <4>1. PICK status \in Statuses : End(t, status)
        BY <3>1
      <4>2. task.token = t \/ task' = task
        BY <4>1 DEF End
      <4>3. task'.watermark \in Nat
        BY <4>1, EndInv DEF IInv, TaskOK, Tasks
      <4> QED
        BY <2>1, <2>2, <4>1, <4>2, <4>3, EndTask
    <3>2. CASE Claim(t)
      BY <2>1, <2>2, <3>2 DEF Claim, Tasks
    <3>3. CASE Open(t) \/ Renew(t) \/ SavePage(t) \/ Finish(t)
      BY <2>1, <2>2, <3>3 DEF Open, Renew, SavePage, Finish, Saved, Tasks
    <3>4. CASE Abandon(t)
      BY <2>1, <2>2, <3>4 DEF Abandon, Released, Tasks
    <3>5. CASE \/ Read(t) \/ ReadPage(t) \/ PageBlocked(t) \/ FinishFails(t) \/ Crash(t)
               \/ \E status \in Statuses : PageFails(t, status)
      BY <2>2, <3>5 DEF Read, ReadPage, PageBlocked, PageFails, FinishFails, Crash
    <3> QED
      BY <2>3, <3>1, <3>2, <3>3, <3>4, <3>5 DEF Step
  <2>4. CASE PutOff \/ (\E until \in Times : Close(until)) \/ (\E granted \in BOOLEAN : Spend(granted))
        \/ Recover \/ Deploy \/ Reconcile \/ Tick
    BY <2>1, <2>2, <2>4 DEF PutOff, Close, Recover, Spend, Deploy, Reconcile, Tick, Tasks
  <2>5. CASE UNCHANGED vars
    BY <2>2, <2>5 DEF vars
  <2> QED
    BY <2>3, <2>4, <2>5 DEF Next
<1> QED
  BY <1>1, Invariant, PTL DEF Spec, WatermarkMonotone
----------------------------------------------------------------------------
(* The budget.  A reservation is late when its clock was read in the hour   *)
(* before; only the first late one of a day can set the day's count back to *)
(* nothing, and by then no more than the first hour's portion was used.     *)

\* What the late reservations of the day may have given away.
Given(late) == late * (Release(0) + 1)

\* The row and the requests of the day, as long as the row is of the same day
\* and when a late reservation has set it back.
Books ==
  /\ provider.day <= sent.day /\ sent.day <= DayOf(now)
  /\ sent.day = DayOf(now) /\ provider.day = DayOf(now) =>
       sent.count <= provider.dayUsed + Given(sent.late) /\ provider.dayUsed <= Release(HourOf(now))
  /\ sent.day = DayOf(now) /\ provider.day < DayOf(now) => sent.count <= Given(sent.late)
  /\ BudgetHolds

LEMMA GivenGrows ==
  ASSUME NEW late \in Nat
  PROVE  /\ Given(late) \in Nat /\ Given(0) = 0
         /\ Given(late + 1) = Given(late) + Release(0) + 1
<1>1. Release(0) \in Nat
  BY ReleaseGrows
<1> QED
  BY <1>1 DEF Given

\* The requests of today against the row.
LEMMA TodayBooked ==
  ASSUME IInv, Books
  PROVE  /\ SentToday \in Nat /\ LateToday \in Nat
         /\ SentToday <= DayUsed(provider, now) + Given(LateToday)
         /\ DayUsed(provider, now) <= Release(HourOf(now))
<1>1. /\ provider.day \in Nat /\ provider.dayUsed \in Nat /\ sent.day \in Nat
      /\ sent.count \in Nat /\ sent.late \in Nat
  BY DEF IInv, CountsOK, Providers
<1>2. DayOf(now) \in Nat /\ Release(HourOf(now)) \in Nat
  BY Calendar, ReleaseGrows DEF IInv
<1>3. Given(sent.late) \in Nat /\ Given(0) = 0
  BY <1>1, GivenGrows
<1> QED
  BY <1>1, <1>2, <1>3 DEF Books, SentToday, LateToday, DayUsed

\* The hour before is of the same day, or the day has just begun.
LEMMA HourBefore ==
  ASSUME NEW n \in Nat, n > 0
  PROVE  \/ DayOf(n - 1) = DayOf(n) /\ HourOf(n) = HourOf(n - 1) + 1
         \/ DayOf(n - 1) < DayOf(n) /\ HourOf(n) = 0
<1>1. n - 1 \in Nat
  OBVIOUS
<1>2. /\ DayOf(n) \in Nat /\ HourOf(n) \in 0 .. Hours - 1 /\ n = DayOf(n) * Hours + HourOf(n)
      /\ DayOf(n) * Hours \in Nat /\ (DayOf(n) + 1) * Hours = DayOf(n) * Hours + Hours
  BY Calendar
<1>3. DayOf(n - 1) \in Nat /\ n - 1 = DayOf(n - 1) * Hours + HourOf(n - 1) /\ HourOf(n - 1) \in Nat
  BY <1>1, Calendar
<1>4. DayOf(n - 1) <= DayOf(n)
  BY <1>1, DaysPass
<1>5. CASE HourOf(n) = 0
  <2>1. DayOf(n - 1) # DayOf(n)
    BY <1>2, <1>3, <1>5
  <2> QED
    BY <1>2, <1>3, <1>4, <1>5, <2>1
<1>6. CASE HourOf(n) > 0
  <2>1. DayOf(n) * Hours <= n - 1 /\ n - 1 < (DayOf(n) + 1) * Hours
    BY <1>2, <1>6, BudgetAssumption
  <2>2. DayOf(n - 1) = DayOf(n)
    BY <1>1, <2>1, SameDay
  <2> QED
    BY <1>2, <1>3, <2>2
<1> QED
  BY <1>2, <1>5, <1>6

LEMMA ReserveBooked ==
  ASSUME IInv, Books, NEW at \in {now, now - 1}, NEW granted \in BOOLEAN, Reserve(at, granted),
         UNCHANGED now
  PROVE  Books'
<1> DEFINE used == DayUsed(provider, now)
           one == IF granted THEN 1 ELSE 0
<1>0. one \in {0, 1} /\ (one = 1 => granted)
  OBVIOUS
<1> HIDE DEF one
<1>1. /\ now \in Nat /\ now > 0 /\ at \in Nat
      /\ DayOf(now) \in Nat /\ DayOf(at) \in Nat /\ HourOf(now) \in 0 .. Hours - 1 /\ HourOf(at) \in 0 .. Hours - 1
  <2>1. now \in Nat /\ now > 0 /\ at \in Nat
    BY SearchAssumption DEF IInv
  <2> QED
    BY <2>1, Calendar
<1>2. /\ SentToday \in Nat /\ LateToday \in Nat /\ used \in Nat
      /\ SentToday <= used + Given(LateToday) /\ used <= Release(HourOf(now))
  BY TodayBooked, UsedType DEF IInv, CountsOK
<1>3. /\ Given(LateToday) \in Nat
      /\ Given(LateToday + 1) = Given(LateToday) + Release(0) + 1
  BY <1>2, GivenGrows
<1>4. /\ Release(0) \in Nat /\ Release(HourOf(at)) \in Nat /\ Release(HourOf(now)) \in Nat
      /\ Release(HourOf(now)) <= DayLimit /\ DayLimit \in Nat
  BY <1>1, ReleaseGrows, ReleaseWithinDay, BudgetAssumption
<1>5. /\ provider'.day = DayOf(at) /\ provider'.dayUsed = DayUsed(provider, at) + one
      /\ one = 1 => DayUsed(provider, at) < Release(HourOf(at))
      /\ DayUsed(provider, at) \in Nat
  <2>1. provider \in Providers /\ DayUsed(provider, at) \in Nat
    BY UsedType DEF IInv, CountsOK
  <2>2. /\ Rolled(provider, at).day = DayOf(at) /\ Charged(provider, at).day = DayOf(at)
        /\ Rolled(provider, at).dayUsed = DayUsed(provider, at)
        /\ Charged(provider, at).dayUsed = DayUsed(provider, at) + 1
    BY <1>1, <2>1, ChargedRow
  <2>3. CASE granted
    <3>1. provider' = Charged(provider, at) /\ one = 1
      BY <2>3 DEF Reserve, one
    <3>2. ~PaceSpent(provider, at)
      BY <2>3, Zenon DEF Reserve, Refused
    <3> QED
      BY <1>4, <2>1, <2>2, <3>1, <3>2 DEF PaceSpent
  <2>4. CASE ~granted
    <3>1. provider' = Rolled(provider, at) /\ one = 0
      BY <2>4 DEF Reserve, one
    <3> QED
      BY <2>1, <2>2, <3>1
  <2> QED
    BY <2>3, <2>4
<1>6. /\ sent'.day = DayOf(now) /\ sent'.count = SentToday + one
      /\ sent'.late = LateToday + (IF at < now THEN 1 ELSE 0)
  BY DEF Reserve, one
<1>7. BudgetHolds' <=> sent'.count <= DayLimit + Given(sent'.late)
  BY DEF BudgetHolds, Given
<1>8. CASE at = now
  <2>1. sent'.late = LateToday
    BY <1>1, <1>2, <1>6, <1>8
  <2> HIDE DEF used
  <2>2. (one = 1 => used < Release(HourOf(now))) /\ provider'.dayUsed = used + one
    BY <1>5, <1>8 DEF used
  <2>3. sent'.count <= provider'.dayUsed + Given(sent'.late) /\ provider'.dayUsed <= Release(HourOf(now))
    BY <1>0, <1>2, <1>3, <1>4, <1>6, <2>1, <2>2
  <2>4. BudgetHolds'
    BY <1>0, <1>2, <1>3, <1>4, <1>6, <1>7, <2>1, <2>2, <2>3
  <2> QED
    BY <1>1, <1>5, <1>6, <1>8, <2>3, <2>4 DEF Books
<1>9. CASE at = now - 1
  <2>1. sent'.late = LateToday + 1
    BY <1>1, <1>2, <1>6, <1>9
  <2>2. BudgetHolds'
    <3> HIDE DEF used
    <3> QED
      BY <1>0, <1>2, <1>3, <1>4, <1>6, <1>7, <2>1
  <2>3. CASE DayOf(at) = DayOf(now) /\ HourOf(now) = HourOf(at) + 1
    <3>1. DayUsed(provider, at) = used /\ Release(HourOf(at)) <= Release(HourOf(now))
      BY <1>1, <2>3, ReleaseGrows DEF DayUsed
    <3> HIDE DEF used
    <3>2. sent'.count <= provider'.dayUsed + Given(sent'.late) /\ provider'.dayUsed <= Release(HourOf(now))
      BY <1>0, <1>2, <1>3, <1>4, <1>5, <1>6, <2>1, <3>1
    <3> QED
      BY <1>1, <1>5, <1>6, <2>2, <2>3, <3>2 DEF Books
  <2>4. CASE DayOf(at) < DayOf(now) /\ HourOf(now) = 0
    <3> HIDE DEF used
    <3>1. sent'.count <= Given(sent'.late)
      BY <1>0, <1>2, <1>3, <1>4, <1>6, <2>1, <2>4
    <3> QED
      BY <1>1, <1>5, <1>6, <2>2, <2>4, <3>1 DEF Books
  <2> QED
    BY <1>1, <1>9, <2>3, <2>4, HourBefore
<1> QED
  BY <1>8, <1>9

LEMMA BooksKept == IInv /\ Books /\ [Next]_vars => Books'
<1> SUFFICES ASSUME IInv, Books, [Next]_vars PROVE Books'
  OBVIOUS
<1>1. ASSUME UNCHANGED <<now, sent>>, provider'.day = provider.day, provider'.dayUsed = provider.dayUsed
      PROVE  Books'
  BY <1>1 DEF Books, BudgetHolds
<1>2. ASSUME NEW t \in Turns, Step(t) PROVE Books'
  <2>1. CASE ReadPage(t) \/ PageBlocked(t)
    BY <2>1, ReserveBooked DEF ReadPage, PageBlocked
  <2>2. CASE ~(ReadPage(t) \/ PageBlocked(t))
    <3>1. UNCHANGED <<now, counts>>
      BY <1>2, <2>2 DEF Step, Read, Claim, Open, Renew, SavePage, PageFails,
           Finish, FinishFails, Abandon, End, Crash
    <3> QED
      BY <1>1, <3>1 DEF counts
  <2> QED
    BY <2>1, <2>2
<1>3. CASE PutOff \/ Deploy \/ Reconcile
  BY <1>1, <1>3 DEF PutOff, Deploy, Reconcile, counts
<1>4. CASE (\E until \in Times : Close(until)) \/ Recover
  <2>1. UNCHANGED <<now, sent>> /\ provider'.day = provider.day /\ provider'.dayUsed = provider.dayUsed
    BY <1>4 DEF Close, Recover, IInv, CountsOK, Providers
  <2> QED
    BY <1>1, <2>1
<1>5. CASE \E granted \in BOOLEAN : Spend(granted)
  BY <1>5, ReserveBooked DEF Spend
<1>6. CASE Tick
  <2>1. now \in Nat /\ now' = now + 1 /\ UNCHANGED <<provider, sent>>
    BY <1>6 DEF Tick, IInv, counts
  <2>2. /\ DayOf(now) \in Nat /\ DayOf(now') \in Nat /\ HourOf(now) \in Nat /\ HourOf(now') \in Nat
        /\ provider.day \in Nat /\ sent.day \in Nat /\ provider.dayUsed \in Nat
    <3>1. now' \in Nat
      BY <2>1
    <3>2. HourOf(now) \in 0 .. Hours - 1 /\ HourOf(now') \in 0 .. Hours - 1
      BY <2>1, <3>1, Calendar
    <3>3. provider.day \in Nat /\ sent.day \in Nat /\ provider.dayUsed \in Nat
      BY DEF IInv, CountsOK, Providers
    <3> QED
      BY <2>1, <3>1, <3>2, <3>3, Calendar, BudgetAssumption
  <2>3. \/ DayOf(now) = DayOf(now') /\ HourOf(now') = HourOf(now) + 1
        \/ DayOf(now) < DayOf(now')
    <3>1. now' \in Nat /\ now' > 0 /\ now' - 1 = now
      BY <2>1
    <3> QED
      BY <3>1, HourBefore
  <2>4. CASE DayOf(now) = DayOf(now') /\ HourOf(now') = HourOf(now) + 1
    <3>1. /\ Release(HourOf(now)) <= Release(HourOf(now'))
          /\ Release(HourOf(now)) \in Nat /\ Release(HourOf(now')) \in Nat
      BY <2>2, <2>4, ReleaseGrows
    <3> QED
      BY <2>1, <2>2, <2>4, <3>1 DEF Books, BudgetHolds
  <2>5. CASE DayOf(now) < DayOf(now')
    BY <2>1, <2>2, <2>5 DEF Books, BudgetHolds
  <2> QED
    BY <2>3, <2>4, <2>5
<1>7. CASE UNCHANGED vars
  BY <1>1, <1>7 DEF vars, counts
<1> QED
  BY <1>2, <1>3, <1>4, <1>5, <1>6, <1>7 DEF Next

\* In a day no more requests are sent than the limit, save for those that late
\* reservations about midnight gave away, each at most the first hour's portion
\* and itself (reserveProviderRequest, jobIngestion.ts).
THEOREM BudgetKept == Spec => []BudgetHolds
<1>1. Init => Books
  <2> SUFFICES ASSUME Init PROVE Books
    OBVIOUS
  <2>1. DayOf(Start) \in Nat /\ HourOf(Start) \in Nat /\ Release(HourOf(Start)) \in Nat /\ DayLimit \in Nat
    BY Calendar, ReleaseGrows, SearchAssumption, BudgetAssumption
  <2>2. Given(0) = 0
    BY GivenGrows
  <2>3. BudgetHolds
    BY <2>1, <2>2 DEF Init, BudgetHolds, Given
  <2> QED
    BY <2>1, <2>2, <2>3 DEF Init, Books
<1>2. Books => BudgetHolds
  BY DEF Books
<1> QED
  BY <1>1, <1>2, BooksKept, Invariant, PTL DEF Spec

\* A task that is put off because the budget or the circuit refuses, or whose
\* turn ends so, is due again as soon as they could let a request through
\* (claimDueIngestionTask, completionBasedNextRunAt, evaluateProviderBudget).
THEOREM NeverOversleeps == Spec => WakesInTime
<1> DEFINE Wakes ==
      Refused(provider, now) /\ task'.status = "blocked" /\ task'.next # task.next =>
        \A x \in now .. (task'.next - 1) : Refused(provider, x)
<1>1. IInv /\ [Next]_vars => [Wakes]_vars
  <2> SUFFICES ASSUME IInv, [Next]_vars PROVE Wakes
    OBVIOUS
  <2>1. now \in Nat /\ provider \in Providers /\ task \in Tasks
    BY DEF IInv, TaskOK, CountsOK
  <2>2. task'.next = task.next => Wakes
    OBVIOUS
  <2>3. Refused(provider, now) /\ task'.next = RetryAt(provider, now) => Wakes
    <3> SUFFICES ASSUME Refused(provider, now), task'.next = RetryAt(provider, now),
                        NEW x \in now .. (task'.next - 1)
                 PROVE  Refused(provider, x)
      OBVIOUS
    <3>1. RetryAt(provider, now) \in Nat
      BY <2>1, RetryLater
    <3> QED
      BY <2>1, <3>1, RefusedUntilRetry
  <2>4. ASSUME NEW t \in Turns, Step(t) PROVE Wakes
    <3>1. CASE \E status \in Statuses : End(t, status)
      <4>1. PICK status \in Statuses : End(t, status)
        BY <3>1
      <4>2. CASE task.token # t
        BY <2>2, <4>1, <4>2 DEF End
      <4>3. CASE task.token = t
        <5>1. task'.status = status /\ task'.next = NextRun(status)
          BY <2>1, <4>1, <4>3 DEF End, Released, Tasks
        <5> QED
          BY <2>3, <5>1 DEF NextRun
      <4> QED
        BY <4>2, <4>3
    <3>2. CASE Claim(t)
      BY <2>1, <2>2, <3>2 DEF Claim, Tasks
    <3>3. CASE Open(t) \/ Renew(t) \/ SavePage(t) \/ Finish(t)
      BY <2>1, <2>2, <3>3 DEF Open, Renew, SavePage, Finish, Saved, Tasks
    <3>4. CASE Abandon(t)
      <4>1. task' = task \/ task'.status = "failed"
        BY <2>1, <3>4 DEF Abandon, Released, Tasks
      <4> QED
        BY <2>2, <4>1
    <3>5. CASE \/ Read(t) \/ ReadPage(t) \/ PageBlocked(t) \/ FinishFails(t) \/ Crash(t)
               \/ \E status \in Statuses : PageFails(t, status)
      BY <2>2, <3>5 DEF Read, ReadPage, PageBlocked, PageFails, FinishFails, Crash
    <3> QED
      BY <2>4, <3>1, <3>2, <3>3, <3>4, <3>5 DEF Step
  <2>5. CASE PutOff
    <3>1. Refused(provider, now) /\ task'.next = RetryAt(provider, now)
      BY <2>1, <2>5 DEF PutOff, Tasks
    <3> QED
      BY <2>3, <3>1
  <2>6. CASE (\E until \in Times : Close(until)) \/ (\E granted \in BOOLEAN : Spend(granted))
        \/ Recover \/ Deploy \/ Reconcile \/ Tick
    BY <2>1, <2>2, <2>6 DEF Close, Recover, Spend, Deploy, Reconcile, Tick, Tasks
  <2>7. CASE UNCHANGED vars
    BY <2>2, <2>7 DEF vars
  <2> QED
    BY <2>4, <2>5, <2>6, <2>7 DEF Next
<1> QED
  BY <1>1, Invariant, PTL DEF Spec, WakesInTime
----------------------------------------------------------------------------
(* The place of a search.  A second invariant: what a turn has in hand      *)
(* against what the row has saved, and what has been handled of both.       *)

\* The holder works on the search that the row has saved.  After its turn it may
\* have none in hand, when the provider's circuit opened under it.
InHand(r, t, k) ==
  k.token = t =>
    /\ r.pc \in {"open", "page", "save"} => r.search = k.search
    /\ r.pc = "complete" \/ (r.pc = "finish" /\ k.status = "running") =>
         r.search = None \/ r.search = k.search

\* As long as the claim of a turn would succeed, its window is still the one
\* that the row calls for.
Foreseen(r, k) ==
  r.pc = "claim" /\ k.next <= r.at /\ (k.token = None \/ k.expires <= r.at) =>
    r.window = IF Unfinished(k.search) THEN k.search.window ELSE Derived(k.watermark, r.at)

\* The search in hand is over the window of the turn.
Aligned(r) ==
  /\ r.pc = "open" /\ Unfinished(r.search) => r.search.window = r.window
  /\ r.pc \in {"page", "save", "finish", "complete"} /\ r.search # None => r.search.window = r.window

\* The pages of a search up to its place are handled.
Handled(search, pages) ==
  search # None => \A p \in 1 .. search.page : <<search.window, p>> \in pages

Worked(r, pages) ==
  /\ Handled(r.search, pages)
  /\ r.pc = "save" => <<r.search.window, r.search.page + 1>> \in pages
  /\ r.status = "succeeded" => r.search # None

\* What lies between the watermark and the window of the holder is given up.
GapGiven(r, t, k, lost) ==
  k.token = t /\ r.pc \notin {"idle", "claim"} /\ k.watermark # 0 =>
    \A x \in Times : k.watermark < x /\ x < r.window.from => x \in lost

PlaceOK(r, t, k, pages, lost) ==
  InHand(r, t, k) /\ Foreseen(r, k) /\ Aligned(r) /\ Worked(r, pages) /\ GapGiven(r, t, k, lost)

Place == Handled(task.search, got) /\ \A t \in Turns : PlaceOK(turn[t], t, task, got, missed)

\* What a step of another turn, or of none, does to the row that turn u knows.
RowFor(u) ==
  /\ task'.token = u =>
       /\ task.token = u /\ task'.search = task.search /\ task'.watermark = task.watermark
       /\ task'.status = "running" => task.status = "running"
  /\ \/ /\ task'.next = task.next /\ task'.search = task.search
        /\ task'.watermark = task.watermark
        /\ \A at \in 0 .. now : task'.token = None \/ task'.expires <= at =>
                                 task.token = None \/ task.expires <= at
     \/ now < task'.next
     \/ task'.token # None /\ now < task'.expires

LEMMA TurnTypes ==
  ASSUME IInv, NEW t \in Turns
  PROVE  /\ now \in Nat /\ task \in Tasks /\ turn[t] \in TurnRecords /\ turn \in [Turns -> TurnRecords]
         /\ turn[t].at \in 0 .. now
         /\ task.next \in Nat /\ task.expires \in Nat /\ task.watermark \in Nat
         /\ turn[t].search \in Searches \cup {None} /\ task.search \in Searches \cup {None}
         /\ Reading(turn[t], t, task) /\ Paging(turn[t])
<1>1. now \in Nat /\ task \in Tasks /\ turn \in [Turns -> TurnRecords] /\ TurnOK(turn[t], t, task, now)
  BY DEF IInv, TaskOK
<1> QED
  BY <1>1 DEF TurnOK, TurnRecords, Tasks

LEMMA PlaceKept ==
  ASSUME IInv, IInv', NEW u \in Turns, PlaceOK(turn[u], u, task, got, missed), RowFor(u),
         got \subseteq got', missed \subseteq missed'
  PROVE  PlaceOK(turn[u], u, task', got', missed')
<1>1. InHand(turn[u], u, task')
  BY DEF PlaceOK, InHand, RowFor
<1>2. Foreseen(turn[u], task')
  <2> SUFFICES ASSUME turn[u].pc = "claim", task'.next <= turn[u].at,
                      task'.token = None \/ task'.expires <= turn[u].at
               PROVE  turn[u].window = IF Unfinished(task'.search) THEN task'.search.window
                                       ELSE Derived(task'.watermark, turn[u].at)
    BY DEF Foreseen
  <2>1. now \in Nat /\ turn[u].at \in 0 .. now /\ task'.next \in Nat /\ task'.expires \in Nat
    <3>1. task' \in Tasks
      BY DEF IInv, TaskOK
    <3> QED
      BY <3>1, TurnTypes DEF Tasks
  <2>2. /\ task'.next = task.next /\ task'.search = task.search /\ task'.watermark = task.watermark
        /\ task.token = None \/ task.expires <= turn[u].at
    BY <2>1 DEF RowFor
  <2> QED
    BY <2>2 DEF PlaceOK, Foreseen
<1>3. Aligned(turn[u]) /\ Worked(turn[u], got')
  BY DEF PlaceOK, Worked, Handled
<1>4. GapGiven(turn[u], u, task', missed')
  BY DEF PlaceOK, GapGiven, RowFor
<1> QED
  BY <1>1, <1>2, <1>3, <1>4 DEF PlaceOK

\* A step of turn t, which knows its own place afterwards.
LEMMA PlaceStep ==
  ASSUME IInv, IInv', Place, NEW t \in Turns, NEW r,
         turn' = [turn EXCEPT ![t] = r],
         \A u \in Turns \ {t} : RowFor(u), got \subseteq got', missed \subseteq missed',
         Handled(task'.search, got'), PlaceOK(r, t, task', got', missed')
  PROVE  Place'
<1>1. ASSUME NEW u \in Turns PROVE PlaceOK(turn'[u], u, task', got', missed')
  <2>1. turn \in [Turns -> TurnRecords]
    BY DEF IInv
  <2>2. CASE u = t
    BY <2>1, <2>2
  <2>3. CASE u # t
    <3>1. turn'[u] = turn[u] /\ RowFor(u)
      BY <2>1, <2>3
    <3> QED
      BY <3>1, PlaceKept DEF Place
  <2> QED
    BY <2>2, <2>3
<1> QED
  BY <1>1 DEF Place

\* A step that moves no turn and neither the search nor the watermark.
LEMMA PlaceOutside ==
  ASSUME IInv, IInv', Place, UNCHANGED <<turn, got, missed>>, task'.search = task.search,
         \A u \in Turns : RowFor(u)
  PROVE  Place'
BY PlaceKept DEF Place, Handled

\* The row as it is, and what saving and releasing make of it.
LEMMA RowSame ==
  ASSUME UNCHANGED task
  PROVE  \A u \in Turns : RowFor(u)
BY DEF RowFor

LEMMA RowSaved ==
  ASSUME IInv, NEW t \in Turns, NEW s, task.token = t, task' = Saved(s)
  PROVE  /\ \A u \in Turns \ {t} : RowFor(u)
         /\ task'.search = s /\ task'.token = t /\ task'.status = task.status
         /\ task'.watermark = task.watermark /\ task'.next = task.next
<1>1. /\ task'.search = s /\ task'.token = t /\ task'.status = task.status
      /\ task'.watermark = task.watermark /\ task'.next = task.next
      /\ task'.expires = now + LeaseLen
  BY DEF Saved, IInv, TaskOK, Tasks
<1>2. now < now + LeaseLen
  BY SearchAssumption DEF IInv
<1> QED
  BY <1>1, <1>2, SearchAssumption DEF RowFor

LEMMA RowReleased ==
  ASSUME task'.token = None, now < task'.next
  PROVE  \A u \in Turns : RowFor(u)
BY SearchAssumption DEF RowFor

\* A turn that is over knows nothing.
LEMMA NoTurnPlace ==
  ASSUME NEW t, NEW k, NEW pages, NEW lost
  PROVE  PlaceOK(NoTurn, t, k, pages, lost)
<1>1. NoTurn.pc = "idle" /\ NoTurn.search = None /\ NoTurn.status = "failed"
  BY DEF NoTurn
<1> QED
  BY <1>1 DEF PlaceOK, InHand, Foreseen, Aligned, Worked, Handled, GapGiven

LEMMA InitPlace == Init => Place
<1> SUFFICES ASSUME Init PROVE Place
  OBVIOUS
<1>1. task.search = None /\ turn = [t \in Turns |-> NoTurn]
  BY DEF Init
<1> QED
  BY <1>1, NoTurnPlace DEF Place, Handled

LEMMA ReadPlace == ASSUME IInv, IInv', Place, NEW t \in Turns, Read(t) PROVE Place'
<1> DEFINE r == [NoTurn EXCEPT !.pc = "claim", !.at = now, !.window = ClaimWindow(now)]
<1>1. /\ r.pc = "claim" /\ r.at = now /\ r.window = ClaimWindow(now)
      /\ r.search = None /\ r.status = "failed"
  BY DEF NoTurn
<1>2. turn' = [turn EXCEPT ![t] = r] /\ UNCHANGED <<task, got, missed>>
  BY DEF Read, ghosts
<1> HIDE DEF r
<1>3. PlaceOK(r, t, task', got', missed')
  BY <1>1, <1>2 DEF Read, PlaceOK, InHand, Foreseen, Aligned, Worked, Handled, GapGiven, ClaimWindow
<1> QED
  BY <1>2, <1>3, RowSame, PlaceStep DEF Place

LEMMA ClaimPlace == ASSUME IInv, IInv', Place, NEW t \in Turns, Claim(t) PROVE Place'
<1>1. CASE ~Claimable(t)
  <2>1. turn' = [turn EXCEPT ![t] = NoTurn] /\ UNCHANGED <<task, got, missed>>
    BY <1>1 DEF Claim
  <2> QED
    BY <2>1, NoTurnPlace, RowSame, PlaceStep DEF Place
<1>2. CASE Claimable(t)
  <2> DEFINE r == [turn[t] EXCEPT !.pc = "open", !.search = task.search]
             gap == {x \in Times : task.watermark # 0 /\ task.watermark < x /\ x < turn[t].window.from}
  <2>0. /\ now \in Nat /\ turn[t] \in TurnRecords /\ turn[t].at \in 0 .. now /\ task \in Tasks
        /\ task.expires \in Nat /\ task.next \in Nat /\ Paging(turn[t]) /\ turn[t].pc = "claim"
    BY TurnTypes DEF Claim
  <2>1. /\ r.pc = "open" /\ r.search = task.search /\ r.window = turn[t].window
        /\ r.status = turn[t].status
    BY <2>0 DEF TurnRecords
  <2>2. turn' = [turn EXCEPT ![t] = r] /\ got' = got /\ missed' = missed \cup gap
    BY <1>2, <2>0 DEF Claim
  <2>3. /\ task'.token = t /\ task'.status = "running" /\ task'.expires = turn[t].at + LeaseLen
        /\ task'.search = task.search /\ task'.watermark = task.watermark /\ task'.next = task.next
    BY <1>2, <2>0 DEF Claim, Tasks
  <2>4. task.next <= turn[t].at /\ (task.token = None \/ task.expires <= turn[t].at)
    BY <1>2 DEF Claimable, LeaseFree
  <2>5. \A u \in Turns \ {t} : RowFor(u)
    <3>1. ASSUME NEW at \in 0 .. now, task'.token = None \/ task'.expires <= at
          PROVE  task.token = None \/ task.expires <= at
      BY <2>0, <2>3, <2>4, <3>1, SearchAssumption
    <3> QED
      BY <2>3, <3>1 DEF RowFor
  <2>6. turn[t].window = IF Unfinished(task.search) THEN task.search.window
                         ELSE Derived(task.watermark, turn[t].at)
    BY <2>0, <2>4 DEF Place, PlaceOK, Foreseen
  <2>7. InHand(r, t, task') /\ Foreseen(r, task')
    BY <2>1, <2>3 DEF InHand, Foreseen
  <2>8. Aligned(r)
    BY <2>1, <2>6 DEF Aligned
  <2>9. Worked(r, got') /\ Handled(task'.search, got')
    BY <2>0, <2>1, <2>2, <2>3 DEF Worked, Place, Paging
  <2>10. GapGiven(r, t, task', missed')
    BY <2>1, <2>2, <2>3 DEF GapGiven
  <2> HIDE DEF r, gap
  <2>11. PlaceOK(r, t, task', got', missed')
    BY <2>7, <2>8, <2>9, <2>10 DEF PlaceOK
  <2> QED
    BY <2>2, <2>5, <2>9, <2>11, PlaceStep
<1> QED
  BY <1>1, <1>2

LEMMA OpenPlace == ASSUME IInv, IInv', Place, NEW t \in Turns, Open(t) PROVE Place'
<1> DEFINE fresh == [window |-> turn[t].window, filter |-> DateFilter(turn[t].window.from), page |-> 0]
           s == IF Unfinished(turn[t].search) THEN turn[t].search ELSE fresh
<1>0. /\ now \in Nat /\ turn[t] \in TurnRecords /\ task \in Tasks /\ Paging(turn[t])
      /\ turn[t].pc = "open" /\ UNCHANGED <<now, got, missed>> /\ provider.open \in Nat
      /\ PlaceOK(turn[t], t, task, got, missed)
  BY TurnTypes DEF Open, ghosts, IInv, CountsOK, Providers, Place
<1>1. s.window = turn[t].window /\ Handled(s, got')
  <2>1. CASE Unfinished(turn[t].search)
    BY <1>0, <2>1 DEF PlaceOK, Aligned, Worked
  <2>2. CASE ~Unfinished(turn[t].search)
    BY <2>2 DEF Handled
  <2> QED
    BY <2>1, <2>2
<1>5. turn[t].status # "succeeded"
  BY <1>0 DEF Paging
<1> HIDE DEF s
<1>2. CASE provider.open > now
  <2> DEFINE r == [turn[t] EXCEPT !.pc = "finish", !.search = None, !.status = "blocked"]
  <2>1. /\ r.pc = "finish" /\ r.search = None /\ r.status = "blocked" /\ r.window = turn[t].window
    BY <1>0 DEF TurnRecords
  <2>2. turn' = [turn EXCEPT ![t] = r] /\ UNCHANGED task
    BY <1>0, <1>2 DEF Open
  <2> HIDE DEF r
  <2>3. PlaceOK(r, t, task', got', missed')
    BY <1>0, <2>1, <2>2 DEF PlaceOK, InHand, Foreseen, Aligned, Worked, Handled, GapGiven
  <2> QED
    BY <1>0, <2>2, <2>3, RowSame, PlaceStep DEF Place
<1>3. CASE provider.open <= now /\ Owns(t)
  <2> DEFINE r == [turn[t] EXCEPT !.pc = "page", !.search = s]
  <2>1. /\ r.pc = "page" /\ r.search = s /\ r.status = turn[t].status /\ r.window = turn[t].window
    BY <1>0 DEF TurnRecords
  <2>2. turn' = [turn EXCEPT ![t] = r] /\ task' = Saved(s) /\ task.token = t
    BY <1>0, <1>3 DEF Open, Owns, s
  <2> HIDE DEF r
  <2>3. PlaceOK(r, t, task', got', missed') /\ Handled(task'.search, got')
    BY <1>0, <1>1, <1>5, <2>1, <2>2, RowSaved DEF PlaceOK, InHand, Foreseen, Aligned, Worked, GapGiven
  <2> QED
    BY <1>0, <2>2, <2>3, RowSaved, PlaceStep
<1>4. CASE provider.open <= now /\ ~Owns(t)
  <2> DEFINE r == [turn[t] EXCEPT !.pc = "finish", !.search = s, !.status = "failed"]
  <2>1. /\ r.pc = "finish" /\ r.search = s /\ r.status = "failed" /\ r.window = turn[t].window
    BY <1>0 DEF TurnRecords
  <2>2. turn' = [turn EXCEPT ![t] = r] /\ UNCHANGED task
    BY <1>0, <1>4 DEF Open, s
  <2> HIDE DEF r
  <2>3. PlaceOK(r, t, task', got', missed')
    BY <1>0, <1>1, <1>4, <2>1, <2>2 DEF PlaceOK, InHand, Foreseen, Aligned, Worked, GapGiven, Owns
  <2> QED
    BY <1>0, <2>2, <2>3, RowSame, PlaceStep DEF Place
<1> QED
  BY <1>0, <1>2, <1>3, <1>4

LEMMA ReadPagePlace == ASSUME IInv, IInv', Place, NEW t \in Turns, ReadPage(t) PROVE Place'
<1> DEFINE r == [turn[t] EXCEPT !.pc = "save"]
<1>1. /\ turn[t] \in TurnRecords /\ turn[t].pc = "page" /\ PlaceOK(turn[t], t, task, got, missed)
      /\ UNCHANGED task /\ turn' = [turn EXCEPT ![t] = r]
  BY TurnTypes DEF ReadPage, Place
<1>2. /\ r.pc = "save" /\ r.search = turn[t].search /\ r.status = turn[t].status
      /\ r.window = turn[t].window
  BY <1>1 DEF TurnRecords
<1>3. /\ got \subseteq got' /\ missed \subseteq missed'
      /\ <<turn[t].search.window, turn[t].search.page + 1>> \in got'
  BY DEF ReadPage
<1> HIDE DEF r
<1>4. PlaceOK(r, t, task', got', missed')
  <2>1. InHand(r, t, task') /\ Foreseen(r, task') /\ Aligned(r)
    BY <1>1, <1>2 DEF PlaceOK, InHand, Foreseen, Aligned
  <2>2. Worked(r, got')
    BY <1>1, <1>2, <1>3 DEF PlaceOK, Worked, Handled
  <2>3. GapGiven(r, t, task', missed')
    BY <1>1, <1>2, <1>3 DEF PlaceOK, GapGiven
  <2> QED
    BY <2>1, <2>2, <2>3 DEF PlaceOK
<1>5. Handled(task'.search, got')
  BY <1>1, <1>3 DEF Place, Handled
<1> QED
  BY <1>1, <1>3, <1>4, <1>5, RowSame, PlaceStep

LEMMA RenewPlace == ASSUME IInv, IInv', Place, NEW t \in Turns, Renew(t) PROVE Place'
<1>1. /\ turn \in [Turns -> TurnRecords] /\ turn[t].pc \in {"page", "save"} /\ task.token = t
      /\ task' = Saved(turn[t].search) /\ UNCHANGED <<turn, got, missed>>
      /\ PlaceOK(turn[t], t, task, got, missed)
  BY TurnTypes DEF Renew, Owns, ghosts, Place
<1>2. turn' = [turn EXCEPT ![t] = turn[t]]
  BY <1>1
<1>3. /\ task'.search = turn[t].search /\ task'.token = t /\ task'.watermark = task.watermark
      /\ \A u \in Turns \ {t} : RowFor(u)
  BY <1>1, RowSaved
<1>4. PlaceOK(turn[t], t, task', got', missed')
  BY <1>1, <1>3 DEF PlaceOK, InHand, Foreseen, GapGiven
<1>5. Handled(task'.search, got')
  BY <1>1, <1>3 DEF PlaceOK, Worked
<1> QED
  BY <1>1, <1>2, <1>3, <1>4, <1>5, PlaceStep

LEMMA PageEndsPlace ==
  ASSUME IInv, IInv', Place, NEW t \in Turns, NEW status \in Statuses, PageBlocked(t) \/ PageFails(t, status)
  PROVE  Place'
<1>1. PICK end \in {"blocked", "failed", "partial"} :
        turn' = [turn EXCEPT ![t] = [@ EXCEPT !.pc = "finish", !.status = end]]
  BY DEF PageBlocked, PageFails
<1> DEFINE r == [turn[t] EXCEPT !.pc = "finish", !.status = end]
<1>2. /\ turn[t] \in TurnRecords /\ turn[t].pc \in {"page", "save"}
      /\ PlaceOK(turn[t], t, task, got, missed)
      /\ UNCHANGED <<task, got, missed>> /\ turn' = [turn EXCEPT ![t] = r]
  BY <1>1, TurnTypes DEF PageBlocked, PageFails, Place, ghosts
<1>3. /\ r.pc = "finish" /\ r.search = turn[t].search /\ r.status # "succeeded"
      /\ r.window = turn[t].window
  BY <1>2 DEF TurnRecords
<1> HIDE DEF r
<1>4. PlaceOK(r, t, task', got', missed')
  BY <1>2, <1>3 DEF PlaceOK, InHand, Foreseen, Aligned, Worked, GapGiven
<1> QED
  BY <1>2, <1>4, RowSame, PlaceStep DEF Place

LEMMA SavePagePlace == ASSUME IInv, IInv', Place, NEW t \in Turns, SavePage(t) PROVE Place'
<1> DEFINE s == [turn[t].search EXCEPT !.page = @ + 1]
           over == Complete(s) \/ turn[t].pages + 1 = TurnPages
<1>1. /\ turn[t] \in TurnRecords /\ turn[t].pc = "save" /\ Unfinished(turn[t].search)
      /\ turn[t].search \in Searches
      /\ PlaceOK(turn[t], t, task, got, missed) /\ UNCHANGED <<got, missed>>
  BY TurnTypes DEF SavePage, Place, ghosts, Paging, Unfinished
<1>2. s.window = turn[t].search.window /\ s.page = turn[t].search.page + 1 /\ s # None
  <2>1. turn[t].search.page # Pages
    BY <1>1 DEF Unfinished, Complete
  <2> QED
    BY <1>1, <2>1, SearchAssumption, NoneIsNoSearch DEF Searches
<1>3. Handled(s, got')
  <2>1. turn[t].search.page \in Nat /\ turn[t].search # None
    BY <1>1, SearchAssumption DEF Searches, Unfinished
  <2>2. ASSUME NEW p \in 1 .. s.page PROVE <<s.window, p>> \in got
    <3>1. p \in 1 .. turn[t].search.page \/ p = turn[t].search.page + 1
      BY <1>2, <2>1
    <3> QED
      BY <1>1, <1>2, <2>1, <3>1 DEF PlaceOK, Worked, Handled
  <2> QED
    BY <1>1, <2>2 DEF Handled
<1> HIDE DEF s
<1>4. CASE Owns(t)
  <2> DEFINE pc == IF over THEN "finish" ELSE "page"
             status == IF Complete(s) THEN "succeeded" ELSE "partial"
             r == [turn[t] EXCEPT !.pc = pc, !.search = s, !.pages = turn[t].pages + 1, !.status = status]
  <2>1. turn' = [turn EXCEPT ![t] = r] /\ task' = Saved(s) /\ task.token = t
    BY <1>4 DEF SavePage, Owns, s
  <2>2. pc \in {"finish", "page"}
    OBVIOUS
  <2> HIDE DEF pc, status
  <2>3. r.pc = pc /\ r.search = s /\ r.window = turn[t].window
    BY <1>1 DEF TurnRecords
  <2> HIDE DEF r
  <2>4. /\ task'.search = s /\ task'.token = t /\ task'.watermark = task.watermark
        /\ \A u \in Turns \ {t} : RowFor(u)
    BY <2>1, RowSaved
  <2>5. PlaceOK(r, t, task', got', missed')
    <3>1. InHand(r, t, task') /\ Foreseen(r, task')
      BY <2>2, <2>3, <2>4 DEF InHand, Foreseen
    <3>2. Aligned(r) /\ Worked(r, got')
      BY <1>1, <1>2, <1>3, <2>2, <2>3 DEF PlaceOK, Aligned, Worked, Unfinished
    <3>3. GapGiven(r, t, task', missed')
      BY <1>1, <2>1, <2>3, <2>4 DEF PlaceOK, GapGiven
    <3> QED
      BY <3>1, <3>2, <3>3 DEF PlaceOK
  <2> QED
    BY <1>1, <1>3, <2>1, <2>4, <2>5, PlaceStep
<1>5. CASE ~Owns(t)
  <2> DEFINE r == [turn[t] EXCEPT !.pc = "finish", !.status = "failed"]
  <2>1. turn' = [turn EXCEPT ![t] = r] /\ UNCHANGED task
    BY <1>5 DEF SavePage
  <2>2. /\ r.pc = "finish" /\ r.search = turn[t].search /\ r.status = "failed"
        /\ r.window = turn[t].window
    BY <1>1 DEF TurnRecords
  <2> HIDE DEF r
  <2>3. PlaceOK(r, t, task', got', missed')
    BY <1>1, <2>1, <2>2 DEF PlaceOK, InHand, Foreseen, Aligned, Worked, GapGiven
  <2> QED
    BY <1>1, <2>1, <2>3, RowSame, PlaceStep DEF Place
<1> QED
  BY <1>4, <1>5

LEMMA FinishPlace == ASSUME IInv, IInv', Place, NEW t \in Turns, Finish(t) \/ FinishFails(t) PROVE Place'
<1>1. PICK pc \in {"complete", "abandon"} :
        /\ turn' = [turn EXCEPT ![t] = [@ EXCEPT !.pc = pc]]
        /\ pc = "complete" => turn[t].pc = "finish" /\ (Owns(t) \/ turn[t].search = None)
  BY DEF Finish, FinishFails
<1> DEFINE r == [turn[t] EXCEPT !.pc = pc]
<1>2. /\ turn[t] \in TurnRecords /\ turn[t].pc \in {"finish", "complete"}
      /\ PlaceOK(turn[t], t, task, got, missed)
      /\ UNCHANGED <<got, missed>> /\ turn' = [turn EXCEPT ![t] = r]
  BY <1>1, TurnTypes DEF Finish, FinishFails, Place, ghosts
<1>3. r.pc = pc /\ r.search = turn[t].search /\ r.status = turn[t].status /\ r.window = turn[t].window
  BY <1>2 DEF TurnRecords
<1> HIDE DEF r
<1>4. Aligned(r) /\ Worked(r, got')
  BY <1>1, <1>2, <1>3 DEF PlaceOK, Aligned, Worked
<1>5. CASE task' = task
  <2>1. InHand(r, t, task')
    BY <1>1, <1>2, <1>3, <1>5 DEF PlaceOK, InHand, Owns
  <2>2. Foreseen(r, task') /\ GapGiven(r, t, task', missed')
    BY <1>2, <1>3, <1>5 DEF PlaceOK, Foreseen, GapGiven
  <2> QED
    BY <1>2, <1>4, <1>5, <2>1, <2>2, RowSame, PlaceStep DEF Place, PlaceOK
<1>6. CASE task' = Saved(turn[t].search) /\ Owns(t)
  <2>1. /\ task'.search = turn[t].search /\ task'.token = t /\ task'.watermark = task.watermark
        /\ task.token = t /\ \A u \in Turns \ {t} : RowFor(u)
    BY <1>6, RowSaved DEF Owns
  <2>2. InHand(r, t, task') /\ Foreseen(r, task') /\ GapGiven(r, t, task', missed')
    BY <1>2, <1>3, <2>1 DEF PlaceOK, InHand, Foreseen, GapGiven
  <2>3. Handled(task'.search, got')
    BY <1>2, <2>1 DEF PlaceOK, Worked
  <2> QED
    BY <1>2, <1>4, <2>1, <2>2, <2>3, PlaceStep DEF PlaceOK
<1> QED
  BY <1>5, <1>6 DEF Finish, FinishFails

LEMMA LeavePlace ==
  ASSUME IInv, IInv', Place, NEW t \in Turns,
         Abandon(t) \/ Crash(t) \/ \E status \in Statuses : End(t, status)
  PROVE  Place'
<1>1. turn' = [turn EXCEPT ![t] = NoTurn] /\ UNCHANGED <<now, got, missed>>
  BY DEF Abandon, Crash, End, ghosts
<1>2. /\ \A u \in Turns : RowFor(u)
      /\ task'.search = task.search \/ task'.search = turn[t].search
  <2>1. CASE UNCHANGED task
    BY <2>1, RowSame
  <2>2. CASE task' = Released("failed")
    <3>1. "failed" \in Statuses
      BY DEF Statuses
    <3> QED
      BY <2>2, <3>1, ReleasedType, RowReleased
  <2>3. CASE task.token = t /\ \E status \in Statuses : End(t, status)
    <3>1. PICK status \in Statuses : End(t, status)
      BY <2>3
    <3>2. task'.token = None /\ now < task'.next
      BY <2>3, <3>1, EndTask
    <3>3. task'.search = turn[t].search
      BY <2>3, <3>1 DEF End, Released, IInv, TaskOK, Tasks
    <3> QED
      BY <3>2, <3>3, RowReleased
  <2> QED
    BY <2>1, <2>2, <2>3 DEF Abandon, Crash, End
<1>3. Handled(task'.search, got')
  BY <1>1, <1>2 DEF Place, PlaceOK, Worked
<1> QED
  BY <1>1, <1>2, <1>3, NoTurnPlace, PlaceStep

LEMMA OutsidePlace ==
  ASSUME IInv, IInv', Place,
         PutOff \/ (\E until \in Times : Close(until)) \/ (\E granted \in BOOLEAN : Spend(granted))
        \/ Recover \/ Deploy \/ Reconcile \/ Tick
  PROVE  Place'
<1>1. UNCHANGED <<turn, got, missed>>
  BY DEF PutOff, Close, Spend, Recover, Deploy, Reconcile, Tick, ghosts
<1>2. CASE PutOff
  <2>1. RetryAt(provider, now) \in Nat /\ now < RetryAt(provider, now)
    BY <1>2, RetryLater DEF PutOff, IInv, CountsOK
  <2>2. /\ task'.token = task.token /\ task'.watermark = task.watermark
        /\ task'.search = task.search /\ task'.status = "blocked" /\ now < task'.next
    BY <1>2, <2>1 DEF PutOff, IInv, TaskOK, Tasks
  <2> QED
    BY <1>1, <2>2, PlaceOutside DEF RowFor
<1>3. CASE Reconcile
  <2>1. /\ task'.token = task.token /\ task'.watermark = task.watermark /\ task'.next = task.next
        /\ task'.search = task.search /\ task'.status = task.status /\ task'.expires = task.expires
    BY <1>3 DEF Reconcile, IInv, TaskOK, Tasks
  <2> QED
    BY <1>1, <2>1, PlaceOutside DEF RowFor
<1>4. CASE UNCHANGED task
  BY <1>1, <1>4, RowSame, PlaceOutside
<1> QED
  BY <1>2, <1>3, <1>4 DEF Close, Spend, Recover, Deploy, Tick

LEMMA PlaceKeptByAll == IInv /\ Place /\ [Next]_vars => Place'
<1> SUFFICES ASSUME IInv, Place, [Next]_vars PROVE Place'
  OBVIOUS
<1>1. IInv'
  BY StepInv
<1>2. ASSUME NEW t \in Turns, Step(t) PROVE Place'
  BY <1>1, <1>2, ReadPlace, ClaimPlace, OpenPlace, ReadPagePlace, RenewPlace, PageEndsPlace,
     SavePagePlace, FinishPlace, LeavePlace DEF Step, Statuses
<1>3. CASE PutOff \/ (\E until \in Times : Close(until)) \/ (\E granted \in BOOLEAN : Spend(granted))
        \/ Recover \/ Deploy \/ Reconcile \/ Tick
  BY <1>1, <1>3, OutsidePlace
<1>4. CASE UNCHANGED vars
  BY <1>1, <1>4, RowSame, PlaceOutside DEF vars, ghosts
<1> QED
  BY <1>2, <1>3, <1>4 DEF Next

LEMMA Placed == Spec => []Place
BY InitPlace, PlaceKeptByAll, Invariant, PTL DEF Spec

\* An unfinished search is continued: the row's saved search is replaced by none
\* over another window and never set back, whatever turns the row changes hands
\* between (claimDueIngestionTask, checkpointIngestionTask, runJSearchPages).
THEOREM SearchContinues == Spec => SearchKept
<1> DEFINE Kept == Unfinished(task.search) /\ task'.search # None =>
                     /\ task'.search.window = task.search.window
                     /\ task'.search.page >= task.search.page
<1>1. IInv /\ Place /\ [Next]_vars => [Kept]_vars
  <2> SUFFICES ASSUME IInv, Place, [Next]_vars PROVE Kept
    OBVIOUS
  <2>1. ASSUME task'.search = task.search PROVE Kept
    BY <2>1 DEF IInv, TaskOK, Tasks, Searches, Unfinished
  <2>2. ASSUME NEW t \in Turns, Step(t) PROVE Kept
    <3>0. /\ task.search \in Searches \cup {None} /\ turn[t] \in TurnRecords
          /\ PlaceOK(turn[t], t, task, got, missed)
      BY TurnTypes DEF Place
    <3>1. CASE Read(t) \/ Claim(t) \/ ReadPage(t) \/ PageBlocked(t) \/ FinishFails(t) \/ Crash(t)
               \/ Abandon(t) \/ \E status \in Statuses : PageFails(t, status)
      <4>1. task' = task \/ task'.search = task.search
        BY <3>1 DEF Read, Claim, ReadPage, PageBlocked, FinishFails, Crash, Abandon, PageFails,
             Released, IInv, TaskOK, Tasks
      <4> QED
        BY <2>1, <4>1
    <3>2. CASE Open(t)
      <4>1. CASE task' = task
        BY <2>1, <4>1
      <4>2. CASE task' # task
        <5>1. Owns(t) /\ turn[t].pc = "open" /\ turn[t].search = task.search
          BY <3>0, <3>2, <4>2 DEF Open, Owns, PlaceOK, InHand
        <5>2. Unfinished(task.search) => task'.search = task.search
          BY <3>2, <4>2, <5>1 DEF Open, Saved, IInv, TaskOK, Tasks
        <5> QED
          BY <2>1, <5>2
      <4> QED
        BY <4>1, <4>2
    <3>3. CASE Renew(t)
      <4>1. task' = Saved(task.search)
        BY <3>0, <3>3 DEF Renew, Owns, PlaceOK, InHand
      <4> QED
        BY <2>1, <4>1 DEF Saved, IInv, TaskOK, Tasks
    <3>4. CASE SavePage(t)
      <4>1. CASE task' = task
        BY <2>1, <4>1
      <4>2. CASE task' # task
        <5>1. Owns(t) /\ turn[t].search = task.search
          BY <3>0, <3>4, <4>2 DEF SavePage, Owns, PlaceOK, InHand
        <5>2. task'.search = [task.search EXCEPT !.page = @ + 1]
          BY <3>4, <5>1 DEF SavePage, Saved, IInv, TaskOK, Tasks
        <5> QED
          BY <3>0, <5>2 DEF Searches, Unfinished
      <4> QED
        BY <4>1, <4>2
    <3>5. CASE Finish(t)
      <4>1. task' = task \/ task' = Saved(None) \/ task' = Saved(task.search)
        BY <3>0, <3>5 DEF Finish, Owns, PlaceOK, InHand
      <4> QED
        BY <2>1, <4>1 DEF Saved, IInv, TaskOK, Tasks
    <3>6. CASE \E status \in Statuses : End(t, status)
      <4>1. PICK status \in Statuses : End(t, status)
        BY <3>6
      <4>2. task' = task \/ task'.search = None \/ task'.search = task.search
        BY <3>0, <4>1 DEF End, PlaceOK, InHand, Released, IInv, TaskOK, Tasks
      <4> QED
        BY <2>1, <4>2
    <3> QED
      BY <2>2, <3>1, <3>2, <3>3, <3>4, <3>5, <3>6 DEF Step
  <2>3. CASE PutOff \/ (\E until \in Times : Close(until)) \/ (\E granted \in BOOLEAN : Spend(granted))
        \/ Recover \/ Deploy \/ Reconcile \/ Tick
    <3>1. task' = task \/ task'.search = task.search
      BY <2>3 DEF PutOff, Close, Spend, Recover, Deploy, Reconcile, Tick, IInv, TaskOK, Tasks
    <3> QED
      BY <2>1, <3>1
  <2>4. CASE UNCHANGED vars
    BY <2>1, <2>4 DEF vars
  <2> QED
    BY <2>2, <2>3, <2>4 DEF Next
<1> QED
  BY <1>1, Invariant, Placed, PTL DEF Spec, SearchKept

\* The watermark that a completion writes covers what lies up to it.
LEMMA EndCovers ==
  ASSUME IInv, Place, WatermarkCovered, NEW t \in Turns, NEW status \in Statuses, End(t, status),
         task.token = t, Advances(status)
  PROVE  WatermarkCovered'
<1> DEFINE window == turn[t].window
<1>1. /\ turn[t] \in TurnRecords /\ task \in Tasks /\ turn[t].pc = "complete"
      /\ Paging(turn[t]) /\ PlaceOK(turn[t], t, task, got, missed)
      /\ UNCHANGED <<got, missed>>
  BY TurnTypes DEF End, Place
<1>2. /\ turn[t].status = "succeeded"
      /\ turn[t].search \in Searches /\ turn[t].search # None /\ turn[t].search.page = Pages
      /\ turn[t].search.window = window
  <2>1. turn[t].status = "succeeded"
    BY DEF End, Advances
  <2>2. turn[t].search # None /\ ~Unfinished(turn[t].search)
    BY <1>1, <2>1 DEF PlaceOK, Worked, Paging
  <2> QED
    BY <1>1, <2>1, <2>2 DEF PlaceOK, Aligned, Unfinished, Complete, TurnRecords
<1>3. \A p \in 1 .. Pages : <<window, p>> \in got
  BY <1>1, <1>2 DEF PlaceOK, Worked, Handled
<1>4. task'.watermark = window.to /\ since' = (IF task.watermark = 0 THEN window.from ELSE since)
  <2>1. task' = [Released(status) EXCEPT !.search = turn[t].search, !.watermark = window.to]
    BY DEF End
  <2> QED
    BY <1>1, <2>1 DEF End, Released, Tasks
<1>5. window \in Windows
  BY <1>1 DEF TurnRecords
<1>6. Times \subseteq Nat /\ 1 \in 1 .. Pages /\ task.watermark \in Nat /\ since \in Nat
  BY <1>1, SearchAssumption DEF Times, Tasks, IInv
<1> HIDE DEF window
<1>7. ASSUME NEW x \in Times \ missed, window.from <= x, x <= window.to
      PROVE  \E g \in got : /\ g[1].from <= x /\ x <= g[1].to
                            /\ \A p \in 1 .. Pages : <<g[1], p>> \in got
  <2>1. <<window, 1>> \in got /\ <<window, 1>>[1] = window
    BY <1>3, <1>6
  <2> QED
    BY <1>3, <1>7, <2>1
<1> SUFFICES ASSUME NEW x \in Times \ missed, since' <= x, x <= window.to
             PROVE  \E g \in got : /\ g[1].from <= x /\ x <= g[1].to
                                   /\ \A p \in 1 .. Pages : <<g[1], p>> \in got
  BY <1>1, <1>4 DEF WatermarkCovered
<1>8. CASE task.watermark = 0
  BY <1>4, <1>7, <1>8
<1>9. CASE task.watermark # 0
  <2>1. CASE x <= task.watermark
    BY <1>4, <1>9, <2>1 DEF WatermarkCovered
  <2>2. CASE task.watermark < x
    <3>1. ~(x < window.from)
      BY <1>1, <1>9, <2>2 DEF PlaceOK, GapGiven, window
    <3> QED
      BY <1>5, <1>6, <1>7, <3>1 DEF Windows
  <2> QED
    BY <1>6, <2>1, <2>2
<1> QED
  BY <1>8, <1>9

\* The watermark of the row never claims what no turn has handled, for any
\* number of turns, crashes and lost leases: a posting up to it lies in a window
\* all of whose pages were handled, or was given up (completeIngestionTask,
\* deriveCatchUpWindow, runJSearchPages).
THEOREM WatermarkHonest == Spec => []WatermarkCovered
<1>1. Init => WatermarkCovered
  BY DEF Init, WatermarkCovered
<1>2. IInv /\ Place /\ WatermarkCovered /\ [Next]_vars => WatermarkCovered'
  <2> SUFFICES ASSUME IInv, Place, WatermarkCovered, [Next]_vars PROVE WatermarkCovered'
    OBVIOUS
  <2>1. ASSUME task'.watermark = task.watermark, since' = since,
               got \subseteq got', missed \subseteq missed'
        PROVE  WatermarkCovered'
    BY <2>1 DEF WatermarkCovered
  <2>2. ASSUME NEW t \in Turns, Step(t) PROVE WatermarkCovered'
    <3>1. CASE \E status \in Statuses : End(t, status)
      <4>1. PICK status \in Statuses : End(t, status)
        BY <3>1
      <4>2. CASE task.token = t /\ Advances(status)
        BY <4>1, <4>2, EndCovers
      <4>3. CASE ~(task.token = t /\ Advances(status))
        <5>1. /\ task'.watermark = task.watermark /\ since' = since /\ UNCHANGED <<got, missed>>
          BY <4>1, <4>3 DEF End, Released, IInv, TaskOK, Tasks
        <5> QED
          BY <2>1, <5>1
      <4> QED
        BY <4>2, <4>3
    <3>2. CASE ~\E status \in Statuses : End(t, status)
      <4>1. since' = since /\ got \subseteq got' /\ missed \subseteq missed'
        BY <2>2, <3>2 DEF Step, Read, Claim, Open, ReadPage, Renew, PageBlocked, SavePage, PageFails,
             Finish, FinishFails, Abandon, Crash, ghosts
      <4>2. task' = task \/ task'.watermark = task.watermark
        <5>1. CASE Claim(t)
          BY <5>1 DEF Claim, IInv, TaskOK, Tasks
        <5>2. CASE Open(t) \/ Renew(t) \/ SavePage(t) \/ Finish(t)
          BY <5>2 DEF Open, Renew, SavePage, Finish, Saved, IInv, TaskOK, Tasks
        <5>3. CASE Abandon(t)
          BY <5>3 DEF Abandon, Released, IInv, TaskOK, Tasks
        <5> QED
          BY <2>2, <3>2, <5>1, <5>2, <5>3 DEF Step, Read, ReadPage, PageBlocked, PageFails,
             FinishFails, Crash
      <4> QED
        BY <2>1, <4>1, <4>2
    <3> QED
      BY <3>1, <3>2
  <2>3. CASE PutOff \/ (\E until \in Times : Close(until)) \/ (\E granted \in BOOLEAN : Spend(granted))
        \/ Recover \/ Deploy \/ Reconcile \/ Tick
    <3>1. UNCHANGED ghosts
      BY <2>3 DEF PutOff, Close, Spend, Recover, Deploy, Reconcile, Tick
    <3>2. task' = task \/ task'.watermark = task.watermark
      BY <2>3 DEF PutOff, Close, Spend, Recover, Deploy, Reconcile, Tick, IInv, TaskOK, Tasks
    <3> QED
      BY <2>1, <3>1, <3>2 DEF ghosts
  <2>4. CASE UNCHANGED vars
    BY <2>1, <2>4 DEF vars, ghosts
  <2> QED
    BY <2>2, <2>3, <2>4 DEF Next
<1> QED
  BY <1>1, <1>2, Invariant, Placed, PTL DEF Spec
=============================================================================
