------------------------------ MODULE SearchTask ------------------------------
(* One durable search task: the IngestionTask row of a JSearch query, the   *)
(* turns that claim it under a lease, page through the provider's results   *)
(* (runJSearchPages) and save their place in the row's cursor, and the      *)
(* watermark that each completed search moves (ingestionControl.ts,         *)
(* jsearch.ts, ingestJobs).                                                 *)
(*                                                                          *)
(* The clock counts ticks; postings appear at every tick.  A page belongs   *)
(* to the search over one window: a page of another search does not stand   *)
(* for it.  0 stands for a null time.                                       *)
(*                                                                          *)
(* Each page is a request reserved from the provider's budget, which the    *)
(* other tasks of the provider spend too.                                   *)
EXTENDS Integers, ProviderBudget

CONSTANTS
  Turns,        \* turns that may work on the task at the same time
  None,         \* no token, no saved search
  Pages,        \* pages of results of a search
  TurnPages,    \* pages that a turn may read
  LeaseLen,     \* thirty minutes
  Cadence,      \* from a completed search to the next
  Retry,        \* from any other end of a turn to the next
  Lookback,     \* first window: a day
  Overlap,      \* a window starts this long before the watermark: two hours
  MaxCatchUp,   \* but not longer ago than this: a week
  ThreeDays, Week, Month,   \* date filters of the provider
  Start,        \* bound: first tick
  MaxTime,      \* bound: last tick
  MaxFaults,    \* bound: crashes, failed database calls and slow reservations
  MaxBlocks,    \* bound: requests of other tasks, and openings of the circuit
  MaxDeploys    \* bound: releases that list or delist the task

ASSUME SearchAssumption ==
  /\ None \notin Turns
  /\ Pages \in Nat \ {0} /\ TurnPages \in Nat \ {0}
  /\ LeaseLen \in Nat \ {0} /\ Cadence \in Nat \ {0} /\ Retry \in Nat \ {0}
  /\ Lookback \in Nat /\ Overlap \in Nat /\ MaxCatchUp \in Nat
  /\ ThreeDays \in Nat /\ Week \in Nat /\ Month \in Nat
  /\ Start \in Nat /\ Start > Lookback /\ Start > MaxCatchUp /\ MaxTime \in Nat
  /\ MaxFaults \in Nat /\ MaxBlocks \in Nat /\ MaxDeploys \in Nat

VARIABLES
  now,       \* the clock
  task,      \* the row
  turn,      \* what each turn knows
  provider,  \* the ProviderCircuit row
  listed,    \* the running release defines the task
  got,       \* ghost: pages handled, as <<window, page>>
  since,     \* ghost: start of the first completed window
  sent,      \* ghost: requests sent today, and how many reservations were late
  missed,    \* ghost: postings given up by the week's limit, or too old for a
             \* saved date filter when a page was asked for
  faults, blocks, deploys

ghosts == <<got, since, missed>>
counts == <<provider, sent>>
bounds == <<faults, blocks, deploys>>
vars == <<now, task, turn, counts, listed, ghosts, bounds>>

Times == 0 .. MaxTime
Windows == [from : Nat, to : Nat]

\* JSearchProgress: a search over a window, and the pages saved so far.
Searches == [window : Windows, filter : Nat, page : 0 .. Pages]

ASSUME NoneIsNoSearch == None \notin Searches


Complete(search) == search.page = Pages

Statuses == {"queued", "running", "succeeded", "partial", "failed", "blocked"}

Tasks == [status : Statuses, next : Nat, token : Turns \cup {None}, expires : Nat,
          watermark : Nat, search : Searches \cup {None}, lifecycle : {"active", "retired"}]

NoTurn == [pc |-> "idle", at |-> 0, window |-> [from |-> 0, to |-> 0],
           search |-> None, pages |-> 0, status |-> "failed"]

TurnRecords == [pc : {"idle", "claim", "open", "page", "save", "finish", "complete", "abandon"},
                at : Nat, window : Windows, search : Searches \cup {None},
                pages : Nat, status : Statuses]

Init ==
  /\ now = Start
  /\ task = [status |-> "queued", next |-> Start, token |-> None, expires |-> 0,
             watermark |-> 0, search |-> None, lifecycle |-> "active"]
  /\ turn = [t \in Turns |-> NoTurn]
  /\ provider = [open |-> 0, day |-> DayOf(Start), month |-> MonthOf(Start),
                 dayUsed |-> 0, monthUsed |-> 0]
  /\ sent = [day |-> DayOf(Start), count |-> 0, late |-> 0]
  /\ listed = TRUE
  /\ got = {} /\ since = 0 /\ missed = {}
  /\ faults = 0 /\ blocks = 0 /\ deploys = 0
----------------------------------------------------------------------------
Lower(a, b) == IF a < b THEN a ELSE b

\* deriveCatchUpWindow.
Derived(watermark, at) ==
  LET desired == IF watermark = 0 THEN at - Lookback ELSE watermark - Overlap IN
  [from |-> Lower(Higher(desired, at - MaxCatchUp), at), to |-> at]

\* jsearchDateFilter: how far back the results reach.
DateFilter(from) ==
  LET age == now - from IN
  IF age <= ThreeDays THEN ThreeDays ELSE IF age <= Week THEN Week ELSE IF age <= Month THEN Month ELSE now

\* readJSearchProgress: a saved search that is not finished.
Unfinished(search) == search # None /\ ~Complete(search)

ClaimWindow_FreshEnd(at) ==   \* mutant
  IF Unfinished(task.search) THEN [task.search.window EXCEPT !.to = at] ELSE Derived(task.watermark, at)

\* The window of the search the row has saved, or the one after its watermark.
ClaimWindow(at) ==
  IF Unfinished(task.search) THEN task.search.window ELSE Derived(task.watermark, at)

LeaseFree(at) == task.token = None \/ task.expires <= at

\* claimDueIngestionTask, until its update: the row and the provider's
\* availability are read.
Read(t) ==
  /\ turn[t].pc = "idle" /\ task.token # t
  /\ listed /\ task.lifecycle = "active" /\ task.next <= now
  /\ ~Refused(provider, now)
  /\ turn' = [turn EXCEPT ![t] = [NoTurn EXCEPT !.pc = "claim", !.at = now, !.window = ClaimWindow(now)]]
  /\ UNCHANGED <<now, task, counts, listed, ghosts, bounds>>

\* The provider is not available: the row is put off, unless a turn holds it.
PutOff ==
  /\ listed /\ task.lifecycle = "active" /\ task.next <= now
  /\ Refused(provider, now)
  /\ LeaseFree(now)
  /\ task' = [task EXCEPT !.status = "blocked", !.next = RetryAt(provider, now)]
  /\ UNCHANGED <<now, turn, counts, listed, ghosts, bounds>>

Claimable_AnyTime(t) == task.lifecycle = "active" /\ LeaseFree(turn[t].at)   \* mutant
Claimable_AnyTask(t) == task.next <= turn[t].at /\ LeaseFree(turn[t].at)   \* mutant

\* The guard of the claiming update.  Its time is that of the read.
Claimable(t) ==
  /\ task.lifecycle = "active"
  /\ task.next <= turn[t].at
  /\ LeaseFree(turn[t].at)

\* The update either claims the row, whose cursor is then read again, or the
\* turn is over.
Claim(t) ==
  /\ turn[t].pc = "claim"
  /\ IF Claimable(t)
     THEN /\ task' = [task EXCEPT !.status = "running", !.token = t, !.expires = turn[t].at + LeaseLen]
          /\ turn' = [turn EXCEPT ![t] = [@ EXCEPT !.pc = "open", !.search = task.search]]
          /\ missed' = missed \cup
               {x \in Times : task.watermark # 0 /\ task.watermark < x /\ x < turn[t].window.from}
     ELSE /\ turn' = [turn EXCEPT ![t] = NoTurn]
          /\ UNCHANGED <<task, missed>>
  /\ UNCHANGED <<now, counts, listed, got, since, bounds>>
----------------------------------------------------------------------------
\* checkpointIngestionTask saves for the holder of the lease, and renews it.
Owns_AnyHolder(t) == task.status = "running"   \* mutant

Owns(t) == task.token = t /\ task.status = "running"

Saved(search) == [task EXCEPT !.search = search, !.expires = now + LeaseLen]

\* ingestJobs takes up the saved search or opens one over the window, and saves
\* it.  If the provider's circuit has opened meanwhile there is no search.
Open(t) ==
  LET search == IF Unfinished(turn[t].search) THEN turn[t].search
                ELSE [window |-> turn[t].window, filter |-> DateFilter(turn[t].window.from), page |-> 0] IN
  /\ turn[t].pc = "open"
  /\ \/ /\ provider.open > now
        /\ turn' = [turn EXCEPT ![t] = [@ EXCEPT !.pc = "finish", !.search = None, !.status = "blocked"]]
        /\ UNCHANGED task
     \/ /\ provider.open <= now /\ Owns(t)
        /\ task' = Saved(search)
        /\ turn' = [turn EXCEPT ![t] = [@ EXCEPT !.pc = "page", !.search = search]]
     \/ /\ provider.open <= now /\ ~Owns(t)
        /\ turn' = [turn EXCEPT ![t] = [@ EXCEPT !.pc = "finish", !.search = search, !.status = "failed"]]
        /\ UNCHANGED task
  /\ UNCHANGED <<now, counts, listed, ghosts, bounds>>

\* The requests and the late reservations of today, before the next one.
SentToday == IF sent.day = DayOf(now) THEN sent.count ELSE 0
LateToday == IF sent.day = DayOf(now) THEN sent.late ELSE 0

\* reserveProviderRequest: the clock is read before the transaction, whose
\* retries may commit in the next hour.
Reserve(at, granted) ==
  /\ granted = ~Refused(provider, at)
  /\ provider' = IF granted THEN Charged(provider, at) ELSE Rolled(provider, at)
  /\ sent' = [day |-> DayOf(now), count |-> SentToday + (IF granted THEN 1 ELSE 0),
              late |-> LateToday + (IF at < now THEN 1 ELSE 0)]

\* Another task of the provider asks for a request, or this one for a request
\* whose answer is not used.
Spend(granted) ==
  /\ blocks < MaxBlocks
  /\ \/ Reserve(now, granted) /\ UNCHANGED faults
     \/ faults < MaxFaults /\ Reserve(now - 1, granted) /\ faults' = faults + 1
  /\ blocks' = blocks + 1
  /\ UNCHANGED <<now, task, turn, listed, ghosts, deploys>>

\* A request is reserved and sent, and every row of its page is handled.
ReadPage(t) ==
  LET search == turn[t].search IN
  /\ turn[t].pc = "page"
  /\ Reserve(now, TRUE)
  /\ got' = got \cup {<<search.window, search.page + 1>>}
  /\ missed' = missed \cup
       {x \in Times : search.window.from <= x /\ x <= search.window.to /\ x < now - search.filter}
  /\ turn' = [turn EXCEPT ![t] = [@ EXCEPT !.pc = "save"]]
  /\ UNCHANGED <<now, task, listed, since, bounds>>

\* The heartbeat while rows are handled saves the place before the page.
Renew(t) ==
  /\ turn[t].pc \in {"page", "save"} /\ Owns(t)
  /\ task' = Saved(turn[t].search)
  /\ UNCHANGED <<now, turn, counts, listed, ghosts, bounds>>

\* The reservation is refused.
PageBlocked(t) ==
  /\ turn[t].pc = "page"
  /\ Reserve(now, FALSE)
  /\ turn' = [turn EXCEPT ![t] = [@ EXCEPT !.pc = "finish", !.status = "blocked"]]
  /\ UNCHANGED <<now, task, listed, ghosts, bounds>>

\* The request, the answer, a row of it or the save fails, or a Stop interrupts
\* the turn: the page is not saved, even if all its rows have been handled.
PageFails(t, status) ==
  /\ turn[t].pc \in {"page", "save"} /\ status \in {"failed", "partial"}
  /\ turn' = [turn EXCEPT ![t] = [@ EXCEPT !.pc = "finish", !.status = status]]
  /\ UNCHANGED <<now, task, counts, listed, ghosts, bounds>>

\* The place after the page is saved, and the turn goes on, unless the lease
\* was lost.
SavePage(t) ==
  LET search == [turn[t].search EXCEPT !.page = @ + 1]
      over == Complete(search) \/ turn[t].pages + 1 = TurnPages IN
  /\ turn[t].pc = "save"
  /\ IF Owns(t)
     THEN /\ task' = Saved(search)
          /\ turn' = [turn EXCEPT ![t] = [@ EXCEPT
                         !.pc = IF over THEN "finish" ELSE "page",
                         !.search = search, !.pages = turn[t].pages + 1,
                         !.status = IF Complete(search) THEN "succeeded" ELSE "partial"]]
     ELSE /\ turn' = [turn EXCEPT ![t] = [@ EXCEPT !.pc = "finish", !.status = "failed"]]
          /\ UNCHANGED task
  /\ UNCHANGED <<now, counts, listed, ghosts, bounds>>
----------------------------------------------------------------------------
\* finishIngestion saves the place once more; a turn that has lost its lease
\* with a search in hand ends in an error there.
Finish(t) ==
  /\ turn[t].pc = "finish"
  /\ task' = IF Owns(t) THEN Saved(turn[t].search) ELSE task
  /\ turn' = [turn EXCEPT ![t] = [@ EXCEPT !.pc = IF Owns(t) \/ turn[t].search = None THEN "complete" ELSE "abandon"]]
  /\ UNCHANGED <<now, counts, listed, ghosts, bounds>>

\* The database fails in there, or at the completion.
FinishFails(t) ==
  /\ turn[t].pc \in {"finish", "complete"} /\ faults < MaxFaults
  /\ turn' = [turn EXCEPT ![t] = [@ EXCEPT !.pc = "abandon"]]
  /\ faults' = faults + 1
  /\ UNCHANGED <<now, task, counts, listed, ghosts, blocks, deploys>>

\* completionBasedNextRunAt.
NextRun(status) ==
  IF status = "succeeded" THEN now + Cadence
  ELSE IF status = "blocked" /\ Refused(provider, now) THEN RetryAt(provider, now)
  ELSE now + Retry

Released(status) == [task EXCEPT !.status = status, !.next = NextRun(status), !.token = None, !.expires = 0]

\* Only a search that succeeded moves the watermark.
Advances(status) == status = "succeeded"

\* completeIngestionTask, for the holder of the token.  A Stop, or an error that
\* concerned only the provider's own row, turns success into partial.
End(t, status) ==
  /\ turn[t].pc = "complete"
  /\ status \in {turn[t].status} \cup (IF turn[t].status = "succeeded" THEN {"partial"} ELSE {})
  /\ IF task.token = t
     THEN /\ task' = [Released(status) EXCEPT
                        !.search = turn[t].search,
                        !.watermark = IF Advances(status) THEN turn[t].window.to ELSE @]
          /\ since' = IF Advances(status) /\ task.watermark = 0 THEN turn[t].window.from ELSE since
     ELSE UNCHANGED <<task, since>>
  /\ turn' = [turn EXCEPT ![t] = NoTurn]
  /\ UNCHANGED <<now, counts, listed, got, missed, bounds>>

\* The error of a turn reaches the loop, which completes the task as failed and
\* leaves its cursor alone.
Abandon(t) ==
  /\ turn[t].pc = "abandon"
  /\ task' = IF task.token = t THEN Released("failed") ELSE task
  /\ turn' = [turn EXCEPT ![t] = NoTurn]
  /\ UNCHANGED <<now, counts, listed, ghosts, bounds>>
----------------------------------------------------------------------------
Crash(t) ==
  /\ faults < MaxFaults /\ turn[t].pc # "idle"
  /\ turn' = [turn EXCEPT ![t] = NoTurn]
  /\ faults' = faults + 1
  /\ UNCHANGED <<now, task, counts, listed, ghosts, blocks, deploys>>

\* The provider's circuit opens, elsewhere.
Close(until) ==
  /\ blocks < MaxBlocks /\ until > Higher(now, provider.open)
  /\ provider' = [provider EXCEPT !.open = until] /\ blocks' = blocks + 1
  /\ UNCHANGED <<now, task, turn, sent, listed, ghosts, faults, deploys>>

\* A request that was on its way when the circuit opened succeeds after all.
Recover ==
  /\ provider.open > now
  /\ provider' = [provider EXCEPT !.open = 0]
  /\ UNCHANGED <<now, task, turn, sent, listed, ghosts, bounds>>

\* A release drops the task's definition or brings it back.
Deploy ==
  /\ deploys < MaxDeploys
  /\ listed' = ~listed /\ deploys' = deploys + 1
  /\ UNCHANGED <<now, task, turn, counts, ghosts, faults, blocks>>

\* reconcileIngestionTaskCatalog refuses while the row is leased or running.
Settled == task.token = None /\ task.status # "running"

\* A pipeline start brings the row in line with the release.
Reconcile ==
  /\ listed # (task.lifecycle = "active")
  /\ Settled
  /\ task' = [task EXCEPT !.lifecycle = IF listed THEN "active" ELSE "retired"]
  /\ UNCHANGED <<now, turn, counts, listed, ghosts, bounds>>

Tick ==
  /\ now < MaxTime
  /\ now' = now + 1
  /\ UNCHANGED <<task, turn, counts, listed, ghosts, bounds>>

Step(t) ==
  \/ Read(t) \/ Claim(t) \/ Open(t)
  \/ ReadPage(t) \/ Renew(t) \/ PageBlocked(t) \/ SavePage(t)
  \/ \E status \in Statuses : PageFails(t, status)
  \/ Finish(t) \/ FinishFails(t) \/ Abandon(t)
  \/ \E status \in Statuses : End(t, status)
  \/ Crash(t)

Next ==
  \/ \E t \in Turns : Step(t)
  \/ PutOff
  \/ \E until \in Times : Close(until)
  \/ \E granted \in BOOLEAN : Spend(granted)
  \/ Recover \/ Deploy \/ Reconcile \/ Tick

Spec == Init /\ [][Next]_vars
----------------------------------------------------------------------------
TypeOK ==
  /\ now \in Nat /\ provider \in Providers /\ listed \in BOOLEAN
  /\ sent \in [day : Nat, count : Nat, late : Nat]
  /\ task \in Tasks
  /\ turn \in [Turns -> TurnRecords]
  /\ got \subseteq Windows \X (1 .. Pages)
  /\ since \in Nat /\ missed \subseteq Times

\* The watermark says what has been searched: since the first completed window,
\* every posting up to it lies in a window all of whose pages were handled,
\* whatever turns crashed, were superseded or were put off in between; save what
\* the week's limit gave up and what a saved date filter no longer reached.
WatermarkCovered ==
  \A x \in Times \ missed : task.watermark # 0 /\ since <= x /\ x <= task.watermark =>
    \E g \in got : LET window == g[1] IN
      /\ window.from <= x /\ x <= window.to
      /\ \A page \in 1 .. Pages : <<window, page>> \in got

\* A turn that read the row before another turn completed does not set the
\* watermark back.
WatermarkMonotone == [][task'.watermark >= task.watermark]_vars

\* An unfinished search is continued: no turn replaces it by a search over
\* another window or sets it back to an earlier page.  It may be dropped, when
\* the provider's circuit opens under a turn.
SearchKept ==
  [][Unfinished(task.search) /\ task'.search # None =>
       /\ task'.search.window = task.search.window
       /\ task'.search.page >= task.search.page]_vars

\* A clock race about midnight sets the count of the new day back, but the
\* hourly release keeps the damage small: a late reservation gives away no more
\* than the first hour's portion and itself.
BudgetHolds == sent.count <= DayLimit + sent.late * (Release(0) + 1)

\* A refused task sleeps through no hour in which the budget, as it stands,
\* would have let a request through.
WakesInTime ==
  [][Refused(provider, now) /\ task'.status = "blocked" /\ task'.next # task.next =>
       \A x \in now .. (task'.next - 1) : Refused(provider, x)]_vars

\* The row of a task that the catalog has retired carries no token: it is neither
\* retired under its holder nor claimed by a turn that read it before it was
\* retired.  (A turn whose lease lapsed, and whose task was taken over, ended and
\* retired since, may still read a page and spend budget; it cannot save.)
RetiredIdle == task.lifecycle = "retired" => task.token = None
=============================================================================
