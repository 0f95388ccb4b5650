---------------------------- MODULE AtsRequests ----------------------------
(* Requests to one ATS platform: the queue of a process, the leases that    *)
(* share two slots and one fence per employer between processes             *)
(* (fetchAtsPlatformResponse, withAtsLocalRequestCapacity and               *)
(* withProviderRequestCapacity), and the circuit that every answer feeds.   *)
(*                                                                          *)
(* A listing request belongs to the board quantum of the V2 dispatcher,     *)
(* which reports its outcome once more after the leases are back; a detail  *)
(* request reports to the circuit of another row, left out here.  The two   *)
(* differ only from their answer on, so the answer tells them apart.        *)
(* Clocks of the processes agree, and a tick is a fraction of the lease.    *)
EXTENDS ProviderCircuit, FiniteSets

CONSTANTS
  Requests,     \* calls in progress at the same time
  Procs,        \* processes that share the database
  Boards,       \* employers with a fence of their own
  None,         \* no process, no lease, or a board that cannot be identified
  Lease,        \* length of a request lease (three minutes)
  RequestMax,   \* longest time from the last lease to the recorded answer
  RetryAfters,  \* pauses a 429 asks for
  MaxTime,      \* bound: last tick explored
  MaxFaults,    \* bound: crashes and lost database writes
  MaxRefusals   \* bound: answers that refuse a listing

Slots == {"slot0", "slot1"}
Keys == Slots \cup Boards

ASSUME RequestsAssumption ==
  /\ None \notin Requests \cup Procs \cup Keys
  /\ Slots \cap Boards = {}
  /\ Lease \in Nat /\ RequestMax \in Nat /\ RequestMax < Lease
  /\ RetryAfters \subseteq Nat \ {0}
  /\ MaxTime \in Nat /\ MaxFaults \in Nat /\ MaxRefusals \in Nat

VARIABLES
  now,        \* the clock
  lease,      \* requestLeaseToken and requestLeaseExpiresAt of each row
  circuit,    \* the failure columns of the platform's own row
  pause,      \* ticks until platformPausedUntil of each process
  req,        \* where each call is
  faults,     \* crashes and lost writes so far
  refusals    \* listing answers so far that refused the caller

vars == <<now, lease, circuit, pause, req, faults, refusals>>

\* What the caller is left to report: "none" for a detail, a board's own error,
\* a deferral or an abort.
Verdicts == {"none", "ok", "refused", "throttled"}
Stages == {"idle", "take", "ready", "sent", "record", "release", "commit"}

Unheld == [token |-> None, until |-> 0]
NoCall == [stage |-> "idle", proc |-> None, board |-> None,
           fence |-> None, fenced |-> 0, slot |-> None, since |-> 0,
           at |-> 0, retryAfter |-> 0, verdict |-> "none"]

Leases == [token : Requests \cup {None}, until : Nat]
Calls == [stage : Stages, proc : Procs \cup {None}, board : Boards \cup {None},
          fence : Keys \cup {None}, fenced : Nat,
          slot : Slots \cup {None}, since : Nat, at : Nat,
          retryAfter : Nat, verdict : Verdicts]

Init ==
  /\ now = 1
  /\ lease = [key \in Keys |-> Unheld]
  /\ circuit = ClosedCircuit
  /\ pause = [p \in Procs |-> 0]
  /\ req = [r \in Requests |-> NoCall]
  /\ faults = 0 /\ refusals = 0
----------------------------------------------------------------------------
\* Calls that occupy their process's turn at the board and its capacity.
Admitted(r) == req[r].stage \in {"take", "ready", "sent", "record", "release"}

\* Two units of capacity in each process; a call without a board takes both.
HasCapacity(p, b) ==
  LET peers == {q \in Requests : Admitted(q) /\ req[q].proc = p} IN
  IF b = None THEN peers = {}
  ELSE Cardinality(peers) < 2 /\ \A q \in peers : req[q].board \notin {b, None}

\* A call is admitted when no other call of its process is at the same board,
\* the pause its process knows of is over and there is capacity.  Its lease
\* tokens are fresh: no row still holds them.
Admit(r, p, b) ==
  /\ req[r].stage = "idle"
  /\ \A key \in Keys : lease[key].token # r
  /\ pause[p] = 0 /\ HasCapacity(p, b)
  /\ req' = [req EXCEPT ![r] = [NoCall EXCEPT !.stage = "take", !.proc = p, !.board = b]]
  /\ UNCHANGED <<now, lease, circuit, pause, faults, refusals>>

IsFree_TickEarly(key) == lease[key].token = None \/ lease[key].until <= now + 1   \* mutant

IsFree(key) == lease[key].token = None \/ lease[key].until <= now

Taken(r, key) == [lease EXCEPT ![key] = [token |-> r, until |-> now + Lease]]

\* The first lease: the employer's fence, or the first slot for a call without
\* a board.
TakeFence(r) ==
  LET key == IF req[r].board = None THEN "slot0" ELSE req[r].board IN
  /\ req[r].stage = "take" /\ req[r].fence = None
  /\ IsFree(key)
  /\ lease' = Taken(r, key)
  /\ req' = [req EXCEPT ![r].fence = key, ![r].fenced = now + Lease]
  /\ UNCHANGED <<now, circuit, pause, faults, refusals>>

\* The second: whichever slot is free, or the second slot for a call without a
\* board.  The first lease is not renewed while the call waits.
TakeSlot(r, key) ==
  /\ req[r].stage = "take" /\ req[r].fence # None
  /\ req[r].board = None => key = "slot1"
  /\ IsFree(key)
  /\ lease' = Taken(r, key)
  /\ req' = [req EXCEPT ![r].stage = "ready", ![r].slot = key, ![r].since = now]
  /\ UNCHANGED <<now, circuit, pause, faults, refusals>>

\* The pause and the circuit are read once more before the call is dispatched.
MayDispatch(r) == pause[req[r].proc] = 0 /\ ~IsOpen(circuit, now)

Dispatch(r) ==
  /\ req[r].stage = "ready" /\ MayDispatch(r)
  /\ req' = [req EXCEPT ![r].stage = "sent"]
  /\ UNCHANGED <<now, lease, circuit, pause, faults, refusals>>

GiveUp_KeepsLeases(r) ==   \* mutant
  /\ req[r].stage \in {"take", "ready"}
  /\ req' = [req EXCEPT ![r] = NoCall]
  /\ UNCHANGED <<now, lease, circuit, pause, faults, refusals>>

\* The call is deferred, or its signal aborts it while it waits.
GiveUp(r) ==
  /\ req[r].stage = "take" \/ (req[r].stage = "ready" /\ ~MayDispatch(r))
  /\ req' = [req EXCEPT ![r].stage = "release", ![r].since = 0, ![r].fenced = 0]
  /\ UNCHANGED <<now, lease, circuit, pause, faults, refusals>>
----------------------------------------------------------------------------
\* A good listing, or an answer that leaves the platform's circuit alone: that of
\* a detail, a board's own error, a timeout.
Answer(r, verdict) ==
  /\ req[r].stage = "sent" /\ verdict \in {"ok", "none"}
  /\ req' = [req EXCEPT ![r].stage = "release", ![r].since = 0, ![r].fenced = 0, ![r].verdict = verdict]
  /\ UNCHANGED <<now, lease, circuit, pause, faults, refusals>>

Refuse(r, verdict, wait) ==
  /\ refusals < MaxRefusals
  /\ req' = [req EXCEPT ![r].stage = "record", ![r].at = now,
                        ![r].retryAfter = wait, ![r].verdict = verdict]
  /\ refusals' = refusals + 1

\* A 429 pauses the process, for the longer of the old pause and the new; that
\* of a listing goes to the circuit before the leases are given back.
AnswerThrottled(r, p, wait) ==
  LET longer == Greater(pause[p], wait) IN
  /\ req[r].stage = "sent" /\ req[r].proc = p
  /\ pause' = [pause EXCEPT ![p] = longer]
  /\ \/ Refuse(r, "throttled", longer)
     \/ /\ req' = [req EXCEPT ![r].stage = "release", ![r].since = 0, ![r].fenced = 0]
        /\ UNCHANGED refusals
  /\ UNCHANGED <<now, lease, circuit, faults>>

\* A listing whose credentials are refused, or whose body breaks the schema.
AnswerRefused(r) ==
  /\ req[r].stage = "sent"
  /\ Refuse(r, "refused", 0)
  /\ UNCHANGED <<now, lease, circuit, pause, faults>>

Reported(r) ==
  IF FailureApplies(circuit, req[r].at)
  THEN Failed(circuit, req[r].verdict = "throttled", req[r].at, req[r].retryAfter)
  ELSE circuit

\* The quantum sees a 429 as it is, a refusal as the error that was recorded.
Recorded(call, again) ==
  [call EXCEPT !.stage = "release", !.since = 0, !.fenced = 0, !.at = 0, !.retryAfter = 0,
               !.verdict = IF again THEN @ ELSE "none"]

\* recordThrottle and recordFailure, called while the leases are held.
Record(r) ==
  /\ req[r].stage = "record"
  /\ circuit' = Reported(r)
  /\ req' = [req EXCEPT ![r] = Recorded(@, @.verdict = "refused")]
  /\ UNCHANGED <<now, lease, pause, faults, refusals>>

\* The database refuses the write.  A lost throttle is logged; a lost refusal
\* surfaces as a database error, which is no verdict on the platform.
RecordLost(r) ==
  /\ req[r].stage = "record" /\ faults < MaxFaults
  /\ req' = [req EXCEPT ![r] = Recorded(@, FALSE)]
  /\ faults' = faults + 1
  /\ UNCHANGED <<now, lease, circuit, pause, refusals>>
----------------------------------------------------------------------------
Held(r) == {req[r].slot, req[r].fence} \ {None}

\* The call returns.  The quantum of a listing reports a success, once its page
\* is committed, and a refusal, each with the time at which it gets there; a 429
\* has been reported at the response boundary.
Returned(r) ==
  [req EXCEPT ![r] = IF @.verdict = "none" THEN NoCall
                     ELSE [NoCall EXCEPT !.stage = "commit", !.proc = req[r].proc,
                                         !.at = now, !.verdict = req[r].verdict]]

Release_Unfenced(r) ==   \* mutant
  /\ req[r].stage = "release"
  /\ lease' = [key \in Keys |-> IF key \in Held(r) THEN Unheld ELSE lease[key]]
  /\ req' = Returned(r)
  /\ UNCHANGED <<now, circuit, pause, faults, refusals>>

\* The slot is given back, then the fence.  A lease that has passed to another
\* call stays with it.
Release(r) ==
  /\ req[r].stage = "release"
  /\ lease' = [key \in Keys |-> IF key \in Held(r) /\ lease[key].token = r THEN Unheld ELSE lease[key]]
  /\ req' = Returned(r)
  /\ UNCHANGED <<now, circuit, pause, faults, refusals>>

\* One of the two updates fails, which is logged; that lease stays until it
\* expires.
ReleaseLost(r, lost) ==
  /\ req[r].stage = "release" /\ lost \in Held(r) /\ faults < MaxFaults
  /\ lease' = [key \in Keys |-> IF key \in Held(r) \ {lost} /\ lease[key].token = r
                               THEN Unheld ELSE lease[key]]
  /\ req' = Returned(r)
  /\ faults' = faults + 1
  /\ UNCHANGED <<now, circuit, pause, refusals>>

\* The transaction of the report commits, now or later.
Commit(r) ==
  /\ req[r].stage = "commit"
  /\ circuit' = IF req[r].verdict = "ok" THEN Succeeded(circuit, req[r].at) ELSE Reported(r)
  /\ req' = [req EXCEPT ![r] = NoCall]
  /\ UNCHANGED <<now, lease, pause, faults, refusals>>

\* The dispatcher ignores a report that could not be written.
CommitLost(r) ==
  /\ req[r].stage = "commit" /\ faults < MaxFaults
  /\ req' = [req EXCEPT ![r] = NoCall]
  /\ faults' = faults + 1
  /\ UNCHANGED <<now, lease, circuit, pause, refusals>>
----------------------------------------------------------------------------
\* A process dies: its calls and its pause go, its leases stay.
Crash(p) ==
  /\ faults < MaxFaults
  /\ \E r \in Requests : req[r].proc = p
  /\ req' = [r \in Requests |-> IF req[r].proc = p THEN NoCall ELSE req[r]]
  /\ pause' = [pause EXCEPT ![p] = 0]
  /\ faults' = faults + 1
  /\ UNCHANGED <<now, lease, circuit, refusals>>


\* platformPauseRemainingMs, a tick later.
Remaining(p) == IF pause[p] = 0 THEN 0 ELSE pause[p] - 1

\* A call that holds its slot is answered and recorded within RequestMax: the
\* request has a timeout, and nothing renews the slot's lease.
Tick ==
  /\ now < MaxTime
  /\ \A r \in Requests :
       req[r].stage \in {"ready", "sent", "record"} => now < req[r].since + RequestMax
  /\ now' = now + 1
  /\ pause' = [p \in Procs |-> Remaining(p)]
  /\ UNCHANGED <<lease, circuit, req, faults, refusals>>

Step(r) ==
  \/ \E p \in Procs, b \in Boards \cup {None} : Admit(r, p, b)
  \/ TakeFence(r)
  \/ \E key \in Slots : TakeSlot(r, key)
  \/ Dispatch(r)
  \/ GiveUp(r)
  \/ \E verdict \in {"ok", "none"} : Answer(r, verdict)
  \/ \E p \in Procs, wait \in RetryAfters : AnswerThrottled(r, p, wait)
  \/ AnswerRefused(r)
  \/ Record(r)
  \/ RecordLost(r)
  \/ Release(r)
  \/ \E key \in Keys : ReleaseLost(r, key)
  \/ Commit(r)
  \/ CommitLost(r)

Next ==
  \/ \E r \in Requests : Step(r)
  \/ \E p \in Procs : Crash(p)
  \/ Tick

Spec == Init /\ [][Next]_vars
----------------------------------------------------------------------------
TypeOK ==
  /\ now \in Nat /\ faults \in Nat /\ refusals \in Nat
  /\ lease \in [Keys -> Leases]
  /\ circuit \in Circuits
  /\ pause \in [Procs -> Nat]
  /\ req \in [Requests -> Calls]

\* At the provider, or answered with a verdict not yet recorded.
Outstanding(r) == req[r].stage \in {"sent", "record"}

\* "Two durable slots shared by every process": at no time do three requests
\* wait for the platform or for their verdict to be recorded, whatever
\* processes send them and whatever leases crashes leave behind.
AtMostTwo ==
  \A q, r, s \in Requests :
    Outstanding(q) /\ Outstanding(r) /\ Outstanding(s) => q = r \/ r = s \/ q = s

\* "One fence for each employer", and a call without a board excludes all: two
\* requests that should exclude each other overlap only when one of them waited
\* for its slot until the lease it took first had expired.
Exclude(q, r) == req[q].board = req[r].board \/ None \in {req[q].board, req[r].board}

FenceHolds ==
  \A q, r \in Requests :
    q # r /\ Outstanding(q) /\ Outstanding(r) /\ Exclude(q, r)
      => \E s \in {q, r} : req[s].fenced <= now

\* Leases are unwound on every way out of a call: while nothing has crashed and
\* no write was lost, each lease belongs to a call that will still release it.
NoLeak ==
  faults = 0 =>
    \A key \in Keys : lease[key].token # None =>
      LET holder == req[lease[key].token] IN
      holder.stage \in {"take", "ready", "sent", "record", "release"} /\ key \in {holder.fence, holder.slot}

\* No report, however late its transaction commits, closes or shortens a
\* cooldown that is still running.
ProtectionKept ==
  [][IsOpen(circuit, now) => circuit'.open /\ circuit'.until >= circuit.until]_vars
=============================================================================
