---------------------------- MODULE PipelineLock ----------------------------
(***************************************************************************)
(* The pipeline lock, the operator's Stop and pause, and the progress      *)
(* mirror: src/lib/pipelineState.ts with the run, stop, local and          *)
(* extraction routes that use it.                                          *)
(*                                                                         *)
(* Two kinds of state meet here.  One database row, `row`, is shared by    *)
(* all hosts: it holds the lock, the schedule pause and the isRunning flag *)
(* that every loop polls.  Each host also has a local state file, a module *)
(* variable with the token it owns, one abort controller, a three-second   *)
(* cache of the last poll, and a writer that mirrors the file to the row   *)
(* with one write in flight and only the newest value pending.             *)
(*                                                                         *)
(* A run is identified by the lock token it minted.  A "main" run          *)
(* (POST /api/pipeline/run) heartbeats on a timer, registers the abort     *)
(* controller and polls for Stop; a "side" run (POST /api/pipeline/local   *)
(* and /extraction) does none of the three.                                *)
(*                                                                         *)
(* One tick of `now` stands for the activity-freshness window (2 min); the *)
(* three-second poll cache is fresh only within the tick that filled it.   *)
(***************************************************************************)
EXTENDS Integers

CONSTANTS
  Hosts,           \* server processes sharing the database (the Mac, the Pi)
  Tokens,          \* lock tokens: one per start that wins the lock
  NoToken,         \* the NULL token
  NoHost,          \* the host of a token that is not minted yet
  NoMirror,        \* an empty slot of the mirror writer
  Kinds,           \* which kinds of run are started
  LockStale,       \* PIPELINE_LOCK_STALE_MS, in ticks
  ActivityFresh,   \* PIPELINE_ACTIVITY_FRESH_MS, in ticks
  PauseDefault,    \* PIPELINE_PAUSE_DEFAULT_MS, in ticks
  MaxTime,         \* bound: ticks explored
  MaxStops,        \* bound: presses of Stop
  MaxOutages       \* bound: database outages of a host

ASSUME LockAssumption ==
  /\ NoToken \notin Tokens /\ NoHost \notin Hosts
  /\ Kinds \subseteq {"main", "side"}
  /\ LockStale \in Nat \ {0} /\ ActivityFresh \in Nat /\ PauseDefault \in Nat \ {0}
  /\ MaxTime \in Nat /\ MaxStops \in Nat /\ MaxOutages \in Nat

VARIABLES
  now,         \* the clock the hosts share
  row,         \* PipelineState 'global' in the database
  file,        \* host -> its pipeline-state.json
  mirror,      \* host -> its latest-only mirror writer
  owned,       \* host -> ownedLockToken
  controller,  \* host -> the run whose abort controller is registered
  pollCache,   \* host -> stopCheckCache
  run,         \* token -> the run that minted it
  aborted,     \* runs whose abort signal has fired
  unreachable, \* hosts cut off from the database
  stops, outages,  \* bounded counters
  stopAsked    \* history: runs that were running when a Stop was answered 200

vars == <<now, row, file, mirror, owned, controller, pollCache, run, aborted,
          unreachable, stops, outages, stopAsked>>

-----------------------------------------------------------------------------
Null == -1   \* a NULL timestamp

Times == Nat \cup {Null}

Phases == {"unused",    \* token not minted yet
           "claimed",   \* the row holds the token, the process does not know yet
           "running", "stopping",
           "releasing", \* the run is over, its lock row not yet cleared
           "ended", "dead"}

Live(t) == run[t].phase \in {"running", "stopping"}

\* A token holds the row and its owner is still a process that knows it.
Unfinished(t) == run[t].phase \in {"claimed", "running", "stopping"}

PauseInForce ==
  row.schedulePaused /\ (row.pausedUntil = Null \/ row.pausedUntil > now)

LockIsFree_StaleOneEarly ==   \* mutant
  \/ row.lockToken = NoToken
  \/ row.lockHeartbeatAt = Null
  \/ row.lockHeartbeatAt <= now - LockStale

LockIsFree ==
  \/ row.lockToken = NoToken
  \/ row.lockHeartbeatAt = Null
  \/ row.lockHeartbeatAt < now - LockStale

ActivityIsFresh == row.isRunning /\ row.lastUpdated >= now - ActivityFresh

-----------------------------------------------------------------------------
(* The mirror writer (createLatestOnlyAsyncWriter).                        *)

Push_KeepsOldest(h, m) ==   \* mutant
  IF mirror[h].inFlight = NoMirror
  THEN [mirror EXCEPT ![h].inFlight = m]
  ELSE IF mirror[h].pending = NoMirror
       THEN [mirror EXCEPT ![h].pending = m] ELSE mirror

Push(h, m) ==
  IF mirror[h].inFlight = NoMirror
  THEN [mirror EXCEPT ![h].inFlight = m]
  ELSE [mirror EXCEPT ![h].pending = m]

\* Every local write is a strictly newer version than the file it replaces.
Stamp(h) == IF now > file[h].lastUpdated THEN now ELSE file[h].lastUpdated + 1

UpdateState(h, isRunning, heldToken) ==
  LET next == [isRunning |-> isRunning, lastUpdated |-> Stamp(h)]
  IN  /\ file' = [file EXCEPT ![h] = next]
      /\ mirror' = Push(h, [isRunning |-> isRunning, lastUpdated |-> Stamp(h),
                            heldToken |-> heldToken])

Mirrored_AnyToken(m) ==   \* mutant
  [row EXCEPT
     !.isRunning = IF row.lastUpdated <= m.lastUpdated THEN m.isRunning ELSE @,
     !.lastUpdated = IF row.lastUpdated <= m.lastUpdated THEN m.lastUpdated ELSE @,
     !.lockHeartbeatAt = IF m.isRunning /\ m.heldToken # NoToken
                             /\ row.lockToken # NoToken
                         THEN now ELSE @]

\* persistPipelineStateMirror: refused when the row is newer, but the lock
\* lease is refreshed either way while the mirrored state is a running one.
Mirrored(m) ==
  [row EXCEPT
     !.isRunning = IF row.lastUpdated <= m.lastUpdated THEN m.isRunning ELSE @,
     !.lastUpdated = IF row.lastUpdated <= m.lastUpdated THEN m.lastUpdated ELSE @,
     !.lockHeartbeatAt = IF m.isRunning /\ m.heldToken # NoToken
                             /\ row.lockToken = m.heldToken
                         THEN now ELSE @]

\* A failed write is logged and dropped; the pending value is written next.
WriteMirror(h) ==
  /\ mirror[h].inFlight # NoMirror
  /\ row' = IF h \in unreachable THEN row ELSE Mirrored(mirror[h].inFlight)
  /\ mirror' = [mirror EXCEPT ![h] =
                  [inFlight |-> mirror[h].pending, pending |-> NoMirror]]
  /\ UNCHANGED <<now, file, owned, controller, pollCache, run, aborted,
                 unreachable, stops, outages, stopAsked>>

-----------------------------------------------------------------------------
(* Starting a run.                                                         *)

\* The first statement of a manual POST /run.  It stands even when the claim
\* that follows is refused.
ClearPause(h) ==
  /\ h \notin unreachable
  /\ "main" \in Kinds
  /\ row.schedulePaused
  /\ row' = [row EXCEPT !.schedulePaused = FALSE, !.pausedUntil = Null]
  /\ UNCHANGED <<now, file, mirror, owned, controller, pollCache, run, aborted,
                 unreachable, stops, outages, stopAsked>>

\* tryAcquirePipelineLock: one conditional update.  Only a scheduled start
\* asks for the schedule to be enabled; side runs and manual starts do not.
Claim(h, t, kind, scheduled) ==
  /\ h \notin unreachable
  /\ kind \in Kinds /\ (scheduled => kind = "main")
  /\ run[t].phase = "unused"
  /\ LockIsFree
  /\ scheduled => ~PauseInForce
  /\ ~ActivityIsFresh
  /\ row' = [row EXCEPT !.lockToken = t, !.lockHeartbeatAt = now,
                        !.schedulePaused = FALSE, !.pausedUntil = Null]
  /\ run' = [run EXCEPT ![t] = [phase |-> "claimed", host |-> h, kind |-> kind]]
  /\ UNCHANGED <<now, file, mirror, owned, controller, pollCache, aborted,
                 unreachable, stops, outages, stopAsked>>

\* A process that still has a live controller refuses a second main run.
SecondMainRefused(t) ==
  /\ run[t].kind = "main"
  /\ controller[run[t].host] # NoToken
  /\ controller[run[t].host] \notin aborted

\* The claim's answer arrives: the process records the token, writes
\* "Starting..." and a main run registers its controller and its heartbeat.
Begin(t) ==
  LET h == run[t].host IN
  /\ run[t].phase = "claimed"
  /\ owned' = [owned EXCEPT ![h] = t]
  /\ UpdateState(h, TRUE, t)
  /\ run' = [run EXCEPT ![t].phase =
               IF SecondMainRefused(t) THEN "releasing" ELSE "running"]
  /\ controller' = IF run[t].kind = "main" /\ ~SecondMainRefused(t)
                   THEN [controller EXCEPT ![h] = t] ELSE controller
  /\ UNCHANGED <<now, row, pollCache, aborted, unreachable, stops, outages,
                 stopAsked>>

-----------------------------------------------------------------------------
(* While a run is live.                                                    *)

\* startPipelineLockHeartbeat: refreshes whatever token the process owns now.
Heartbeat(h) ==
  /\ h \notin unreachable
  /\ \E t \in Tokens : Live(t) /\ run[t].host = h /\ run[t].kind = "main"
  /\ owned[h] # NoToken
  /\ row.lockToken = owned[h]
  /\ row.lockHeartbeatAt # now
  /\ row' = [row EXCEPT !.lockHeartbeatAt = now]
  /\ UNCHANGED <<now, file, mirror, owned, controller, pollCache, run, aborted,
                 unreachable, stops, outages, stopAsked>>

\* updateCombinedTicker and the progress messages: the patch has no isRunning,
\* so the host's file keeps the value it has.  Bounded to one version ahead of
\* the clock.
Ticker(t) ==
  LET h == run[t].host IN
  /\ Live(t)
  /\ file[h].lastUpdated <= now
  /\ UpdateState(h, file[h].isRunning, owned[h])
  /\ UNCHANGED <<now, row, owned, controller, pollCache, run, aborted,
                 unreachable, stops, outages, stopAsked>>

SignalFired_OnlineOnly(t) ==   \* mutant
  t \in aborted /\ run[t].host \notin unreachable

SignalFired(t) == t \in aborted

\* A main loop checks its signal, then pipelineOperatorStopRequested: a fresh
\* cached answer or a read of the row, which refills the cache.  An
\* unreachable database reads as "not stopped".
PollStop(t) ==
  LET h == run[t].host
      seen == pollCache[h]
  IN
  /\ run[t].phase = "running" /\ run[t].kind = "main"
  /\ \/ /\ SignalFired(t)
        /\ run' = [run EXCEPT ![t].phase = "stopping"]
        /\ UNCHANGED pollCache
     \/ /\ seen.at = now /\ ~seen.running
        /\ run' = [run EXCEPT ![t].phase = "stopping"]
        /\ UNCHANGED pollCache
     \/ /\ h \notin unreachable
        /\ pollCache' = [pollCache EXCEPT ![h] =
                           [at |-> now, running |-> row.isRunning]]
        /\ run' = IF row.isRunning THEN run
                  ELSE [run EXCEPT ![t].phase = "stopping"]
  /\ UNCHANGED <<now, row, file, mirror, owned, controller, aborted,
                 unreachable, stops, outages, stopAsked>>

-----------------------------------------------------------------------------
(* Ending a run.                                                           *)

\* The final state write and the finally block up to the awaited release.  A
\* main run gets here once its loops have returned ("stopping") or on an
\* exception; a side run whenever its work is done.
Finish(t) ==
  LET h == run[t].host IN
  /\ Live(t)
  /\ UpdateState(h, FALSE, owned[h])
  /\ run' = [run EXCEPT ![t].phase = "releasing"]
  /\ aborted' = IF run[t].kind = "main" THEN aborted \cup {t} ELSE aborted
  /\ controller' = IF controller[h] = t
                   THEN [controller EXCEPT ![h] = NoToken] ELSE controller
  /\ UNCHANGED <<now, row, owned, pollCache, unreachable, stops, outages,
                 stopAsked>>

Released_Unguarded(t) ==   \* mutant
  [row EXCEPT !.lockToken = NoToken, !.lockHeartbeatAt = Null]

Released_Resumes(t) ==   \* mutant
  IF row.lockToken = t
  THEN [row EXCEPT !.lockToken = NoToken, !.lockHeartbeatAt = Null,
                   !.schedulePaused = FALSE, !.pausedUntil = Null]
  ELSE row

Released(t) ==
  IF row.lockToken = t
  THEN [row EXCEPT !.lockToken = NoToken, !.lockHeartbeatAt = Null] ELSE row

\* releaseLock: token-guarded; the module variable is cleared even when the
\* database write fails.
Release(t) ==
  LET h == run[t].host IN
  /\ run[t].phase = "releasing"
  /\ row' = IF h \in unreachable THEN row ELSE Released(t)
  /\ owned' = IF owned[h] = t THEN [owned EXCEPT ![h] = NoToken] ELSE owned
  /\ run' = [run EXCEPT ![t].phase = "ended"]
  /\ UNCHANGED <<now, file, mirror, controller, pollCache, aborted,
                 unreachable, stops, outages, stopAsked>>

-----------------------------------------------------------------------------
(* The operator: POST /api/pipeline/stop, answered by host h.              *)

Modes == {"pause", "quiesce", "indefinite"}

\* A quiesce leaves the operator's pause exactly as it found it.
StopRow(mode) ==
  [row EXCEPT
     !.isRunning = FALSE,
     !.lastUpdated = now,
     !.schedulePaused = IF mode = "quiesce" THEN @ ELSE TRUE,
     !.pausedUntil = IF mode = "quiesce" THEN @
                     ELSE IF mode = "pause" THEN now + PauseDefault ELSE Null]

\* The file is written first; when the row cannot be, the request fails and
\* the local run is not aborted.
Stop(h, mode) ==
  /\ stops < MaxStops
  /\ stops' = stops + 1
  /\ UpdateState(h, FALSE, owned[h])
  /\ IF h \in unreachable
     THEN UNCHANGED <<row, aborted, stopAsked>>
     ELSE /\ row' = StopRow(mode)
          /\ aborted' = aborted \cup ({controller[h]} \ {NoToken})
          /\ stopAsked' = stopAsked \cup
               {t \in Tokens : run[t].phase = "running"}
  /\ UNCHANGED <<now, owned, controller, pollCache, run, unreachable, outages>>

-----------------------------------------------------------------------------
(* The environment.                                                        *)

\* The process dies: its file and the row stay, everything in memory is lost.
Crash(h) ==
  /\ \E t \in Tokens : run[t].host = h /\ run[t].phase \in
       {"claimed", "running", "stopping", "releasing"}
  /\ run' = [t \in Tokens |->
       IF run[t].host = h /\ run[t].phase \in
            {"claimed", "running", "stopping", "releasing"}
       THEN [run[t] EXCEPT !.phase = "dead"] ELSE run[t]]
  /\ mirror' = [mirror EXCEPT ![h] = [inFlight |-> NoMirror, pending |-> NoMirror]]
  /\ owned' = [owned EXCEPT ![h] = NoToken]
  /\ controller' = [controller EXCEPT ![h] = NoToken]
  /\ pollCache' = [pollCache EXCEPT ![h] = [at |-> Null, running |-> TRUE]]
  /\ UNCHANGED <<now, row, file, aborted, unreachable, stops, outages, stopAsked>>

Cut(h) ==
  /\ outages < MaxOutages /\ h \notin unreachable
  /\ outages' = outages + 1
  /\ unreachable' = unreachable \cup {h}
  /\ UNCHANGED <<now, row, file, mirror, owned, controller, pollCache, run,
                 aborted, stops, stopAsked>>

Restore(h) ==
  /\ h \in unreachable
  /\ unreachable' = unreachable \ {h}
  /\ UNCHANGED <<now, row, file, mirror, owned, controller, pollCache, run,
                 aborted, stops, outages, stopAsked>>

\* A tick is longer than the 30 s heartbeat interval and than a database
\* write: a host that reaches the database has begun the run it claimed,
\* refreshed its lease and drained its mirror writer within it.
Punctual(t) ==
  run[t].host \in unreachable \/
    /\ run[t].phase # "claimed"
    /\ (Live(t) /\ run[t].kind = "main" /\ row.lockToken = t
          /\ owned[run[t].host] = t) => row.lockHeartbeatAt = now

Tick ==
  /\ now < MaxTime
  /\ \A t \in Tokens : Punctual(t)
  /\ \A h \in Hosts \ unreachable : mirror[h].inFlight = NoMirror
  /\ now' = now + 1
  /\ UNCHANGED <<row, file, mirror, owned, controller, pollCache, run, aborted,
                 unreachable, stops, outages, stopAsked>>

-----------------------------------------------------------------------------
Init ==
  /\ now = 0
  /\ row = [lockToken |-> NoToken, lockHeartbeatAt |-> Null, isRunning |-> FALSE,
            lastUpdated |-> 0, schedulePaused |-> FALSE, pausedUntil |-> Null]
  /\ file = [h \in Hosts |-> [isRunning |-> FALSE, lastUpdated |-> 0]]
  /\ mirror = [h \in Hosts |-> [inFlight |-> NoMirror, pending |-> NoMirror]]
  /\ owned = [h \in Hosts |-> NoToken]
  /\ controller = [h \in Hosts |-> NoToken]
  /\ pollCache = [h \in Hosts |-> [at |-> Null, running |-> TRUE]]
  /\ run = [t \in Tokens |->
              [phase |-> "unused", host |-> NoHost, kind |-> "main"]]
  /\ aborted = {} /\ unreachable = {} /\ stops = 0 /\ outages = 0
  /\ stopAsked = {}

HostStep(h) ==
  \/ WriteMirror(h)
  \/ ClearPause(h)
  \/ Heartbeat(h)
  \/ \E mode \in Modes : Stop(h, mode)
  \/ Crash(h)
  \/ Cut(h)
  \/ Restore(h)
  \/ \E t \in Tokens, kind \in Kinds, scheduled \in BOOLEAN :
       Claim(h, t, kind, scheduled)

RunStep(t) ==
  \/ Begin(t)
  \/ Ticker(t)
  \/ PollStop(t)
  \/ Finish(t)
  \/ Release(t)

Next ==
  \/ \E h \in Hosts : HostStep(h)
  \/ \E t \in Tokens : RunStep(t)
  \/ Tick

Spec == Init /\ [][Next]_vars

\* What the event loop of a live process keeps doing: it delivers answers and
\* mirror writes, polls in its loops, and unwinds once a loop has seen a stop.
\* Nothing forces a side run, an operator or a repair of the database.
Fairness ==
  /\ \A h \in Hosts : WF_vars(WriteMirror(h))
  /\ \A t \in Tokens :
       /\ WF_vars(Begin(t))
       /\ WF_vars(PollStop(t))
       /\ WF_vars(run[t].phase = "stopping" /\ Finish(t))
       /\ WF_vars(Release(t))

FairSpec == Spec /\ Fairness
-----------------------------------------------------------------------------
(* Properties.                                                             *)

MirrorValues ==
  [isRunning : BOOLEAN, lastUpdated : Nat, heldToken : Tokens \cup {NoToken}]

ASSUME NoMirrorIsNoValue == NoMirror \notin MirrorValues

\* Type invariant, with the two shapes of the row that every reader relies on:
\* a token always comes with a heartbeat, and an expiry only with a pause.
TypeOK ==
  /\ now \in Nat
  /\ row \in [lockToken : Tokens \cup {NoToken}, lockHeartbeatAt : Times,
              isRunning : BOOLEAN, lastUpdated : Nat,
              schedulePaused : BOOLEAN, pausedUntil : Times]
  /\ (row.lockToken = NoToken) <=> (row.lockHeartbeatAt = Null)
  /\ row.pausedUntil # Null => row.schedulePaused
  /\ file \in [Hosts -> [isRunning : BOOLEAN, lastUpdated : Nat]]
  /\ mirror \in [Hosts -> [inFlight : MirrorValues \cup {NoMirror},
                            pending : MirrorValues \cup {NoMirror}]]
  /\ owned \in [Hosts -> Tokens \cup {NoToken}]
  /\ controller \in [Hosts -> Tokens \cup {NoToken}]
  /\ pollCache \in [Hosts -> [at : Times, running : BOOLEAN]]
  /\ run \in [Tokens -> [phase : Phases, host : Hosts \cup {NoHost},
                          kind : {"main", "side"}]]
  /\ \A t \in Tokens : run[t].phase # "unused" => run[t].host \in Hosts
  /\ aborted \subseteq Tokens /\ stopAsked \subseteq Tokens
  /\ unreachable \subseteq Hosts
  /\ stops \in Nat /\ outages \in Nat

\* At most one run works at any time: while no host has lost the database,
\* neither the staleness rule nor a release by a slower process lets a second
\* run in beside one that is still going (tryAcquirePipelineLock, the heartbeat
\* timer and the token-guarded release together).
NoOverlap ==
  outages = 0 => \A t1, t2 \in Tokens : Live(t1) /\ Live(t2) => t1 = t2

\* A dead run leaves isRunning behind, a lost mirror write may, nothing else
\* does: when every run has ended in an orderly way and the mirror writers are
\* idle, the shared row says so, whatever order tickers, Stops and final
\* states were written in (the strictly increasing version and the
\* lastUpdated guard of persistPipelineStateMirror).
IdleRowAtRest ==
  (/\ \A t \in Tokens : run[t].phase \in {"unused", "releasing", "ended"}
   /\ \A h \in Hosts : mirror[h].inFlight = NoMirror
   /\ outages = 0)
  => ~row.isRunning

\* The lock changes hands only when its owner gives it back or has let it go
\* stale: no release, mirror write or start of another process removes it from
\* an owner that heartbeats.
LockMovesFairly ==
  [][row'.lockToken # row.lockToken /\ row.lockToken # NoToken =>
       \/ run[row.lockToken].phase = "releasing" /\ row'.lockToken = NoToken
       \/ row.lockHeartbeatAt < now - LockStale]_vars

\* Once the owner of the lock is dead nobody refreshes its lease, so the lock
\* is recovered after LockStale (heartbeat and mirror are both fenced by the
\* token, and a token never survives its process).
DeadLockAges ==
  [][\A t \in Tokens :
       run[t].phase = "dead" /\ row.lockToken = t /\ row'.lockToken = t
       => row'.lockHeartbeatAt = row.lockHeartbeatAt]_vars

\* A pause in force is lifted by a manual start (any start that does not ask
\* for the schedule) or by its own expiry, never by a scheduled start, a
\* quiesce, a progress mirror, a crash or a release.  Each later Stop may
\* change its length but keeps it in force.
PauseHolds ==
  [][PauseInForce /\ ~PauseInForce' =>
       \/ Tick
       \/ \E h \in Hosts : ClearPause(h)
       \/ \E h \in Hosts, t \in Tokens, kind \in Kinds : Claim(h, t, kind, FALSE)
    ]_vars

\* A Stop that reaches the process owning the run ends it, whatever its
\* tickers and mirrors write meanwhile and even while the database is away.
AbortedRunEnds ==
  \A t \in Tokens : (t \in aborted) ~> (run[t].phase \in {"ended", "dead"})

-----------------------------------------------------------------------------
(* Statements of the code's comments that the model refutes.               *)

\* pipelineState.ts:404: "a Stop pressed on either host reaches the host
\* actually running the loop": a run that was running when a Stop was
\* answered stops running.
StopReachesOwner ==
  \A t \in Tokens : (t \in stopAsked) ~> (run[t].phase # "running")
=============================================================================
