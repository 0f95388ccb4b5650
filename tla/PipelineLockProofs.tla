------------------------- MODULE PipelineLockProofs -------------------------
(***************************************************************************)
(* Theorems about PipelineLock, for any sets of hosts and tokens and any   *)
(* length of the leases.                                                   *)
(***************************************************************************)
EXTENDS PipelineLock, TLAPS

(* Facts about the operators the actions are built from.                   *)

\* A local state write: what updatePipelineState leaves in the file and in
\* the mirror writer is well formed.
LEMMA UpdateStateType ==
  ASSUME TypeOK, NEW h \in Hosts, NEW b \in BOOLEAN,
         NEW tok \in Tokens \cup {NoToken}, UpdateState(h, b, tok)
  PROVE  /\ file' \in [Hosts -> [isRunning : BOOLEAN, lastUpdated : Nat]]
         /\ mirror' \in [Hosts -> [inFlight : MirrorValues \cup {NoMirror},
                                   pending : MirrorValues \cup {NoMirror}]]
<1>1. Stamp(h) \in Nat
  BY DEF TypeOK, Stamp
<1>2. file' \in [Hosts -> [isRunning : BOOLEAN, lastUpdated : Nat]]
  BY <1>1 DEF TypeOK, UpdateState
<1> DEFINE m == [isRunning |-> b, lastUpdated |-> Stamp(h), heldToken |-> tok]
<1>3. m \in MirrorValues
  BY <1>1 DEF MirrorValues
<1>4. mirror' = Push(h, m)
  BY DEF UpdateState
<1> HIDE DEF m
<1>5. mirror' \in [Hosts -> [inFlight : MirrorValues \cup {NoMirror},
                             pending : MirrorValues \cup {NoMirror}]]
  BY <1>3, <1>4 DEF TypeOK, Push
<1> QED
  BY <1>2, <1>5

\* The row's part of TypeOK.
RowOK(r) ==
  /\ r \in [lockToken : Tokens \cup {NoToken}, lockHeartbeatAt : Times,
            isRunning : BOOLEAN, lastUpdated : Nat,
            schedulePaused : BOOLEAN, pausedUntil : Times]
  /\ (r.lockToken = NoToken) <=> (r.lockHeartbeatAt = Null)
  /\ r.pausedUntil # Null => r.schedulePaused

\* A mirror write keeps the row well formed and never moves the lock or the
\* pause.
LEMMA MirroredType ==
  ASSUME TypeOK, NEW m \in MirrorValues
  PROVE  /\ RowOK(Mirrored(m))
         /\ Mirrored(m).lockToken = row.lockToken
         /\ Mirrored(m).schedulePaused = row.schedulePaused
         /\ Mirrored(m).pausedUntil = row.pausedUntil
         /\ Mirrored(m).lockHeartbeatAt \in {row.lockHeartbeatAt, now}
<1> DEFINE R == [lockToken : Tokens \cup {NoToken}, lockHeartbeatAt : Times,
                 isRunning : BOOLEAN, lastUpdated : Nat,
                 schedulePaused : BOOLEAN, pausedUntil : Times]
<1>1. row \in R /\ now \in Times /\ m.isRunning \in BOOLEAN /\ m.lastUpdated \in Nat
  BY DEF TypeOK, MirrorValues, Times
<1>2. Mirrored(m) \in R
  BY <1>1 DEF Mirrored
<1>3. /\ Mirrored(m).lockToken = row.lockToken
      /\ Mirrored(m).schedulePaused = row.schedulePaused
      /\ Mirrored(m).pausedUntil = row.pausedUntil
      /\ Mirrored(m).lockHeartbeatAt =
           IF m.isRunning /\ m.heldToken # NoToken /\ row.lockToken = m.heldToken
           THEN now ELSE row.lockHeartbeatAt
  BY <1>1 DEF Mirrored
<1>4. now # Null
  BY DEF TypeOK, Null
<1> QED
  BY <1>2, <1>3, <1>4 DEF TypeOK, RowOK

\* A release keeps the row well formed and only ever clears the given token.
LEMMA ReleasedType ==
  ASSUME TypeOK, LockAssumption, NEW t \in Tokens
  PROVE  /\ RowOK(Released(t))
         /\ row.lockToken # t => Released(t) = row
         /\ row.lockToken = t => Released(t).lockToken = NoToken
         /\ Released(t).schedulePaused = row.schedulePaused
         /\ Released(t).pausedUntil = row.pausedUntil
BY DEF TypeOK, RowOK, Released, Times, Null, LockAssumption

\* A Stop keeps the row well formed and leaves the lock alone.
LEMMA StopRowType ==
  ASSUME TypeOK, LockAssumption, NEW mode \in Modes
  PROVE  /\ RowOK(StopRow(mode))
         /\ StopRow(mode).lockToken = row.lockToken
         /\ StopRow(mode).lockHeartbeatAt = row.lockHeartbeatAt
<1> DEFINE R == [lockToken : Tokens \cup {NoToken}, lockHeartbeatAt : Times,
                 isRunning : BOOLEAN, lastUpdated : Nat,
                 schedulePaused : BOOLEAN, pausedUntil : Times]
<1>1. row \in R /\ now \in Nat /\ now + PauseDefault \in Times /\ Null \in Times
  BY DEF TypeOK, LockAssumption, Times
<1>2. StopRow(mode) \in R
  BY <1>1 DEF StopRow
<1>3. /\ StopRow(mode).lockToken = row.lockToken
      /\ StopRow(mode).lockHeartbeatAt = row.lockHeartbeatAt
  BY <1>1 DEF StopRow
<1>4. StopRow(mode).pausedUntil # Null => StopRow(mode).schedulePaused
  <2>1. CASE mode = "quiesce"
    BY <1>1, <2>1 DEF StopRow, TypeOK
  <2>2. CASE mode # "quiesce"
    BY <1>1, <2>2 DEF StopRow
  <2> QED  BY <2>1, <2>2
<1> QED
  BY <1>2, <1>3, <1>4 DEF TypeOK, RowOK
\* A run that changes phase keeps its host and its kind.
RunRecords == [phase : Phases, host : Hosts \cup {NoHost}, kind : {"main", "side"}]

RunsOK(r) ==
  /\ r \in [Tokens -> RunRecords]
  /\ \A t \in Tokens : r[t].phase # "unused" => r[t].host \in Hosts

LEMMA PhaseChangeType ==
  ASSUME TypeOK, NEW t \in Tokens, run[t].phase # "unused", NEW p \in Phases
  PROVE  /\ RunsOK([run EXCEPT ![t].phase = p])
         /\ [run EXCEPT ![t].phase = p][t].phase = p
         /\ \A u \in Tokens :
              /\ [run EXCEPT ![t].phase = p][u].host = run[u].host
              /\ [run EXCEPT ![t].phase = p][u].kind = run[u].kind
              /\ u # t => [run EXCEPT ![t].phase = p][u].phase = run[u].phase
<1> DEFINE r == [run EXCEPT ![t].phase = p]
<1>1. r \in [Tokens -> RunRecords]
  <2>1. run \in [Tokens -> RunRecords]
    BY DEF TypeOK, RunRecords
  <2>2. [run[t] EXCEPT !.phase = p] \in RunRecords
    BY <2>1 DEF RunRecords
  <2> QED  BY <2>1, <2>2
<1>2. \A u \in Tokens : /\ r[u].host = run[u].host /\ r[u].kind = run[u].kind
                        /\ r[u].phase = IF u = t THEN p ELSE run[u].phase
  BY DEF TypeOK
<1>3. \A u \in Tokens : r[u].phase # "unused" => r[u].host \in Hosts
  BY <1>2 DEF TypeOK
<1> HIDE DEF r
<1> QED  BY <1>1, <1>2, <1>3 DEF RunsOK, RunRecords, r

-----------------------------------------------------------------------------
(* Type correctness.                                                       *)

LEMMA InitType == LockAssumption /\ Init => TypeOK
BY DEF LockAssumption, Init, TypeOK, Times, Null, Phases

\* TypeOK is inductive.
LEMMA NextType ==
  ASSUME LockAssumption, TypeOK, [Next]_vars
  PROVE  TypeOK'
<1> USE DEF Times, Null
<1>1. ASSUME NEW h \in Hosts, WriteMirror(h)  PROVE TypeOK'
  <2>1. mirror[h].inFlight \in MirrorValues /\ mirror[h].pending \in MirrorValues \cup {NoMirror}
    BY <1>1 DEF WriteMirror, TypeOK
  <2>2. RowOK(row')
    <3>1. RowOK(Mirrored(mirror[h].inFlight))
      BY <2>1, MirroredType
    <3>2. RowOK(row)
      BY DEF TypeOK, RowOK
    <3> QED  BY <1>1, <3>1, <3>2 DEF WriteMirror
  <2>3. mirror' \in [Hosts -> [inFlight : MirrorValues \cup {NoMirror},
                               pending : MirrorValues \cup {NoMirror}]]
    BY <1>1, <2>1 DEF WriteMirror, TypeOK
  <2> QED  BY <1>1, <2>2, <2>3 DEF WriteMirror, TypeOK, RowOK
<1>2. ASSUME NEW h \in Hosts, ClearPause(h)  PROVE TypeOK'
  BY <1>2 DEF ClearPause, TypeOK
<1>3. ASSUME NEW h \in Hosts, Heartbeat(h)  PROVE TypeOK'
  <2>1. row' = [row EXCEPT !.lockHeartbeatAt = now] /\ now \in Nat
    BY <1>3 DEF Heartbeat, TypeOK
  <2>2. row' \in [lockToken : Tokens \cup {NoToken}, lockHeartbeatAt : Times,
                  isRunning : BOOLEAN, lastUpdated : Nat,
                  schedulePaused : BOOLEAN, pausedUntil : Times]
    BY <2>1 DEF TypeOK
  <2>3. /\ row'.lockToken = row.lockToken /\ row'.lockHeartbeatAt = now
        /\ row'.pausedUntil = row.pausedUntil
        /\ row'.schedulePaused = row.schedulePaused
    BY <2>1 DEF TypeOK
  <2>4. row.lockToken # NoToken
    BY <1>3 DEF Heartbeat
  <2>5. RowOK(row')
    BY <2>1, <2>2, <2>3, <2>4 DEF RowOK, TypeOK
  <2> QED  BY <1>3, <2>5 DEF Heartbeat, TypeOK, RowOK
<1>4. ASSUME NEW h \in Hosts, NEW mode \in Modes, Stop(h, mode)  PROVE TypeOK'
  <2>1. owned[h] \in Tokens \cup {NoToken} /\ FALSE \in BOOLEAN
    BY DEF TypeOK
  <2>2. UpdateState(h, FALSE, owned[h])
    BY <1>4 DEF Stop
  <2>3. /\ file' \in [Hosts -> [isRunning : BOOLEAN, lastUpdated : Nat]]
        /\ mirror' \in [Hosts -> [inFlight : MirrorValues \cup {NoMirror},
                                  pending : MirrorValues \cup {NoMirror}]]
    BY <2>1, <2>2, UpdateStateType
  <2>4. RowOK(row')
    <3>1. RowOK(StopRow(mode)) /\ RowOK(row)
      BY StopRowType DEF TypeOK, RowOK
    <3> QED  BY <1>4, <3>1 DEF Stop
  <2>5. aborted' \subseteq Tokens /\ stopAsked' \subseteq Tokens
    BY <1>4 DEF Stop, TypeOK
  <2> QED  BY <1>4, <2>3, <2>4, <2>5 DEF Stop, TypeOK, RowOK
<1>5. ASSUME NEW h \in Hosts, Crash(h)  PROVE TypeOK'
  <2>1. RunsOK(run')
    <3>1. \A t \in Tokens : \/ run'[t] = run[t]
                            \/ /\ run'[t] = [run[t] EXCEPT !.phase = "dead"]
                               /\ run[t].host = h
      BY <1>5 DEF Crash
    <3>2. \A t \in Tokens : run[t] \in RunRecords
      BY DEF TypeOK, RunRecords
    <3>3. \A t \in Tokens : /\ run'[t] \in RunRecords
                            /\ run'[t].phase # "unused" => run'[t].host \in Hosts
      <4> SUFFICES ASSUME NEW t \in Tokens
                   PROVE  /\ run'[t] \in RunRecords
                          /\ run'[t].phase # "unused" => run'[t].host \in Hosts
        OBVIOUS
      <4>1. CASE run'[t] = run[t]
        BY <3>2, <4>1 DEF TypeOK
      <4>2. CASE run'[t] = [run[t] EXCEPT !.phase = "dead"] /\ run[t].host = h
        BY <3>2, <4>2 DEF RunRecords, Phases
      <4> QED  BY <3>1, <4>1, <4>2
    <3>4. DOMAIN run' = Tokens /\ run' = [t \in Tokens |-> run'[t]]
      BY <1>5 DEF Crash
    <3> QED  BY <3>3, <3>4 DEF RunsOK, RunRecords
  <2>2. /\ mirror' \in [Hosts -> [inFlight : MirrorValues \cup {NoMirror},
                                  pending : MirrorValues \cup {NoMirror}]]
        /\ owned' \in [Hosts -> Tokens \cup {NoToken}]
        /\ controller' \in [Hosts -> Tokens \cup {NoToken}]
        /\ pollCache' \in [Hosts -> [at : Times, running : BOOLEAN]]
    BY <1>5 DEF Crash, TypeOK
  <2> QED  BY <1>5, <2>1, <2>2 DEF Crash, TypeOK, RunsOK, RunRecords
<1>6. ASSUME NEW h \in Hosts, Cut(h) \/ Restore(h)  PROVE TypeOK'
  BY <1>6 DEF Cut, Restore, TypeOK
<1>7. ASSUME NEW h \in Hosts, NEW t \in Tokens, NEW kind \in Kinds,
             NEW scheduled \in BOOLEAN, Claim(h, t, kind, scheduled)
      PROVE TypeOK'
  <2>1. kind \in {"main", "side"} /\ NoToken \notin Tokens
    BY LockAssumption DEF LockAssumption
  <2>2. RowOK(row')
    <3>1. row' = [row EXCEPT !.lockToken = t, !.lockHeartbeatAt = now,
                             !.schedulePaused = FALSE, !.pausedUntil = Null]
      BY <1>7 DEF Claim
    <3>2. row' \in [lockToken : Tokens \cup {NoToken}, lockHeartbeatAt : Times,
                    isRunning : BOOLEAN, lastUpdated : Nat,
                    schedulePaused : BOOLEAN, pausedUntil : Times]
      BY <3>1 DEF TypeOK
    <3>3. /\ row'.lockToken = t /\ row'.lockHeartbeatAt = now
          /\ row'.pausedUntil = Null
      BY <3>1 DEF TypeOK
    <3> QED  BY <2>1, <3>2, <3>3 DEF TypeOK, RowOK
  <2>3. /\ run' \in [Tokens -> [phase : Phases, host : Hosts \cup {NoHost},
                                kind : {"main", "side"}]]
        /\ \A u \in Tokens : run'[u].phase # "unused" => run'[u].host \in Hosts
    BY <1>7, <2>1 DEF Claim, TypeOK, Phases
  <2> QED  BY <1>7, <2>2, <2>3 DEF Claim, TypeOK, RowOK
<1>8. ASSUME NEW t \in Tokens, RunStep(t)  PROVE TypeOK'
  <2> DEFINE h == run[t].host
  <2>0. run[t].phase # "unused" => h \in Hosts /\ owned[h] \in Tokens \cup {NoToken}
                                    /\ file[h].isRunning \in BOOLEAN
    BY DEF TypeOK
  <2>1. CASE Begin(t)
    <3>1. h \in Hosts /\ TRUE \in BOOLEAN /\ t \in Tokens \cup {NoToken}
      BY <2>0, <2>1 DEF Begin
    <3>2. UpdateState(h, TRUE, t)
      BY <2>1 DEF Begin
    <3>3. /\ file' \in [Hosts -> [isRunning : BOOLEAN, lastUpdated : Nat]]
          /\ mirror' \in [Hosts -> [inFlight : MirrorValues \cup {NoMirror},
                                    pending : MirrorValues \cup {NoMirror}]]
      BY <3>1, <3>2, UpdateStateType
    <3> DEFINE p == IF SecondMainRefused(t) THEN "releasing" ELSE "running"
    <3>4. RunsOK(run')
      <4>1. p \in Phases /\ run[t].phase # "unused"
        BY <2>1 DEF Begin, Phases
      <4>2. run' = [run EXCEPT ![t].phase = p]
        BY <2>1 DEF Begin
      <4> HIDE DEF p
      <4> QED  BY <4>1, <4>2, PhaseChangeType
    <3>5. owned' \in [Hosts -> Tokens \cup {NoToken}]
          /\ controller' \in [Hosts -> Tokens \cup {NoToken}]
      BY <2>1 DEF Begin, TypeOK
    <3> QED  BY <2>1, <3>3, <3>4, <3>5 DEF Begin, TypeOK, RunsOK, RunRecords
  <2>2. CASE Ticker(t)
    <3>1. h \in Hosts
      BY <2>0, <2>2 DEF Ticker, Live
    <3>2. UpdateState(h, file[h].isRunning, owned[h])
      BY <2>2 DEF Ticker
    <3>3. /\ file' \in [Hosts -> [isRunning : BOOLEAN, lastUpdated : Nat]]
          /\ mirror' \in [Hosts -> [inFlight : MirrorValues \cup {NoMirror},
                                    pending : MirrorValues \cup {NoMirror}]]
      BY <2>0, <2>2, <3>1, <3>2, UpdateStateType DEF Ticker, Live
    <3> QED  BY <2>2, <3>3 DEF Ticker, TypeOK
  <2>3. CASE PollStop(t)
    <3>1. pollCache' \in [Hosts -> [at : Times, running : BOOLEAN]]
      BY <2>0, <2>3 DEF PollStop, TypeOK
    <3>2. RunsOK(run')
      <4>1. run[t].phase # "unused" /\ "stopping" \in Phases
        BY <2>3 DEF PollStop, Phases
      <4>2. run' = run \/ run' = [run EXCEPT ![t].phase = "stopping"]
        BY <2>3 DEF PollStop
      <4>3. RunsOK(run)
        BY DEF TypeOK, RunsOK, RunRecords
      <4> QED  BY <4>1, <4>2, <4>3, PhaseChangeType
    <3> QED  BY <2>3, <3>1, <3>2 DEF PollStop, TypeOK, RunsOK, RunRecords
  <2>4. CASE Finish(t)
    <3>1. h \in Hosts /\ FALSE \in BOOLEAN /\ owned[h] \in Tokens \cup {NoToken}
      BY <2>0, <2>4 DEF Finish, Live
    <3>2. UpdateState(h, FALSE, owned[h])
      BY <2>4 DEF Finish
    <3>3. /\ file' \in [Hosts -> [isRunning : BOOLEAN, lastUpdated : Nat]]
          /\ mirror' \in [Hosts -> [inFlight : MirrorValues \cup {NoMirror},
                                    pending : MirrorValues \cup {NoMirror}]]
      BY <3>1, <3>2, UpdateStateType
    <3>4. RunsOK(run')
      <4>1. run[t].phase # "unused" /\ "releasing" \in Phases
        BY <2>4 DEF Finish, Live, Phases
      <4> QED  BY <2>4, <4>1, PhaseChangeType DEF Finish
    <3>5. aborted' \subseteq Tokens /\ controller' \in [Hosts -> Tokens \cup {NoToken}]
      BY <2>4 DEF Finish, TypeOK
    <3> QED  BY <2>4, <3>3, <3>4, <3>5 DEF Finish, TypeOK, RunsOK, RunRecords
  <2>5. CASE Release(t)
    <3>1. RowOK(row')
      <4>1. RowOK(Released(t)) /\ RowOK(row)
        BY LockAssumption, ReleasedType DEF TypeOK, RowOK
      <4> QED  BY <2>5, <4>1 DEF Release
    <3>2. RunsOK(run')
      <4>1. run[t].phase # "unused" /\ "ended" \in Phases
        BY <2>5 DEF Release, Live, Phases
      <4> QED  BY <2>5, <4>1, PhaseChangeType DEF Release
    <3>3. owned' \in [Hosts -> Tokens \cup {NoToken}]
      BY <2>5 DEF Release, TypeOK
    <3> QED  BY <2>5, <3>1, <3>2, <3>3 DEF Release, TypeOK, RowOK, RunsOK, RunRecords
  <2> QED  BY <1>8, <2>1, <2>2, <2>3, <2>4, <2>5 DEF RunStep
<1>9. CASE Tick
  BY <1>9 DEF Tick, TypeOK
<1>10. CASE UNCHANGED vars
  BY <1>10 DEF vars, TypeOK
<1> QED
  BY <1>1, <1>2, <1>3, <1>4, <1>5, <1>6, <1>7, <1>8, <1>9, <1>10 DEF Next, HostStep

\* Every reachable state is well typed; in particular the row never holds a
\* token without a heartbeat, nor a pause expiry without a pause.
THEOREM TypeCorrect == Spec => []TypeOK
<1>1. Init => TypeOK
  BY LockAssumption, InitType
<1>2. TypeOK /\ [Next]_vars => TypeOK'
  BY LockAssumption, NextType
<1> QED  BY <1>1, <1>2, PTL DEF Spec
-----------------------------------------------------------------------------
(* The lock changes hands fairly.                                          *)

\* A token leaves the row only when its own run releases it or when its
\* heartbeat is older than LockStale: the lock row is fenced by the token.
THEOREM LockIsFenced == Spec => LockMovesFairly
<1> DEFINE Fair == row'.lockToken # row.lockToken /\ row.lockToken # NoToken =>
                     \/ run[row.lockToken].phase = "releasing" /\ row'.lockToken = NoToken
                     \/ row.lockHeartbeatAt < now - LockStale
<1>1. ASSUME LockAssumption, TypeOK, Next  PROVE Fair
  <2>1. ASSUME NEW h \in Hosts, HostStep(h)  PROVE Fair
    <3>1. CASE WriteMirror(h)
      <4>1. mirror[h].inFlight \in MirrorValues
        BY <1>1, <3>1 DEF WriteMirror, TypeOK
      <4> QED  BY <1>1, <3>1, <4>1, MirroredType DEF WriteMirror
    <3>2. CASE ClearPause(h) \/ Heartbeat(h) \/ Crash(h) \/ Cut(h) \/ Restore(h)
      BY <1>1, <3>2 DEF ClearPause, Heartbeat, Crash, Cut, Restore, TypeOK
    <3>3. ASSUME NEW mode \in Modes, Stop(h, mode)  PROVE Fair
      BY <1>1, <3>3, StopRowType DEF Stop
    <3>4. ASSUME NEW t \in Tokens, NEW kind \in Kinds, NEW scheduled \in BOOLEAN,
                 Claim(h, t, kind, scheduled)
          PROVE  Fair
      BY <3>4, <1>1 DEF Claim, LockIsFree, TypeOK
    <3> QED  BY <2>1, <3>1, <3>2, <3>3, <3>4 DEF HostStep
  <2>2. ASSUME NEW t \in Tokens, RunStep(t)  PROVE Fair
    <3>1. CASE Release(t)
      <4>1. row' = row \/ row' = Released(t)
        BY <3>1 DEF Release
      <4> QED  BY <1>1, <3>1, <4>1, ReleasedType DEF Release
    <3>2. CASE Begin(t) \/ Ticker(t) \/ PollStop(t) \/ Finish(t)
      BY <3>2 DEF Begin, Ticker, PollStop, Finish
    <3> QED  BY <2>2, <3>1, <3>2 DEF RunStep
  <2>3. CASE Tick
    BY <2>3 DEF Tick
  <2> QED  BY <1>1, <2>1, <2>2, <2>3 DEF Next
<1>2. TypeOK /\ [Next]_vars => [Fair]_vars
  BY <1>1, LockAssumption
<1> QED  BY <1>2, TypeCorrect, PTL DEF Spec, LockMovesFairly

-----------------------------------------------------------------------------
(* Mutual exclusion.                                                       *)

\* Main runs only, and no host has lost the database yet: every run that has
\* claimed the lock and is not over still holds the row, its process still
\* owns the token, and its lease is at most one tick old.
HoldsLease(t) ==
  /\ row.lockToken = t
  /\ row.lockHeartbeatAt >= now - 1
  /\ Live(t) => owned[run[t].host] = t

Calm ==
  /\ unreachable = {}
  /\ \A t \in Tokens : run[t].kind = "main"
  /\ \A t \in Tokens : Unfinished(t) => HoldsLease(t)

IInv == TypeOK /\ (outages = 0 => Calm)

MainRunsOnly == Kinds = {"main"}

LEMMA IInvInit == LockAssumption /\ Init => IInv
<1> SUFFICES ASSUME LockAssumption, Init  PROVE IInv
  OBVIOUS
<1>1. TypeOK
  BY InitType
<1> QED  BY <1>1 DEF Init, IInv, Calm, Unfinished

\* A step that leaves no outage behind it keeps the leases of the calm state.
LEMMA CalmNext ==
  ASSUME LockAssumption, MainRunsOnly, TypeOK, outages = 0, Calm,
         [Next]_vars, outages' = 0
  PROVE  Calm'
<1>1. TypeOK /\ TypeOK' /\ unreachable = {}
  BY NextType DEF Calm
<1>2. unreachable' = {}
  <2>1. ASSUME NEW h \in Hosts, HostStep(h)  PROVE unreachable' = {}
    <3>1. ~Cut(h)
      BY DEF Cut
    <3> QED  BY <1>1, <2>1, <3>1 DEF HostStep, WriteMirror, ClearPause, Heartbeat,
                Stop, Crash, Restore, Claim
  <2>2. ASSUME NEW t \in Tokens, RunStep(t)  PROVE unreachable' = {}
    BY <1>1, <2>2 DEF RunStep, Begin, Ticker, PollStop, Finish, Release
  <2> QED  BY <1>1, <2>1, <2>2 DEF Next, Tick, vars
<1> DEFINE Rest == /\ \A t \in Tokens : run'[t].kind = "main"
                   /\ \A t \in Tokens : Unfinished(t)' => HoldsLease(t)'
<1> USE DEF Calm
\* A step that leaves the runs, the owned tokens and the clock alone and does
\* not age or move the lease.
<1>3. ASSUME run' = run, owned' = owned, now' = now,
             row'.lockToken = row.lockToken,
             row'.lockHeartbeatAt \in {row.lockHeartbeatAt, now}
      PROVE  Rest
  BY <1>1, <1>3 DEF Unfinished, HoldsLease, Live, TypeOK
<1>4. ASSUME NEW h \in Hosts, HostStep(h)  PROVE Rest
  <2>1. CASE WriteMirror(h)
    <3>1. mirror[h].inFlight \in MirrorValues
      BY <1>1, <2>1 DEF WriteMirror, TypeOK
    <3> QED  BY <1>1, <1>3, <2>1, <3>1, MirroredType DEF WriteMirror
  <2>2. CASE ClearPause(h) \/ Heartbeat(h) \/ Cut(h) \/ Restore(h)
    <3>1. /\ row'.lockToken = row.lockToken
          /\ row'.lockHeartbeatAt \in {row.lockHeartbeatAt, now}
      <4>1. \/ row' = row
            \/ row' = [row EXCEPT !.lockHeartbeatAt = now]
            \/ row' = [row EXCEPT !.schedulePaused = FALSE, !.pausedUntil = Null]
        BY <2>2 DEF ClearPause, Heartbeat, Cut, Restore
      <4>2. row \in [lockToken : Tokens \cup {NoToken}, lockHeartbeatAt : Times,
                    isRunning : BOOLEAN, lastUpdated : Nat,
                    schedulePaused : BOOLEAN, pausedUntil : Times]
        BY <1>1 DEF TypeOK
      <4> QED  BY <4>1, <4>2
    <3>2. run' = run /\ owned' = owned /\ now' = now
      BY <2>2 DEF ClearPause, Heartbeat, Cut, Restore
    <3> QED  BY <1>3, <3>1, <3>2
  <2>3. ASSUME NEW mode \in Modes, Stop(h, mode)  PROVE Rest
    BY <1>1, <1>3, <2>3, StopRowType DEF Stop
  <2>4. CASE Crash(h)
    BY <1>1, <2>4 DEF Crash, Unfinished, HoldsLease, Live, TypeOK
  <2>5. ASSUME NEW t \in Tokens, NEW kind \in Kinds, NEW scheduled \in BOOLEAN,
               Claim(h, t, kind, scheduled)
        PROVE  Rest
    \* The lock was free, so by the invariant nobody was unfinished.
    <3>1. ASSUME NEW u \in Tokens, Unfinished(u)  PROVE FALSE
      <4>1. row.lockToken = u /\ row.lockHeartbeatAt >= now - 1
        BY <3>1 DEF HoldsLease
      <4>2. row.lockToken # NoToken /\ row.lockHeartbeatAt # Null
        BY <1>1, <4>1 DEF LockAssumption, TypeOK
      <4>3. row.lockHeartbeatAt < now - LockStale
        BY <2>5, <4>2 DEF Claim, LockIsFree
      <4>4. row.lockHeartbeatAt \in Int /\ now \in Nat /\ LockStale \in Nat \ {0}
        BY <1>1 DEF TypeOK, Times, Null, LockAssumption
      <4> QED  BY <4>1, <4>3, <4>4
    <3>2. /\ run'[t].phase = "claimed" /\ run'[t].kind = "main"
          /\ \A u \in Tokens \ {t} : run'[u] = run[u]
      BY <1>1, <2>5 DEF Claim, TypeOK, MainRunsOnly
    <3>3. row'.lockToken = t /\ row'.lockHeartbeatAt = now /\ now' = now
      BY <1>1, <2>5 DEF Claim, TypeOK
    <3>4. \A u \in Tokens \ {t} : ~Unfinished(u)'
      BY <3>1, <3>2 DEF Unfinished
    <3>5. HoldsLease(t)'
      BY <1>1, <3>2, <3>3 DEF HoldsLease, Live, TypeOK
    <3>6. \A u \in Tokens : run'[u].kind = "main"
      BY <3>2
    <3> QED  BY <3>4, <3>5, <3>6
  <2> QED  BY <1>4, <2>1, <2>2, <2>3, <2>4, <2>5 DEF HostStep
<1>5. ASSUME NEW t \in Tokens, RunStep(t)  PROVE Rest
  <2>0. now' = now
    BY <1>5 DEF RunStep, Begin, Ticker, PollStop, Finish, Release
  <2>1. CASE Begin(t)
    <3> DEFINE p == IF SecondMainRefused(t) THEN "releasing" ELSE "running"
    <3>1. p \in Phases /\ run[t].phase = "claimed" /\ run' = [run EXCEPT ![t].phase = p]
      BY <2>1 DEF Begin, Phases
    <3>2. run[t].phase # "unused"
      BY <3>1
    <3>3. \A u \in Tokens : /\ run'[u].host = run[u].host /\ run'[u].kind = run[u].kind
                            /\ u # t => run'[u].phase = run[u].phase
      <4> HIDE DEF p
      <4> QED  BY <1>1, <3>1, <3>2, PhaseChangeType
    <3>4. Unfinished(t)
      BY <3>1 DEF Unfinished
    <3>5. \A u \in Tokens \ {t} : ~Unfinished(u)
      BY <3>4 DEF HoldsLease
    <3>6. \A u \in Tokens \ {t} : ~Unfinished(u)'
      BY <3>3, <3>5 DEF Unfinished
    <3>7. row' = row /\ owned' = [owned EXCEPT ![run[t].host] = t] /\ run[t].host \in Hosts
      BY <1>1, <2>1, <3>2 DEF Begin, TypeOK
    <3>8. owned'[run[t].host] = t
      BY <1>1, <3>7 DEF TypeOK
    <3>9. HoldsLease(t)'
      BY <2>0, <3>3, <3>4, <3>7, <3>8 DEF HoldsLease
    <3> QED  BY <3>3, <3>6, <3>9
  <2>2. CASE Ticker(t)
    BY <1>1, <1>3, <2>2 DEF Ticker
  <2>3. CASE PollStop(t)
    <3>1. run' = run \/ run' = [run EXCEPT ![t].phase = "stopping"]
      BY <2>3 DEF PollStop
    <3>2. run[t].phase = "running" /\ row' = row /\ owned' = owned
      BY <2>3 DEF PollStop
    <3>3. CASE run' = run
      BY <1>1, <1>3, <2>0, <3>2, <3>3
    <3>4. CASE run' = [run EXCEPT ![t].phase = "stopping"]
      <4>1. "stopping" \in Phases
        BY DEF Phases
      <4>2. \A u \in Tokens : /\ run'[u].host = run[u].host /\ run'[u].kind = run[u].kind
                              /\ u # t => run'[u].phase = run[u].phase
        BY <1>1, <3>2, <3>4, <4>1, PhaseChangeType
      <4> QED  BY <2>0, <3>2, <4>2 DEF Unfinished, HoldsLease, Live
    <3> QED  BY <3>1, <3>3, <3>4
  <2>4. CASE Finish(t)
    <3>1. "releasing" \in Phases /\ run[t].phase # "unused"
      BY <2>4 DEF Phases, Finish, Live
    <3>2. /\ run' = [run EXCEPT ![t].phase = "releasing"] /\ row' = row /\ owned' = owned
      BY <2>4 DEF Finish
    <3>3. \A u \in Tokens : /\ run'[u].host = run[u].host /\ run'[u].kind = run[u].kind
                            /\ u # t => run'[u].phase = run[u].phase
      BY <1>1, <3>1, <3>2, PhaseChangeType
    <3>4. run'[t].phase = "releasing"
      BY <1>1, <3>1, <3>2, PhaseChangeType
    <3> QED  BY <2>0, <3>2, <3>3, <3>4 DEF Unfinished, HoldsLease, Live
  <2>5. CASE Release(t)
    <3>1. "ended" \in Phases /\ run[t].phase = "releasing"
      BY <2>5 DEF Phases, Release
    <3>2. /\ run' = [run EXCEPT ![t].phase = "ended"]
          /\ row' = Released(t)
          /\ \A h \in Hosts : owned'[h] = owned[h] \/ owned[h] = t
      BY <1>1, <2>5 DEF Release, TypeOK
    <3>3. \A u \in Tokens : /\ run'[u].host = run[u].host /\ run'[u].kind = run[u].kind
                            /\ u # t => run'[u].phase = run[u].phase
      BY <1>1, <3>1, <3>2, PhaseChangeType
    <3>4. run'[t].phase = "ended"
      BY <1>1, <3>1, <3>2, PhaseChangeType
    <3>5. ASSUME NEW u \in Tokens, Unfinished(u)'  PROVE HoldsLease(u)'
      <4>1. u # t /\ Unfinished(u) /\ (Live(u)' => Live(u))
        BY <3>3, <3>4, <3>5 DEF Unfinished, Live
      <4>2. HoldsLease(u)
        BY <4>1
      <4>3. row' = row
        BY <1>1, <3>2, <4>1, <4>2, ReleasedType DEF HoldsLease
      <4>4. run[u].host \in Hosts
        BY <1>1, <4>1 DEF TypeOK, Unfinished
      <4> QED  BY <2>0, <3>2, <3>3, <4>1, <4>2, <4>3, <4>4 DEF HoldsLease
    <3> QED  BY <3>3, <3>5
  <2> QED  BY <1>5, <2>1, <2>2, <2>3, <2>4, <2>5 DEF RunStep
<1>6. ASSUME Tick  PROVE Rest
  \* Nobody is unreachable, so the tick waited for every lease to be fresh.
  <2>1. ASSUME NEW t \in Tokens, Unfinished(t)  PROVE row.lockHeartbeatAt = now
    BY <1>1, <1>6, <2>1 DEF Tick, Punctual, Unfinished, HoldsLease, Live
  <2>2. row' = row /\ run' = run /\ owned' = owned /\ now' = now + 1 /\ now \in Nat
    BY <1>1, <1>6 DEF Tick, TypeOK
  <2>3. ASSUME NEW u \in Tokens, Unfinished(u)'  PROVE HoldsLease(u)'
    <3>1. Unfinished(u) /\ HoldsLease(u)
      BY <2>2, <2>3 DEF Unfinished
    <3>2. row'.lockHeartbeatAt >= now' - 1
      <4>1. row.lockHeartbeatAt = now
        BY <2>1, <3>1
      <4> QED  BY <2>2, <4>1
    <3> QED  BY <2>2, <3>1, <3>2 DEF HoldsLease, Live
  <2>4. \A u \in Tokens : run'[u].kind = "main"
    BY <2>2
  <2> QED  BY <2>3, <2>4
<1>7. ASSUME UNCHANGED vars  PROVE Rest
  BY <1>1, <1>3, <1>7 DEF vars
<1>8. Rest
  BY <1>4, <1>5, <1>6, <1>7 DEF Next
<1> QED  BY <1>1, <1>2, <1>8

\* The count of outages only grows, so a state without one comes from such a
\* state.
LEMMA OutagesGrow ==
  ASSUME TypeOK, [Next]_vars, outages' = 0
  PROVE  outages = 0
<1>1. outages \in Nat
  BY DEF TypeOK
<1>2. ASSUME NEW h \in Hosts, HostStep(h)  PROVE outages' \in {outages, outages + 1}
  BY <1>2 DEF HostStep, WriteMirror, ClearPause, Heartbeat, Stop, Crash, Cut,
              Restore, Claim
<1>3. ASSUME NEW t \in Tokens, RunStep(t)  PROVE outages' = outages
  BY <1>3 DEF RunStep, Begin, Ticker, PollStop, Finish, Release
<1>4. outages' \in {outages, outages + 1}
  BY <1>2, <1>3 DEF Next, Tick, vars
<1> QED  BY <1>1, <1>4

LEMMA IInvNext ==
  ASSUME LockAssumption, MainRunsOnly, IInv, [Next]_vars
  PROVE  IInv'
<1>1. TypeOK'
  BY NextType DEF IInv
<1>2. ASSUME outages' = 0  PROVE Calm'
  BY <1>2, OutagesGrow, CalmNext DEF IInv
<1> QED  BY <1>1, <1>2 DEF IInv

\* While every host has reached the database, at most one main run is live, for
\* any number of hosts and starts: the heartbeat outpaces the staleness rule.
THEOREM MutualExclusion ==
  ASSUME MainRunsOnly
  PROVE  Spec => []NoOverlap
<1>1. Init => IInv
  BY LockAssumption, IInvInit
<1>2. IInv /\ [Next]_vars => IInv'
  BY LockAssumption, MainRunsOnly, IInvNext
<1>3. IInv => NoOverlap
  BY DEF IInv, Calm, NoOverlap, Live, Unfinished, HoldsLease
<1> QED  BY <1>1, <1>2, <1>3, PTL DEF Spec

-----------------------------------------------------------------------------
(* The pause.                                                              *)

\* A pause in force ends by its own expiry or by a start that does not ask for
\* the schedule: no scheduled start, quiesce, mirror write, crash or release
\* lifts it (tryAcquirePipelineLock, the stop route, pipelineState.ts).
THEOREM PauseStands == Spec => PauseHolds
<1> DEFINE Lifted == \/ Tick
                     \/ \E h \in Hosts : ClearPause(h)
                     \/ \E h \in Hosts, t \in Tokens, kind \in Kinds : Claim(h, t, kind, FALSE)
           Holds == PauseInForce /\ ~PauseInForce' => Lifted
<1>1. ASSUME LockAssumption, TypeOK, Next  PROVE Holds
  <2>1. ASSUME now' = now, row'.schedulePaused = row.schedulePaused, row'.pausedUntil = row.pausedUntil
        PROVE  Holds
    BY <2>1 DEF PauseInForce
  <2>2. ASSUME NEW h \in Hosts, HostStep(h)  PROVE Holds
    <3>1. CASE WriteMirror(h)
      <4>1. mirror[h].inFlight \in MirrorValues
        BY <1>1, <3>1 DEF WriteMirror, TypeOK
      <4> QED  BY <1>1, <2>1, <3>1, <4>1, MirroredType DEF WriteMirror
    <3>2. CASE ClearPause(h)
      BY <3>2
    <3>3. CASE Heartbeat(h)
      BY <1>1, <2>1, <3>3 DEF Heartbeat, TypeOK
    <3>4. CASE Crash(h) \/ Cut(h) \/ Restore(h)
      BY <2>1, <3>4 DEF Crash, Cut, Restore
    <3>5. ASSUME NEW mode \in Modes, Stop(h, mode)  PROVE Holds
      <4>1. CASE row' = row
        BY <2>1, <3>5, <4>1 DEF Stop
      <4>2. CASE row' = StopRow(mode)
        <5>1. now' = now /\ now \in Nat /\ now + PauseDefault > now /\ now + PauseDefault # Null
          BY <1>1, <3>5 DEF Stop, TypeOK, LockAssumption, Null
        <5>2. /\ row'.schedulePaused = (IF mode = "quiesce" THEN row.schedulePaused ELSE TRUE)
              /\ row'.pausedUntil = (IF mode = "quiesce" THEN row.pausedUntil
                                     ELSE IF mode = "pause" THEN now + PauseDefault ELSE Null)
          BY <1>1, <4>2 DEF StopRow, TypeOK
        <5> QED  BY <2>1, <5>1, <5>2 DEF PauseInForce
      <4> QED  BY <3>5, <4>1, <4>2 DEF Stop
    <3>6. ASSUME NEW t \in Tokens, NEW kind \in Kinds, NEW scheduled \in BOOLEAN,
                 Claim(h, t, kind, scheduled)
          PROVE  Holds
      <4>1. CASE scheduled = TRUE
        BY <3>6, <4>1 DEF Claim
      <4>2. CASE scheduled = FALSE
        BY <3>6, <4>2
      <4> QED  BY <4>1, <4>2
    <3> QED  BY <2>2, <3>1, <3>2, <3>3, <3>4, <3>5, <3>6 DEF HostStep
  <2>3. ASSUME NEW t \in Tokens, RunStep(t)  PROVE Holds
    <3>1. CASE Release(t)
      <4>1. row' = row \/ row' = Released(t)
        BY <3>1 DEF Release
      <4> QED  BY <1>1, <2>1, <3>1, <4>1, ReleasedType DEF Release
    <3>2. CASE Begin(t) \/ Ticker(t) \/ PollStop(t) \/ Finish(t)
      BY <2>1, <3>2 DEF Begin, Ticker, PollStop, Finish
    <3> QED  BY <2>3, <3>1, <3>2 DEF RunStep
  <2>4. CASE Tick
    BY <2>4
  <2> QED  BY <1>1, <2>2, <2>3, <2>4 DEF Next
<1>2. TypeOK /\ [Next]_vars => [Holds]_vars
  BY <1>1, LockAssumption
<1> QED  BY <1>2, TypeCorrect, PTL DEF Spec, PauseHolds

-----------------------------------------------------------------------------
(* A dead owner's lease.                                                   *)

\* A process knows the token of a run of its own that it has not lost by dying.
Known(h, t) == run[t].host = h /\ run[t].phase \notin {"unused", "dead"}

KnownMirror(h, m) == m # NoMirror /\ m.heldToken # NoToken => Known(h, m.heldToken)

\* The tokens that a process may refresh a lease with.
HostKnows(h) ==
  /\ owned[h] # NoToken => Known(h, owned[h])
  /\ KnownMirror(h, mirror[h].inFlight) /\ KnownMirror(h, mirror[h].pending)

TokensKnown == \A h \in Hosts : HostKnows(h)

\* A local write leaves nothing in the writer but what was there and the token
\* it was made with.
LEMMA PushedMirror ==
  ASSUME TypeOK, NEW h \in Hosts, NEW b \in BOOLEAN, NEW tok, UpdateState(h, b, tok)
  PROVE  /\ \A g \in Hosts : g # h => mirror'[g] = mirror[g] /\ file'[g] = file[g]
         /\ file'[h] = [isRunning |-> b, lastUpdated |-> Stamp(h)]
         /\ \E m : /\ m = [isRunning |-> b, lastUpdated |-> Stamp(h), heldToken |-> tok]
                   /\ IF mirror[h].inFlight = NoMirror
                      THEN mirror'[h].inFlight = m /\ mirror'[h].pending = mirror[h].pending
                      ELSE mirror'[h].inFlight = mirror[h].inFlight /\ mirror'[h].pending = m
<1>1. PICK m : m = [isRunning |-> b, lastUpdated |-> Stamp(h), heldToken |-> tok]
  OBVIOUS
<1>2. mirror' = Push(h, m) /\ file' = [file EXCEPT ![h] = [isRunning |-> b, lastUpdated |-> Stamp(h)]]
  BY <1>1 DEF UpdateState
<1>3. IF mirror[h].inFlight = NoMirror
      THEN mirror'[h].inFlight = m /\ mirror'[h].pending = mirror[h].pending
      ELSE mirror'[h].inFlight = mirror[h].inFlight /\ mirror'[h].pending = m
  BY <1>2 DEF Push, TypeOK
<1>4. \A g \in Hosts : g # h => mirror'[g] = mirror[g] /\ file'[g] = file[g]
  BY <1>2 DEF Push, TypeOK
<1>5. file'[h] = [isRunning |-> b, lastUpdated |-> Stamp(h)]
  BY <1>2 DEF TypeOK
<1> QED  BY <1>1, <1>3, <1>4, <1>5

LEMMA KnownNext ==
  ASSUME LockAssumption, TypeOK, TokensKnown, [Next]_vars
  PROVE  TokensKnown'
<1> USE DEF KnownMirror, HostKnows
\* Runs stay known, no process learns a token and no write is queued.
<1>1. ASSUME \A h \in Hosts, t \in Tokens : Known(h, t) => Known(h, t)',
             \A h \in Hosts : owned'[h] \in {owned[h], NoToken},
             mirror' = mirror
      PROVE  TokensKnown'
  BY <1>1 DEF TokensKnown, TypeOK, MirrorValues
\* A local write with a token the process knows.
<1>2. ASSUME NEW h \in Hosts, NEW b \in BOOLEAN, NEW tok \in Tokens \cup {NoToken},
             UpdateState(h, b, tok), tok # NoToken => Known(h, tok)',
             \A g \in Hosts, t \in Tokens : Known(g, t) => Known(g, t)',
             \A g \in Hosts : g # h => owned'[g] = owned[g],
             owned'[h] \in {owned[h], tok}
      PROVE  TokensKnown'
  <2>1. ASSUME NEW g \in Hosts, g # h  PROVE HostKnows(g)'
    <3>1. mirror'[g] = mirror[g] /\ owned'[g] = owned[g]
      BY <1>2, <2>1, PushedMirror
    <3> QED  BY <1>2, <2>1, <3>1 DEF TokensKnown, TypeOK, MirrorValues
  <2>2. HostKnows(h)'
    <3>0. PICK m : /\ m = [isRunning |-> b, lastUpdated |-> Stamp(h), heldToken |-> tok]
                   /\ IF mirror[h].inFlight = NoMirror
                      THEN mirror'[h].inFlight = m /\ mirror'[h].pending = mirror[h].pending
                      ELSE mirror'[h].inFlight = mirror[h].inFlight /\ mirror'[h].pending = m
      BY <1>2, PushedMirror
    <3>1. /\ mirror'[h].inFlight \in {m, mirror[h].inFlight}
          /\ mirror'[h].pending \in {m, mirror[h].pending}
      BY <3>0
    <3>2. m.heldToken = tok
      BY <3>0
    <3>3. owned'[h] # NoToken => Known(h, owned[h])' \/ owned'[h] = tok
      BY <1>2 DEF TokensKnown, TypeOK
    <3> QED  BY <1>2, <3>1, <3>2, <3>3 DEF TokensKnown, TypeOK, MirrorValues
  <2> QED  BY <2>1, <2>2 DEF TokensKnown
<1>3. ASSUME NEW h \in Hosts, HostStep(h)  PROVE TokensKnown'
  <2>1. CASE WriteMirror(h)
    <3>1. /\ run' = run /\ owned' = owned
          /\ mirror' = [mirror EXCEPT ![h] = [inFlight |-> mirror[h].pending, pending |-> NoMirror]]
      BY <2>1 DEF WriteMirror
    <3> QED  BY <3>1 DEF TokensKnown, Known, TypeOK
  <2>2. CASE ClearPause(h) \/ Heartbeat(h) \/ Cut(h) \/ Restore(h)
    BY <1>1, <2>2 DEF ClearPause, Heartbeat, Cut, Restore, Known
  <2>3. ASSUME NEW mode \in Modes, Stop(h, mode)  PROVE TokensKnown'
    BY ZenonT(40), <1>2, <2>3 DEF Stop, TypeOK, TokensKnown, Known
  <2>4. CASE Crash(h)
    <3>1. ASSUME NEW g \in Hosts, NEW t \in Tokens, g # h, Known(g, t)  PROVE Known(g, t)'
      BY <2>4, <3>1 DEF Crash, Known, TypeOK
    <3>2. /\ mirror' = [mirror EXCEPT ![h] = [inFlight |-> NoMirror, pending |-> NoMirror]]
          /\ owned' = [owned EXCEPT ![h] = NoToken]
      BY <2>4 DEF Crash
    <3> QED  BY <3>1, <3>2 DEF TokensKnown, TypeOK, MirrorValues
  <2>5. ASSUME NEW t \in Tokens, NEW kind \in Kinds, NEW scheduled \in BOOLEAN,
               Claim(h, t, kind, scheduled)
        PROVE  TokensKnown'
    <3>1. \A g \in Hosts, u \in Tokens : Known(g, u) => Known(g, u)'
      BY <2>5 DEF Claim, Known, TypeOK
    <3> QED  BY <1>1, <2>5, <3>1 DEF Claim
  <2> QED  BY <1>3, <2>1, <2>2, <2>3, <2>4, <2>5 DEF HostStep
<1>4. ASSUME NEW t \in Tokens, RunStep(t)  PROVE TokensKnown'
  <2>0. PICK h \in Hosts : h = run[t].host
    BY <1>4 DEF RunStep, Begin, Ticker, PollStop, Finish, Release, Live, TypeOK
  <2>1. Known(h, t)' /\ \A g \in Hosts, u \in Tokens : Known(g, u) => Known(g, u)'
    <3>1. /\ run[t].phase \notin {"unused", "dead"}
          /\ run' = run \/ \E p \in Phases \ {"unused", "dead"} : run' = [run EXCEPT ![t].phase = p]
      BY <1>4 DEF RunStep, Begin, Ticker, PollStop, Finish, Release, Live, Phases
    <3> QED  BY <2>0, <3>1, PhaseChangeType DEF Known, TypeOK, Phases
  <2>2. CASE Begin(t)
    <3>1. UpdateState(h, TRUE, t) /\ owned' = [owned EXCEPT ![h] = t]
      BY <2>0, <2>2 DEF Begin
    <3>2. (\A g \in Hosts : g # h => owned'[g] = owned[g]) /\ owned'[h] \in {owned[h], t}
      BY <2>1, <3>1 DEF TypeOK
    <3> QED  BY <1>2, <2>1, <3>1, <3>2
  <2>3. CASE Ticker(t) \/ Finish(t)
    <3>1. \E b \in BOOLEAN : UpdateState(h, b, owned[h])
      BY <2>0, <2>3 DEF Ticker, Finish, TypeOK
    <3>2. owned' = owned /\ owned[h] \in Tokens \cup {NoToken}
          /\ (owned[h] # NoToken => Known(h, owned[h]))
      BY <2>1, <2>3 DEF Ticker, Finish, TypeOK, TokensKnown
    <3>3. owned[h] # NoToken => Known(h, owned[h])'
      BY <2>1, <3>2
    <3> QED  BY <1>2, <2>1, <3>1, <3>2, <3>3
  <2>4. CASE PollStop(t) \/ Release(t)
    <3>1. mirror' = mirror /\ \A g \in Hosts : owned'[g] \in {owned[g], NoToken}
      BY <2>4 DEF PollStop, Release, TypeOK
    <3> QED  BY <1>1, <2>1, <3>1
  <2> QED  BY <1>4, <2>2, <2>3, <2>4 DEF RunStep
<1>5. CASE Tick \/ UNCHANGED vars
  BY <1>1, <1>5 DEF Tick, vars, Known
<1> QED  BY <1>3, <1>4, <1>5 DEF Next

\* Nobody refreshes the lease of a run whose process died, for any number of
\* hosts and runs: heartbeats and mirror writes carry only tokens that a living
\* process minted (startPipelineLockHeartbeat, persistPipelineStateMirror).
THEOREM DeadLocksAge == Spec => DeadLockAges
<1> DEFINE Ages == \A t \in Tokens :
                     run[t].phase = "dead" /\ row.lockToken = t /\ row'.lockToken = t
                     => row'.lockHeartbeatAt = row.lockHeartbeatAt
<1>1. Init => TokensKnown
  <2> SUFFICES ASSUME Init, NEW h \in Hosts  PROVE HostKnows(h)
    BY DEF TokensKnown
  <2>1. owned[h] = NoToken /\ mirror[h].inFlight = NoMirror /\ mirror[h].pending = NoMirror
    BY DEF Init
  <2> QED  BY <2>1 DEF HostKnows, KnownMirror
<1>2. ASSUME LockAssumption, TypeOK, TokensKnown, Next  PROVE Ages
  <2> SUFFICES ASSUME NEW t \in Tokens, run[t].phase = "dead", row.lockToken = t, row'.lockToken = t
               PROVE  row'.lockHeartbeatAt = row.lockHeartbeatAt
    OBVIOUS
  <2>0. t # NoToken
    BY <1>2 DEF LockAssumption
  <2>1. ASSUME NEW h \in Hosts, HostStep(h)  PROVE row'.lockHeartbeatAt = row.lockHeartbeatAt
    <3>1. CASE WriteMirror(h)
      <4> DEFINE m == mirror[h].inFlight
      <4>1. m \in MirrorValues /\ m # NoMirror /\ KnownMirror(h, m)
        BY <1>2, <3>1 DEF WriteMirror, TypeOK, TokensKnown, HostKnows
      <4>2. m.heldToken # t
        BY <2>0, <4>1 DEF KnownMirror, Known
      <4>3. row' = row \/ row' = Mirrored(m)
        BY <3>1 DEF WriteMirror
      <4> HIDE DEF m
      <4> QED  BY <1>2, <4>2, <4>3 DEF Mirrored, TypeOK
    <3>2. CASE Heartbeat(h)
      BY <1>2, <2>0, <3>2 DEF Heartbeat, TokensKnown, HostKnows, Known
    <3>3. CASE ClearPause(h) \/ Crash(h) \/ Cut(h) \/ Restore(h)
      BY <1>2, <3>3 DEF ClearPause, Crash, Cut, Restore, TypeOK
    <3>4. ASSUME NEW mode \in Modes, Stop(h, mode)
          PROVE  row'.lockHeartbeatAt = row.lockHeartbeatAt
      BY <1>2, <3>4, StopRowType DEF Stop
    <3>5. ASSUME NEW u \in Tokens, NEW kind \in Kinds, NEW scheduled \in BOOLEAN,
                 Claim(h, u, kind, scheduled)
          PROVE  FALSE
      BY <1>2, <3>5 DEF Claim, TypeOK
    <3> QED  BY <2>1, <3>1, <3>2, <3>3, <3>4, <3>5 DEF HostStep
  <2>2. ASSUME NEW u \in Tokens, RunStep(u)  PROVE row'.lockHeartbeatAt = row.lockHeartbeatAt
    <3>1. row' = row \/ row' = Released(u)
      BY <2>2 DEF RunStep, Begin, Ticker, PollStop, Finish, Release
    <3> QED  BY <1>2, <2>0, <3>1, ReleasedType
  <2>3. CASE Tick
    BY <2>3 DEF Tick
  <2> QED  BY <1>2, <2>1, <2>2, <2>3 DEF Next
<1>3. TypeOK /\ TokensKnown /\ [Next]_vars => [Ages]_vars
  BY <1>2, LockAssumption
<1>4. TypeOK /\ TokensKnown /\ [Next]_vars => TokensKnown'
  BY LockAssumption, KnownNext
<1> QED  BY <1>1, <1>3, <1>4, TypeCorrect, PTL DEF Spec, DeadLockAges
-----------------------------------------------------------------------------
(* What the row shows when everything has come to rest.                    *)

\* The newest value in a host's writer is its file, and the value on its way is
\* older than the one that waits.
Newest(h, m) == m.isRunning = file[h].isRunning /\ m.lastUpdated = file[h].lastUpdated

InOrder(h) ==
  /\ mirror[h].inFlight = NoMirror => mirror[h].pending = NoMirror
  /\ mirror[h].inFlight # NoMirror /\ mirror[h].pending = NoMirror => Newest(h, mirror[h].inFlight)
  /\ mirror[h].pending # NoMirror =>
       Newest(h, mirror[h].pending) /\ mirror[h].inFlight.lastUpdated < mirror[h].pending.lastUpdated

\* A registered controller is that of a live run of the host.
ControllerLive(h) ==
  controller[h] # NoToken => Live(controller[h]) /\ run[controller[h]].host = h

\* Unless a process died, a file says "running" only beside a live run of its
\* host.
FileShown(h) == file[h].isRunning => \E t \in Tokens : Live(t) /\ run[t].host = h

\* A row that says "running" was written by a host whose file still says so, or
\* says otherwise in a version that is still to be mirrored.
RowShown ==
  row.isRunning => \E h \in Hosts :
    /\ row.lastUpdated <= file[h].lastUpdated
    /\ file[h].isRunning \/ mirror[h].inFlight # NoMirror

NoneDead == \A t \in Tokens : run[t].phase # "dead"

Shown ==
  /\ \A h \in Hosts : InOrder(h) /\ ControllerLive(h)
  /\ outages = 0 => unreachable = {}
  /\ NoneDead => \A h \in Hosts : FileShown(h)
  /\ NoneDead /\ outages = 0 => RowShown

\* The parts of Shown about one host.
HostShown(h) == InOrder(h) /\ ControllerLive(h) /\ (NoneDead => FileShown(h))

\* A local write keeps the writer in order; it is newer than the file before.
LEMMA WriteInOrder ==
  ASSUME TypeOK, NEW h \in Hosts, NEW b \in BOOLEAN, NEW tok \in Tokens \cup {NoToken},
         UpdateState(h, b, tok), \A g \in Hosts : InOrder(g)
  PROVE  /\ \A g \in Hosts : InOrder(g)'
         /\ \A g \in Hosts : g # h => mirror'[g] = mirror[g] /\ file'[g] = file[g]
         /\ file'[h].isRunning = b /\ file[h].lastUpdated < file'[h].lastUpdated
         /\ mirror'[h].inFlight # NoMirror
<1>1. PICK m : /\ m = [isRunning |-> b, lastUpdated |-> Stamp(h), heldToken |-> tok]
               /\ IF mirror[h].inFlight = NoMirror
                  THEN mirror'[h].inFlight = m /\ mirror'[h].pending = mirror[h].pending
                  ELSE mirror'[h].inFlight = mirror[h].inFlight /\ mirror'[h].pending = m
  BY ZenonT(40), PushedMirror
<1>2. Stamp(h) \in Nat /\ file[h].lastUpdated \in Nat /\ file[h].lastUpdated < Stamp(h)
  BY DEF Stamp, TypeOK
<1>3. m \in MirrorValues /\ m # NoMirror
  BY <1>1, <1>2, NoMirrorIsNoValue DEF MirrorValues
<1>4. m.isRunning = b /\ m.lastUpdated = Stamp(h)
  BY <1>1
<1>5. /\ file'[h].isRunning = b /\ file'[h].lastUpdated = Stamp(h)
      /\ \A g \in Hosts : g # h => mirror'[g] = mirror[g] /\ file'[g] = file[g]
  <2>1. file'[h] = [isRunning |-> b, lastUpdated |-> Stamp(h)]
    BY PushedMirror
  <2>2. \A g \in Hosts : g # h => mirror'[g] = mirror[g] /\ file'[g] = file[g]
    BY PushedMirror
  <2> QED  BY <2>1, <2>2
<1>6. InOrder(h)'
  <2>1. CASE mirror[h].inFlight = NoMirror
    BY <1>1, <1>3, <1>4, <1>5, <2>1 DEF InOrder, Newest
  <2>2. CASE mirror[h].inFlight # NoMirror
    <3>1. mirror[h].inFlight.lastUpdated \in Nat
          /\ (mirror[h].pending # NoMirror => mirror[h].pending.lastUpdated \in Nat)
      BY <2>2 DEF TypeOK, MirrorValues
    <3>2. mirror[h].inFlight.lastUpdated <= file[h].lastUpdated
      BY <1>2, <2>2, <3>1 DEF InOrder, Newest
    <3> QED  BY <1>1, <1>2, <1>3, <1>4, <1>5, <2>2, <3>1, <3>2 DEF InOrder, Newest
  <2> QED  BY <2>1, <2>2
<1>7. \A g \in Hosts : g # h => InOrder(g)'
  BY <1>5 DEF InOrder, Newest
<1> QED  BY <1>1, <1>2, <1>3, <1>5, <1>6, <1>7

\* A row that shows no other than before stays explained while the files and
\* the writers of the hosts move on.
LEMMA RowStaysShown ==
  ASSUME TypeOK, NEW h \in Hosts, NEW b \in BOOLEAN, NEW tok \in Tokens \cup {NoToken},
         UpdateState(h, b, tok), \A g \in Hosts : InOrder(g), RowShown, row' = row
  PROVE  RowShown'
<1> SUFFICES ASSUME row.isRunning  PROVE RowShown'
  BY DEF RowShown
<1>1. PICK g \in Hosts : /\ row.lastUpdated <= file[g].lastUpdated
                         /\ file[g].isRunning \/ mirror[g].inFlight # NoMirror
  BY DEF RowShown
<1>2. /\ \A e \in Hosts : e # h => mirror'[e] = mirror[e] /\ file'[e] = file[e]
      /\ file[h].lastUpdated < file'[h].lastUpdated /\ mirror'[h].inFlight # NoMirror
  BY WriteInOrder
<1>3. row.lastUpdated \in Nat /\ file[h].lastUpdated \in Nat /\ file'[h].lastUpdated \in Nat
  BY UpdateStateType DEF TypeOK
<1>4. CASE g = h
  BY <1>1, <1>2, <1>3, <1>4 DEF RowShown
<1>5. CASE g # h
  BY <1>1, <1>2, <1>5 DEF RowShown
<1> QED  BY <1>4, <1>5

\* A mirror write explains the row it leaves.
LEMMA MirrorShown ==
  ASSUME TypeOK, NEW h \in Hosts, WriteMirror(h), h \notin unreachable,
         \A g \in Hosts : InOrder(g), RowShown
  PROVE  RowShown'
<1> DEFINE m == mirror[h].inFlight
<1>1. /\ m \in MirrorValues /\ m # NoMirror /\ m.lastUpdated \in Nat /\ m.isRunning \in BOOLEAN
      /\ file[h].lastUpdated \in Nat /\ row.lastUpdated \in Nat
      /\ mirror[h].pending # NoMirror => mirror[h].pending.lastUpdated \in Nat
  BY DEF WriteMirror, TypeOK, MirrorValues
<1>2. /\ file' = file
      /\ mirror'[h].inFlight = mirror[h].pending
      /\ \A g \in Hosts : g # h => mirror'[g] = mirror[g]
  BY DEF WriteMirror, TypeOK
<1>3. /\ row'.isRunning = (IF row.lastUpdated <= m.lastUpdated THEN m.isRunning ELSE row.isRunning)
      /\ row'.lastUpdated = (IF row.lastUpdated <= m.lastUpdated THEN m.lastUpdated ELSE row.lastUpdated)
  <2>1. row' = Mirrored(m)
    BY DEF WriteMirror
  <2> QED  BY <2>1 DEF Mirrored, TypeOK
<1>4. /\ m.lastUpdated <= file[h].lastUpdated
      /\ m.lastUpdated < file[h].lastUpdated => mirror[h].pending # NoMirror
      /\ mirror[h].pending = NoMirror => m.isRunning = file[h].isRunning
  BY <1>1 DEF InOrder, Newest
<1> HIDE DEF m
<1> SUFFICES ASSUME row'.isRunning  PROVE RowShown'
  BY DEF RowShown
<1>5. CASE row.lastUpdated <= m.lastUpdated
  <2>1. row'.lastUpdated <= file'[h].lastUpdated
    BY <1>1, <1>2, <1>3, <1>4, <1>5
  <2>2. file'[h].isRunning \/ mirror'[h].inFlight # NoMirror
    BY <1>2, <1>3, <1>4, <1>5
  <2> QED  BY <2>1, <2>2 DEF RowShown
<1>6. CASE m.lastUpdated < row.lastUpdated
  <2>1. row'.lastUpdated = row.lastUpdated /\ row.isRunning
    BY <1>1, <1>3, <1>6
  <2>2. PICK g \in Hosts : /\ row.lastUpdated <= file[g].lastUpdated
                           /\ file[g].isRunning \/ mirror[g].inFlight # NoMirror
    BY <2>1 DEF RowShown
  <2>3. CASE g = h
    BY <1>1, <1>2, <1>4, <1>6, <2>1, <2>2, <2>3 DEF RowShown
  <2>4. CASE g # h
    BY <1>2, <2>1, <2>2, <2>4 DEF RowShown
  <2> QED  BY <2>3, <2>4
<1> QED  BY <1>1, <1>5, <1>6

LEMMA ShownNext ==
  ASSUME LockAssumption, TypeOK, Shown, [Next]_vars
  PROVE  Shown'
<1>0. /\ \A g \in Hosts : InOrder(g) /\ ControllerLive(g)
      /\ NoneDead => \A g \in Hosts : FileShown(g)
  BY DEF Shown
\* Steps that end no live run, register no controller and write no file.
<1>1. ASSUME \A t \in Tokens : Live(t) => Live(t)' /\ run'[t].host = run[t].host,
             \A t \in Tokens : run[t].phase = "dead" => run'[t].phase = "dead",
             UNCHANGED <<file, controller>>
      PROVE  (\A g \in Hosts : ControllerLive(g)') /\ (NoneDead' => \A g \in Hosts : FileShown(g)')
  <2>1. \A g \in Hosts : ControllerLive(g)'
    BY <1>0, <1>1 DEF ControllerLive, TypeOK
  <2>2. NoneDead' => NoneDead
    BY <1>1 DEF NoneDead
  <2>3. NoneDead' => \A g \in Hosts : FileShown(g)'
    BY <1>0, <1>1, <2>2 DEF FileShown
  <2> QED  BY <2>1, <2>3
<1>2. ASSUME UNCHANGED <<row, file, mirror>>  PROVE (\A g \in Hosts : InOrder(g)') /\ (RowShown => RowShown')
  BY <1>0, <1>2 DEF InOrder, Newest, RowShown
<1>3. ASSUME NEW h \in Hosts, HostStep(h)  PROVE Shown'
  <2>1. CASE WriteMirror(h)
    <3>1. UNCHANGED <<run, file, controller, unreachable, outages>>
      BY <2>1 DEF WriteMirror
    <3>2. (\A g \in Hosts : ControllerLive(g)') /\ (NoneDead' => \A g \in Hosts : FileShown(g)')
      BY <1>1, <3>1 DEF Live
    <3>3. /\ mirror'[h].inFlight = mirror[h].pending /\ mirror'[h].pending = NoMirror
          /\ \A g \in Hosts : g # h => mirror'[g] = mirror[g]
      BY <2>1 DEF WriteMirror, TypeOK
    <3>4. \A g \in Hosts : InOrder(g)'
      BY <1>0, <3>1, <3>3 DEF InOrder, Newest
    <3>5. NoneDead' /\ outages' = 0 => RowShown'
      BY <1>0, <2>1, <3>1, MirrorShown DEF Shown, NoneDead
    <3> QED  BY <3>1, <3>2, <3>4, <3>5 DEF Shown
  <2>2. CASE ClearPause(h) \/ Heartbeat(h)
    <3>1. /\ UNCHANGED <<run, file, mirror, controller, unreachable, outages>>
          /\ row'.isRunning = row.isRunning /\ row'.lastUpdated = row.lastUpdated
      BY <2>2 DEF ClearPause, Heartbeat, TypeOK
    <3>2. (\A g \in Hosts : ControllerLive(g)') /\ (NoneDead' => \A g \in Hosts : FileShown(g)')
      BY <1>1, <3>1 DEF Live
    <3> QED  BY <3>1, <3>2 DEF Shown, InOrder, Newest, RowShown, NoneDead
  <2>3. CASE Cut(h) \/ Restore(h)
    <3>1. /\ UNCHANGED <<run, row, file, mirror, controller>>
          /\ outages' = 0 => outages = 0 /\ unreachable' \subseteq unreachable
      BY <2>3 DEF Cut, Restore, TypeOK
    <3>2. (\A g \in Hosts : ControllerLive(g)') /\ (NoneDead' => \A g \in Hosts : FileShown(g)')
      BY <1>1, <3>1 DEF Live
    <3> QED  BY <1>2, <3>1, <3>2 DEF Shown, NoneDead
  <2>4. ASSUME NEW mode \in Modes, Stop(h, mode)  PROVE Shown'
    <3>1. /\ UpdateState(h, FALSE, owned[h]) /\ owned[h] \in Tokens \cup {NoToken}
          /\ UNCHANGED <<run, controller, unreachable, outages>>
      BY <2>4 DEF Stop, TypeOK
    <3>2. /\ \A g \in Hosts : InOrder(g)'
          /\ \A g \in Hosts : g # h => file'[g] = file[g]
          /\ file'[h].isRunning = FALSE
      BY <1>0, <3>1, WriteInOrder
    <3>3. \A g \in Hosts : ControllerLive(g)'
      BY <1>0, <3>1 DEF ControllerLive, Live
    <3>4. NoneDead' => \A g \in Hosts : FileShown(g)'
      BY <1>0, <3>1, <3>2 DEF FileShown, Live, NoneDead
    <3>5. outages' = 0 => RowShown'
      <4>1. CASE h \in unreachable
        BY <3>1, <4>1 DEF Shown
      <4>2. CASE h \notin unreachable
        <5>1. row' = StopRow(mode)
          BY <2>4, <4>2 DEF Stop
        <5>2. row'.isRunning = FALSE
          BY <5>1 DEF StopRow, TypeOK
        <5> QED  BY <5>2 DEF RowShown
      <4> QED  BY <4>1, <4>2
    <3> QED  BY <3>1, <3>2, <3>3, <3>4, <3>5 DEF Shown
  <2>5. CASE Crash(h)
    <3>1. /\ \A t \in Tokens : run[t].host # h => run'[t] = run[t]
          /\ ~NoneDead'
          /\ UNCHANGED <<file, unreachable, outages>>
          /\ mirror'[h].inFlight = NoMirror /\ mirror'[h].pending = NoMirror
          /\ controller'[h] = NoToken
          /\ \A g \in Hosts : g # h => mirror'[g] = mirror[g] /\ controller'[g] = controller[g]
      BY <2>5 DEF Crash, NoneDead, TypeOK
    <3>2. \A g \in Hosts : InOrder(g)'
      BY <1>0, <3>1 DEF InOrder, Newest
    <3>3. \A g \in Hosts : ControllerLive(g)'
      BY SMTT(20), <1>0, <3>1 DEF ControllerLive, Live, TypeOK
    <3> QED  BY <3>1, <3>2, <3>3 DEF Shown
  <2>6. ASSUME NEW t \in Tokens, NEW kind \in Kinds, NEW scheduled \in BOOLEAN,
               Claim(h, t, kind, scheduled)
        PROVE  Shown'
    <3>1. /\ UNCHANGED <<file, mirror, controller, unreachable, outages>>
          /\ row'.isRunning = row.isRunning /\ row'.lastUpdated = row.lastUpdated
          /\ \A u \in Tokens : u # t => run'[u] = run[u]
          /\ run[t].phase = "unused" /\ run'[t].phase = "claimed"
      BY <2>6 DEF Claim, TypeOK
    <3>2. (\A g \in Hosts : ControllerLive(g)') /\ (NoneDead' => \A g \in Hosts : FileShown(g)')
      BY <1>1, <3>1 DEF Live
    <3>3. NoneDead' => NoneDead
      BY <3>1 DEF NoneDead
    <3> QED  BY <3>1, <3>2, <3>3 DEF Shown, InOrder, Newest, RowShown
  <2> QED  BY <1>3, <2>1, <2>2, <2>3, <2>4, <2>5, <2>6 DEF HostStep<1>4. ASSUME NEW t \in Tokens, RunStep(t)  PROVE Shown'
  <2>0. PICK h \in Hosts : h = run[t].host
    BY <1>4 DEF RunStep, Begin, Ticker, PollStop, Finish, Release, Live, TypeOK
  \* A run that only moves from one live phase to another, or has ended before.
  <2>1. PICK p \in Phases \ {"unused", "dead"} :
          /\ \A u \in Tokens : run'[u].host = run[u].host /\ (u # t => run'[u].phase = run[u].phase)
          /\ run'[t].phase = p /\ run[t].phase # "dead"
    <3>1. /\ run[t].phase \notin {"unused", "dead"}
          /\ run' = run \/ \E p \in Phases \ {"unused", "dead"} : run' = [run EXCEPT ![t].phase = p]
      BY <1>4 DEF RunStep, Begin, Ticker, PollStop, Finish, Release, Live, Phases
    <3>2. CASE run' = run
      BY <3>1, <3>2 DEF TypeOK
    <3>3. ASSUME NEW p \in Phases \ {"unused", "dead"}, run' = [run EXCEPT ![t].phase = p]
          PROVE  /\ \A u \in Tokens : run'[u].host = run[u].host /\ (u # t => run'[u].phase = run[u].phase)
                 /\ run'[t].phase = p
      BY <3>1, <3>3, PhaseChangeType
    <3> QED  BY <3>1, <3>2, <3>3
  <2>2. (NoneDead' => NoneDead) /\ UNCHANGED <<unreachable, outages>>
    BY <1>4, <2>1 DEF NoneDead, RunStep, Begin, Ticker, PollStop, Finish, Release
  <2>3. ASSUME NEW b \in BOOLEAN, NEW tok \in Tokens \cup {NoToken}, UpdateState(h, b, tok), row' = row,
               \A g \in Hosts : ControllerLive(g)', NoneDead' => \A g \in Hosts : FileShown(g)'
        PROVE  Shown'
    <3>1. \A g \in Hosts : InOrder(g)'
      BY <1>0, <2>3, WriteInOrder
    <3>2. RowShown => RowShown'
      BY <1>0, <2>3, RowStaysShown
    <3> QED  BY <2>2, <2>3, <3>1, <3>2 DEF Shown
  <2>4. CASE Begin(t)
    <3>0. run[t] \in RunRecords /\ run \in [Tokens -> RunRecords]
      BY DEF TypeOK, RunRecords
    <3>1. /\ UpdateState(h, TRUE, t) /\ row' = row /\ run[t].phase = "claimed"
          /\ run'[t].phase = IF SecondMainRefused(t) THEN "releasing" ELSE "running"
          /\ controller' = IF run[t].kind = "main" /\ ~SecondMainRefused(t)
                           THEN [controller EXCEPT ![h] = t] ELSE controller
      BY <2>0, <2>4, <3>0 DEF Begin, RunRecords
    <3>2. \A u \in Tokens : Live(u) => Live(u)'
      BY <2>1, <3>1 DEF Live
    <3>3. ~SecondMainRefused(t) => Live(t)' /\ run'[t].host = h
      BY <2>0, <2>1, <3>1 DEF Live
    <3>4. SecondMainRefused(t) => controller[h] \in Tokens /\ Live(controller[h]) /\ run[controller[h]].host = h
      BY <1>0, <2>0 DEF SecondMainRefused, ControllerLive, TypeOK
    <3>5. \A g \in Hosts : ControllerLive(g)'
      BY <1>0, <2>1, <3>1, <3>2, <3>3 DEF ControllerLive, TypeOK
    <3>6. NoneDead' => \A g \in Hosts : FileShown(g)'
      <4>1. \A g \in Hosts : g # h => file'[g] = file[g]
        BY <1>0, <3>1, WriteInOrder
      <4>2. FileShown(h)'
        BY <2>1, <3>2, <3>3, <3>4 DEF FileShown
      <4> QED  BY <1>0, <2>1, <2>2, <3>2, <4>1, <4>2 DEF FileShown
    <3> QED  BY <2>3, <3>1, <3>5, <3>6
  <2>5. CASE Ticker(t)
    <3>1. /\ UpdateState(h, file[h].isRunning, owned[h]) /\ UNCHANGED <<row, run, controller>>
          /\ file[h].isRunning \in BOOLEAN /\ owned[h] \in Tokens \cup {NoToken}
      BY <2>0, <2>5 DEF Ticker, TypeOK
    <3>2. \A g \in Hosts : ControllerLive(g)'
      BY <1>0, <3>1 DEF ControllerLive, Live
    <3>3. \A g \in Hosts : file'[g].isRunning = file[g].isRunning
      BY <1>0, <3>1, WriteInOrder
    <3>4. NoneDead' => \A g \in Hosts : FileShown(g)'
      BY <1>0, <2>2, <3>1, <3>3 DEF FileShown, Live
    <3> QED  BY <2>3, <3>1, <3>2, <3>4
  <2>6. CASE Finish(t)
    <3>1. /\ UpdateState(h, FALSE, owned[h]) /\ row' = row /\ owned[h] \in Tokens \cup {NoToken}
          /\ controller' = IF controller[h] = t THEN [controller EXCEPT ![h] = NoToken] ELSE controller
      BY <2>0, <2>6 DEF Finish, TypeOK
    <3>2. \A g \in Hosts : ControllerLive(g)'
      BY <1>0, <2>0, <2>1, <3>1 DEF ControllerLive, Live, TypeOK
    <3>3. /\ file'[h].isRunning = FALSE
          /\ \A g \in Hosts : g # h => file'[g] = file[g]
      BY <1>0, <3>1, WriteInOrder
    <3>4. NoneDead' => \A g \in Hosts : FileShown(g)'
      BY <1>0, <2>0, <2>1, <2>2, <3>3 DEF FileShown, Live
    <3> QED  BY <2>3, <3>1, <3>2, <3>4
  <2>7. CASE PollStop(t) \/ Release(t)
    <3>1. /\ UNCHANGED <<file, mirror, controller>>
          /\ \A u \in Tokens : Live(u) => Live(u)'
      BY <2>1, <2>7 DEF PollStop, Release, Live, TypeOK
    <3>2. (\A g \in Hosts : ControllerLive(g)') /\ (NoneDead' => \A g \in Hosts : FileShown(g)')
      BY <1>1, <2>1, <3>1
    <3>3. row'.isRunning = row.isRunning /\ row'.lastUpdated = row.lastUpdated
      BY <2>7 DEF PollStop, Release, Released, TypeOK
    <3> QED  BY <2>2, <3>1, <3>2, <3>3 DEF Shown, InOrder, Newest, RowShown
  <2> QED  BY <1>4, <2>4, <2>5, <2>6, <2>7 DEF RunStep
<1>5. CASE Tick \/ UNCHANGED vars
  <2>1. UNCHANGED <<row, file, mirror, controller, run, unreachable, outages>>
    BY <1>5 DEF Tick, vars
  <2>2. (\A g \in Hosts : ControllerLive(g)') /\ (NoneDead' => \A g \in Hosts : FileShown(g)')
    BY <1>1, <2>1 DEF Live
  <2> QED  BY <1>2, <2>1, <2>2 DEF Shown, NoneDead
<1> QED  BY <1>3, <1>4, <1>5 DEF Next

\* When every run has ended in an orderly way and the writers are idle, the
\* shared row does not say "running", in whatever order tickers, Stops and final
\* states were written on whatever hosts (updatePipelineState, the latest-only
\* writer and the version guard of persistPipelineStateMirror).
THEOREM RowAtRest == Spec => []IdleRowAtRest
<1>1. Init => Shown
  <2> SUFFICES ASSUME Init  PROVE Shown
    OBVIOUS
  <2>1. \A h \in Hosts : mirror[h].inFlight = NoMirror /\ mirror[h].pending = NoMirror
                         /\ controller[h] = NoToken /\ file[h].isRunning = FALSE
    BY DEF Init
  <2>2. row.isRunning = FALSE /\ unreachable = {}
    BY DEF Init
  <2> QED  BY <2>1, <2>2 DEF Shown, InOrder, ControllerLive, FileShown, RowShown
<1>2. TypeOK /\ Shown /\ [Next]_vars => Shown'
  BY LockAssumption, ShownNext
<1>3. Shown => IdleRowAtRest
  <2> SUFFICES ASSUME Shown, \A t \in Tokens : run[t].phase \in {"unused", "releasing", "ended"},
                      \A h \in Hosts : mirror[h].inFlight = NoMirror, outages = 0, row.isRunning
               PROVE  FALSE
    BY DEF IdleRowAtRest
  <2>1. NoneDead
    BY DEF NoneDead
  <2>2. PICK h \in Hosts : file[h].isRunning
    BY <2>1 DEF Shown, RowShown
  <2> QED  BY <2>1, <2>2 DEF Shown, FileShown, Live
<1> QED  BY <1>1, <1>2, <1>3, TypeCorrect, PTL DEF Spec
=============================================================================
