------------------------- MODULE AtsRequestsProofs -------------------------
(* Proofs about AtsRequests for any number of calls, processes and          *)
(* employers, any lengths of the leases and any faults.                     *)
EXTENDS AtsRequests, TLAPS
----------------------------------------------------------------------------
(* Types.                                                                   *)

LEMMA BackoffType == ASSUME NEW n \in Nat PROVE Backoff(n) \in Nat
<1>1. CASE n < 3
  <2>1. n \in {0, 1, 2}  BY <1>1
  <2> QED  BY <2>1, CircuitAssumption DEF Backoff, Lesser
<1>2. CASE n >= 3  BY <1>2, CircuitAssumption DEF Backoff, Lesser
<1> QED  BY <1>1, <1>2

LEMMA ProposalType ==
  ASSUME NEW c \in Circuits, NEW limited \in BOOLEAN, NEW at \in Nat, NEW wait \in Nat
  PROVE  Proposal(c, limited, at, wait) \in [open : BOOLEAN, until : Nat]
<1>1. c.failures \in Nat  BY DEF Circuits, MaxFailures
<1>2. Policy(limited, c.failures + 1, at) \in [open : BOOLEAN, until : Nat]
  <2>1. CASE limited
    <3>1. Backoff(c.failures + 1 - 1) \in Nat  BY <1>1, BackoffType
    <3> QED  BY <2>1, <3>1, <1>1 DEF Policy
  <2>2. CASE ~limited /\ c.failures + 1 < 3  BY <2>2, <1>1 DEF Policy
  <2>3. CASE ~limited /\ ~(c.failures + 1 < 3)
    <3>1. Backoff(c.failures + 1 - 3) \in Nat  BY <2>3, <1>1, BackoffType
    <3> QED  BY <2>3, <3>1, <1>1 DEF Policy
  <2> QED  BY <2>1, <2>2, <2>3
<1> QED  BY <1>2 DEF Proposal

\* A recorded failure leaves a well-typed circuit.
LEMMA FailedType ==
  ASSUME NEW c \in Circuits, NEW limited \in BOOLEAN, NEW at \in Nat, NEW wait \in Nat
  PROVE  Failed(c, limited, at, wait) \in Circuits
<1> DEFINE proposal == Proposal(c, limited, at, wait)
<1> DEFINE protection == Merged(c, proposal, at)
<1>1. Failed(c, limited, at, wait) =
        [open |-> protection.open, until |-> protection.until,
         failures |-> Lesser(c.failures + 1, MaxFailures), lastFailure |-> at]
  BY DEF Failed
<1>2. c.failures \in Nat /\ c.until \in Nat /\ c.open \in BOOLEAN  BY DEF Circuits, MaxFailures
<1>3. proposal \in [open : BOOLEAN, until : Nat]  BY ProposalType
<1> HIDE DEF proposal
<1>4. protection \in [open : BOOLEAN, until : Nat]  BY <1>2, <1>3 DEF Merged, Greater
<1> HIDE DEF protection
<1>5. Lesser(c.failures + 1, MaxFailures) \in 0 .. MaxFailures  BY <1>2 DEF Lesser, MaxFailures
<1> QED  BY <1>1, <1>4, <1>5 DEF Circuits

LEMMA SucceededType ==
  ASSUME NEW c \in Circuits, NEW at \in Nat PROVE Succeeded(c, at) \in Circuits
BY DEF Succeeded, Circuits, MaxFailures

LEMMA ReportedType ==
  ASSUME TypeOK, NEW r \in Requests PROVE Reported(r) \in Circuits
<1>0. req[r] \in Calls  BY DEF TypeOK
<1>1. req[r].at \in Nat /\ req[r].retryAfter \in Nat  BY <1>0 DEF Calls
<1> DEFINE limited == req[r].verdict = "throttled"
<1>2. circuit \in Circuits /\ limited \in BOOLEAN  BY DEF TypeOK
<1>3. Failed(circuit, limited, req[r].at, req[r].retryAfter) \in Circuits
  <2> HIDE DEF limited
  <2> QED  BY <1>1, <1>2, FailedType
<1> QED  BY <1>2, <1>3 DEF Reported

\* Every step of a call keeps its record, the leases and the circuit well typed.
LEMMA StepTyped ==
  ASSUME TypeOK, NEW r \in Requests, Step(r)
  PROVE  TypeOK'
<1> USE RequestsAssumption DEF TypeOK
<1>c. req[r] \in Calls  OBVIOUS
<1>n. None \notin Requests /\ Slots \subseteq Keys /\ Boards \subseteq Keys
  BY DEF Keys
<1>l. ASSUME NEW key \in Keys PROVE Taken(r, key) \in [Keys -> Leases]
  BY DEF Taken, Leases
<1>1. ASSUME NEW p \in Procs, NEW b \in Boards \cup {None}, Admit(r, p, b) PROVE TypeOK'
  BY <1>1 DEF Admit, NoCall, Calls, Stages, Verdicts
<1>2. CASE TakeFence(r)
  <2> DEFINE key == IF req[r].board = None THEN "slot0" ELSE req[r].board
  <2>1. key \in Keys  BY <1>c DEF Calls, Keys, Slots
  <2>2. lease' = Taken(r, key) /\ req' = [req EXCEPT ![r].fence = key, ![r].fenced = now + Lease]
    BY <1>2 DEF TakeFence
  <2> HIDE DEF key
  <2>5. now + Lease \in Nat  OBVIOUS
  <2>3. lease' \in [Keys -> Leases]  BY <2>1, <2>2, <1>l
  <2>4. req' \in [Requests -> Calls]
    <3>1. [req[r] EXCEPT !.fence = key, !.fenced = now + Lease] \in Calls
      BY <2>1, <2>5, <1>c DEF Calls
    <3>2. req' = [req EXCEPT ![r] = [req[r] EXCEPT !.fence = key, !.fenced = now + Lease]]
      BY <2>2
    <3> QED  BY <3>1, <3>2
  <2> QED  BY <1>2, <2>3, <2>4 DEF TakeFence
<1>3. ASSUME NEW key \in Slots, TakeSlot(r, key) PROVE TypeOK'
  <2>1. lease' \in [Keys -> Leases]  BY <1>3, <1>n, <1>l DEF TakeSlot
  <2>2. req' \in [Requests -> Calls]  BY <1>3, <1>c DEF TakeSlot, Calls, Stages
  <2> QED  BY <1>3, <2>1, <2>2 DEF TakeSlot
<1>4. CASE Dispatch(r)  BY <1>4, <1>c DEF Dispatch, Calls, Stages
<1>5. CASE GiveUp(r)  BY <1>5, <1>c DEF GiveUp, Calls, Stages
<1>6. ASSUME NEW verdict \in {"ok", "none"}, Answer(r, verdict) PROVE TypeOK'
  BY <1>6, <1>c DEF Answer, Calls, Stages, Verdicts
<1>r. ASSUME NEW verdict \in Verdicts, NEW wait \in Nat, Refuse(r, verdict, wait)
      PROVE  req' \in [Requests -> Calls] /\ refusals' \in Nat
  <2> DEFINE call == [req[r] EXCEPT !.stage = "record", !.at = now, !.retryAfter = wait, !.verdict = verdict]
  <2>1. call \in Calls  BY <1>c DEF Calls, Stages
  <2>2. req' = [req EXCEPT ![r] = call]  BY <1>r DEF Refuse
  <2> HIDE DEF call
  <2>3. req' \in [Requests -> Calls]  BY <2>1, <2>2
  <2> QED  BY <2>3, <1>r DEF Refuse
<1>7. ASSUME NEW p \in Procs, NEW wait \in RetryAfters, AnswerThrottled(r, p, wait) PROVE TypeOK'
  <2> DEFINE longer == Greater(pause[p], wait)
  <2>0. longer \in Nat
    <3>1. wait \in Nat /\ pause[p] \in Nat  BY RequestsAssumption
    <3> QED  BY <3>1 DEF Greater
  <2>4. /\ pause' = [pause EXCEPT ![p] = longer]
        /\ UNCHANGED <<now, lease, circuit, faults>>
        /\ \/ Refuse(r, "throttled", longer)
           \/ /\ req' = [req EXCEPT ![r].stage = "release", ![r].since = 0, ![r].fenced = 0]
              /\ UNCHANGED refusals
    BY <1>7 DEF AnswerThrottled
  <2> HIDE DEF longer
  <2>1. pause' \in [Procs -> Nat]  BY <2>0, <2>4
  <2>2. CASE Refuse(r, "throttled", longer)
    <3>1. req' \in [Requests -> Calls] /\ refusals' \in Nat  BY <2>0, <2>2, <1>r DEF Verdicts
    <3> QED  BY <2>1, <2>4, <3>1
  <2>3. CASE req' = [req EXCEPT ![r].stage = "release", ![r].since = 0, ![r].fenced = 0] /\ UNCHANGED refusals
    <3>1. req' \in [Requests -> Calls]  BY <2>3, <1>c DEF Calls, Stages
    <3> QED  BY <2>1, <2>3, <2>4, <3>1
  <2> QED  BY <2>2, <2>3, <2>4
<1>8. CASE AnswerRefused(r)  BY <1>8, <1>r DEF AnswerRefused, Verdicts
<1>v. \A again \in BOOLEAN : Recorded(req[r], again) \in Calls
  BY <1>c DEF Recorded, Calls, Stages, Verdicts
<1>9. CASE Record(r)
  <2>1. circuit' \in Circuits  BY <1>9, ReportedType DEF Record
  <2>2. req' = [req EXCEPT ![r] = Recorded(req[r], req[r].verdict = "refused")]  BY <1>9 DEF Record
  <2>3. req' \in [Requests -> Calls]  BY <2>2, <1>v
  <2> QED  BY <1>9, <2>1, <2>3 DEF Record
<1>10. CASE RecordLost(r)
  <2>1. req' = [req EXCEPT ![r] = Recorded(req[r], FALSE)]  BY <1>10 DEF RecordLost
  <2>2. req' \in [Requests -> Calls]  BY <2>1, <1>v
  <2>3. UNCHANGED <<now, lease, circuit, pause, refusals>> /\ faults' = faults + 1
    BY <1>10 DEF RecordLost
  <2> QED  BY <2>2, <2>3
<1>m. Returned(r) \in [Requests -> Calls]
  BY <1>c DEF Returned, NoCall, Calls, Stages, Verdicts
<1>11. CASE Release(r)
  <2>1. lease' \in [Keys -> Leases]  BY <1>11 DEF Release, Leases, Unheld
  <2> QED  BY <1>11, <2>1, <1>m DEF Release
<1>12. ASSUME NEW key \in Keys, ReleaseLost(r, key) PROVE TypeOK'
  <2>1. lease' \in [Keys -> Leases]  BY <1>12 DEF ReleaseLost, Leases, Unheld
  <2> QED  BY <1>12, <2>1, <1>m DEF ReleaseLost
<1>i. [req EXCEPT ![r] = NoCall] \in [Requests -> Calls]
  BY DEF NoCall, Calls, Stages, Verdicts
<1>13. CASE Commit(r)
  <2>1. Succeeded(circuit, req[r].at) \in Circuits  BY <1>c, SucceededType DEF Calls
  <2> QED  BY <1>13, <2>1, <1>i, ReportedType DEF Commit
<1>14. CASE CommitLost(r)  BY <1>14, <1>i DEF CommitLost
<1> QED
  BY <1>1, <1>2, <1>3, <1>4, <1>5, <1>6, <1>7, <1>8, <1>9, <1>10, <1>11, <1>12, <1>13, <1>14 DEF Step

\* TypeOK: every reachable state is well typed.
THEOREM TypeCorrect == Spec => []TypeOK
<1>1. Init => TypeOK
  BY RequestsAssumption DEF Init, TypeOK, Leases, Unheld, ClosedCircuit, Circuits, MaxFailures,
     NoCall, Calls, Stages, Verdicts
<1>2. TypeOK /\ [Next]_vars => TypeOK'
  <2> SUFFICES ASSUME TypeOK, [Next]_vars PROVE TypeOK'  OBVIOUS
  <2>1. ASSUME NEW r \in Requests, Step(r) PROVE TypeOK'  BY <2>1, StepTyped
  <2>2. ASSUME NEW p \in Procs, Crash(p) PROVE TypeOK'
    <3>1. NoCall \in Calls  BY RequestsAssumption DEF NoCall, Calls, Stages, Verdicts
    <3> QED  BY <2>2, <3>1 DEF Crash, TypeOK
  <2>3. CASE Tick  BY <2>3 DEF Tick, Remaining, TypeOK
  <2>4. CASE UNCHANGED vars  BY <2>4 DEF vars, TypeOK
  <2> QED  BY <2>1, <2>2, <2>3, <2>4 DEF Next
<1> QED  BY <1>1, <1>2, PTL DEF Spec
----------------------------------------------------------------------------
(* Who owns a lease.  From the step that takes its slot to the recorded     *)
(* answer a call owns that slot's lease, because RequestMax < Lease; its     *)
(* fence it owns only until the fence expires.                              *)

Busy == {"ready", "sent", "record"}

FenceOf(call) == IF call.board = None THEN "slot0" ELSE call.board

OwnsSlot(r) ==
  req[r].stage \in Busy =>
    /\ req[r].slot \in Slots
    /\ lease[req[r].slot].token = r
    /\ lease[req[r].slot].until = req[r].since + Lease
    /\ now <= req[r].since + RequestMax
    /\ req[r].board = None => req[r].slot = "slot1"

OwnsFence(r) ==
  /\ req[r].stage \in Busy => req[r].fence # None
  /\ req[r].stage \in Busy \cup {"take"} /\ req[r].fence # None =>
       /\ req[r].fence = FenceOf(req[r])
       /\ \/ req[r].fenced <= now
          \/ /\ lease[req[r].fence].token = r
             /\ lease[req[r].fence].until = req[r].fenced

Owned == \A r \in Requests : OwnsSlot(r) /\ OwnsFence(r)

\* A step of q leaves the other calls alone, and touches a lease only when the
\* lease is free or its own; what it writes there is its own token or nothing.
LEMMA StepLocal ==
  ASSUME TypeOK, NEW q \in Requests, Step(q)
  PROVE  /\ now' = now
         /\ \A r \in Requests \ {q} : req'[r] = req[r]
         /\ \A key \in Keys : \/ lease'[key] = lease[key]
                              \/ /\ IsFree(key) \/ lease[key].token = q
                                 /\ lease'[key].token \in {q, None}
<1> USE DEF TypeOK
<1> DEFINE Local == /\ now' = now
                    /\ \A r \in Requests \ {q} : req'[r] = req[r]
                    /\ \A key \in Keys : \/ lease'[key] = lease[key]
                                         \/ /\ IsFree(key) \/ lease[key].token = q
                                            /\ lease'[key].token \in {q, None}
<1>1. ASSUME NEW p \in Procs, NEW b \in Boards \cup {None}, Admit(q, p, b) PROVE Local
  BY <1>1 DEF Admit
<1>2. ASSUME NEW key \in Keys, IsFree(key), lease' = Taken(q, key), now' = now,
             \A r \in Requests \ {q} : req'[r] = req[r]
      PROVE  Local
  BY <1>2 DEF Taken
<1>3. ASSUME TakeFence(q) PROVE Local
  <2> DEFINE key == FenceOf(req[q])
  <2>1. key \in Keys
    <3>1. req[q] \in Calls  OBVIOUS
    <3> QED  BY <3>1 DEF Calls, Keys, Slots, FenceOf
  <2>2. IsFree(key) /\ lease' = Taken(q, key) /\ now' = now
        /\ req' = [req EXCEPT ![q].fence = key, ![q].fenced = now + Lease]
    BY <1>3 DEF TakeFence, FenceOf
  <2>3. \A r \in Requests \ {q} : req'[r] = req[r]  BY <2>2
  <2> HIDE DEF key, Local
  <2> QED  BY <2>1, <2>2, <2>3, <1>2
<1>4. ASSUME NEW key \in Slots, TakeSlot(q, key) PROVE Local
  <2>1. key \in Keys  BY DEF Keys
  <2>2. IsFree(key) /\ lease' = Taken(q, key) /\ now' = now
        /\ \A r \in Requests \ {q} : req'[r] = req[r]
    BY <1>4 DEF TakeSlot
  <2> HIDE DEF Local
  <2> QED  BY <2>1, <2>2, <1>2
<1>5. CASE Dispatch(q) \/ GiveUp(q)  BY <1>5 DEF Dispatch, GiveUp
<1>6. ASSUME NEW verdict, Answer(q, verdict) PROVE Local  BY <1>6 DEF Answer
<1>7. ASSUME NEW p, NEW wait, AnswerThrottled(q, p, wait) PROVE Local  BY <1>7 DEF AnswerThrottled, Refuse
<1>8. CASE AnswerRefused(q)  BY <1>8 DEF AnswerRefused, Refuse
<1>9. CASE Record(q) \/ RecordLost(q)  BY <1>9 DEF Record, RecordLost
<1>10. CASE Release(q)  BY <1>10 DEF Release, Returned, Unheld
<1>11. ASSUME NEW key \in Keys, ReleaseLost(q, key) PROVE Local
  BY <1>11 DEF ReleaseLost, Returned, Unheld
<1>12. CASE Commit(q) \/ CommitLost(q)  BY <1>12 DEF Commit, CommitLost
<1> QED
  BY <1>1, <1>3, <1>4, <1>5, <1>6, <1>7, <1>8, <1>9, <1>10, <1>11, <1>12 DEF Step

\* Nobody else's step takes a busy call's slot, nor a fence before it expires.
LEMMA OthersKeep ==
  ASSUME TypeOK, Owned, NEW q \in Requests, Step(q), NEW r \in Requests, r # q
  PROVE  (OwnsSlot(r) /\ OwnsFence(r))'
<1> DEFINE call == req[r]
<1>1. call \in Calls /\ req'[r] = call /\ now' = now /\ now \in Nat  BY StepLocal DEF TypeOK
<1>2. ASSUME NEW key \in Keys, lease[key].token = r, lease[key].until > now PROVE lease'[key] = lease[key]
  <2>1. lease[key].token # None  BY <1>2, RequestsAssumption
  <2>2. lease[key].until \in Nat  BY DEF TypeOK, Leases
  <2>3. ~IsFree(key)  BY <1>1, <1>2, <2>1, <2>2 DEF IsFree
  <2> QED  BY <1>2, <2>3, StepLocal
<1>3. OwnsSlot(r) /\ OwnsFence(r)  BY DEF Owned
<1>4. OwnsSlot(r)'
  <2> SUFFICES ASSUME call.stage \in Busy PROVE OwnsSlot(r)'  BY <1>1 DEF OwnsSlot
  <2>1. call.slot \in Keys /\ lease[call.slot].token = r /\ lease[call.slot].until = call.since + Lease
        /\ now <= call.since + RequestMax
    BY <1>3 DEF OwnsSlot, Keys
  <2>2. call.since \in Nat  BY <1>1 DEF Calls
  <2>3. lease[call.slot].until > now  BY <1>1, <2>1, <2>2, RequestsAssumption
  <2>4. lease'[call.slot] = lease[call.slot]  BY <2>1, <2>3, <1>2
  <2> QED  BY <1>1, <1>3, <2>4 DEF OwnsSlot
<1>5. OwnsFence(r)'
  <2> SUFFICES ASSUME call.stage \in Busy \cup {"take"}, call.fence # None, ~(call.fenced <= now)
               PROVE  lease'[call.fence] = lease[call.fence]
    BY <1>1, <1>3 DEF OwnsFence
  <2>1. call.fence \in Keys /\ call.fenced \in Nat  BY <1>1 DEF Calls
  <2>2. lease[call.fence].token = r /\ lease[call.fence].until = call.fenced  BY <1>3 DEF OwnsFence
  <2> QED  BY <1>1, <2>1, <2>2, <1>2
<1> QED  BY <1>4, <1>5

\* A call's own step keeps what it owns, and gets what it must own.
LEMMA OwnStepKeeps ==
  ASSUME TypeOK, Owned, NEW r \in Requests, Step(r)
  PROVE  (OwnsSlot(r) /\ OwnsFence(r))'
<1> DEFINE call == req[r]
<1>c. call \in Calls /\ now \in Nat /\ req \in [Requests -> Calls] /\ lease \in [Keys -> Leases]
  BY DEF TypeOK
<1>o. OwnsSlot(r) /\ OwnsFence(r)  BY DEF Owned
<1>e. ASSUME req'[r].stage \notin Busy \cup {"take"} PROVE (OwnsSlot(r) /\ OwnsFence(r))'
  BY <1>e DEF OwnsSlot, OwnsFence, Busy
<1>s. ASSUME call.stage \in Busy, lease' = lease, now' = now,
             req'[r].slot = call.slot, req'[r].since = call.since, req'[r].fence = call.fence,
             req'[r].fenced = call.fenced, req'[r].board = call.board
      PROVE  (OwnsSlot(r) /\ OwnsFence(r))'
  BY <1>s, <1>o DEF OwnsSlot, OwnsFence, FenceOf
<1>1. ASSUME NEW p \in Procs, NEW b \in Boards \cup {None}, Admit(r, p, b)
      PROVE  (OwnsSlot(r) /\ OwnsFence(r))'
  <2>1. req'[r].stage = "take" /\ req'[r].fence = None  BY <1>1, <1>c DEF Admit, NoCall
  <2> QED  BY <2>1 DEF OwnsSlot, OwnsFence, Busy
<1>2. CASE TakeFence(r)
  <2> DEFINE key == FenceOf(call)
  <2>1. key \in Keys  BY <1>c DEF Calls, Keys, Slots, FenceOf
  <2>2. lease' = Taken(r, key) /\ now' = now /\ call.stage = "take"
        /\ req' = [req EXCEPT ![r].fence = key, ![r].fenced = now + Lease]
    BY <1>2 DEF TakeFence, FenceOf
  <2> HIDE DEF key
  <2>3. req'[r].stage = "take" /\ req'[r].fence = key /\ req'[r].fenced = now + Lease
        /\ req'[r].board = call.board
    BY <2>2, <1>c DEF Calls
  <2>4. lease'[key].token = r /\ lease'[key].until = now + Lease
    BY <2>1, <2>2, <1>c DEF Taken
  <2>5. key = FenceOf(req'[r])  BY <2>3 DEF key, FenceOf
  <2> QED  BY <2>3, <2>4, <2>5 DEF OwnsSlot, OwnsFence, Busy, FenceOf
<1>3. ASSUME NEW key \in Slots, TakeSlot(r, key) PROVE (OwnsSlot(r) /\ OwnsFence(r))'
  <2>1. key \in Keys  BY DEF Keys
  <2>2. /\ call.stage = "take" /\ call.fence # None /\ (call.board = None => key = "slot1")
        /\ lease' = Taken(r, key) /\ now' = now
        /\ req' = [req EXCEPT ![r].stage = "ready", ![r].slot = key, ![r].since = now]
    BY <1>3 DEF TakeSlot
  <2>3. /\ req'[r].stage = "ready" /\ req'[r].slot = key /\ req'[r].since = now
        /\ req'[r].fence = call.fence /\ req'[r].fenced = call.fenced /\ req'[r].board = call.board
    BY <2>2, <1>c DEF Calls
  <2>4. lease'[key].token = r /\ lease'[key].until = now + Lease
    BY <2>1, <2>2, <1>c DEF Taken
  <2>5. call.fence = FenceOf(call)  BY <2>2, <1>o DEF OwnsFence
  <2>6. call.fence # key  BY <2>2, <2>5, <1>c, RequestsAssumption DEF Calls, FenceOf, Slots
  <2>7. call.fence \in Keys  BY <2>2, <1>c DEF Calls
  <2>8. lease'[call.fence] = lease[call.fence]  BY <2>1, <2>2, <2>6, <2>7, <1>c DEF Taken
  <2>9. now <= now + RequestMax  BY <1>c, RequestsAssumption
  <2>10. OwnsSlot(r)'  BY <2>2, <2>3, <2>4, <2>9 DEF OwnsSlot
  <2>11. OwnsFence(r)'  BY <2>2, <2>3, <2>8, <1>o DEF OwnsFence, FenceOf
  <2> QED  BY <2>10, <2>11
<1>4. CASE Dispatch(r)
  <2>1. call.stage = "ready" /\ lease' = lease /\ now' = now /\ req' = [req EXCEPT ![r].stage = "sent"]
    BY <1>4 DEF Dispatch
  <2>2. /\ req'[r].slot = call.slot /\ req'[r].since = call.since /\ req'[r].fence = call.fence
        /\ req'[r].fenced = call.fenced /\ req'[r].board = call.board
    BY <2>1, <1>c DEF Calls
  <2> QED  BY <2>1, <2>2, <1>s DEF Busy
<1>r. ASSUME NEW verdict, NEW wait, call.stage = "sent", lease' = lease, now' = now, Refuse(r, verdict, wait)
      PROVE  (OwnsSlot(r) /\ OwnsFence(r))'
  <2>1. req' = [req EXCEPT ![r].stage = "record", ![r].at = now, ![r].retryAfter = wait, ![r].verdict = verdict]
    BY <1>r DEF Refuse
  <2>2. /\ req'[r].slot = call.slot /\ req'[r].since = call.since /\ req'[r].fence = call.fence
        /\ req'[r].fenced = call.fenced /\ req'[r].board = call.board
    BY <2>1, <1>c DEF Calls
  <2> QED  BY <2>2, <1>r, <1>s DEF Busy
<1>5. CASE GiveUp(r)
  <2>1. req'[r].stage = "release"  BY <1>5, <1>c DEF GiveUp, Calls
  <2> QED  BY <2>1, <1>e DEF Busy
<1>6. ASSUME NEW verdict, Answer(r, verdict) PROVE (OwnsSlot(r) /\ OwnsFence(r))'
  <2>1. req'[r].stage = "release"  BY <1>6, <1>c DEF Answer, Calls
  <2> QED  BY <2>1, <1>e DEF Busy
<1>7. ASSUME NEW p, NEW wait, AnswerThrottled(r, p, wait) PROVE (OwnsSlot(r) /\ OwnsFence(r))'
  <2>1. ASSUME NEW longer, Refuse(r, "throttled", longer) PROVE (OwnsSlot(r) /\ OwnsFence(r))'
    BY <2>1, <1>7, <1>r DEF AnswerThrottled
  <2>2. CASE req' = [req EXCEPT ![r].stage = "release", ![r].since = 0, ![r].fenced = 0]
    <3>1. req'[r].stage = "release"  BY <2>2, <1>c DEF Calls
    <3> QED  BY <3>1, <1>e DEF Busy
  <2> QED  BY <2>1, <2>2, <1>7 DEF AnswerThrottled
<1>8. CASE AnswerRefused(r)  BY <1>8, <1>r DEF AnswerRefused
<1>9. CASE Record(r) \/ RecordLost(r)
  <2>1. \E again \in BOOLEAN : req' = [req EXCEPT ![r] = Recorded(call, again)]
    BY <1>9 DEF Record, RecordLost
  <2>2. \A again \in BOOLEAN : Recorded(call, again).stage = "release"
    BY <1>c DEF Recorded, Calls
  <2>3. req'[r].stage = "release"  BY <2>1, <2>2, <1>c
  <2> QED  BY <2>3, <1>e DEF Busy
<1>10. ASSUME req' = Returned(r) PROVE (OwnsSlot(r) /\ OwnsFence(r))'
  <2>1. req'[r].stage \in {"idle", "commit"}  BY <1>10, <1>c DEF Returned, NoCall
  <2> QED  BY <2>1, <1>e DEF Busy
<1>11. CASE Commit(r) \/ CommitLost(r)
  <2>1. req'[r].stage = "idle"  BY <1>11, <1>c DEF Commit, CommitLost, NoCall
  <2> QED  BY <2>1, <1>e DEF Busy
<1>12. CASE Release(r)  BY <1>12, <1>10 DEF Release
<1>13. ASSUME NEW key \in Keys, ReleaseLost(r, key) PROVE (OwnsSlot(r) /\ OwnsFence(r))'
  BY <1>13, <1>10 DEF ReleaseLost
<1> QED
  BY <1>1, <1>2, <1>3, <1>4, <1>5, <1>6, <1>7, <1>8, <1>9, <1>11, <1>12, <1>13 DEF Step

\* Every busy call owns its slot, and its fence until that has expired.
THEOREM LeasesOwned == Spec => []Owned
<1>1. Init => Owned
  BY DEF Init, NoCall, Owned, OwnsSlot, OwnsFence, Busy
<1>2. TypeOK /\ Owned /\ [Next]_vars => Owned'
  <2> SUFFICES ASSUME TypeOK, Owned, [Next]_vars, NEW r \in Requests
               PROVE  (OwnsSlot(r) /\ OwnsFence(r))'
    BY DEF Owned
  <2>o. OwnsSlot(r) /\ OwnsFence(r)  BY DEF Owned
  <2>1. ASSUME NEW q \in Requests, Step(q) PROVE (OwnsSlot(r) /\ OwnsFence(r))'
    BY <2>1, OthersKeep, OwnStepKeeps
  <2>2. ASSUME NEW p \in Procs, Crash(p) PROVE (OwnsSlot(r) /\ OwnsFence(r))'
    <3>1. CASE req'[r] = NoCall  BY <3>1 DEF NoCall, OwnsSlot, OwnsFence, Busy
    <3>2. CASE req'[r] = req[r]
      BY <2>2, <2>o, <3>2 DEF Crash, OwnsSlot, OwnsFence, FenceOf
    <3> QED  BY <2>2, <3>1, <3>2 DEF Crash
  <2>3. CASE Tick
    <3>1. lease' = lease /\ req' = req /\ now' = now + 1 /\ now \in Nat
      BY <2>3 DEF Tick, TypeOK
    <3>2. req[r] \in Calls  BY DEF TypeOK
    <3>3. req[r].stage \in Busy => now < req[r].since + RequestMax  BY <2>3 DEF Tick, Busy
    <3>4. req[r].since \in Nat /\ req[r].fenced \in Nat  BY <3>2 DEF Calls
    <3>5. OwnsSlot(r)'  BY <3>1, <3>3, <3>4, <2>o, RequestsAssumption DEF OwnsSlot
    <3>6. OwnsFence(r)'  BY <3>1, <3>4, <2>o DEF OwnsFence, FenceOf
    <3> QED  BY <3>5, <3>6
  <2>4. CASE UNCHANGED vars
    BY <2>4, <2>o DEF vars, OwnsSlot, OwnsFence, FenceOf
  <2> QED  BY <2>1, <2>2, <2>3, <2>4 DEF Next
<1> QED  BY <1>1, <1>2, TypeCorrect, PTL DEF Spec

\* AtMostTwo: however many processes share the platform, whatever they crash in
\* the middle of, no three requests are outstanding.
THEOREM TwoSlots == Spec => []AtMostTwo
<1>1. Owned => AtMostTwo
  <2> SUFFICES ASSUME Owned, NEW q \in Requests, NEW r \in Requests, NEW s \in Requests,
                      Outstanding(q), Outstanding(r), Outstanding(s)
               PROVE  q = r \/ r = s \/ q = s
    BY DEF AtMostTwo
  <2>1. \A t \in {q, r, s} : req[t].slot \in Slots /\ lease[req[t].slot].token = t
    BY DEF Owned, OwnsSlot, Outstanding, Busy
  <2> QED  BY <2>1 DEF Slots
<1> QED  BY <1>1, LeasesOwned, PTL

\* FenceHolds: requests that should exclude each other overlap only when one of
\* them outwaited its own fence.
THEOREM OneFence == Spec => []FenceHolds
<1>1. Owned => FenceHolds
  <2> SUFFICES ASSUME Owned, NEW q \in Requests, NEW r \in Requests, q # r,
                      Outstanding(q), Outstanding(r), Exclude(q, r),
                      ~(req[q].fenced <= now), ~(req[r].fenced <= now)
               PROVE  FALSE
    BY DEF FenceHolds
  <2>1. \A t \in {q, r} : /\ lease[FenceOf(req[t])].token = t
                          /\ lease[req[t].slot].token = t /\ req[t].slot \in Slots
                          /\ req[t].board = None => req[t].slot = "slot1"
    BY DEF Owned, OwnsSlot, OwnsFence, Outstanding, Busy
  <2>2. CASE req[q].board = req[r].board  BY <2>1, <2>2 DEF FenceOf
  <2>3. ASSUME NEW t \in {q, r}, NEW u \in {q, r}, t # u, req[t].board = None PROVE FALSE
    <3>1. lease["slot0"].token = t /\ lease["slot1"].token = t  BY <2>1, <2>3 DEF FenceOf
    <3> QED  BY <2>1, <2>3, <3>1 DEF Slots
  <2> QED  BY <2>2, <2>3 DEF Exclude
<1> QED  BY <1>1, LeasesOwned, PTL
----------------------------------------------------------------------------
(* Leases are unwound.                                                      *)

Holding == {"take", "ready", "sent", "record", "release"}

HasLease(r, key) == req[r].stage \in Holding /\ key \in {req[r].fence, req[r].slot}

NoSlotYet == \A r \in Requests : req[r].stage = "take" => req[r].slot = None

Unwound == NoLeak /\ NoSlotYet

LEMMA StepUnwinds ==
  ASSUME TypeOK, Unwound, NEW q \in Requests, Step(q), faults' = 0
  PROVE  Unwound'
<1> DEFINE call == req[q]
<1>c. call \in Calls /\ req \in [Requests -> Calls] /\ lease \in [Keys -> Leases] /\ faults \in Nat
  BY DEF TypeOK
<1>k. None \notin Keys  BY RequestsAssumption
<1>l. ASSUME faults' = faults, NEW key \in Keys, lease[key].token # None
      PROVE  HasLease(lease[key].token, key)
  <2>1. faults = 0  BY <1>l
  <2> QED  BY <2>1, <1>l DEF Unwound, NoLeak, HasLease, Holding
<1>t. call.stage = "take" => call.slot = None  BY DEF Unwound, NoSlotYet
\* What remains to show: the caller still has each lease that carries its token.
<1> DEFINE Goal == /\ faults' = faults
                   /\ \A key \in Keys : lease'[key].token = q => HasLease(q, key)'
                   /\ req'[q].stage = "take" => req'[q].slot = None
<1>i. ASSUME call.stage \in Holding, lease' = lease, faults' = faults,
             req'[q].stage \in Holding \ {"take"}, req'[q].fence = call.fence, req'[q].slot = call.slot
      PROVE  Goal
  <2>1. q # None  BY RequestsAssumption
  <2> QED  BY <2>1, <1>i, <1>l DEF HasLease
<1>1. ASSUME NEW p \in Procs, NEW b \in Boards \cup {None}, Admit(q, p, b) PROVE Goal
  <2>1. req'[q].slot = None  BY <1>1, <1>c DEF Admit, NoCall
  <2> QED  BY <1>1, <2>1 DEF Admit
<1>2. ASSUME TakeFence(q) PROVE Goal
  <2> DEFINE mine == IF call.board = None THEN "slot0" ELSE call.board
  <2>1. /\ call.stage = "take" /\ call.fence = None /\ faults' = faults /\ lease' = Taken(q, mine)
        /\ req' = [req EXCEPT ![q].fence = mine, ![q].fenced = now + Lease]
    BY <1>2 DEF TakeFence
  <2> HIDE DEF mine
  <2>2. req'[q].stage = "take" /\ req'[q].fence = mine /\ req'[q].slot = None
    BY <2>1, <1>c, <1>t DEF Calls
  <2>3. ASSUME NEW key \in Keys, lease'[key].token = q, key # mine PROVE FALSE
    <3>1. lease[key].token = q  BY <2>1, <2>3, <1>c DEF Taken
    <3>2. HasLease(q, key)  BY <2>1, <3>1, <1>l, RequestsAssumption
    <3> QED  BY <3>2, <2>1, <1>t, <1>k DEF HasLease
  <2> QED  BY <2>1, <2>2, <2>3 DEF HasLease, Holding
<1>3. ASSUME NEW mine \in Slots, TakeSlot(q, mine) PROVE Goal
  <2>1. /\ call.stage = "take" /\ faults' = faults /\ lease' = Taken(q, mine)
        /\ req' = [req EXCEPT ![q].stage = "ready", ![q].slot = mine, ![q].since = now]
    BY <1>3 DEF TakeSlot
  <2>2. req'[q].stage = "ready" /\ req'[q].fence = call.fence /\ req'[q].slot = mine
    BY <2>1, <1>c DEF Calls
  <2>3. ASSUME NEW key \in Keys, lease'[key].token = q, key # mine PROVE key = call.fence
    <3>1. lease[key].token = q  BY <2>1, <2>3, <1>c DEF Taken
    <3>2. HasLease(q, key)  BY <2>1, <3>1, <1>l, RequestsAssumption
    <3> QED  BY <3>2, <2>1, <1>t, <1>k DEF HasLease
  <2> QED  BY <2>1, <2>2, <2>3 DEF HasLease, Holding
<1>4. ASSUME Dispatch(q) PROVE Goal
  <2>1. req'[q].stage = "sent" /\ req'[q].fence = call.fence /\ req'[q].slot = call.slot
    BY <1>4, <1>c DEF Dispatch, Calls
  <2> HIDE DEF Goal
  <2> QED  BY <2>1, <1>4, <1>i DEF Dispatch, Holding
<1>5. ASSUME GiveUp(q) PROVE Goal
  <2>1. req'[q].stage = "release" /\ req'[q].fence = call.fence /\ req'[q].slot = call.slot
    BY <1>5, <1>c DEF GiveUp, Calls
  <2> HIDE DEF Goal
  <2> QED  BY <2>1, <1>5, <1>i DEF GiveUp, Holding
<1>6. ASSUME NEW verdict, Answer(q, verdict) PROVE Goal
  <2>1. req'[q].stage = "release" /\ req'[q].fence = call.fence /\ req'[q].slot = call.slot
    BY <1>6, <1>c DEF Answer, Calls
  <2> HIDE DEF Goal
  <2> QED  BY <2>1, <1>6, <1>i DEF Answer, Holding
<1>r. ASSUME NEW verdict, NEW wait, Refuse(q, verdict, wait), call.stage = "sent", lease' = lease, faults' = faults
      PROVE  Goal
  <2>1. req'[q].stage = "record" /\ req'[q].fence = call.fence /\ req'[q].slot = call.slot
    BY <1>r, <1>c DEF Refuse, Calls
  <2> HIDE DEF Goal
  <2> QED  BY <2>1, <1>r, <1>i DEF Holding
<1>7. ASSUME NEW p, NEW wait, AnswerThrottled(q, p, wait) PROVE Goal
  <2> HIDE DEF Goal
  <2>1. call.stage = "sent" /\ lease' = lease /\ faults' = faults  BY <1>7 DEF AnswerThrottled
  <2>2. ASSUME NEW longer, Refuse(q, "throttled", longer) PROVE Goal  BY <2>1, <2>2, <1>r
  <2>3. CASE req' = [req EXCEPT ![q].stage = "release", ![q].since = 0, ![q].fenced = 0]
    <3>1. req'[q].stage = "release" /\ req'[q].fence = call.fence /\ req'[q].slot = call.slot
      BY <2>3, <1>c DEF Calls
    <3> QED  BY <3>1, <2>1, <1>i DEF Holding
  <2> QED  BY <2>2, <2>3, <1>7 DEF AnswerThrottled
<1>8. ASSUME AnswerRefused(q) PROVE Goal
  <2> HIDE DEF Goal
  <2> QED  BY <1>8, <1>r DEF AnswerRefused
<1>9. ASSUME Record(q) PROVE Goal
  <2>1. call.stage = "record" /\ lease' = lease /\ faults' = faults
        /\ req' = [req EXCEPT ![q] = Recorded(call, call.verdict = "refused")]
    BY <1>9 DEF Record
  <2>2. req'[q].stage = "release" /\ req'[q].fence = call.fence /\ req'[q].slot = call.slot
    BY <2>1, <1>c DEF Recorded, Calls
  <2> HIDE DEF Goal
  <2> QED  BY <2>1, <2>2, <1>i DEF Holding
<1>10. ASSUME Release(q) PROVE Goal
  <2>1. call.stage = "release" /\ faults' = faults /\ req' = Returned(q)
        /\ lease' = [key \in Keys |-> IF key \in Held(q) /\ lease[key].token = q THEN Unheld ELSE lease[key]]
    BY <1>10 DEF Release
  <2>2. req'[q].stage # "take"  BY <2>1, <1>c DEF Returned, NoCall
  <2>3. ASSUME NEW key \in Keys, lease'[key].token = q PROVE FALSE
    <3>1. q # None  BY RequestsAssumption
    <3>2. lease[key].token = q /\ key \notin Held(q)  BY <2>1, <2>3, <3>1 DEF Unheld
    <3>3. HasLease(q, key)  BY <2>1, <3>1, <3>2, <1>l
    <3> QED  BY <3>2, <3>3, <1>k DEF HasLease, Held
  <2> QED  BY <2>1, <2>2, <2>3
<1>11. ASSUME Commit(q) PROVE Goal
  <2>1. call.stage = "commit" /\ faults' = faults /\ lease' = lease /\ req' = [req EXCEPT ![q] = NoCall]
    BY <1>11 DEF Commit
  <2>2. req'[q].stage = "idle"  BY <2>1, <1>c DEF NoCall
  <2>3. ASSUME NEW key \in Keys, lease'[key].token = q PROVE FALSE
    <3>1. HasLease(q, key)  BY <2>1, <2>3, <1>l, RequestsAssumption
    <3> QED  BY <3>1, <2>1 DEF HasLease, Holding
  <2> QED  BY <2>1, <2>2, <2>3
<1>12. ~RecordLost(q) /\ ~CommitLost(q) /\ \A key \in Keys : ~ReleaseLost(q, key)
  <2>1. faults' # faults + 1  BY <1>c
  <2> QED  BY <2>1 DEF RecordLost, CommitLost, ReleaseLost
<1>13. Goal
  <2> HIDE DEF Goal
  <2> QED  BY <1>1, <1>2, <1>3, <1>4, <1>5, <1>6, <1>7, <1>8, <1>9, <1>10, <1>11, <1>12 DEF Step
<1>14. NoSlotYet'
  BY <1>13, StepLocal DEF Unwound, NoSlotYet
<1>15. ASSUME NEW key \in Keys, lease'[key].token # None PROVE HasLease(lease[key].token, key)'
  <2>1. CASE lease'[key].token = q  BY <2>1, <1>13
  <2>2. CASE lease'[key].token # q
    <3>1. lease'[key] = lease[key]  BY <2>2, <1>15, StepLocal
    <3>2. HasLease(lease[key].token, key)  BY <3>1, <1>15, <1>13, <1>l
    <3>3. lease[key].token \in Requests  BY <3>1, <1>15, <1>c DEF Leases
    <3>4. req'[lease[key].token] = req[lease[key].token]  BY <2>2, <3>1, <3>3, StepLocal
    <3> QED  BY <3>1, <3>2, <3>4 DEF HasLease
  <2> QED  BY <2>1, <2>2
<1> QED  BY <1>14, <1>15 DEF Unwound, NoLeak, HasLease, Holding

\* NoLeak: until something crashes or a write is lost, every lease in the
\* database belongs to a call that will still release it.
THEOREM LeasesUnwound == Spec => []NoLeak
<1>1. Init => Unwound
  BY DEF Init, Unheld, NoCall, Unwound, NoLeak, NoSlotYet
<1>2. TypeOK /\ (faults = 0 => Unwound) /\ [Next]_vars => (faults = 0 => Unwound)'
  <2> SUFFICES ASSUME TypeOK, faults = 0 => Unwound, [Next]_vars, faults' = 0 PROVE Unwound'
    OBVIOUS
  <2>f. faults \in Nat  BY DEF TypeOK
  <2>1. ASSUME NEW q \in Requests, Step(q) PROVE Unwound'
    <3>1. faults' = faults \/ faults' = faults + 1
      BY <2>1 DEF Step, Admit, TakeFence, TakeSlot, Dispatch, GiveUp, Answer, AnswerThrottled,
         AnswerRefused, Record, RecordLost, Release, ReleaseLost, Commit, CommitLost
    <3>2. faults = 0  BY <3>1, <2>f
    <3> QED  BY <2>1, <3>2, StepUnwinds
  <2>2. ASSUME NEW p \in Procs, Crash(p) PROVE Unwound'  BY <2>2, <2>f DEF Crash
  <2>3. CASE Tick  BY <2>3, <2>f DEF Tick, Unwound, NoLeak, NoSlotYet
  <2>4. CASE UNCHANGED vars  BY <2>4 DEF vars, Unwound, NoLeak, NoSlotYet
  <2> QED  BY <2>1, <2>2, <2>3, <2>4 DEF Next
<1>3. (faults = 0 => Unwound) => NoLeak  BY DEF Unwound, NoLeak
<1> QED  BY <1>1, <1>2, <1>3, TypeCorrect, PTL DEF Spec
----------------------------------------------------------------------------
(* Cooldowns.  A report carries a time that has passed, so a cooldown still *)
(* running now was running then.                                            *)

Past == \A r \in Requests : req[r].stage \in {"record", "commit"} => req[r].at <= now

\* A failure reported with a past time keeps a cooldown that runs now.
LEMMA FailureProtects ==
  ASSUME NEW c \in Circuits, NEW limited \in BOOLEAN, NEW at \in Nat, NEW wait \in Nat,
         at <= now, now \in Nat,
         IsOpen(c, now)
  PROVE  Failed(c, limited, at, wait).open /\ Failed(c, limited, at, wait).until >= c.until
<1> DEFINE proposal == Proposal(c, limited, at, wait)
<1>1. c.until \in Nat /\ c.open  BY DEF Circuits, IsOpen
<1>2. IsOpen(c, at)  BY <1>1 DEF IsOpen
<1>3. proposal \in [open : BOOLEAN, until : Nat]  BY ProposalType
<1>4. Greater(c.until, proposal.until) >= c.until
  <2> HIDE DEF proposal
  <2> QED  BY <1>1, <1>3 DEF Greater
<1>5. Failed(c, limited, at, wait).open /\ Failed(c, limited, at, wait).until = Greater(c.until, proposal.until)
  BY <1>2 DEF Failed, Merged
<1> QED  BY <1>4, <1>5

\* Reports are made of the past.
LEMMA PastHolds == Spec => []Past
<1>1. Init => Past  BY DEF Init, NoCall, Past
<1>2. TypeOK /\ Past /\ [Next]_vars => Past'
  <2> SUFFICES ASSUME TypeOK, Past, [Next]_vars, NEW r \in Requests,
                      req'[r].stage \in {"record", "commit"}
               PROVE  req'[r].at <= now'
    BY DEF Past
  <2>c. req[r] \in Calls /\ req \in [Requests -> Calls] /\ now \in Nat  BY DEF TypeOK
  <2>n. now <= now  BY <2>c
  <2>1. ASSUME NEW q \in Requests, Step(q), q # r PROVE req'[r].at <= now'
    BY <2>1, StepLocal DEF Past
  <2>2. ASSUME Step(r) PROVE req'[r].at <= now'
    <3>1. CASE \E p \in Procs, b \in Boards \cup {None} : Admit(r, p, b)
      BY <3>1, <2>c DEF Admit, NoCall
    <3>2. CASE TakeFence(r)  BY <3>2, <2>c DEF TakeFence, Calls
    <3>3. CASE \E key \in Slots : TakeSlot(r, key)  BY <3>3, <2>c DEF TakeSlot, Calls
    <3>4. CASE Dispatch(r) \/ GiveUp(r) \/ \E verdict \in {"ok", "none"} : Answer(r, verdict)
      BY <3>4, <2>c DEF Dispatch, GiveUp, Answer, Calls
    <3>5. ASSUME NEW verdict, NEW wait, Refuse(r, verdict, wait) PROVE req'[r].at = now
      BY <3>5, <2>c DEF Refuse, Calls
    <3>6. CASE AnswerRefused(r)
      <4>1. req'[r].at = now /\ now' = now  BY <3>5, <3>6 DEF AnswerRefused
      <4> QED  BY <4>1, <2>n
    <3>7. ASSUME NEW p \in Procs, NEW wait \in RetryAfters, AnswerThrottled(r, p, wait)
          PROVE  req'[r].at <= now'
      <4>1. now' = now  BY <3>7 DEF AnswerThrottled
      <4>2. ASSUME NEW longer, Refuse(r, "throttled", longer) PROVE req'[r].at <= now'
        BY <4>1, <4>2, <3>5, <2>n
      <4>3. CASE req' = [req EXCEPT ![r].stage = "release", ![r].since = 0, ![r].fenced = 0]
        BY <4>3, <2>c DEF Calls
      <4> QED  BY <4>2, <4>3, <3>7 DEF AnswerThrottled
    <3>8. CASE Record(r) \/ RecordLost(r)
      <4>1. \E again \in BOOLEAN : req' = [req EXCEPT ![r] = Recorded(req[r], again)]
        BY <3>8 DEF Record, RecordLost
      <4>2. \A again \in BOOLEAN : Recorded(req[r], again).stage = "release"
        BY <2>c DEF Recorded, Calls
      <4>3. req'[r].stage = "release"  BY <4>1, <4>2, <2>c
      <4> QED  BY <4>3
    <3>9. CASE Release(r) \/ \E key \in Keys : ReleaseLost(r, key)
      <4>1. req' = Returned(r) /\ now' = now  BY <3>9 DEF Release, ReleaseLost
      <4>2. req'[r].at = now  BY <4>1, <2>c DEF Returned, NoCall
      <4> QED  BY <4>1, <4>2, <2>n
    <3>10. CASE Commit(r) \/ CommitLost(r)  BY <3>10, <2>c DEF Commit, CommitLost, NoCall
    <3> QED  BY <2>2, <3>1, <3>2, <3>3, <3>4, <3>6, <3>7, <3>8, <3>9, <3>10 DEF Step
  <2>3. ASSUME NEW p \in Procs, Crash(p) PROVE req'[r].at <= now'
    <3>1. now' = now /\ req'[r] \in {NoCall, req[r]}  BY <2>3 DEF Crash
    <3>2. req'[r] # NoCall  BY DEF NoCall
    <3> QED  BY <3>1, <3>2 DEF Past
  <2>4. CASE Tick
    <3>1. req[r].at <= now /\ now' = now + 1 /\ req' = req  BY <2>4 DEF Tick, Past
    <3>2. req[r].at \in Nat  BY <2>c DEF Calls
    <3> QED  BY <3>1, <3>2, <2>c
  <2>5. CASE UNCHANGED vars  BY <2>5 DEF vars, Past
  <2> QED  BY <2>1, <2>2, <2>3, <2>4, <2>5 DEF Next
<1> QED  BY <1>1, <1>2, TypeCorrect, PTL DEF Spec

\* ProtectionKept: whatever reports commit, in whatever order and however late,
\* a running cooldown is neither closed nor shortened.
THEOREM CooldownsKept == Spec => ProtectionKept
<1>1. TypeOK /\ Past /\ [Next]_vars
        => [IsOpen(circuit, now) => circuit'.open /\ circuit'.until >= circuit.until]_vars
  <2> SUFFICES ASSUME TypeOK, Past, [Next]_vars, IsOpen(circuit, now)
               PROVE  circuit'.open /\ circuit'.until >= circuit.until
    OBVIOUS
  <2>c. circuit \in Circuits /\ now \in Nat  BY DEF TypeOK
  <2>u. circuit.until \in Nat /\ circuit.open  BY <2>c DEF Circuits, IsOpen
  <2>1. CASE circuit' = circuit  BY <2>1, <2>u
  <2>r. ASSUME NEW r \in Requests, req[r].stage \in {"record", "commit"}
        PROVE  Reported(r).open /\ Reported(r).until >= circuit.until
    <3>1. req[r].at \in Nat /\ req[r].at <= now
      <4>1. req[r] \in Calls  BY DEF TypeOK
      <4> QED  BY <4>1, <2>r DEF Calls, Past
    <3>2. CASE FailureApplies(circuit, req[r].at)
      <4> DEFINE limited == req[r].verdict = "throttled"
      <4>1. req[r] \in Calls  BY DEF TypeOK
      <4>3. req[r].retryAfter \in Nat  BY <4>1 DEF Calls
      <4>4. limited \in BOOLEAN  OBVIOUS
      <4>5. Reported(r) = Failed(circuit, limited, req[r].at, req[r].retryAfter)
        BY <3>2 DEF Reported
      <4> HIDE DEF limited
      <4> QED  BY <3>1, <4>3, <4>4, <4>5, <2>c, FailureProtects
    <3>3. CASE ~FailureApplies(circuit, req[r].at)  BY <3>3, <2>u DEF Reported
    <3> QED  BY <3>2, <3>3
  <2>2. ASSUME NEW r \in Requests, Record(r) PROVE circuit'.open /\ circuit'.until >= circuit.until
    BY <2>2, <2>r DEF Record
  <2>3. ASSUME NEW r \in Requests, Commit(r) PROVE circuit'.open /\ circuit'.until >= circuit.until
    <3>1. req[r].at \in Nat /\ req[r].at <= now
      <4>1. req[r] \in Calls  BY DEF TypeOK
      <4> QED  BY <4>1, <2>3 DEF Calls, Past, Commit
    <3>2. IsOpen(circuit, req[r].at)  BY <3>1, <2>c, <2>u DEF IsOpen
    <3>3. Succeeded(circuit, req[r].at) = circuit  BY <3>2 DEF Succeeded, SuccessApplies
    <3> QED  BY <2>3, <2>r, <2>u, <3>3 DEF Commit
  <2>4. circuit' = circuit \/ \E r \in Requests : Record(r) \/ Commit(r)
    BY DEF Next, Step, vars, Admit, TakeFence, TakeSlot, Dispatch, GiveUp, Answer, AnswerThrottled,
       AnswerRefused, RecordLost, Release, ReleaseLost, CommitLost, Crash, Tick
  <2> QED  BY <2>1, <2>2, <2>3, <2>4
<1> QED  BY <1>1, TypeCorrect, PastHolds, PTL DEF Spec, ProtectionKept
=============================================================================
