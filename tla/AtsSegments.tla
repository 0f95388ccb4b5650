----------------------------- MODULE AtsSegments -----------------------------
(***************************************************************************)
(* Publication and processing of sealed segments: publishReadyAtsV2-       *)
(* Segments, and the processing turns that the run loop and ingestJobs     *)
(* make of a claimed segment.                                              *)
(*                                                                         *)
(* A turn walks the items from the cursor it read when it claimed the      *)
(* segment (`base`); `done` of them are reconciled, `erred` of those ended *)
(* in a processing error.  Items run in concurrent waves, so the posting   *)
(* of a later item can reach the Job tables before the cursor covers it.   *)
(***************************************************************************)
EXTENDS AtsBatch

ProcRows ==
  [segment : SegmentOrdinals \cup {None}, base : 0 .. SegmentSize,
   done : 0 .. SegmentSize, erred : 0 .. SegmentSize]

NoTurn == [segment |-> None, base |-> 0, done |-> 0, erred |-> 0]

ManifestIntact(s) == \A o \in ItemsOf(s) : item[o].state = "terminal"

\* publishReadyAtsV2Segments, its gate open: some of the sealed segments.
Publish(chosen) ==
  /\ chosen # {}
  /\ chosen \subseteq {s \in SegmentOrdinals : segment[s].status = "sealed"}
  /\ segment' = [s \in SegmentOrdinals |->
                   IF s \in chosen THEN [segment[s] EXCEPT !.status = "published"]
                   ELSE segment[s]]
  /\ batch' = [batch EXCEPT
                 !.published = @ + Cardinality({o \in Ordinals : o \div SegmentSize \in chosen
                                     /\ o \in ItemsOf(o \div SegmentSize)})]
  /\ UNCHANGED <<total, page, item, receipt, claim, proc, handled, glitches, errors>>

ClaimableSegment(s) ==
  \/ segment[s].status = "published" /\ ~segment[s].held
  \/ segment[s].status = "processing" /\ segment[s].lease = 0

\* claimNextAtsV2Segment: a claim whose manifest does not verify throws and
\* leaves the segment to its lease.
ClaimSegment(p, s) ==
  /\ proc[p].segment = None
  /\ \A q \in SegmentOrdinals : segment[q].token # p
  /\ ClaimableSegment(s)
  /\ segment' = [segment EXCEPT
                   ![s].status = "processing", ![s].token = p, ![s].lease = SegmentLease,
                   ![s].attempts = Lesser(@ + 1, 3), ![s].held = FALSE]
  /\ proc' = IF ManifestIntact(s)
             THEN [proc EXCEPT ![p] = [NoTurn EXCEPT !.segment = s, !.base = segment[s].offset]]
             ELSE proc
  /\ UNCHANGED <<total, batch, page, item, receipt, claim, handled, glitches, errors>>

\* heartbeatAtsV2Segment while the lease is still live.
HeartbeatSegment(p) ==
  LET s == proc[p].segment IN
  /\ s # None
  /\ segment[s].token = p /\ segment[s].status = "processing" /\ segment[s].lease > 0
  /\ segment' = [segment EXCEPT ![s].lease = SegmentLease]
  /\ UNCHANGED <<total, batch, page, item, receipt, claim, proc, handled, glitches, errors>>

Remaining(p) == segment[proc[p].segment].count - proc[p].base - proc[p].done
NextOrdinal(p) == FirstOrdinal(proc[p].segment) + proc[p].base + proc[p].done

\* The next item of the turn is reconciled: its posting is in the Job tables
\* (inserted, a duplicate or filtered) or it ended in a processing error.
ProcessItem(p) ==
  /\ proc[p].segment # None /\ Remaining(p) > 0
  /\ \/ /\ handled' = handled \cup {NextOrdinal(p)}
        /\ proc' = [proc EXCEPT ![p].done = @ + 1]
        /\ UNCHANGED errors
     \/ /\ errors < MaxErrors
        /\ errors' = errors + 1
        /\ proc' = [proc EXCEPT ![p].done = @ + 1, ![p].erred = @ + 1]
        /\ UNCHANGED handled
  /\ UNCHANGED <<total, batch, page, item, segment, receipt, claim, glitches>>

\* A later item of the same wave commits before the wave is reconciled.
ProcessAhead(p) ==
  /\ proc[p].segment # None
  /\ \E o \in NextOrdinal(p) + 1 .. NextOrdinal(p) + Remaining(p) - 1 :
       handled' = handled \cup {o}
  /\ UNCHANGED <<total, batch, page, item, segment, receipt, claim, proc, glitches, errors>>

Released(s, hold) ==
  [segment[s] EXCEPT !.status = "published", !.token = None, !.lease = 0, !.held = hold]

Advanced_DropsErrors(s, turn, hold) ==   \* mutant
  LET offset == segment[s].offset + turn.done IN
  [Released(s, hold /\ offset # segment[s].count) EXCEPT
     !.status = IF offset = segment[s].count THEN "processed" ELSE "published",
     !.offset = offset]

Advanced(s, turn, hold) ==
  LET offset == segment[s].offset + turn.done IN
  [Released(s, hold /\ offset # segment[s].count) EXCEPT
     !.status = IF offset = segment[s].count THEN "processed" ELSE "published",
     !.offset = offset, !.failed = @ + turn.erred]

\* completeAtsV2SegmentProcessing finds the turn's row.
Retained(p, s) ==
  segment[s].token = p /\ segment[s].status = "processing" /\ segment[s].lease > 0

\* A turn with processing errors before the third lease is repeated whole.
RetryWhole(s, turn) == Released(s, TRUE)

\* completeAtsV2SegmentProcessing.  `interrupted` ends a turn early (Stop, a
\* lost heartbeat, a platform cooldown).  A turn that is no longer retained
\* throws, and failAtsV2SegmentProcessing releases the row if the token is
\* still on it; while stopping it is left to its lease.
EndTurn(p, interrupted) ==
  LET s == proc[p].segment
      turn == proc[p]
  IN
  /\ s # None
  /\ Remaining(p) > 0 => interrupted /\ errors < MaxErrors
  /\ errors' = IF Remaining(p) > 0 THEN errors + 1 ELSE errors
  /\ proc' = [proc EXCEPT ![p] = NoTurn]
  /\ IF ~Retained(p, s)
     THEN /\ UNCHANGED batch
          /\ \/ segment[s].token = p
                /\ segment' = [segment EXCEPT ![s] = Released(s, TRUE)]
             \/ (segment[s].token # p \/ interrupted) /\ UNCHANGED segment
     ELSE IF turn.erred > 0 /\ segment[s].attempts < 3
     THEN segment' = [segment EXCEPT ![s] = RetryWhole(s, turn)] /\ UNCHANGED batch
     ELSE \E hold \in BOOLEAN :
            LET after == [segment EXCEPT ![s] = Advanced(s, turn, hold)] IN
            /\ segment' = after
            /\ batch' = IF after[s].status = "processed"
                        THEN FinalizeIfReady(batch, item, after, receipt) ELSE batch
  /\ UNCHANGED <<total, page, item, receipt, claim, handled, glitches>>

\* The turn throws: failAtsV2SegmentProcessing, guarded by the token alone.
FailTurn(p) ==
  LET s == proc[p].segment IN
  /\ s # None /\ errors < MaxErrors
  /\ errors' = errors + 1
  /\ proc' = [proc EXCEPT ![p] = NoTurn]
  /\ segment' = IF segment[s].token = p /\ segment[s].status = "processing"
                THEN [segment EXCEPT ![s] = Released(s, TRUE)] ELSE segment
  /\ UNCHANGED <<total, batch, page, item, receipt, claim, handled, glitches>>

CrashTurn(p) ==
  /\ proc[p].segment # None /\ errors < MaxErrors
  /\ errors' = errors + 1
  /\ proc' = [proc EXCEPT ![p] = NoTurn]
  /\ UNCHANGED <<total, batch, page, item, segment, receipt, claim, handled, glitches>>

-----------------------------------------------------------------------------
TurnStep(p) ==
  \/ ProcessItem(p)
  \/ EndTurn(p, FALSE)
  \/ EndTurn(p, TRUE)

TurnTrouble(p) ==
  \/ HeartbeatSegment(p)
  \/ ProcessAhead(p)
  \/ FailTurn(p)
  \/ CrashTurn(p)
=============================================================================
