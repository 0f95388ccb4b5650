----------------------- MODULE ScoringExchangeProofs -----------------------
(***************************************************************************)
(* Proofs about ScoringExchange, for any number of cards, runs, children,  *)
(* requests and result files, and any bound on edits.                      *)
(***************************************************************************)
EXTENDS ScoringExchange, FiniteSetTheorems, TLAPS

Kids == {"absent", "exported", "superseded", "released", "completed"}

Requests == [at : {"idle", "shown", "applying"}, run : RunId \cup {None},
             file : File \cup {None}, view : View, next : 1..(Slots + 1)]

Exports == [stage : Stage \cup {None}, read : SUBSET Job]

-----------------------------------------------------------------------------
(***************************************************************************)
(* Types.                                                                  *)
(***************************************************************************)
\* A quotient below a product is below its other factor.
LEMMA Quotient ==
  ASSUME NEW n \in Nat, NEW a \in Nat, NEW b \in Nat \ {0}, n < a * b
  PROVE  n \div b \in Nat /\ n \div b < a
<1>1. n \div b \in Nat
  BY SMT
<1>2. (n \div b) * b <= n
  BY SMT
<1>3. SUFFICES ASSUME a <= n \div b PROVE FALSE
  BY <1>1
<1>4. a * b <= (n \div b) * b
  BY <1>1, <1>3, SMT
<1> QED
  BY <1>2, <1>4, SMT

\* A card of an export falls into one of the run's children (createScoringRun).
LEMMA SlotType ==
  ASSUME NEW J \in SUBSET Job, NEW j \in J
  PROVE  SlotOf(j, J) \in Child
<1> DEFINE before == {i \in J : i < j}
<1>1. IsFiniteSet(J) /\ Cardinality(J) <= Cardinality(Job)
  BY JobAssumption, FS_Subset
<1>2. IsFiniteSet(before) /\ Cardinality(before) <= Cardinality(J)
  BY <1>1, FS_Subset
<1>3. Cardinality(before) \in Nat /\ Cardinality(J) \in Nat /\ Cardinality(Job) \in Nat
  BY <1>1, <1>2, JobAssumption, FS_CardinalityType
<1>4. before # J
  BY JobAssumption
<1>5. Cardinality(before) # Cardinality(J)
  BY <1>1, <1>4, FS_Subset
<1>6. Cardinality(before) < Slots * ChildSize
  BY <1>1, <1>2, <1>3, <1>5, RoomAssumption, SizeAssumption
<1>7. Cardinality(before) \div ChildSize \in Nat /\ Cardinality(before) \div ChildSize < Slots
  <2> HIDE DEF before
  <2> QED BY <1>3, <1>6, SizeAssumption, Quotient
<1> QED
  <2>1. SlotOf(j, J) = 1 + (Cardinality(before) \div ChildSize)
    BY DEF SlotOf
  <2> HIDE DEF before
  <2> QED BY <1>7, <2>1, SizeAssumption DEF Child

\* Initial states are well typed (cards as local triage or an Aim run left them).
LEMMA InitType == Init => TypeOK
<1> SUFFICES ASSUME Init PROVE TypeOK
  OBVIOUS
<1>1. \A c \in Entering : c \in Card
  BY DEF Entering, Card, Status
<1>2. job \in [Job -> Card]
  BY <1>1 DEF Init
<1>3. run \in [RunId -> Run]
  BY DEF Init, Run, Stage
<1>4. kid \in [RunId -> [Child -> Kid]]
  BY DEF Init, Kid
<1>5. item \in [RunId -> [Job -> Item]]
  BY SizeAssumption DEF Init, Item
<1>6. Idle \in Requests
  <2>1. Unseen \in View
    BY DEF Unseen, View
  <2> QED BY <2>1, SizeAssumption DEF Idle, Requests
<1>7. session \in [Session -> Requests]
  BY <1>6 DEF Init
<1>8. export \in [Exporter -> Exports]
  BY DEF Init, NoExport, Exports
<1>9. edits \in 0..MaxEdits
  BY BoundAssumption DEF Init
<1>10. \A s \in Session : session[s].at = "idle"
  BY DEF Init, Idle
<1> QED
  BY <1>2, <1>3, <1>4, <1>5, <1>7, <1>8, <1>9, <1>10 DEF TypeOK, Requests, Exports

\* A cancelled export is well typed (Undone).
LEMMA UndoneType ==
  ASSUME TypeOK, NEW J
  PROVE  Undone(J) \in [Exporter -> Exports]
  BY DEF TypeOK, Undone, NoExport, Exports

\* What a preview says of a card is well typed (buildScoringImportPreview).
LEMMA ShownType ==
  ASSUME TypeOK, NEW r \in RunId, NEW f \in File
  PROVE  [j \in Job |-> Shown(r, f, j)] \in View
<1> SUFFICES ASSUME NEW j \in Job
             PROVE  Shown(r, f, j) \in [act : {"absent", "done", "retain", "fail", "keep", "apply"},
                                        status : Status \cup {"none"}, proposed : Status \cup {"none"}]
  BY DEF View
<1>1. job[j].status \in Status
  BY DEF TypeOK, Card
<1>2. Disposition(r, f, j) \in {"retain", "fail", "keep", "apply"}
  BY DEF Disposition
<1>3. Proposed(run[r].stage, f[item[r][j].slot]) \in Status
  BY DEF Proposed, Status
<1> QED
  BY <1>1, <1>2, <1>3 DEF Shown

\* A card after an import is well typed (applyScoringImport).
LEMMA LandedType ==
  ASSUME TypeOK, NEW r \in RunId, NEW f \in File, NEW j \in Job, NEW a \in Admission
  PROVE  Landed(r, f, j, a) \in Card
<1>1. job[j] \in Card /\ item[r][j].text \in Text
  BY DEF TypeOK, Item
<1>2. Proposed(run[r].stage, f[item[r][j].slot]) \in Status /\ a \in Status
  BY DEF Proposed, Status, Admission
<1> QED
  BY <1>1, <1>2 DEF Landed, Card

\* The cards an import moves: those of its child, each as it is admitted.
LEMMA ApplyMoves ==
  ASSUME NEW s \in Session, ApplyChild(s)
  PROVE  \E adm \in [Items(session[s].run, session[s].next) -> Admission] :
           job' = [j \in Job |-> IF j \in Items(session[s].run, session[s].next)
                                THEN Landed(session[s].run, session[s].file, j, adm[j]) ELSE job[j]]
  BY DEF ApplyChild

\* Each step of an export or of a run's life keeps the types.
LEMMA ExportType == TypeOK /\ (\E e \in Exporter : ReadCards(e) \/ ExportFails(e)) => TypeOK'
<1> SUFFICES ASSUME TypeOK, NEW e \in Exporter, ReadCards(e) \/ ExportFails(e)
             PROVE  TypeOK'
  OBVIOUS
<1>1. export' \in [Exporter -> Exports]
  <2>1. ASSUME ReadCards(e) PROVE export' \in [Exporter -> Exports]
    <3>1. PICK stage \in Stage :
            export' = [export EXCEPT ![e] = [stage |-> stage, read |-> Ready(stage)]]
      BY <2>1 DEF ReadCards
    <3>2. [stage |-> stage, read |-> Ready(stage)] \in Exports
      BY DEF Exports, Ready
    <3> QED BY <3>1, <3>2 DEF TypeOK, Exports
  <2>2. ASSUME ExportFails(e) PROVE export' \in [Exporter -> Exports]
    BY <2>2 DEF ExportFails, TypeOK, Exports, NoExport
  <2> QED BY <2>1, <2>2
<1>2. UNCHANGED <<job, run, kid, item, session, edits>>
  BY DEF ReadCards, ExportFails
<1> QED
  BY <1>1, <1>2 DEF TypeOK, Exports

LEMMA CreateType == TypeOK /\ (\E e \in Exporter, r \in RunId : CreateRun(e, r)) => TypeOK'
<1> SUFFICES ASSUME TypeOK, NEW e \in Exporter, NEW r \in RunId, CreateRun(e, r)
             PROVE  TypeOK'
  OBVIOUS
<1> DEFINE J == export[e].read
           new == [stage |-> export[e].stage, state |-> "exported", expired |-> FALSE, file |-> None]
           slots == [j \in Job |-> [slot |-> IF j \in J THEN SlotOf(j, J) ELSE 0, text |-> job[j].text]]
           kids == [k \in Child |-> [state |-> IF \E j \in J : SlotOf(j, J) = k
                                              THEN "exported" ELSE "absent", result |-> None]]
<1>1. J \in SUBSET Job /\ export[e].stage \in Stage
  BY DEF CreateRun, TypeOK
<1>2. new \in Run
  BY <1>1 DEF Run
<1>3. slots \in [Job -> Item]
  <2>1. \A j \in J : SlotOf(j, J) \in 0..Slots
    BY <1>1, SlotType, SizeAssumption DEF Child
  <2>2. \A j \in Job : job[j].text \in Text
    BY DEF TypeOK, Card
  <2> QED BY <2>1, <2>2, SizeAssumption DEF Item
<1>4. kids \in [Child -> Kid]
  BY DEF Kid
<1>5. /\ run' = [run EXCEPT ![r] = new] /\ item' = [item EXCEPT ![r] = slots]
      /\ kid' = [kid EXCEPT ![r] = kids]
  BY DEF CreateRun
<1>6. /\ export' = [export EXCEPT ![e] = NoExport]
      /\ UNCHANGED <<job, session, edits>>
  BY DEF CreateRun
<1>7. /\ run' \in [RunId -> Run] /\ item' \in [RunId -> [Job -> Item]]
      /\ kid' \in [RunId -> [Child -> Kid]]
  <2> HIDE DEF new, slots, kids
  <2> QED BY <1>2, <1>3, <1>4, <1>5 DEF TypeOK
<1>8. export' \in [Exporter -> Exports]
  BY <1>6 DEF TypeOK, Exports, NoExport
<1> QED
  BY <1>6, <1>7, <1>8 DEF TypeOK, Exports

\* A run expires, is extended or is released (extendScoringRun, releaseScoringRun).
LEMMA RunType == TypeOK /\ (\E r \in RunId : Expire(r) \/ ExtendRun(r) \/ ReleaseRun(r)) => TypeOK'
<1> SUFFICES ASSUME TypeOK, NEW r \in RunId, Expire(r) \/ ExtendRun(r) \/ ReleaseRun(r)
             PROVE  TypeOK'
  OBVIOUS
<1>1. run[r] \in Run
  BY DEF TypeOK
<1>2. PICK st \in {"exported", "released"}, x \in BOOLEAN :
        run' = [run EXCEPT ![r] = [stage |-> run[r].stage, state |-> st,
                                   expired |-> x, file |-> run[r].file]]
  <2>1. run[r].expired \in BOOLEAN
    BY <1>1 DEF Run
  <2> QED BY <2>1 DEF Expire, ExtendRun, ReleaseRun
<1>3. [stage |-> run[r].stage, state |-> st, expired |-> x, file |-> run[r].file] \in Run
  BY <1>1 DEF Run
<1>4. run' \in [RunId -> Run]
  BY <1>2, <1>3 DEF TypeOK
<1>5. kid' \in [RunId -> [Child -> Kid]]
  <2>1. ASSUME ReleaseRun(r) PROVE kid' \in [RunId -> [Child -> Kid]]
    <3>1. [state |-> "released", result |-> None] \in Kid
      BY DEF Kid
    <3>2. [k \in Child |-> IF k \in Incomplete(r) THEN [state |-> "released", result |-> None]
                          ELSE kid[r][k]] \in [Child -> Kid]
      BY <3>1 DEF TypeOK
    <3> QED BY <2>1, <3>2 DEF ReleaseRun, TypeOK
  <2> QED BY <2>1 DEF Expire, ExtendRun, TypeOK
<1>6. UNCHANGED <<job, item, session, export, edits>>
  BY DEF Expire, ExtendRun, ReleaseRun
<1> QED
  BY <1>4, <1>5, <1>6 DEF TypeOK

\* A request previews, starts to apply, passes a child, completes the run or ends.
LEMMA SessionType ==
  TypeOK /\ (\E s \in Session : \/ StartApply(s) \/ SessionEnds(s) \/ PassChild(s) \/ CompleteRun(s)
                              \/ \E r \in RunId, f \in File : PreviewRun(s, r, f))
  => TypeOK'
<1> DEFINE Working(q) == q \in Requests /\ (q.at # "idle" => q.run \in RunId /\ q.file \in File)
<1> SUFFICES ASSUME TypeOK, NEW s \in Session,
                    \/ StartApply(s) \/ SessionEnds(s) \/ PassChild(s) \/ CompleteRun(s)
                    \/ \E r \in RunId, f \in File : PreviewRun(s, r, f)
             PROVE  TypeOK'
  OBVIOUS
<1>1. Working(session[s])
  BY DEF TypeOK, Requests
<1>2. Working(Idle)
  <2>1. Unseen \in View
    BY DEF Unseen, View
  <2> QED BY <2>1, SizeAssumption DEF Idle, Requests
<1>3. PICK q : Working(q) /\ session' = [session EXCEPT ![s] = q]
  <2>1. ASSUME StartApply(s) PROVE \E q : Working(q) /\ session' = [session EXCEPT ![s] = q]
    <3>1. Working([at |-> "applying", run |-> session[s].run, file |-> session[s].file,
                   view |-> session[s].view, next |-> 1])
      BY <1>1, <2>1, SizeAssumption DEF StartApply, Requests
    <3> QED BY <2>1, <3>1 DEF StartApply
  <2>2. ASSUME SessionEnds(s) PROVE \E q : Working(q) /\ session' = [session EXCEPT ![s] = q]
    BY <1>2, <2>2 DEF SessionEnds
  <2>3. ASSUME PassChild(s) PROVE \E q : Working(q) /\ session' = [session EXCEPT ![s] = q]
    <3>1. Working([at |-> "applying", run |-> session[s].run, file |-> session[s].file,
                   view |-> session[s].view, next |-> session[s].next + 1])
      BY <1>1, <2>3, SizeAssumption DEF PassChild, Requests, Child
    <3> QED BY <2>3, <3>1 DEF PassChild, Onward
  <2>4. ASSUME CompleteRun(s) PROVE \E q : Working(q) /\ session' = [session EXCEPT ![s] = q]
    BY <1>2, <2>4 DEF CompleteRun
  <2>5. ASSUME NEW r \in RunId, NEW f \in File, PreviewRun(s, r, f) PROVE \E q : Working(q) /\ session' = [session EXCEPT ![s] = q]
    <3>1. [j \in Job |-> Shown(r, f, j)] \in View
      BY ShownType
    <3>2. Working([at |-> "shown", run |-> r, file |-> f, view |-> [j \in Job |-> Shown(r, f, j)],
                   next |-> 1])
      BY <3>1, SizeAssumption DEF Requests
    <3> QED BY <2>5, <3>2 DEF PreviewRun
  <2> QED BY <2>1, <2>2, <2>3, <2>4, <2>5
<1>4. /\ session' \in [Session -> Requests]
      /\ \A t \in Session : session'[t].at # "idle" => session'[t].run \in RunId /\ session'[t].file \in File
  BY <1>3 DEF TypeOK, Requests
<1>5. run' \in [RunId -> Run]
  <2>1. ASSUME CompleteRun(s) PROVE run' \in [RunId -> Run]
    <3>1. session[s].run \in RunId /\ session[s].file \in File
      BY <1>1, <2>1 DEF CompleteRun
    <3>2. run[session[s].run] \in Run
      BY <3>1 DEF TypeOK
    <3>3. [stage |-> run[session[s].run].stage, state |-> "completed",
           expired |-> run[session[s].run].expired, file |-> session[s].file] \in Run
      BY <3>1, <3>2 DEF Run
    <3> QED BY <2>1, <3>3 DEF CompleteRun, TypeOK
  <2> QED BY <2>1 DEF TypeOK, StartApply, SessionEnds, PassChild, PreviewRun
<1>6. UNCHANGED <<job, kid, item, export, edits>>
  BY DEF StartApply, SessionEnds, PassChild, PreviewRun, CompleteRun
<1> QED
  BY <1>4, <1>5, <1>6 DEF TypeOK, Requests

\* A child is applied (applyScoringImport).
LEMMA ApplyType == TypeOK /\ (\E s \in Session : ApplyChild(s)) => TypeOK'
<1> SUFFICES ASSUME TypeOK, NEW s \in Session, ApplyChild(s) PROVE TypeOK'
  OBVIOUS
<1> DEFINE r == session[s].run
           k == session[s].next
           f == session[s].file
           q == [at |-> "applying", run |-> r, file |-> f, view |-> session[s].view, next |-> k + 1]
           done == [state |-> "completed", result |-> f[k]]
<1>1. session[s] \in Requests /\ r \in RunId /\ f \in File /\ k \in Child
  BY DEF TypeOK, Requests, ApplyChild
<1>2. q \in Requests
  BY <1>1, SizeAssumption DEF Requests, Child
<1>3. session' = [session EXCEPT ![s] = q]
  BY DEF ApplyChild, Onward
<1>4. /\ session' \in [Session -> Requests]
      /\ \A t \in Session : session'[t].at # "idle" => session'[t].run \in RunId /\ session'[t].file \in File
  BY <1>1, <1>2, <1>3 DEF TypeOK, Requests
<1>5. done \in Kid
  <2>1. f[k] \in Verdict
    BY <1>1, FileAssumption DEF Child
  <2> QED BY <2>1 DEF Kid
<1>6. kid' \in [RunId -> [Child -> Kid]]
  <2>1. kid' = [kid EXCEPT ![r] = [kid[r] EXCEPT ![k] = done]]
    BY DEF ApplyChild
  <2>2. [kid[r] EXCEPT ![k] = done] \in [Child -> Kid]
    <3> HIDE DEF done, r, k
    <3> QED BY <1>1, <1>5 DEF TypeOK
  <2> HIDE DEF done, r, k
  <2> QED BY <2>1, <2>2 DEF TypeOK
<1>7. job' \in [Job -> Card]
  <2>1. PICK adm \in [Items(r, k) -> Admission] :
          job' = [j \in Job |-> IF j \in Items(r, k) THEN Landed(r, f, j, adm[j]) ELSE job[j]]
    BY ApplyMoves
  <2> HIDE DEF r, k, f
  <2>2. \A j \in Items(r, k) : j \in Job /\ adm[j] \in Admission
    BY DEF Items
  <2>3. \A j \in Items(r, k) : Landed(r, f, j, adm[j]) \in Card
    BY <1>1, <2>2, LandedType
  <2> QED BY <2>1, <2>3 DEF TypeOK
<1>8. export' \in [Exporter -> Exports]
  BY UndoneType DEF ApplyChild
<1>9. UNCHANGED <<run, item, edits>>
  BY DEF ApplyChild
<1> QED
  BY <1>4, <1>6, <1>7, <1>8, <1>9 DEF TypeOK, Requests, Exports

\* A card is decided on, edited, rescored or triaged (PATCH jobs/[id], scoreJobs).
LEMMA CardType ==
  TypeOK /\ (\E j \in Job : Decide(j) \/ Triage(j) \/ \E t \in Text : EditKept(j, t) \/ Rescore(j, t))
  => TypeOK'
<1> SUFFICES ASSUME TypeOK, NEW j \in Job,
                    Decide(j) \/ Triage(j) \/ \E t \in Text : EditKept(j, t) \/ Rescore(j, t)
             PROVE  TypeOK'
  OBVIOUS
<1>1. job[j] \in Card
  BY DEF TypeOK
<1>2. PICK c \in Card : job' = [job EXCEPT ![j] = c]
  <2>1. ASSUME Decide(j) PROVE \E c \in Card : job' = [job EXCEPT ![j] = c]
    <3>1. [text |-> job[j].text, status |-> "decided", scoring |-> job[j].scoring,
           aim |-> job[j].aim, basis |-> job[j].basis, exp |-> job[j].exp, scored |-> job[j].scored] \in Card
      BY <1>1 DEF Card, Status
    <3> QED BY <2>1, <3>1 DEF Decide
  <2>2. ASSUME Triage(j) PROVE \E c \in Card : job' = [job EXCEPT ![j] = c]
    <3>1. [text |-> job[j].text, status |-> "pending", scoring |-> "scored",
           aim |-> job[j].aim, basis |-> job[j].basis, exp |-> job[j].exp, scored |-> job[j].scored] \in Card
      BY <1>1 DEF Card, Status
    <3> QED BY <2>2, <3>1 DEF Triage
  <2>3. ASSUME NEW t \in Text, EditKept(j, t) PROVE \E c \in Card : job' = [job EXCEPT ![j] = c]
    <3>1. [text |-> t, status |-> job[j].status, scoring |-> job[j].scoring,
           aim |-> job[j].aim, basis |-> job[j].basis, exp |-> job[j].exp, scored |-> job[j].scored] \in Card
      BY <1>1 DEF Card, Status
    <3> QED BY <2>3, <3>1 DEF EditKept
  <2>4. ASSUME NEW t \in Text, Rescore(j, t) PROVE \E c \in Card : job' = [job EXCEPT ![j] = c]
    <3>1. [text |-> t, status |-> IF job[j].status = "decided" THEN "decided" ELSE "pending",
           scoring |-> "queued",
           aim |-> IF job[j].aim = "none" THEN "none" ELSE "stale", basis |-> None,
           exp |-> IF job[j].exp = "none" THEN "none" ELSE "stale",
           scored |-> job[j].scored] \in Card
      BY <1>1 DEF Card, Status
    <3> QED BY <2>4, <3>1 DEF Rescore
  <2> QED BY <2>1, <2>2, <2>3, <2>4
<1>3. job' \in [Job -> Card]
  BY <1>2 DEF TypeOK
<1>4. kid' \in [RunId -> [Child -> Kid]]
  <2>1. Superseded(j) \in [RunId -> [Child -> Kid]]
    <3>1. [state |-> "superseded", result |-> None] \in Kid
      BY DEF Kid
    <3> QED BY <3>1 DEF Superseded, TypeOK
  <2> QED BY <2>1 DEF Decide, Triage, EditKept, Rescore, TypeOK
<1>5. export' \in [Exporter -> Exports]
  BY UndoneType DEF Decide, Triage, EditKept, Rescore
<1>6. edits' \in 0..MaxEdits
  BY BoundAssumption DEF Decide, Triage, EditKept, Rescore, TypeOK
<1>7. UNCHANGED <<run, item, session>>
  BY DEF Decide, Triage, EditKept, Rescore
<1> QED
  BY <1>3, <1>4, <1>5, <1>6, <1>7 DEF TypeOK, Exports

\* Every step keeps the types.
LEMMA NextType == TypeOK /\ [Next]_vars => TypeOK'
<1>1. ASSUME TypeOK, UNCHANGED vars PROVE TypeOK'
  BY <1>1 DEF TypeOK, vars
<1> QED
  BY <1>1, ExportType, CreateType, RunType, SessionType, ApplyType, CardType DEF Next

\* TypeOK: every reachable state is well typed; in particular the children of
\* an export never outgrow the run (createScoringRun).
THEOREM TypeCorrect == Spec => []TypeOK
<1>1. Init => TypeOK
  BY InitType
<1>2. TypeOK /\ [Next]_vars => TypeOK'
  BY NextType
<1> QED
  BY <1>1, <1>2, PTL DEF Spec

-----------------------------------------------------------------------------
(***************************************************************************)
(* The inductive invariant.                                                *)
(***************************************************************************)
\* A run that was never created has no children.
UnusedEmpty == \A r \in RunId : run[r].state = "unused" => \A k \in Child : kid[r][k].state = "absent"

\* Children complete in order, whoever applies them (applyScoringRunImport).
InOrder == \A r \in RunId, k \in Child : kid[r][k].state = "completed" =>
  \A i \in Child : i < k => kid[r][i].state \in {"absent", "completed"}

\* The child is behind a request that applies file f.
Passed(r, f, i) ==
  kid[r][i].state = "absent" \/ (kid[r][i].state = "completed" /\ kid[r][i].result = f[i])

\* A request works on a run that exists, and the children it has gone past
\* hold its own file's results.
WalkOf(s) == session[s].at # "idle" =>
  /\ run[session[s].run].state # "unused"
  /\ session[s].at = "applying" =>
       \A i \in Child : i < session[s].next => Passed(session[s].run, session[s].file, i)

Walk == \A s \in Session : WalkOf(s)

\* The card may be scored for the stage.
Unpaid(stage, c) ==
  /\ stage = "aim" => c.aim \in {"none", "stale"}
  /\ stage = "experience" => c.exp # "current"

\* The cards an export has read may still be scored for its stage: a write that
\* scores one cancels the export.
ReadFresh == \A e \in Exporter : \A j \in export[e].read : Unpaid(export[e].stage, job[j])

IInv ==
  /\ TypeOK /\ UnusedEmpty /\ InOrder /\ Walk /\ ReadFresh
  /\ OneLease /\ PaidOnce /\ OneFile /\ RunSettled

\* Initially no run exists and no request is under way.
LEMMA InitInv == Init => IInv
<1> SUFFICES ASSUME Init PROVE IInv
  OBVIOUS
<1>1. TypeOK
  BY InitType
<1>2. /\ \A r \in RunId : run[r].state = "unused"
      /\ \A r \in RunId, k \in Child : kid[r][k].state = "absent"
      /\ \A s \in Session : session[s].at = "idle"
      /\ \A e \in Exporter : export[e].read = {}
  BY DEF Init, Idle, NoExport
<1>3. \A r \in RunId, j \in Job : item[r][j].slot = 0
  BY DEF Init
<1>4. UnusedEmpty /\ InOrder /\ Walk /\ ReadFresh
  BY <1>2 DEF UnusedEmpty, InOrder, Walk, WalkOf, ReadFresh
<1>5. OneLease /\ PaidOnce
  BY <1>3 DEF OneLease, PaidOnce
<1>6. OneFile
  BY <1>2, FileAssumption DEF OneFile
<1>7. RunSettled
  BY <1>2 DEF RunSettled
<1> QED
  BY <1>1, <1>4, <1>5, <1>6, <1>7 DEF IInv

\* A write of some cards keeps what the exports still hold fresh (updatedAt).
LEMMA UndoneFresh ==
  ASSUME TypeOK, ReadFresh, NEW J, export' = Undone(J),
         \A j \in Job \ J : job'[j].aim = job[j].aim /\ job'[j].exp = job[j].exp
  PROVE  ReadFresh'
<1> SUFFICES ASSUME NEW e \in Exporter, NEW j \in export'[e].read
             PROVE  Unpaid(export'[e].stage, job'[j])
  BY DEF ReadFresh, Unpaid
<1>1. export[e].read \cap J = {} /\ export'[e] = export[e]
  BY DEF Undone, NoExport
<1>2. j \in Job \ J
  BY <1>1 DEF TypeOK
<1>3. Unpaid(export[e].stage, job[j])
  BY <1>1 DEF ReadFresh
<1> QED
  BY <1>1, <1>2, <1>3 DEF Unpaid

\* Nothing but the cards' text, statuses or the exports changes: runs stand.
LEMMA RunsStand ==
  ASSUME UnusedEmpty, InOrder, Walk, OneLease, OneFile, RunSettled,
         UNCHANGED <<run, kid, item, session>>
  PROVE  UnusedEmpty' /\ InOrder' /\ Walk' /\ OneLease' /\ OneFile' /\ RunSettled'
  BY DEF UnusedEmpty, InOrder, Walk, WalkOf, Passed, OneLease, OneFile, RunSettled

\* An export reads cards its stage has not scored, or fails.
LEMMA ExportInv == IInv /\ (\E e \in Exporter : ReadCards(e) \/ ExportFails(e)) => IInv'
<1> SUFFICES ASSUME IInv, NEW e \in Exporter, ReadCards(e) \/ ExportFails(e) PROVE IInv'
  OBVIOUS
<1>1. TypeOK'
  BY ExportType DEF IInv
<1>2. UNCHANGED <<job, run, kid, item, session>>
  BY DEF ReadCards, ExportFails
<1>3. UnusedEmpty' /\ InOrder' /\ Walk' /\ OneLease' /\ OneFile' /\ RunSettled'
  BY <1>2, RunsStand DEF IInv
<1>4. PaidOnce'
  BY <1>2 DEF IInv, PaidOnce
<1>5. ReadFresh'
  <2>1. ASSUME ReadCards(e) PROVE ReadFresh'
    <3>1. PICK stage \in Stage :
            export' = [export EXCEPT ![e] = [stage |-> stage, read |-> Ready(stage)]]
      BY <2>1 DEF ReadCards
    <3>2. \A j \in Ready(stage) : Unpaid(stage, job[j])
      BY DEF Ready, Unpaid
    <3> QED BY <1>2, <3>1, <3>2 DEF IInv, TypeOK, ReadFresh, Unpaid
  <2>2. ASSUME ExportFails(e) PROVE ReadFresh'
    BY <1>2, <2>2 DEF ExportFails, IInv, TypeOK, ReadFresh, Unpaid, NoExport
  <2> QED BY <2>1, <2>2
<1> QED
  BY <1>1, <1>3, <1>4, <1>5 DEF IInv

\* A new run leases what no other batch leases and its stage has not scored.
LEMMA CreateInv == IInv /\ (\E e \in Exporter, r \in RunId : CreateRun(e, r)) => IInv'
<1> SUFFICES ASSUME IInv, NEW e \in Exporter, NEW r \in RunId, CreateRun(e, r) PROVE IInv'
  OBVIOUS
<1>1. TypeOK /\ TypeOK'
  BY CreateType DEF IInv
<1>2. /\ UNCHANGED <<job, session>>
      /\ export' = [export EXCEPT ![e] = NoExport]
      /\ \A j \in export[e].read : ~Leased(j)
      /\ run[r].state = "unused"
  BY DEF CreateRun
<1>3. /\ run'[r].stage = export[e].stage /\ run'[r].state = "exported"
      /\ \A q \in RunId : q # r => run'[q] = run[q] /\ kid'[q] = kid[q] /\ item'[q] = item[q]
  BY <1>1 DEF CreateRun, TypeOK
<1>4. \A k \in Child : kid'[r][k].state \in {"exported", "absent"}
  BY <1>1 DEF CreateRun, TypeOK
<1>5. \A j \in Job : item'[r][j].slot # 0 => j \in export[e].read
  BY <1>1 DEF CreateRun, TypeOK
<1>6. UnusedEmpty'
  BY <1>3 DEF IInv, UnusedEmpty
<1>7. InOrder'
  BY <1>3, <1>4 DEF IInv, InOrder
<1>8. Walk'
  <2> SUFFICES ASSUME NEW s \in Session, session'[s].at # "idle" PROVE WalkOf(s)'
    BY DEF Walk, WalkOf
  <2>1. session'[s] = session[s] /\ session[s].run \in RunId
    BY <1>1, <1>2 DEF TypeOK
  <2>2. session[s].run # r
    BY <1>2, <2>1 DEF IInv, Walk, WalkOf
  <2>3. run'[session[s].run] = run[session[s].run] /\ kid'[session[s].run] = kid[session[s].run]
    BY <1>3, <2>1, <2>2
  <2> QED BY <2>1, <2>3 DEF IInv, Walk, WalkOf, Passed
<1>9. ReadFresh'
  BY <1>1, <1>2 DEF IInv, ReadFresh, Unpaid, NoExport, TypeOK
<1>10. OneLease'
  <2> SUFFICES ASSUME NEW j \in Job, NEW p \in RunId, NEW q \in RunId, p # q,
                      item'[p][j].slot # 0, kid'[p][item'[p][j].slot].state \in {"exported", "superseded"},
                      item'[q][j].slot # 0, kid'[q][item'[q][j].slot].state \in {"exported", "superseded"}
               PROVE  FALSE
    BY DEF OneLease
  <2>1. \A t \in RunId : t # r /\ item'[t][j].slot # 0
                          /\ kid'[t][item'[t][j].slot].state \in {"exported", "superseded"} => Leased(j)
    <3> SUFFICES ASSUME NEW t \in RunId, t # r, item'[t][j].slot # 0,
                        kid'[t][item'[t][j].slot].state \in {"exported", "superseded"}
                 PROVE  Leased(j)
      OBVIOUS
    <3>1. item[t][j].slot \in 0..Slots /\ item[t][j].slot # 0
      BY <1>1, <1>3 DEF TypeOK, Item
    <3>2. item[t][j].slot \in Child
      BY <3>1, SizeAssumption DEF Child
    <3> QED BY <1>3, <3>2 DEF Leased
  <2>2. CASE p = r
    BY <1>2, <1>5, <2>1, <2>2
  <2>3. CASE q = r
    BY <1>2, <1>5, <2>1, <2>3
  <2>4. CASE p # r /\ q # r
    BY <1>3, <2>4 DEF IInv, OneLease
  <2> QED BY <2>2, <2>3, <2>4
<1>11. PaidOnce'
  <2>1. \A j \in Job : item'[r][j].slot # 0 => Unpaid(run'[r].stage, job'[j])
    BY <1>2, <1>3, <1>5 DEF IInv, ReadFresh
  <2> QED BY <1>2, <1>3, <2>1 DEF IInv, PaidOnce, Unpaid
<1>12. OneFile'
  <2>1. \E f \in File : TRUE
    BY FileAssumption
  <2>2. \A k \in Child : kid'[r][k].state # "completed"
    BY <1>4
  <2> QED BY <1>3, <2>1, <2>2 DEF IInv, OneFile
<1>13. RunSettled'
  <2>1. \A k \in Child : kid'[r][k].state # "released"
    BY <1>4
  <2> QED BY <1>3, <2>1 DEF IInv, RunSettled
<1> QED
  BY <1>1, <1>6, <1>7, <1>8, <1>9, <1>10, <1>11, <1>12, <1>13 DEF IInv

\* A run expires or is extended: neither its state nor its children change.
LEMMA ClockInv == IInv /\ (\E r \in RunId : Expire(r) \/ ExtendRun(r)) => IInv'
<1> SUFFICES ASSUME IInv, NEW r \in RunId, Expire(r) \/ ExtendRun(r) PROVE IInv'
  OBVIOUS
<1>1. TypeOK /\ TypeOK'
  BY RunType DEF IInv
<1>2. UNCHANGED <<job, kid, item, session, export>>
  BY DEF Expire, ExtendRun
<1>3. PICK x \in BOOLEAN : run' = [run EXCEPT ![r] = [stage |-> run[r].stage, state |-> "exported",
                                                    expired |-> x, file |-> run[r].file]]
  BY DEF Expire, ExtendRun
<1>4. run[r].state = "exported"
  BY DEF Expire, ExtendRun
<1>5. \A q \in RunId : /\ run'[q].state = run[q].state /\ run'[q].stage = run[q].stage
                      /\ run'[q].file = run[q].file
  BY <1>1, <1>3, <1>4 DEF TypeOK
<1>6. UnusedEmpty' /\ InOrder' /\ OneLease' /\ PaidOnce' /\ ReadFresh'
  BY <1>2, <1>5 DEF IInv, UnusedEmpty, InOrder, OneLease, PaidOnce, ReadFresh, Unpaid
<1>7. Walk'
  <2> SUFFICES ASSUME NEW s \in Session, session'[s].at # "idle" PROVE WalkOf(s)'
    BY DEF Walk, WalkOf
  <2>1. session'[s] = session[s] /\ session[s].run \in RunId
    BY <1>1, <1>2 DEF TypeOK
  <2>2. run'[session[s].run].state = run[session[s].run].state
    BY <1>5, <2>1
  <2> QED BY <1>2, <2>1, <2>2 DEF IInv, Walk, WalkOf, Passed
<1>8. OneFile' /\ RunSettled'
  BY <1>2, <1>5 DEF IInv, OneFile, RunSettled
<1> QED
  BY <1>1, <1>6, <1>7, <1>8 DEF IInv

\* Children that are not complete leave the exchange: superseded or released.
LEMMA KidsLeave ==
  ASSUME IInv, TypeOK', UNCHANGED <<item, session>>,
         \A r \in RunId : run[r].state = "unused" <=> run'[r].state = "unused",
         \A r \in RunId, k \in Child :
           \/ kid'[r][k] = kid[r][k]
           \/ /\ kid[r][k].state \in {"exported", "superseded", "released"}
              /\ \/ kid'[r][k].state = "released"
                 \/ kid[r][k].state = "exported" /\ kid'[r][k].state = "superseded"
  PROVE  UnusedEmpty' /\ InOrder' /\ Walk' /\ OneLease'
<1>1. TypeOK
  BY DEF IInv
<1>2. UnusedEmpty'
  BY DEF IInv, UnusedEmpty
<1>3. InOrder'
  BY DEF IInv, InOrder
<1>4. Walk'
  <2> SUFFICES ASSUME NEW s \in Session, session'[s].at # "idle" PROVE WalkOf(s)'
    BY DEF Walk, WalkOf
  <2>1. session'[s] = session[s] /\ session[s].run \in RunId
    BY <1>1 DEF TypeOK
  <2> QED BY <2>1 DEF IInv, Walk, WalkOf, Passed
<1>5. OneLease'
  <2>1. \A r \in RunId, j \in Job : item[r][j].slot # 0 => item[r][j].slot \in Child
    BY <1>1, SizeAssumption DEF TypeOK, Item, Child
  <2> QED BY <2>1 DEF IInv, OneLease
<1> QED
  BY <1>2, <1>3, <1>4, <1>5

\* A run is released while a child is not complete (releaseScoringRun).
LEMMA ReleaseInv == IInv /\ (\E r \in RunId : ReleaseRun(r)) => IInv'
<1> SUFFICES ASSUME IInv, NEW r \in RunId, ReleaseRun(r) PROVE IInv'
  OBVIOUS
<1>1. TypeOK /\ TypeOK'
  BY RunType DEF IInv
<1>2. UNCHANGED <<job, item, session, export>>
  BY DEF ReleaseRun
<1>3. /\ run'[r].state = "released" /\ run[r].state = "exported" /\ run'[r].stage = run[r].stage
      /\ \A q \in RunId : q # r => run'[q] = run[q] /\ kid'[q] = kid[q]
  BY <1>1 DEF ReleaseRun, TypeOK
<1>4. \A k \in Child : kid'[r][k] = IF k \in Incomplete(r) THEN [state |-> "released", result |-> None]
                                   ELSE kid[r][k]
  BY <1>1 DEF ReleaseRun, TypeOK
<1>5. \A k \in Incomplete(r) : kid'[r][k].state = "released"
  BY <1>4 DEF Incomplete
<1>6. \A k \in Child : kid[r][k] \in Kid
  BY <1>1 DEF TypeOK
<1>7. UnusedEmpty' /\ InOrder' /\ Walk' /\ OneLease'
  <2>1. \A q \in RunId : run[q].state = "unused" <=> run'[q].state = "unused"
    BY <1>3
  <2>2. \A q \in RunId, k \in Child :
           \/ kid'[q][k] = kid[q][k]
           \/ /\ kid[q][k].state \in {"exported", "superseded", "released"}
              /\ \/ kid'[q][k].state = "released"
                 \/ kid[q][k].state = "exported" /\ kid'[q][k].state = "superseded"
    BY <1>3, <1>4, <1>6 DEF Incomplete, Kid
  <2> QED BY <1>1, <1>2, <2>1, <2>2, KidsLeave
<1>8. ReadFresh'
  BY <1>2 DEF IInv, ReadFresh, Unpaid
<1>9. PaidOnce'
  <2>1. \A j \in Job : item[r][j].slot # 0 => kid'[r][item[r][j].slot].state # "exported"
    <3> SUFFICES ASSUME NEW j \in Job, item[r][j].slot # 0
                 PROVE  kid'[r][item[r][j].slot].state # "exported"
      OBVIOUS
    <3>1. item[r][j].slot \in Child
      BY <1>1, SizeAssumption DEF TypeOK, Item, Child
    <3> QED BY <1>4, <1>5, <3>1 DEF Incomplete
  <2> QED BY <1>2, <1>3, <2>1 DEF IInv, PaidOnce
<1>10. OneFile'
  <2>1. \A k \in Child : kid'[r][k].state = "completed" => kid'[r][k] = kid[r][k]
    BY <1>4, <1>5
  <2>2. PICK f \in File : \A k \in Child : kid[r][k].state = "completed" => kid[r][k].result = f[k]
    BY DEF IInv, OneFile
  <2>3. \A k \in Child : kid'[r][k].state = "completed" => kid'[r][k].result = f[k]
    BY <2>1, <2>2
  <2> QED BY <1>3, <2>3 DEF IInv, OneFile
<1>11. RunSettled'
  <2>1. \E k \in Child : kid'[r][k].state = "released"
    BY <1>5 DEF ReleaseRun, Incomplete
  <2> QED BY <1>3, <2>1 DEF IInv, RunSettled
<1> QED
  BY <1>1, <1>7, <1>8, <1>9, <1>10, <1>11 DEF IInv

\* A request previews, starts, passes a child of its own result, or ends.
LEMMA SessionInv ==
  IInv /\ (\E s \in Session : \/ StartApply(s) \/ SessionEnds(s) \/ PassChild(s)
                              \/ \E r \in RunId, f \in File : PreviewRun(s, r, f))
  => IInv'
<1> SUFFICES ASSUME IInv, NEW s \in Session,
                    \/ StartApply(s) \/ SessionEnds(s) \/ PassChild(s)
                    \/ \E r \in RunId, f \in File : PreviewRun(s, r, f)
             PROVE  IInv'
  OBVIOUS
<1>1. TypeOK /\ TypeOK'
  BY SessionType DEF IInv
<1>2. UNCHANGED <<job, run, kid, item, export>>
  BY DEF StartApply, SessionEnds, PassChild, PreviewRun
<1>3. \A t \in Session : t # s => session'[t] = session[t]
  BY <1>1 DEF TypeOK, StartApply, SessionEnds, PassChild, PreviewRun, Onward
<1>4. session'[s].at # "idle" =>
        /\ run[session'[s].run].state # "unused"
        /\ session'[s].at = "applying" =>
             \A i \in Child : i < session'[s].next => Passed(session'[s].run, session'[s].file, i)
  <2> DEFINE Goal == session'[s].at # "idle" =>
        /\ run[session'[s].run].state # "unused"
        /\ session'[s].at = "applying" =>
             \A i \in Child : i < session'[s].next => Passed(session'[s].run, session'[s].file, i)
  <2>1. ASSUME StartApply(s) PROVE Goal
    <3>1. session'[s] = [at |-> "applying", run |-> session[s].run, file |-> session[s].file,
                         view |-> session[s].view, next |-> 1]
      BY <1>1, <2>1 DEF StartApply, TypeOK
    <3>2. \A i \in Child : ~(i < 1)
      BY SizeAssumption DEF Child
    <3>3. session[s].at # "idle"
      BY <2>1 DEF StartApply
    <3> QED BY <3>1, <3>2, <3>3 DEF IInv, Walk, WalkOf
  <2>2. ASSUME SessionEnds(s) PROVE Goal
    BY <1>1, <2>2 DEF SessionEnds, TypeOK, Idle
  <2>3. ASSUME PassChild(s) PROVE Goal
    <3>1. session'[s] = [at |-> "applying", run |-> session[s].run, file |-> session[s].file,
                         view |-> session[s].view, next |-> session[s].next + 1]
      BY <1>1, <2>3 DEF PassChild, TypeOK, Onward
    <3>2. session[s].at = "applying" /\ session[s].next \in Child
      BY <2>3 DEF PassChild
    <3>3. Passed(session[s].run, session[s].file, session[s].next)
      BY <2>3 DEF PassChild, Passed
    <3>4. \A i \in Child : i < session[s].next + 1 => i < session[s].next \/ i = session[s].next
      BY <3>2, SizeAssumption DEF Child
    <3> QED BY <3>1, <3>2, <3>3, <3>4 DEF IInv, Walk, WalkOf
  <2>4. ASSUME NEW r \in RunId, NEW f \in File, PreviewRun(s, r, f) PROVE Goal
    <3>1. session'[s] = [at |-> "shown", run |-> r, file |-> f,
                         view |-> [j \in Job |-> Shown(r, f, j)], next |-> 1]
      BY <1>1, <2>4 DEF PreviewRun, TypeOK
    <3>2. run[r].state = "exported"
      BY <2>4 DEF PreviewRun, RunPreviews
    <3> QED BY <3>1, <3>2
  <2> QED BY <2>1, <2>2, <2>3, <2>4
<1>5. Walk'
  BY <1>2, <1>3, <1>4 DEF IInv, Walk, WalkOf, Passed
<1>6. /\ UnusedEmpty' /\ InOrder' /\ OneLease' /\ PaidOnce' /\ ReadFresh' /\ OneFile' /\ RunSettled'
  BY <1>2 DEF IInv, UnusedEmpty, InOrder, OneLease, PaidOnce, ReadFresh, Unpaid, OneFile, RunSettled
<1> QED
  BY <1>1, <1>5, <1>6 DEF IInv

\* A request that has gone past every child completes the run with its file.
LEMMA CompleteInv == IInv /\ (\E s \in Session : CompleteRun(s)) => IInv'
<1> SUFFICES ASSUME IInv, NEW s \in Session, CompleteRun(s) PROVE IInv'
  OBVIOUS
<1> DEFINE r == session[s].run
           f == session[s].file
<1>1. TypeOK /\ TypeOK'
  BY SessionType DEF IInv
<1>2. /\ UNCHANGED <<job, kid, item, export>>
      /\ session' = [session EXCEPT ![s] = Idle]
      /\ session[s].at = "applying" /\ session[s].next \notin Child
      /\ Incomplete(r) = {} /\ run[r].state = "exported"
      /\ run' = [run EXCEPT ![r] = [stage |-> run[r].stage, state |-> "completed",
                                    expired |-> run[r].expired, file |-> f]]
  BY DEF CompleteRun
<1>3. r \in RunId /\ f \in File /\ session[s].next \in 1..(Slots + 1)
  BY <1>1, <1>2 DEF TypeOK
<1>4. /\ run'[r].state = "completed" /\ run'[r].file = f /\ run'[r].stage = run[r].stage
      /\ \A q \in RunId : q # r => run'[q] = run[q]
  <2> HIDE DEF r, f
  <2> QED BY <1>1, <1>2, <1>3 DEF TypeOK
<1>5. \A i \in Child : Passed(r, f, i)
  <2>1. \A i \in Child : i < session[s].next
    BY <1>2, <1>3, SizeAssumption DEF Child
  <2> QED BY <1>2, <2>1 DEF IInv, Walk, WalkOf
<1>6. \A t \in Session : session'[t].at # "idle" => session'[t] = session[t] /\ session[t].at # "idle"
  BY <1>1, <1>2 DEF TypeOK, Idle
<1> HIDE DEF r, f
<1>7. UnusedEmpty' /\ InOrder' /\ OneLease'
  BY <1>2, <1>4 DEF IInv, UnusedEmpty, InOrder, OneLease
<1>8. ReadFresh'
  BY <1>2 DEF IInv, ReadFresh, Unpaid
<1>9. PaidOnce'
  BY <1>2, <1>4 DEF IInv, PaidOnce
<1>10. Walk'
  <2> SUFFICES ASSUME NEW t \in Session, session'[t].at # "idle" PROVE WalkOf(t)'
    BY DEF Walk, WalkOf
  <2>1. session'[t] = session[t] /\ session[t].at # "idle" /\ session[t].run \in RunId
    BY <1>1, <1>6 DEF TypeOK
  <2>2. run'[session[t].run].state # "unused"
    BY <1>4, <2>1 DEF IInv, Walk, WalkOf
  <2> QED BY <1>2, <2>1, <2>2 DEF IInv, Walk, WalkOf, Passed
<1>11. OneFile'
  <2>1. \A k \in Child : kid'[r][k].state = "completed" => kid'[r][k].result = f[k]
    BY <1>2, <1>5 DEF Passed
  <2>2. \A q \in RunId : q # r => \E g \in File :
          /\ \A k \in Child : kid'[q][k].state = "completed" => kid'[q][k].result = g[k]
          /\ run'[q].state = "completed" => run'[q].file = g
    BY <1>2, <1>4 DEF IInv, OneFile
  <2> QED BY <1>3, <1>4, <2>1, <2>2 DEF OneFile
<1>12. RunSettled'
  <2>1. \A k \in Child : kid'[r][k].state \in {"absent", "completed"}
    BY <1>2, <1>5 DEF Passed
  <2> QED BY <1>2, <1>4, <2>1 DEF IInv, RunSettled
<1> QED
  BY <1>1, <1>7, <1>8, <1>9, <1>10, <1>11, <1>12 DEF IInv

\* What applying a child does to its cards: one that is scored loses nothing
\* another batch or stage had, and leaves the exports that read it.
LEMMA LandedScores ==
  ASSUME TypeOK, NEW s \in Session, ApplyChild(s), NEW j \in Job
  PROVE  LET r == session[s].run
             k == session[s].next
             f == session[s].file
         IN /\ j \notin Items(r, k) \/ Disposition(r, f, j) \in {"retain", "fail"} =>
                 job'[j].aim = job[j].aim /\ job'[j].exp = job[j].exp
            /\ run[r].stage = "aim" => job'[j].exp = job[j].exp
            /\ run[r].stage = "experience" => job'[j].aim = job[j].aim
<1> DEFINE r == session[s].run
           k == session[s].next
           f == session[s].file
<1>1. \/ j \notin Items(r, k) /\ job'[j] = job[j]
      \/ \E a \in Admission : j \in Items(r, k) /\ job'[j] = Landed(r, f, j, a)
  BY ApplyMoves
<1>2. r \in RunId /\ run[r].stage \in Stage
  BY DEF ApplyChild, TypeOK, Run
<1> HIDE DEF r, k, f
<1>3. \A a \in Admission : Disposition(r, f, j) \in {"retain", "fail"} =>
        Landed(r, f, j, a).aim = job[j].aim /\ Landed(r, f, j, a).exp = job[j].exp
  BY DEF Landed
<1>4. \A a \in Admission :
        /\ run[r].stage = "aim" => Landed(r, f, j, a).exp = job[j].exp
        /\ run[r].stage = "experience" => Landed(r, f, j, a).aim = job[j].aim
  BY DEF Landed
<1> QED
  BY <1>1, <1>3, <1>4 DEF r, k, f

\* A child is applied: its results are the file's, after those of every child
\* before it, and no other exported batch holds its cards.
LEMMA ApplyInv == IInv /\ (\E s \in Session : ApplyChild(s)) => IInv'
<1> SUFFICES ASSUME IInv, NEW s \in Session, ApplyChild(s) PROVE IInv'
  OBVIOUS
<1> DEFINE r == session[s].run
           k == session[s].next
           f == session[s].file
<1>1. TypeOK /\ TypeOK'
  BY ApplyType DEF IInv
<1>2. r \in RunId /\ f \in File /\ k \in Child
  BY <1>1 DEF ApplyChild, TypeOK
<1>3. /\ UNCHANGED <<run, item>> /\ session[s].at = "applying" /\ kid[r][k].state = "exported"
      /\ kid' = [kid EXCEPT ![r] = [kid[r] EXCEPT ![k] = [state |-> "completed", result |-> f[k]]]]
      /\ session' = [session EXCEPT ![s] = [at |-> "applying", run |-> r, file |-> f,
                                            view |-> session[s].view, next |-> k + 1]]
      /\ export' = Undone({j \in Items(r, k) : Disposition(r, f, j) # "retain"})
  BY DEF ApplyChild, Onward
<1>4. \A j \in Job :
        /\ j \notin Items(r, k) \/ Disposition(r, f, j) \in {"retain", "fail"} =>
             job'[j].aim = job[j].aim /\ job'[j].exp = job[j].exp
        /\ run[r].stage = "aim" => job'[j].exp = job[j].exp
        /\ run[r].stage = "experience" => job'[j].aim = job[j].aim
  BY <1>1, LandedScores
<1>5. \A i \in Child : i < k => Passed(r, f, i)
  BY <1>3 DEF IInv, Walk, WalkOf
<1> HIDE DEF r, k, f
<1>6. /\ kid'[r][k].state = "completed" /\ kid'[r][k].result = f[k]
      /\ \A i \in Child : i # k => kid'[r][i] = kid[r][i]
      /\ \A q \in RunId : q # r => kid'[q] = kid[q]
  BY <1>1, <1>2, <1>3 DEF TypeOK
<1>7. /\ session'[s] = [at |-> "applying", run |-> r, file |-> f,
                        view |-> session[s].view, next |-> k + 1]
      /\ \A t \in Session : t # s => session'[t] = session[t]
  BY <1>1, <1>3 DEF TypeOK
<1>8. \A i \in Child : kid[r][i].state = "completed" => i < k
  <2> SUFFICES ASSUME NEW i \in Child, kid[r][i].state = "completed", ~(i < k) PROVE FALSE
    OBVIOUS
  <2>1. i # k
    BY <1>3
  <2>2. k < i
    BY <1>2, <2>1, SizeAssumption DEF Child
  <2>3. kid[r][k].state \in {"absent", "completed"}
    BY <1>2, <2>2 DEF IInv, InOrder
  <2> QED BY <1>3, <2>3
<1>9. \A i \in Child : kid[r][i].state = "completed" => kid[r][i].result = f[i]
  BY <1>5, <1>8 DEF Passed
<1>10. UnusedEmpty'
  <2>1. run[r].state # "unused"
    BY <1>2, <1>3 DEF IInv, UnusedEmpty
  <2> QED BY <1>3, <1>6, <2>1 DEF IInv, UnusedEmpty
<1>11. InOrder'
  <2>1. ASSUME NEW j \in Child, kid'[r][j].state = "completed", NEW i \in Child, i < j
        PROVE  kid'[r][i].state \in {"absent", "completed"}
    <3>1. i < k \/ i = k
      <4>1. j < k \/ j = k
        BY <1>6, <1>8, <2>1
      <4> QED BY <1>2, <2>1, <4>1, SizeAssumption DEF Child
    <3>2. i < k => kid[r][i].state \in {"absent", "completed"}
      BY <1>5 DEF Passed
    <3> QED BY <1>6, <3>1, <3>2
  <2> QED BY <1>2, <1>6, <2>1 DEF IInv, InOrder
<1>12. Walk'
  <2> SUFFICES ASSUME NEW t \in Session, session'[t].at # "idle" PROVE WalkOf(t)'
    BY DEF Walk, WalkOf
  <2>1. CASE t = s
    <3>1. run'[r].state # "unused"
      BY <1>2, <1>3 DEF IInv, UnusedEmpty
    <3>2. \A i \in Child : i < k + 1 => i < k \/ i = k
      BY <1>2, SizeAssumption DEF Child
    <3>3. \A i \in Child : i < k + 1 =>
            kid'[r][i].state = "absent" \/ (kid'[r][i].state = "completed" /\ kid'[r][i].result = f[i])
      BY <1>5, <1>6, <3>2 DEF Passed
    <3> QED BY <1>7, <2>1, <3>1, <3>3 DEF WalkOf, Passed
  <2>2. CASE t # s
    <3>1. session'[t] = session[t] /\ session[t].run \in RunId /\ WalkOf(t)
      BY <1>1, <1>7, <2>2 DEF IInv, Walk, TypeOK
    <3>2. \A q \in RunId, i \in Child : kid[q][i].state \in {"absent", "completed"} => kid'[q][i] = kid[q][i]
      BY <1>2, <1>3, <1>6
    <3> QED BY <1>3, <3>1, <3>2 DEF WalkOf, Passed
  <2> QED BY <2>1, <2>2
<1>13. ReadFresh'
  <2> DEFINE J == {j \in Items(r, k) : Disposition(r, f, j) # "retain"}
  <2>1. \A j \in Job \ J : job'[j].aim = job[j].aim /\ job'[j].exp = job[j].exp
    BY <1>4
  <2>2. export' = Undone(J)
    BY <1>3
  <2> HIDE DEF J
  <2> QED BY <1>1, <2>1, <2>2, UndoneFresh DEF IInv
<1>14. \A q \in RunId, j \in Job : item[q][j].slot # 0 =>
         /\ item[q][j].slot \in Child
         /\ kid'[q][item[q][j].slot].state \in {"exported", "superseded"} =>
              kid'[q][item[q][j].slot] = kid[q][item[q][j].slot]
  <2>1. \A q \in RunId, j \in Job : item[q][j].slot # 0 => item[q][j].slot \in Child
    BY <1>1, SizeAssumption DEF TypeOK, Item, Child
  <2>2. \A q \in RunId, i \in Child :
          kid'[q][i].state \in {"exported", "superseded"} => kid'[q][i] = kid[q][i]
    BY <1>6
  <2> QED BY <2>1, <2>2
<1>15. OneLease'
  BY <1>3, <1>14 DEF IInv, OneLease
<1>16. PaidOnce'
  <2> SUFFICES ASSUME NEW q \in RunId, NEW j \in Job, item'[q][j].slot # 0,
                      kid'[q][item'[q][j].slot].state = "exported"
               PROVE  Unpaid(run'[q].stage, job'[j])
    BY DEF PaidOnce, Unpaid
  <2>1. /\ item[q][j].slot # 0 /\ item[q][j].slot \in Child
        /\ kid[q][item[q][j].slot].state = "exported"
        /\ kid'[q][item[q][j].slot].state = "exported"
    BY <1>3, <1>14
  <2>2. Unpaid(run[q].stage, job[j])
    BY <2>1 DEF IInv, PaidOnce, Unpaid
  <2>3. j \notin Items(r, k)
    <3> SUFFICES ASSUME item[r][j].slot = k PROVE FALSE
      BY DEF Items
    <3>1. k # 0
      BY <1>2, SizeAssumption DEF Child
    <3>2. q = r
      BY <1>2, <1>3, <2>1, <3>1 DEF IInv, OneLease
    <3> QED BY <1>6, <2>1, <3>2
  <2> QED BY <1>3, <1>4, <2>2, <2>3 DEF Unpaid
<1>17. run[r].state # "completed"
  BY <1>2, <1>3 DEF IInv, RunSettled
<1>18. OneFile'
  <2>1. \A i \in Child : kid'[r][i].state = "completed" => kid'[r][i].result = f[i]
    BY <1>6, <1>9
  <2>2. \A q \in RunId : q # r => \E g \in File :
          /\ \A i \in Child : kid'[q][i].state = "completed" => kid'[q][i].result = g[i]
          /\ run'[q].state = "completed" => run'[q].file = g
    BY <1>3, <1>6 DEF IInv, OneFile
  <2> QED BY <1>2, <1>3, <1>17, <2>1, <2>2 DEF OneFile
<1>19. RunSettled'
  <2>1. \A q \in RunId : (\E i \in Child : kid'[q][i].state = "released")
                        <=> (\E i \in Child : kid[q][i].state = "released")
    BY <1>2, <1>3, <1>6
  <2> QED BY <1>3, <1>6, <1>17, <2>1 DEF IInv, RunSettled
<1> QED
  BY <1>1, <1>10, <1>11, <1>12, <1>13, <1>15, <1>16, <1>18, <1>19 DEF IInv

\* A card is decided on, edited without a rescore, or triaged: no score changes.
LEMMA CardInv ==
  IInv /\ (\E j \in Job : Decide(j) \/ Triage(j) \/ \E t \in Text : EditKept(j, t)) => IInv'
<1> SUFFICES ASSUME IInv, NEW j \in Job, Decide(j) \/ Triage(j) \/ \E t \in Text : EditKept(j, t)
             PROVE  IInv'
  OBVIOUS
<1>1. TypeOK /\ TypeOK'
  BY CardType DEF IInv
<1>2. UNCHANGED <<run, kid, item, session>> /\ export' = Undone({j})
  BY DEF Decide, Triage, EditKept
<1>3. \A i \in Job : job'[i].aim = job[i].aim /\ job'[i].exp = job[i].exp
  BY <1>1 DEF Decide, Triage, EditKept, TypeOK
<1>4. UnusedEmpty' /\ InOrder' /\ Walk' /\ OneLease' /\ OneFile' /\ RunSettled'
  BY <1>2, RunsStand DEF IInv
<1>5. PaidOnce'
  BY <1>2, <1>3 DEF IInv, PaidOnce
<1>6. ReadFresh'
  BY <1>1, <1>2, <1>3, UndoneFresh DEF IInv
<1> QED
  BY <1>1, <1>4, <1>5, <1>6 DEF IInv

\* A rescore leaves no current score and supersedes the batch of the card.
LEMMA RescoreInv == IInv /\ (\E j \in Job, t \in Text : Rescore(j, t)) => IInv'
<1> SUFFICES ASSUME IInv, NEW j \in Job, NEW t \in Text, Rescore(j, t) PROVE IInv'
  OBVIOUS
<1>1. TypeOK /\ TypeOK'
  BY CardType DEF IInv
<1>2. /\ UNCHANGED <<run, item, session>> /\ export' = Undone({j})
      /\ kid' = Superseded(j)
  BY DEF Rescore
<1>3. /\ job'[j].aim \in {"none", "stale"} /\ job'[j].exp # "current"
      /\ \A i \in Job : i # j => job'[i] = job[i]
  BY <1>1 DEF Rescore, TypeOK
<1>4. \A r \in RunId, k \in Child :
        \/ kid'[r][k] = kid[r][k]
        \/ kid[r][k].state = "exported" /\ kid'[r][k].state = "superseded"
  BY <1>2 DEF Superseded
<1>5. UnusedEmpty' /\ InOrder' /\ Walk' /\ OneLease'
  BY <1>1, <1>2, <1>4, KidsLeave
<1>6. PaidOnce'
  <2> SUFFICES ASSUME NEW r \in RunId, NEW i \in Job, item'[r][i].slot # 0,
                      kid'[r][item'[r][i].slot].state = "exported"
               PROVE  Unpaid(run'[r].stage, job'[i])
    BY DEF PaidOnce, Unpaid
  <2>1. item[r][i].slot \in Child
    BY <1>1, <1>2, SizeAssumption DEF TypeOK, Item, Child
  <2>2. kid[r][item[r][i].slot].state = "exported"
    BY <1>2, <1>4, <2>1
  <2>3. Unpaid(run[r].stage, job[i])
    BY <1>2, <2>2 DEF IInv, PaidOnce, Unpaid
  <2> QED BY <1>2, <1>3, <2>3 DEF Unpaid
<1>7. ReadFresh'
  BY <1>1, <1>2, <1>3, UndoneFresh DEF IInv
<1>8. \A r \in RunId, k \in Child :
        kid'[r][k].state \in {"completed", "released", "absent"} => kid'[r][k] = kid[r][k]
  BY <1>4
<1>9. \A r \in RunId, k \in Child :
        kid[r][k].state \in {"completed", "released", "absent"} => kid'[r][k] = kid[r][k]
  BY <1>4
<1>10. OneFile'
  <2> SUFFICES ASSUME NEW r \in RunId
               PROVE  \E f \in File :
                        /\ \A k \in Child : kid'[r][k].state = "completed" => kid'[r][k].result = f[k]
                        /\ run'[r].state = "completed" => run'[r].file = f
    BY DEF OneFile
  <2>1. PICK f \in File :
          /\ \A k \in Child : kid[r][k].state = "completed" => kid[r][k].result = f[k]
          /\ run[r].state = "completed" => run[r].file = f
    BY DEF IInv, OneFile
  <2> QED BY <1>2, <1>8, <2>1
<1>11. RunSettled'
  BY <1>2, <1>8, <1>9 DEF IInv, RunSettled
<1> QED
  BY <1>1, <1>5, <1>6, <1>7, <1>10, <1>11 DEF IInv

\* Every step keeps the invariant.
LEMMA NextInv == IInv /\ [Next]_vars => IInv'
<1>1. ASSUME IInv, UNCHANGED vars PROVE IInv'
  <2>1. TypeOK'
    BY <1>1 DEF IInv, TypeOK, vars
  <2>2. UNCHANGED <<job, run, kid, item, session, export>>
    BY <1>1 DEF vars
  <2>3. UnusedEmpty' /\ InOrder' /\ Walk' /\ OneLease' /\ OneFile' /\ RunSettled'
    BY <1>1, <2>2, RunsStand DEF IInv
  <2>4. PaidOnce' /\ ReadFresh'
    BY <1>1, <2>2 DEF IInv, PaidOnce, ReadFresh, Unpaid
  <2> QED BY <2>1, <2>3, <2>4 DEF IInv
<1> QED
  BY <1>1, ExportInv, CreateInv, ClockInv, ReleaseInv, SessionInv, CompleteInv, ApplyInv,
     CardInv, RescoreInv DEF Next

\* IInv, of which the safety theorems are parts.
LEMMA Invariance == Spec => []IInv
<1>1. Init => IInv
  BY InitInv
<1>2. IInv /\ [Next]_vars => IInv'
  BY NextInv
<1> QED
  BY <1>1, <1>2, PTL DEF Spec

-----------------------------------------------------------------------------
(***************************************************************************)
(* The theorems.                                                           *)
(***************************************************************************)
\* OneLease: no two batches of any runs ever lease one card (createScoringRun
\* rechecks what the export read).
THEOREM Leases == Spec => []OneLease
<1>1. IInv => OneLease
  BY DEF IInv
<1> QED
  BY <1>1, Invariance, PTL

\* PaidOnce: a card out for a stage has no current score of it, whatever was
\* imported between the read and the lease of its export.
THEOREM Paid == Spec => []PaidOnce
<1>1. IInv => PaidOnce
  BY DEF IInv
<1> QED
  BY <1>1, Invariance, PTL

\* OneFile: the children of a run hold the results of one file, however many
\* requests import into it and wherever they die (applyScoringRunImport).
THEOREM Files == Spec => []OneFile
<1>1. IInv => OneFile
  BY DEF IInv
<1> QED
  BY <1>1, Invariance, PTL

\* RunSettled: runs and their children end together (releaseScoringRun).
THEOREM Settled == Spec => []RunSettled
<1>1. IInv => RunSettled
  BY DEF IInv
<1> QED
  BY <1>1, Invariance, PTL

\* A child completes only by an import of it, which is approved card by card.
LEMMA OnlyApplyCompletes ==
  ASSUME IInv, [Next]_vars, NEW r \in RunId, NEW k \in Child,
         Completes(r, k)
  PROVE  \E s \in Session : ApplyChild(s) /\ session[s].run = r /\ session[s].next = k
<1> USE DEF Completes
<1>1. TypeOK
  BY DEF IInv
<1>2. ~ UNCHANGED kid
  OBVIOUS
<1>3. ASSUME NEW e \in Exporter, NEW q \in RunId, CreateRun(e, q) PROVE FALSE
  <2>1. q # r => kid'[r] = kid[r]
    BY <1>1, <1>3 DEF CreateRun, TypeOK
  <2>2. \A i \in Child : kid'[q][i].state \in {"exported", "absent"}
    BY <1>1, <1>3 DEF CreateRun, TypeOK
  <2> QED BY <2>1, <2>2
<1>4. ASSUME NEW q \in RunId, ReleaseRun(q) PROVE FALSE
  <2>1. q # r => kid'[r] = kid[r]
    BY <1>1, <1>4 DEF ReleaseRun, TypeOK
  <2>2. \A i \in Child : kid'[q][i].state = "released" \/ kid'[q][i] = kid[q][i]
    BY <1>1, <1>4 DEF ReleaseRun, TypeOK
  <2> QED BY <2>1, <2>2
<1>5. ASSUME NEW j \in Job, NEW t \in Text, Rescore(j, t) PROVE FALSE
  <2>1. kid'[r][k] = kid[r][k] \/ kid'[r][k].state = "superseded"
    BY <1>5 DEF Rescore, Superseded
  <2> QED BY <2>1
<1>6. PICK s \in Session : ApplyChild(s)
  <2>1. Next
    BY <1>2 DEF vars
  <2>2. /\ ~ \E e \in Exporter : ReadCards(e) \/ ExportFails(e)
        /\ ~ \E q \in RunId : Expire(q) \/ ExtendRun(q)
        /\ ~ \E s \in Session : \/ StartApply(s) \/ SessionEnds(s) \/ PassChild(s) \/ CompleteRun(s)
                                \/ \E q \in RunId, f \in File : PreviewRun(s, q, f)
        /\ ~ \E j \in Job : Decide(j) \/ Triage(j) \/ \E t \in Text : EditKept(j, t)
    BY <1>2 DEF ReadCards, ExportFails, Expire, ExtendRun, StartApply, SessionEnds, PassChild,
                CompleteRun, PreviewRun, Decide, Triage, EditKept
  <2> QED BY <1>3, <1>4, <1>5, <2>1, <2>2 DEF Next
<1>7. /\ session[s].run \in RunId /\ session[s].next \in Child
      /\ \A q \in RunId, i \in Child : q # session[s].run \/ i # session[s].next => kid'[q][i] = kid[q][i]
  BY <1>1, <1>6 DEF ApplyChild, TypeOK
<1> QED
  BY <1>6, <1>7

\* The record of a card with one field written is the record the import writes.
LEMMA FailedCard ==
  ASSUME NEW c \in Card
  PROVE  [text |-> c.text, status |-> c.status, scoring |-> "failed", aim |-> c.aim,
          basis |-> c.basis, exp |-> c.exp, scored |-> c.scored] = [c EXCEPT !.scoring = "failed"]
  BY DEF Card

\* What an import does to a card of its child is what its preview said of it.
LEMMA CardAsShown ==
  ASSUME TypeOK, NEW r \in RunId, NEW f \in File, NEW k \in Child, NEW j \in Items(r, k),
         kid[r][k].state = "exported", NEW a \in Admission, job'[j] = Landed(r, f, j, a)
  PROVE  /\ Shown(r, f, j).act \in {"retain", "fail", "keep", "apply"}
         /\ Shown(r, f, j).status = job[j].status
         /\ Shown(r, f, j).act = "retain" => job'[j] = job[j]
         /\ Shown(r, f, j).act = "fail" => job'[j] = [job[j] EXCEPT !.scoring = "failed"]
         /\ Shown(r, f, j).act = "keep" => job'[j].status = job[j].status
         /\ Shown(r, f, j).act = "apply" =>
              \/ job'[j].status = Shown(r, f, j).proposed
              \/ Shown(r, f, j).proposed = "inbox" /\ job'[j].status \in Admission
         /\ Shown(r, f, j).act \in {"keep", "apply"} =>
              /\ job'[j].text = item[r][j].text /\ job[j].text = item[r][j].text
              /\ run[r].stage = "aim" => job'[j].aim = IF f[k] = "good" THEN "passed" ELSE "rejected"
              /\ run[r].stage = "experience" => job'[j].exp = "current"
<1>1. j \in Job /\ item[r][j].slot = k /\ k # 0
  BY SizeAssumption DEF Items, Child
<1>2. /\ Shown(r, f, j).act = Disposition(r, f, j) /\ Shown(r, f, j).status = job[j].status
      /\ Disposition(r, f, j) \notin {"retain", "fail"} =>
           Shown(r, f, j).proposed = Proposed(run[r].stage, f[k])
  BY <1>1 DEF Shown
<1>3. job[j] \in Card
  BY <1>1 DEF TypeOK
<1>4. Disposition(r, f, j) \in {"retain", "fail", "keep", "apply"}
  BY DEF Disposition
<1>5. Disposition(r, f, j) = "retain" => Landed(r, f, j, a) = job[j]
  BY DEF Landed
<1>6. Disposition(r, f, j) = "fail" => Landed(r, f, j, a) = [job[j] EXCEPT !.scoring = "failed"]
  BY <1>3, FailedCard DEF Landed
<1>7. Disposition(r, f, j) = "keep" => Landed(r, f, j, a).status = job[j].status
  BY DEF Landed
<1>8. Disposition(r, f, j) = "apply" =>
        Landed(r, f, j, a).status = IF Proposed(run[r].stage, f[k]) = "inbox" THEN a
                                    ELSE Proposed(run[r].stage, f[k])
  BY <1>1 DEF Landed
<1>9. Disposition(r, f, j) \in {"keep", "apply"} =>
        /\ job[j].text = item[r][j].text /\ Landed(r, f, j, a).text = job[j].text
        /\ run[r].stage = "aim" =>
             Landed(r, f, j, a).aim = IF f[k] = "good" THEN "passed" ELSE "rejected"
        /\ run[r].stage = "experience" => Landed(r, f, j, a).exp = "current"
  BY <1>1 DEF Landed, Disposition
<1> QED
  BY <1>2, <1>4, <1>5, <1>6, <1>7, <1>8, <1>9

\* ShownIsDone: what an import does to each card is what its approved preview
\* said, its outcome included and only the Inbox left open, whatever happened in
\* between (the token and the statuses it binds).
THEOREM Shown_Done == Spec => ShownIsDone
<1>1. IInv /\ [Next]_vars => [\A r \in RunId, k \in Child : Completes(r, k) =>
          \E s \in Session :
            /\ session[s].at = "applying" /\ session[s].run = r /\ session[s].next = k
            /\ AsShown(s, r, k)]_vars
  <2> SUFFICES ASSUME IInv, [Next]_vars, NEW r \in RunId, NEW k \in Child, Completes(r, k)
               PROVE  \E s \in Session :
            /\ session[s].at = "applying" /\ session[s].run = r /\ session[s].next = k
            /\ AsShown(s, r, k)
    OBVIOUS
  <2>1. PICK s \in Session : ApplyChild(s) /\ session[s].run = r /\ session[s].next = k
    BY OnlyApplyCompletes
  <2>2. session[s].at = "applying" /\ kid[r][k].state = "exported" /\ Approved(s, r, k)
    BY <2>1 DEF ApplyChild
  <2>3. PICK adm \in [Items(r, k) -> Admission] :
          job' = [j \in Job |-> IF j \in Items(r, k)
                               THEN Landed(r, session[s].file, j, adm[j]) ELSE job[j]]
    BY <2>1, ApplyMoves
  <2>4. session[s].file \in File /\ TypeOK
    BY <2>2 DEF IInv, TypeOK
  <2>5. ASSUME NEW j \in Items(r, k)
        PROVE  /\ adm[j] \in Admission /\ job'[j] = Landed(r, session[s].file, j, adm[j])
               /\ session[s].view[j] = Shown(r, session[s].file, j)
    BY <2>2, <2>3 DEF Approved, Items
  <2>6. AsShown(s, r, k)
    BY <2>2, <2>4, <2>5, CardAsShown DEF AsShown
  <2> QED BY <2>1, <2>2, <2>6
<1> QED
  BY <1>1, Invariance, PTL DEF Spec, ShownIsDone

\* What a step does to the scores of a card, apart from an import.
LEMMA ScoresElsewhere ==
  ASSUME TypeOK, [Next]_vars, ~ \E s \in Session : ApplyChild(s), NEW j \in Job
  PROVE  /\ job'[j].aim \in {job[j].aim, "none", "stale"}
         /\ job'[j].exp \in {job[j].exp, "none", "stale"}
         /\ job[j].status = "decided" => job'[j].status = "decided"
<1>1. CASE UNCHANGED job
  BY <1>1
<1>2. ASSUME NEW i \in Job, Decide(i) \/ Triage(i) \/ \E t \in Text : EditKept(i, t) \/ Rescore(i, t)
      PROVE  /\ job'[j].aim \in {job[j].aim, "none", "stale"}
             /\ job'[j].exp \in {job[j].exp, "none", "stale"}
             /\ job[j].status = "decided" => job'[j].status = "decided"
  <2>1. i # j => job'[j] = job[j]
    BY <1>2 DEF TypeOK, Decide, Triage, EditKept, Rescore
  <2>2. ASSUME i = j, Decide(j) \/ Triage(j) \/ \E t \in Text : EditKept(j, t)
        PROVE  /\ job'[j].aim = job[j].aim /\ job'[j].exp = job[j].exp
               /\ job[j].status = "decided" => job'[j].status = "decided"
    BY <2>2 DEF TypeOK, Decide, Triage, EditKept
  <2>3. ASSUME i = j, NEW t \in Text, Rescore(j, t)
        PROVE  /\ job'[j].aim \in {"none", "stale"} /\ job'[j].exp \in {"none", "stale"}
               /\ job[j].status = "decided" => job'[j].status = "decided"
    BY <2>3 DEF TypeOK, Rescore
  <2> QED BY <1>2, <2>1, <2>2, <2>3
<1>3. UNCHANGED job \/ \E i \in Job : Decide(i) \/ Triage(i) \/ \E t \in Text : EditKept(i, t) \/ Rescore(i, t)
  BY DEF Next, vars, ReadCards, ExportFails, CreateRun, Expire, ExtendRun, ReleaseRun, StartApply,
         SessionEnds, PassChild, CompleteRun, PreviewRun
<1> QED
  BY <1>1, <1>2, <1>3

\* DecisionStands: neither an import nor a rescore moves a card Joseph decided.
THEOREM Decisions == Spec => DecisionStands
<1>1. IInv /\ [Next]_vars => [\A j \in Job : job[j].status = "decided" => job'[j].status = "decided"]_vars
  <2> SUFFICES ASSUME IInv, [Next]_vars, NEW j \in Job, job[j].status = "decided"
               PROVE  job'[j].status = "decided"
    OBVIOUS
  <2>1. ASSUME NEW s \in Session, ApplyChild(s) PROVE job'[j].status = "decided"
    <3> DEFINE r == session[s].run
               k == session[s].next
               f == session[s].file
    <3>1. job'[j] = job[j] \/ \E a \in Admission : job'[j] = Landed(r, f, j, a)
      BY <2>1, ApplyMoves
    <3> HIDE DEF r, k, f
    <3>2. Disposition(r, f, j) \in {"retain", "fail", "keep"}
      BY DEF Disposition, Protected
    <3>3. \A a \in Admission : Landed(r, f, j, a).status = job[j].status
      BY <3>2 DEF Landed
    <3> QED BY <3>1, <3>3
  <2> QED BY <2>1, ScoresElsewhere DEF IInv
<1> QED
  BY <1>1, Invariance, PTL DEF Spec, DecisionStands

\* A card whose child is applied has no current score of the stage, and only a
\* result for the text it was exported with gives it one.
LEMMA ChildFits ==
  ASSUME IInv, NEW s \in Session, ApplyChild(s)
  PROVE  Fits(session[s].run, session[s].next)
<1> DEFINE r == session[s].run
           k == session[s].next
           f == session[s].file
<1>1. r \in RunId /\ k \in Child /\ f \in File /\ run[r].stage \in Stage
  BY DEF IInv, TypeOK, ApplyChild, Run
<1>2. kid[r][k].state = "exported" /\ CurrentAim(r, k)
  BY DEF ApplyChild
<1>3. PICK adm \in [Items(r, k) -> Admission] :
        job' = [j \in Job |-> IF j \in Items(r, k) THEN Landed(r, f, j, adm[j]) ELSE job[j]]
  BY ApplyMoves
<1> HIDE DEF r, k, f
<1>4. ASSUME NEW j \in Items(r, k), Score(run[r].stage, job'[j]) \in Standing
      PROVE  /\ Score(run[r].stage, job[j]) \notin Standing
             /\ job[j].text = item[r][j].text /\ job'[j].text = item[r][j].text
             /\ run[r].stage = "experience" => job[j].aim = "passed" /\ job[j].basis = item[r][j].text
  <2>1. j \in Job /\ item[r][j].slot = k /\ k # 0 /\ job[j] \in Card
    BY <1>1, SizeAssumption DEF Items, Child, IInv, TypeOK
  <2>2. Unpaid(run[r].stage, job[j])
    BY <1>1, <1>2, <2>1 DEF IInv, PaidOnce, Unpaid
  <2>3. Score(run[r].stage, job[j]) \notin Standing
    BY <1>1, <2>1, <2>2 DEF Unpaid, Score, Standing, Stage, Card
  <2>4. job'[j] = Landed(r, f, j, adm[j])
    BY <1>3, <2>1
  <2>5. Disposition(r, f, j) \notin {"retain", "fail"}
    <3> SUFFICES ASSUME Disposition(r, f, j) \in {"retain", "fail"} PROVE FALSE
      OBVIOUS
    <3>1. job'[j].aim = job[j].aim /\ job'[j].exp = job[j].exp
      BY <2>4 DEF Landed
    <3> QED BY <1>4, <2>3, <3>1 DEF Score
  <2>6. job[j].text = item[r][j].text
    BY <2>5 DEF Disposition
  <2>7. job'[j].text = job[j].text
    BY <2>4, <2>5 DEF Landed
  <2>8. run[r].stage = "experience" => job[j].aim = "passed" /\ job[j].basis = item[r][j].text
    BY <1>2 DEF CurrentAim
  <2> QED BY <2>3, <2>6, <2>7, <2>8
<1> QED
  BY <1>4 DEF Fits, r, k, f

\* ScoreFits: a score of either stage lands only with the child exported for it,
\* on the text it was made for, where none stood.
THEOREM Scores == Spec => ScoreFits
<1>1. ASSUME IInv, [Next]_vars, NEW r \in RunId, NEW k \in Child, Completes(r, k) PROVE Fits(r, k)
  BY <1>1, OnlyApplyCompletes, ChildFits
<1>2. ASSUME IInv, [Next]_vars, NEW j \in Job, NEW stage \in Stage,
             Score(stage, job'[j]) \in Standing, Score(stage, job'[j]) # Score(stage, job[j])
      PROVE  \E r \in RunId, k \in Child :
               Completes(r, k) /\ run[r].stage = stage /\ item[r][j].slot = k
  <2>1. PICK s \in Session : ApplyChild(s)
    <3> SUFFICES ASSUME ~ \E s \in Session : ApplyChild(s) PROVE FALSE
      OBVIOUS
    <3>1. /\ job'[j].aim \in {job[j].aim, "none", "stale"}
          /\ job'[j].exp \in {job[j].exp, "none", "stale"}
      BY <1>2, ScoresElsewhere DEF IInv
    <3> QED BY <1>2, <3>1 DEF Score, Standing
  <2> DEFINE r == session[s].run
             k == session[s].next
             f == session[s].file
  <2>2. r \in RunId /\ k \in Child /\ run[r].stage \in Stage
    BY <1>2, <2>1 DEF IInv, TypeOK, ApplyChild, Run
  <2>3. /\ kid[r][k].state = "exported"
        /\ kid' = [kid EXCEPT ![r] = [kid[r] EXCEPT ![k] = [state |-> "completed", result |-> f[k]]]]
    BY <2>1 DEF ApplyChild
  <2>4. /\ j \notin Items(r, k) \/ Disposition(r, f, j) \in {"retain", "fail"} =>
             job'[j].aim = job[j].aim /\ job'[j].exp = job[j].exp
        /\ run[r].stage = "aim" => job'[j].exp = job[j].exp
        /\ run[r].stage = "experience" => job'[j].aim = job[j].aim
    BY <1>2, <2>1, LandedScores DEF IInv
  <2> HIDE DEF r, k, f
  <2>5. Completes(r, k)
    BY <1>2, <2>2, <2>3 DEF Completes, IInv, TypeOK
  <2>6. item[r][j].slot = k
    BY <1>2, <2>4 DEF Score, Items
  <2>7. run[r].stage = stage
    BY <1>2, <2>2, <2>4 DEF Score, Stage
  <2> QED BY <2>2, <2>5, <2>6, <2>7
<1>3. IInv /\ [Next]_vars => [
        /\ \A r \in RunId, k \in Child : Completes(r, k) => Fits(r, k)
        /\ \A j \in Job, stage \in Stage :
             Score(stage, job'[j]) \in Standing /\ Score(stage, job'[j]) # Score(stage, job[j]) =>
               \E r \in RunId, k \in Child :
                 Completes(r, k) /\ run[r].stage = stage /\ item[r][j].slot = k]_vars
  BY <1>1, <1>2
<1> QED
  BY <1>3, Invariance, PTL DEF Spec, ScoreFits
=============================================================================
