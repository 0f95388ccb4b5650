--------------------------- MODULE ScoringExchange ---------------------------
(***************************************************************************)
(* Manual scoring: cards leave in a run, results come back in a file.      *)
(*                                                                         *)
(* An export reads the cards that are ready for a stage and later leases   *)
(* them, in the child batches of one run.  A result file is first shown    *)
(* to Joseph; the token he approves binds exactly what was shown.  Applying *)
(* it commits each child in a transaction of its own and completes the run *)
(* in a last one, while other requests import another file of the same     *)
(* run, release it or extend it, and while cards are edited, rescored,     *)
(* triaged and decided on.  Any request may die between two transactions.  *)
(*                                                                         *)
(* Batches outside a run and the deploy of new scoring inputs are left out. *)
(***************************************************************************)
EXTENDS Integers, FiniteSets

CONSTANTS
  Job,         \* cards, numbered in the order of the export
  RunId,
  Session,     \* import requests
  Exporter,    \* export requests
  Slots,       \* the most children a run has
  ChildSize,   \* cards per child
  Text,        \* what a posting says: description, title, location, company
  File,        \* result files: a verdict per child
  None,
  MaxEdits     \* bound on edits, rescores and decisions

Verdict == {"good", "weak", "failed"}

ASSUME JobAssumption == Job \subseteq Nat /\ IsFiniteSet(Job)
ASSUME SizeAssumption == Slots \in Nat \ {0} /\ ChildSize \in Nat \ {0}
ASSUME RoomAssumption == Cardinality(Job) <= Slots * ChildSize
ASSUME FileAssumption == File \subseteq [1..Slots -> Verdict] /\ File # {} /\ None \notin File
ASSUME BoundAssumption == MaxEdits \in Nat /\ None \notin Verdict

VARIABLES
  job,         \* the card: its text, lifecycle status, scoring status and scores
  run,         \* the run: stage, state, expiry, the file it completed with
  kid,         \* the children of a run: state and accepted result
  item,        \* the child that holds a card, and the text it was exported with
  session,     \* an import request: what was shown, and how far applying got
  export,      \* an export request: the cards it has read
  edits

vars == <<job, run, kid, item, session, export, edits>>

Stage == {"aim", "experience"}

Child == 1..Slots

\* A decided card is closed to automatic scoring: by Joseph or a policy, on the
\* cooldown of its company, or as a repeat of a job Joseph applied to.
Status == {"pending", "inbox", "dismissed", "decided"}

\* aim and exp are the newest events of the two stages, basis the text a current
\* Aim event and its extraction were made from; scored holds the texts an Aim
\* event and its extraction exist for, stale or not.
Card == [text : Text, status : Status, scoring : {"queued", "scored", "failed"},
         aim : {"none", "passed", "rejected", "stale"}, basis : Text \cup {None},
         exp : {"none", "current", "stale"}, scored : SUBSET Text]

Run == [stage : Stage, state : {"unused", "exported", "completed", "released"},
        expired : BOOLEAN, file : File \cup {None}]

Kid == [state : {"absent", "exported", "superseded", "released", "completed"},
        result : Verdict \cup {None}]

Item == [slot : 0..Slots, text : Text]

\* What a preview says of one card: what the import will do, the card's status
\* and the status the result proposes.
View == [Job -> [act : {"absent", "done", "retain", "fail", "keep", "apply"},
                 status : Status \cup {"none"}, proposed : Status \cup {"none"}]]

Unseen == [j \in Job |-> [act |-> "absent", status |-> "none", proposed |-> "none"]]

Idle == [at |-> "idle", run |-> None, file |-> None, view |-> Unseen, next |-> 1]

NoExport == [stage |-> None, read |-> {}]

TypeOK ==
  /\ job \in [Job -> Card]
  /\ run \in [RunId -> Run]
  /\ kid \in [RunId -> [Child -> Kid]]
  /\ item \in [RunId -> [Job -> Item]]
  /\ session \in [Session -> [at : {"idle", "shown", "applying"}, run : RunId \cup {None},
                              file : File \cup {None}, view : View, next : 1..(Slots + 1)]]
  /\ \A s \in Session : session[s].at # "idle" => session[s].run \in RunId /\ session[s].file \in File
  /\ export \in [Exporter -> [stage : Stage \cup {None}, read : SUBSET Job]]
  /\ edits \in 0..MaxEdits

\* A card enters the exchange fresh from local triage, or passed by an Aim run.
Entering == {[text |-> t, status |-> "pending", scoring |-> "scored", aim |-> a,
              basis |-> IF a = "passed" THEN t ELSE None, exp |-> "none",
              scored |-> IF a = "passed" THEN {t} ELSE {}] : t \in Text, a \in {"none", "passed"}}

Init ==
  /\ job \in {[j \in Job |-> c] : c \in Entering}
  /\ run = [r \in RunId |-> [stage |-> "aim", state |-> "unused", expired |-> FALSE, file |-> None]]
  /\ kid = [r \in RunId |-> [k \in Child |-> [state |-> "absent", result |-> None]]]
  /\ item \in [RunId -> [Job -> {[slot |-> 0, text |-> t] : t \in Text}]]
  /\ \A r \in RunId, j \in Job : item[r][j].text = job[j].text
  /\ session = [s \in Session |-> Idle]
  /\ export = [e \in Exporter |-> NoExport]
  /\ edits = 0

-----------------------------------------------------------------------------
Items(r, k) == {j \in Job : item[r][j].slot = k}

Leased_StillExported(j) == \E r \in RunId, k \in Child :   \* mutant
  item[r][j].slot = k /\ kid[r][k].state = "exported"
Leased(j) == \E r \in RunId, k \in Child :
  item[r][j].slot = k /\ kid[r][k].state \in {"exported", "superseded"}

\* A write of a card moves its updatedAt, so an export that read it will fail.
Undone(J) == [e \in Exporter |-> IF export[e].read \cap J # {} THEN NoExport ELSE export[e]]

-----------------------------------------------------------------------------
Ready_Scored(stage) == {j \in Job :   \* mutant
  /\ job[j].status = "pending" /\ job[j].scoring = "scored" /\ ~Leased(j)
  /\ stage = "experience" => job[j].aim = "passed"}
Ready(stage) == {j \in Job :
  /\ job[j].status = "pending" /\ job[j].scoring = "scored" /\ ~Leased(j)
  /\ \/ stage = "aim" /\ job[j].aim \in {"none", "stale"}
     \/ /\ stage = "experience" /\ job[j].aim = "passed" /\ job[j].exp # "current"
        /\ job[j].basis = job[j].text}

ReadCards(e) ==
  /\ export[e] = NoExport
  /\ \E stage \in Stage :
       /\ Ready(stage) # {}
       /\ export' = [export EXCEPT ![e] = [stage |-> stage, read |-> Ready(stage)]]
  /\ UNCHANGED <<job, run, kid, item, session, edits>>

Busy(stage) == \E r \in RunId : run[r].stage = stage /\ run[r].state = "exported"

\* The children of a run are the cards in order, ChildSize at a time.
SlotOf(j, J) == 1 + ((Cardinality({i \in J : i < j})) \div ChildSize)

CreateRun(e, r) ==
  /\ export[e].stage \in Stage /\ run[r].state = "unused"
  /\ ~Busy(export[e].stage)
  /\ \A j \in export[e].read : ~Leased(j)
  /\ LET J == export[e].read IN
     /\ run' = [run EXCEPT ![r] = [stage |-> export[e].stage, state |-> "exported",
                                   expired |-> FALSE, file |-> None]]
     /\ item' = [item EXCEPT ![r] = [j \in Job |->
                  [slot |-> IF j \in J THEN SlotOf(j, J) ELSE 0, text |-> job[j].text]]]
     /\ kid' = [kid EXCEPT ![r] = [k \in Child |->
                  [state |-> IF \E j \in J : SlotOf(j, J) = k THEN "exported" ELSE "absent",
                   result |-> None]]]
  /\ export' = [export EXCEPT ![e] = NoExport]
  /\ UNCHANGED <<job, session, edits>>

\* The stage has an active run, a card is leased, or the request dies.
ExportFails(e) ==
  /\ export[e].stage \in Stage
  /\ export' = [export EXCEPT ![e] = NoExport]
  /\ UNCHANGED <<job, run, kid, item, session, edits>>

Expire(r) ==
  /\ run[r].state = "exported" /\ ~run[r].expired
  /\ run' = [run EXCEPT ![r] = [stage |-> run[r].stage, state |-> "exported",
                                expired |-> TRUE, file |-> run[r].file]]
  /\ UNCHANGED <<job, kid, item, session, export, edits>>

ExtendRun(r) ==
  /\ run[r].state = "exported" /\ run[r].expired
  /\ \A k \in Child : kid[r][k].state \in {"absent", "exported", "completed"}
  /\ run' = [run EXCEPT ![r] = [stage |-> run[r].stage, state |-> "exported",
                                expired |-> FALSE, file |-> run[r].file]]
  /\ UNCHANGED <<job, kid, item, session, export, edits>>

Incomplete(r) == {k \in Child : kid[r][k].state \notin {"absent", "completed"}}

ReleaseRun_Late(r) ==   \* mutant
  /\ run[r].state = "exported"
  /\ kid' = [kid EXCEPT ![r] = [k \in Child |->
               IF k \in Incomplete(r) THEN [state |-> "released", result |-> None] ELSE kid[r][k]]]
  /\ run' = [run EXCEPT ![r] = [stage |-> run[r].stage, state |-> "released",
                                expired |-> run[r].expired, file |-> run[r].file]]
  /\ UNCHANGED <<job, item, session, export, edits>>
ReleaseRun(r) ==
  /\ run[r].state = "exported" /\ Incomplete(r) # {}
  /\ kid' = [kid EXCEPT ![r] = [k \in Child |->
               IF k \in Incomplete(r) THEN [state |-> "released", result |-> None] ELSE kid[r][k]]]
  /\ run' = [run EXCEPT ![r] = [stage |-> run[r].stage, state |-> "released",
                                expired |-> run[r].expired, file |-> run[r].file]]
  /\ UNCHANGED <<job, item, session, export, edits>>

-----------------------------------------------------------------------------
Protected_Inbox(j) == job[j].status = "inbox"   \* mutant
Protected(j) == job[j].status = "decided"

Disposition_AnyText(r, f, j) ==   \* mutant
  IF f[item[r][j].slot] = "failed" THEN "fail"
  ELSE IF Protected(j) THEN "keep" ELSE "apply"
Disposition(r, f, j) ==
  IF job[j].text # item[r][j].text THEN "retain"
  ELSE IF f[item[r][j].slot] = "failed" THEN "fail"
  ELSE IF Protected(j) THEN "keep" ELSE "apply"

CurrentAim(r, k) == run[r].stage = "experience" =>
  \A j \in Items(r, k) : job[j].aim = "passed" /\ job[j].basis = item[r][j].text

KidPreviews(r, k, f) ==
  \/ kid[r][k].state = "absent"
  \/ kid[r][k].state = "completed" /\ kid[r][k].result = f[k]
  \/ kid[r][k].state = "exported" /\ CurrentAim(r, k)

RunPreviews(r, f) ==
  /\ run[r].state = "exported" /\ ~run[r].expired
  /\ \A k \in Child : KidPreviews(r, k, f)

\* Where a result would bring its card.
Proposed(stage, verdict) ==
  IF verdict = "weak" THEN "dismissed" ELSE IF stage = "aim" THEN "pending" ELSE "inbox"

Shown(r, f, j) ==
  IF item[r][j].slot = 0 THEN [act |-> "absent", status |-> "none", proposed |-> "none"]
  ELSE IF kid[r][item[r][j].slot].state = "completed"
  THEN [act |-> "done", status |-> "none", proposed |-> "none"]
  ELSE [act |-> Disposition(r, f, j), status |-> job[j].status,
        proposed |-> IF Disposition(r, f, j) \in {"retain", "fail"} THEN job[j].status
                     ELSE Proposed(run[r].stage, f[item[r][j].slot])]

PreviewRun(s, r, f) ==
  /\ session[s].at = "idle" /\ RunPreviews(r, f)
  /\ session' = [session EXCEPT ![s] = [at |-> "shown", run |-> r, file |-> f,
                                        view |-> [j \in Job |-> Shown(r, f, j)], next |-> 1]]
  /\ UNCHANGED <<job, run, kid, item, export, edits>>

\* The run's preview is built again and must be the one Joseph approved.
StartApply(s) ==
  LET m == session[s] IN
  /\ m.at = "shown" /\ RunPreviews(m.run, m.file)
  /\ \A j \in Job : m.view[j] = Shown(m.run, m.file, j)
  /\ session' = [session EXCEPT ![s] = [at |-> "applying", run |-> m.run, file |-> m.file,
                                        view |-> m.view, next |-> 1]]
  /\ UNCHANGED <<job, run, kid, item, export, edits>>

\* A refusal, a token that lapsed, or a process that dies.
SessionEnds(s) ==
  /\ session[s].at # "idle"
  /\ session' = [session EXCEPT ![s] = Idle]
  /\ UNCHANGED <<job, run, kid, item, export, edits>>

Onward(s) == [session EXCEPT ![s] = [at |-> "applying", run |-> session[s].run, file |-> session[s].file,
                                    view |-> session[s].view, next |-> session[s].next + 1]]

\* A child without cards, a child that was complete in the preview, and a
\* child another request has completed meanwhile with the very same result.
PassChild_Any(s) ==   \* mutant
  LET m == session[s] IN
  /\ m.at = "applying" /\ m.next \in Child
  /\ kid[m.run][m.next].state \in {"absent", "completed"}
  /\ session' = Onward(s)
  /\ UNCHANGED <<job, run, kid, item, export, edits>>
PassChild(s) ==
  LET m == session[s] IN
  /\ m.at = "applying" /\ m.next \in Child
  /\ \/ kid[m.run][m.next].state = "absent"
     \/ kid[m.run][m.next].state = "completed" /\ kid[m.run][m.next].result = m.file[m.next]
  /\ session' = Onward(s)
  /\ UNCHANGED <<job, run, kid, item, export, edits>>

\* The unique key of the score event, or the stored extraction, of this text.
Clash(r, f, j) ==
  /\ run[r].stage = "aim" /\ Disposition(r, f, j) \in {"keep", "apply"}
  /\ job[j].text \in job[j].scored

\* A card bound for the Inbox is admitted, or turned away by its company's
\* cooldown or as a repeat; nobody can tell before the commit which.
Admission == {"inbox", "decided"}

Landed(r, f, j, admission) ==
  LET c == job[j]
      v == f[item[r][j].slot]
      act == Disposition(r, f, j)
      aim == run[r].stage = "aim"
      proposed == Proposed(run[r].stage, v)
  IN IF act = "retain" THEN c
     ELSE IF act = "fail"
     THEN [text |-> c.text, status |-> c.status, scoring |-> "failed",
           aim |-> c.aim, basis |-> c.basis, exp |-> c.exp, scored |-> c.scored]
     ELSE [text |-> c.text,
           status |-> IF act = "keep" THEN c.status
                      ELSE IF proposed = "inbox" THEN admission ELSE proposed,
           scoring |-> c.scoring,
           aim |-> IF ~aim THEN c.aim ELSE IF v = "good" THEN "passed" ELSE "rejected",
           basis |-> IF aim THEN item[r][j].text ELSE c.basis,
           exp |-> IF aim THEN c.exp ELSE "current",
           scored |-> IF aim THEN c.scored \cup {c.text} ELSE c.scored]

Approved_Earlier(s, r, k) ==   \* mutant
  \A j \in Items(r, k) : session[s].view[j].act # "done"
Approved(s, r, k) ==
  \A j \in Items(r, k) : session[s].view[j] = Shown(r, session[s].file, j)

ApplyChild(s) ==
  LET r == session[s].run
      k == session[s].next
      f == session[s].file
      J == Items(r, k)
  IN /\ session[s].at = "applying" /\ k \in Child
     /\ kid[r][k].state = "exported" /\ CurrentAim(r, k)
     /\ Approved(s, r, k)
     /\ \A j \in J : ~Clash(r, f, j)
     /\ \E admission \in [J -> Admission] :
          job' = [j \in Job |-> IF j \in J THEN Landed(r, f, j, admission[j]) ELSE job[j]]
     /\ kid' = [kid EXCEPT ![r] = [kid[r] EXCEPT ![k] = [state |-> "completed", result |-> f[k]]]]
     /\ session' = Onward(s)
     /\ export' = Undone({j \in J : Disposition(r, f, j) # "retain"})
     /\ UNCHANGED <<run, item, edits>>

CompleteRun(s) ==
  LET m == session[s] IN
  /\ m.at = "applying" /\ m.next \notin Child
  /\ Incomplete(m.run) = {} /\ run[m.run].state = "exported"
  /\ run' = [run EXCEPT ![m.run] = [stage |-> run[m.run].stage, state |-> "completed",
                                    expired |-> run[m.run].expired, file |-> m.file]]
  /\ session' = [session EXCEPT ![s] = Idle]
  /\ UNCHANGED <<job, kid, item, export, edits>>

-----------------------------------------------------------------------------
\* Joseph, or a lifecycle policy, takes a card out of scoring's reach.
Decide(j) ==
  /\ edits < MaxEdits /\ job[j].status # "decided"
  /\ job' = [job EXCEPT ![j] =
       [text |-> job[j].text, status |-> "decided", scoring |-> job[j].scoring,
        aim |-> job[j].aim, basis |-> job[j].basis, exp |-> job[j].exp, scored |-> job[j].scored]]
  /\ export' = Undone({j})
  /\ edits' = edits + 1
  /\ UNCHANGED <<run, kid, item, session>>

\* An edit that declines the rescore keeps the score.
EditKept(j, t) ==
  /\ edits < MaxEdits /\ t # job[j].text
  /\ job' = [job EXCEPT ![j] =
       [text |-> t, status |-> job[j].status, scoring |-> job[j].scoring,
        aim |-> job[j].aim, basis |-> job[j].basis, exp |-> job[j].exp, scored |-> job[j].scored]]
  /\ export' = Undone({j})
  /\ edits' = edits + 1
  /\ UNCHANGED <<run, kid, item, session>>

Superseded(j) == [r \in RunId |-> [k \in Child |->
  IF item[r][j].slot = k /\ kid[r][k].state = "exported"
  THEN [state |-> "superseded", result |-> None] ELSE kid[r][k]]]

\* An edit with a rescore, or a rescore alone, makes the scores stale, queues the
\* card and supersedes the batch that leases it.  The route takes a card out of
\* the Inbox and the invalidation one that lies where its newest current score
\* put it, as every dismissed card here does; a decided card stays.
Rescore(j, t) ==
  LET c == job[j] IN
  /\ edits < MaxEdits
  /\ job' = [job EXCEPT ![j] =
       [text |-> t, status |-> IF c.status = "decided" THEN "decided" ELSE "pending",
        scoring |-> "queued",
        aim |-> IF c.aim = "none" THEN "none" ELSE "stale", basis |-> None,
        exp |-> IF c.exp = "none" THEN "none" ELSE "stale",
        scored |-> c.scored]]
  /\ kid' = Superseded(j)
  /\ export' = Undone({j})
  /\ edits' = edits + 1
  /\ UNCHANGED <<run, item, session>>

\* Local triage lets a queued card through.
Triage(j) ==
  /\ job[j].scoring = "queued" /\ job[j].status = "pending"
  /\ job' = [job EXCEPT ![j] =
       [text |-> job[j].text, status |-> "pending", scoring |-> "scored",
        aim |-> job[j].aim, basis |-> job[j].basis, exp |-> job[j].exp, scored |-> job[j].scored]]
  /\ export' = Undone({j})
  /\ UNCHANGED <<run, kid, item, session, edits>>

-----------------------------------------------------------------------------
Next ==
  \/ \E e \in Exporter : ReadCards(e) \/ ExportFails(e) \/ \E r \in RunId : CreateRun(e, r)
  \/ \E r \in RunId : Expire(r) \/ ExtendRun(r) \/ ReleaseRun(r)
  \/ \E s \in Session :
       \/ StartApply(s) \/ SessionEnds(s) \/ PassChild(s) \/ ApplyChild(s) \/ CompleteRun(s)
       \/ \E r \in RunId, f \in File : PreviewRun(s, r, f)
  \/ \E j \in Job : Decide(j) \/ Triage(j) \/ \E t \in Text : EditKept(j, t) \/ Rescore(j, t)

Spec == Init /\ [][Next]_vars

-----------------------------------------------------------------------------
\* No card is leased by two batches, of one stage or of both: what comes back
\* for a card has one export it can belong to.
OneLease == \A j \in Job : \A q, r \in RunId :
  /\ item[q][j].slot # 0 /\ kid[q][item[q][j].slot].state \in {"exported", "superseded"}
  /\ item[r][j].slot # 0 /\ kid[r][item[r][j].slot].state \in {"exported", "superseded"}
  => q = r

\* A card leased for a stage has no current score of that stage, so nobody
\* scores it, or pays for it, twice.
PaidOnce == \A r \in RunId, j \in Job :
  LET k == item[r][j].slot IN
  k # 0 => (kid[r][k].state = "exported" =>
    /\ run[r].stage = "aim" => job[j].aim \in {"none", "stale"}
    /\ run[r].stage = "experience" => job[j].exp # "current")

\* Whatever two requests import into one run and wherever they die, the
\* results its children accepted are those of one file, and a completed run
\* names that file: uploading it again can finish the run or be answered.
OneFile == \A r \in RunId : \E f \in File :
  /\ \A k \in Child : kid[r][k].state = "completed" => kid[r][k].result = f[k]
  /\ run[r].state = "completed" => run[r].file = f

\* A run ends with its children: completed when all of them are, released only
\* with one that is not, and no child is let go alone.
RunSettled == \A r \in RunId :
  /\ run[r].state = "completed" => \A k \in Child : kid[r][k].state \in {"absent", "completed"}
  /\ run[r].state = "released" <=> \E k \in Child : kid[r][k].state = "released"

\* The import of child k completes in this step.
Completes(r, k) == kid[r][k].state # "completed" /\ kid'[r][k].state = "completed"

\* The step does to each card of the child what the request's preview said: it
\* retains it, marks it failed, keeps its status, or scores it and moves it to
\* the status proposed.  Only the Inbox is not promised: a card may be turned
\* away from it.
AsShown(s, r, k) == \A j \in Items(r, k) : LET v == session[s].view[j] IN
  /\ v.act \in {"retain", "fail", "keep", "apply"}
  /\ v.status = job[j].status
  /\ v.act = "retain" => job'[j] = job[j]
  /\ v.act = "fail" => job'[j] = [job[j] EXCEPT !.scoring = "failed"]
  /\ v.act = "keep" => job'[j].status = job[j].status
  /\ v.act = "apply" => \/ job'[j].status = v.proposed
                        \/ v.proposed = "inbox" /\ job'[j].status \in Admission
  /\ v.act \in {"keep", "apply"} =>
       /\ job'[j].text = item[r][j].text /\ job[j].text = item[r][j].text
       /\ run[r].stage = "aim" =>
            job'[j].aim = IF session[s].file[k] = "good" THEN "passed" ELSE "rejected"
       /\ run[r].stage = "experience" => job'[j].exp = "current"

\* A child that commits does to each card what the approved preview said, even
\* when other requests and Joseph moved between the preview and the commit.
ShownIsDone == [][\A r \in RunId, k \in Child : Completes(r, k) =>
    \E s \in Session :
      /\ session[s].at = "applying" /\ session[s].run = r /\ session[s].next = k
      /\ AsShown(s, r, k)]_vars

Score(stage, c) == IF stage = "aim" THEN c.aim ELSE c.exp
Standing == {"passed", "rejected", "current"}

\* What a completed child leaves scored had no current score of the stage and
\* reads as it was exported; an Experience score needs a passed Aim of that text.
Fits(r, k) == \A j \in Items(r, k) :
  Score(run[r].stage, job'[j]) \in Standing =>
    /\ Score(run[r].stage, job[j]) \notin Standing
    /\ job[j].text = item[r][j].text /\ job'[j].text = item[r][j].text
    /\ run[r].stage = "experience" => job[j].aim = "passed" /\ job[j].basis = item[r][j].text

\* A score of either stage enters a card only with the child that was exported
\* for it, while the posting reads as it was exported and no current score of
\* that stage stands.
ScoreFits == [][
  /\ \A r \in RunId, k \in Child : Completes(r, k) => Fits(r, k)
  /\ \A j \in Job, stage \in Stage :
       Score(stage, job'[j]) \in Standing /\ Score(stage, job'[j]) # Score(stage, job[j]) =>
         \E r \in RunId, k \in Child :
           Completes(r, k) /\ run[r].stage = stage /\ item[r][j].slot = k]_vars

\* A decision stands whatever is imported over it.
DecisionStands == [][\A j \in Job : job[j].status = "decided" => job'[j].status = "decided"]_vars

\* A rescore is asked for because a fresh result is about to replace the old
\* one: the result of an unchanged card in an exported batch, unless it is a safe
\* failure, can be stored.
FreshResultLands == \A r \in RunId, j \in Job :
  LET k == item[r][j].slot IN
  k # 0 => (kid[r][k].state = "exported" /\ run[r].stage = "aim" /\ job[j].text = item[r][j].text
            => job[j].text \notin job[j].scored)
=============================================================================
