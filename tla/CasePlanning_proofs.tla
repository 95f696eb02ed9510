------------------------- MODULE CasePlanning_proofs -------------------------
(* Machine-checked proofs about CasePlanning, for every set of cases, plans *)
(* and runs and every admitted number of revisions.                         *)
EXTENDS CasePlanningProps, TLAPS

USE DEF NoPlan

-----------------------------------------------------------------------------
(* Types: a run that is to plan or to review has a transition left, and a   *)
(* row under review has a plan, or the reviewer could endorse no plan.      *)

TypeInv ==
    /\ TypeOK
    /\ \A c \in Cases : row[c].stage = "REVIEW" => row[c].plan \in Plans
    /\ \A r \in Runs : run[r].pc \in {"plan", "review"} => run[r].left > 0
    /\ \A r \in Runs : At(r, "review") => run[r].snap.plan \in Plans

LEMMA SomeCaseType == SomeCase \in Cases
  BY DomainAssumption DEF SomeCase

LEMMA NewRowType == NewRow \in Rows
  BY DEF NewRow, Rows, Stages, Verdicts, Approvals, NoApproval

LEMMA IdleType == IdleRun \in RunRecords
  BY SomeCaseType, NewRowType, MaxRevisionsAssumption
  DEF IdleRun, RunRecords, Points, MaxTransitions

LEMMA RunType ==
    ASSUME TypeInv, NEW r \in Runs
    PROVE  /\ run[r] \in RunRecords /\ run[r].case \in Cases
           /\ run[r].snap \in Rows /\ row[run[r].case] \in Rows
           /\ run[r].left \in 0..MaxTransitions
           /\ run[r].pc \in {"plan", "review"} => run[r].left > 0
           /\ At(r, "review") => run[r].snap.plan \in Plans
  BY DEF TypeInv, TypeOK, CaseRowTypeOK, RunRecords

LEMMA SaveType ==
    ASSUME TypeInv, NEW c \in Cases, NEW new \in Rows, Save(c, new)
    PROVE  CaseRowTypeOK' /\ row' = [row EXCEPT ![c] = new] /\ row'[c] = new
  BY DEF TypeInv, TypeOK, CaseRowTypeOK, Save

\* What each handler makes of a row.
LEMMA PlanType ==
    ASSUME NEW plan \in Plans
    PROVE  plan # NoPlan /\ ApprovedStage(plan) = "AWAITING_APPROVAL"
<1>1. Len(plan) \in 1..4 /\ plan \in Seq(PlannedActions)
  BY DomainAssumption
<1>2. 1 \in 1..Len(plan) /\ plan[1] \in PlannedActions
  BY <1>1
<1>3. ToolRequiresApproval[plan[1].tool]
  BY <1>2 DEF ToolRequiresApproval, PlannedActions, MatchActions, HoldActions
<1>4. RequiresApproval(plan)
  BY <1>2, <1>3 DEF RequiresApproval
<1>5. plan # NoPlan
  <2>1. Len(<< >>) \notin 1..4
    OBVIOUS
  <2> QED BY <1>1, <2>1, Zenon
<1> QED BY <1>4, <1>5 DEF ApprovedStage

LEMMA ProposedType ==
    ASSUME NEW rw \in Rows, NEW plan \in Plans
    PROVE  /\ Proposed(rw, plan) \in Rows
           /\ Proposed(rw, plan).revisions = rw.revisions
           /\ Proposed(rw, plan).executed = rw.executed
           /\ Proposed(rw, plan).approval = rw.approval
           /\ \/ /\ Proposed(rw, plan).stage = "ESCALATED"
                 /\ Proposed(rw, plan).plan = rw.plan
              \/ /\ Proposed(rw, plan).stage = "REVIEW"
                 /\ Proposed(rw, plan).plan = plan
  BY DEF Proposed, Rows, Stages, Verdicts

LEMMA ReviewedType ==
    ASSUME NEW rw \in Rows, NEW verdict \in Verdicts \ {"NONE"}
    PROVE  LET new == Reviewed(rw, verdict)
           IN  /\ new \in Rows /\ new.plan = rw.plan /\ new.executed = rw.executed
               /\ \/ new.approval = rw.approval
                  \/ new.approval.decision \in {"NONE", "PENDING"}
               /\ \/ new.stage = "ESCALATED" /\ new.revisions = rw.revisions
                  \/ /\ new.stage = "PLANNING" /\ rw.revisions < MaxRevisions
                     /\ new.revisions = rw.revisions + 1
                  \/ /\ new.stage = "AWAITING_APPROVAL"
                     /\ new.revisions = rw.revisions
                     /\ verdict = "APPROVE" /\ rw.plan \in Plans
                     /\ new.review = "APPROVE"
                     /\ new.approval = PendingApproval(rw.plan)
<1> DEFINE new == Reviewed(rw, verdict)
           next == StageAfter(rw, verdict)
           count == IF CanRevise(rw, verdict) THEN rw.revisions + 1 ELSE rw.revisions
           approval == ApprovalAt(next, rw.plan)
<1>1. rw.plan \in Plans \cup {NoPlan} /\ rw.revisions \in Nat
  BY DEF Rows
<1>2. CASE rw.plan = NoPlan
  <2>1. new = [rw EXCEPT !.stage = "ESCALATED"]
    BY <1>2 DEF Reviewed
  <2> QED BY <2>1 DEF Rows, Stages
<1>3. CASE rw.plan # NoPlan
  <2>1. rw.plan \in Plans /\ ApprovedStage(rw.plan) = "AWAITING_APPROVAL"
    BY <1>1, <1>3, PlanType
  <2>2. /\ next \in {"AWAITING_APPROVAL", "PLANNING", "ESCALATED"}
        /\ next = "AWAITING_APPROVAL" => verdict = "APPROVE" /\ ~CanRevise(rw, verdict)
        /\ next = "PLANNING" <=> CanRevise(rw, verdict)
    BY <2>1 DEF StageAfter, CanRevise
  <2>3. approval \in Approvals /\ count \in Nat
    BY <1>1 DEF ApprovalAt, Approvals, PendingApproval, NoApproval
  <2>4. new = [rw EXCEPT !.review = verdict, !.stage = next,
                         !.revisions = count, !.approval = approval]
    BY <1>3 DEF Reviewed
  <2> HIDE DEF new, next, count, approval
  <2>5. /\ new \in Rows /\ new.plan = rw.plan /\ new.executed = rw.executed
        /\ new.stage = next /\ new.approval = approval /\ new.revisions = count
        /\ new.review = verdict
    <3>1. next \in Stages
      BY <2>2 DEF Stages
    <3> QED BY <2>3, <2>4, <3>1 DEF Rows
  <2>6. new.stage = "AWAITING_APPROVAL" => new.approval = PendingApproval(rw.plan)
    BY <2>5 DEF approval, ApprovalAt
  <2>7. CanRevise(rw, verdict) => rw.revisions < MaxRevisions
    BY DEF CanRevise
  <2>8. count = IF CanRevise(rw, verdict) THEN rw.revisions + 1 ELSE rw.revisions
    BY DEF count
  <2>9. next # "PLANNING" => count = rw.revisions
    BY <2>2, <2>8
  <2>10. next = "PLANNING" => /\ rw.revisions < MaxRevisions
                             /\ count = rw.revisions + 1
    BY <2>2, <2>7, <2>8
  <2>11. approval.decision \in {"NONE", "PENDING"}
    BY DEF approval, ApprovalAt, PendingApproval, NoApproval
  <2> QED BY <2>1, <2>2, <2>5, <2>6, <2>9, <2>10, <2>11 DEF new
<1> QED BY <1>2, <1>3

LEMMA AcceptedType ==
    ASSUME NEW rw \in Rows
    PROVE  LET new == Accepted(rw)
           IN  /\ new \in Rows /\ new.plan = rw.plan /\ new.executed = rw.executed
               /\ new.revisions = rw.revisions /\ new.review = "NONE"
               /\ new.approval.decision \in {"NONE", "PENDING"}
               /\ \/ new.stage = "ESCALATED"
                  \/ /\ new.stage = "AWAITING_APPROVAL" /\ rw.plan # NoPlan
                     /\ new.approval = PendingApproval(rw.plan)
<1> DEFINE next == IF rw.plan = NoPlan THEN "ESCALATED" ELSE ApprovedStage(rw.plan)
<1>1. rw.plan \in Plans \cup {NoPlan}
  BY DEF Rows
<1>2. /\ next \in {"ESCALATED", "AWAITING_APPROVAL"}
      /\ next = "AWAITING_APPROVAL" => rw.plan # NoPlan
  BY <1>1, PlanType
<1>3. /\ ApprovalAt(next, rw.plan) \in Approvals
      /\ ApprovalAt(next, rw.plan).decision \in {"NONE", "PENDING"}
      /\ next = "AWAITING_APPROVAL" =>
            ApprovalAt(next, rw.plan) = PendingApproval(rw.plan)
  BY <1>1 DEF ApprovalAt, Approvals, PendingApproval, NoApproval
<1>4. Accepted(rw) = [rw EXCEPT !.stage = next, !.review = "NONE",
                                !.approval = ApprovalAt(next, rw.plan)]
  BY DEF Accepted
<1> HIDE DEF next
<1> QED BY <1>2, <1>3, <1>4 DEF Rows, Stages, Verdicts

-----------------------------------------------------------------------------
(* A step in outline: it moves one run on, and either leaves the rows alone *)
(* or saves what the run made of its snapshot.                              *)

\* Run r goes on as next, without saving anything.
Reads(r, next) ==
    LET rw == row[next.case]
    IN  /\ UNCHANGED <<row, endorsed>>
        /\ \/ next.pc = "idle"
           \/ next.pc = "claim" /\ next.snap = rw
              /\ rw.stage \in {"NEW", "INVESTIGATING"}
           \/ next.pc = "loop" /\ next.left = MaxTransitions
           \/ /\ At(r, "loop") /\ next.case = run[r].case
              /\ next.snap = rw /\ next.left = run[r].left
              /\ \/ next.pc = "plan" /\ rw.stage = "PLANNING" /\ next.left > 0
                 \/ next.pc = "review" /\ rw.stage = "REVIEW" /\ next.left > 0
                 \/ /\ next.pc = "spent" /\ rw.stage \in {"PLANNING", "REVIEW"}
                    /\ next.left = 0

\* A row that waits for the operator as WaitingPlanWasJudged has it.
JudgedAs(rw, plans) ==
    /\ rw.approval = PendingApproval(rw.plan)
    /\ rw.review = "APPROVE" => rw.plan \in plans

\* What the run at pc may make of old.
Makes(pc, old, new) ==
    /\ new.executed = old.executed
    /\ new.approval = old.approval \/ new.approval.decision \in {"NONE", "PENDING"}
    /\ new.stage = "AWAITING_APPROVAL" =>
          new.plan # NoPlan /\ new.review \in {"APPROVE", "NONE"}
    /\ \/ new.plan = old.plan /\ new.stage # "REVIEW"
       \/ pc = "plan" /\ new.stage = "REVIEW" /\ new.plan \in Plans
    /\ \/ new.revisions = old.revisions
       \/ /\ pc = "review" /\ new.stage = "PLANNING"
          /\ old.revisions < MaxRevisions /\ new.revisions = old.revisions + 1
    /\ \/ pc = "claim" /\ new.stage = "INVESTIGATING"
       \/ pc = "investigate" /\ new.stage \in {"PLANNING", "ESCALATED", "FAILED"}
       \/ pc = "plan" /\ new.stage \in {"ESCALATED", "REVIEW"}
       \/ pc = "review" /\ new.stage \in {"ESCALATED", "AWAITING_APPROVAL"}
       \/ pc = "review" /\ new.stage = "PLANNING" /\ new.revisions = old.revisions + 1
       \/ pc = "spent" /\ new.stage = "ESCALATED"

Writes(r, next, new) ==
    /\ SaveAs(r, new)
    /\ Makes(run[r].pc, run[r].snap, new)
    /\ \A c \in Cases : endorsed[c] \subseteq endorsed'[c]
    /\ endorsed' \in [Cases -> SUBSET Plans]
    /\ new.stage = "AWAITING_APPROVAL" => JudgedAs(new, endorsed'[run[r].case])
    /\ \/ next.pc = "idle"
       \/ /\ At(r, "claim") /\ next.pc = "investigate"
          /\ next.case = run[r].case /\ next.snap = new
       \/ /\ run[r].pc \in {"plan", "review"} /\ next.pc = "loop"
          /\ next.case = run[r].case /\ next.left = run[r].left - 1

Outline(r) ==
    \E next \in RunRecords :
        /\ Continue(r, next)
        /\ Reads(r, next) \/ \E new \in Rows : Writes(r, next, new)

LEMMA ExitOutline ==
    ASSUME NEW r \in Runs, Exit(r), UNCHANGED <<row, endorsed>>
    PROVE  Outline(r)
<1>1. IdleRun \in RunRecords /\ IdleRun.pc = "idle"
  BY IdleType DEF IdleRun
<1> HIDE DEF IdleRun
<1> QED BY <1>1 DEF Outline, Reads, Exit

LEMMA StartOutline ==
    ASSUME TypeInv, NEW r \in Runs, NEW c \in Cases,
           StartInvestigation(r, c) \/ StartPlanning(r, c)
    PROVE  Outline(r)
<1>1. row[c] \in Rows /\ MaxTransitions \in 0..MaxTransitions
  BY MaxRevisionsAssumption DEF TypeInv, TypeOK, CaseRowTypeOK, MaxTransitions
<1>2. CASE StartInvestigation(r, c)
  <2> DEFINE next == [IdleRun EXCEPT !.pc = "claim", !.case = c, !.snap = row[c]]
  <2>1. next \in RunRecords
    BY <1>1, IdleType DEF RunRecords, Points
  <2>2. next.pc = "claim" /\ next.case = c /\ next.snap = row[c]
    BY IdleType DEF RunRecords
  <2>3. Continue(r, next)
    BY <1>2 DEF StartInvestigation
  <2> HIDE DEF next
  <2>4. Reads(r, next)
    BY <1>2, <2>2 DEF StartInvestigation, Reads
  <2> QED BY <2>1, <2>3, <2>4 DEF Outline
<1>3. CASE StartPlanning(r, c)
  <2>1. PICK review \in {"enabled", "disabled"} :
           Continue(r, [IdleRun EXCEPT !.pc = "loop", !.case = c,
                                       !.left = MaxTransitions, !.review = review])
    BY <1>3 DEF StartPlanning
  <2> DEFINE next == [IdleRun EXCEPT !.pc = "loop", !.case = c,
                                     !.left = MaxTransitions, !.review = review]
  <2>2. next \in RunRecords
    BY <1>1, IdleType DEF RunRecords, Points
  <2>3. next.pc = "loop" /\ next.left = MaxTransitions
    BY IdleType DEF RunRecords
  <2>4. Continue(r, next)
    BY <2>1
  <2> HIDE DEF next
  <2>5. Reads(r, next)
    BY <1>3, <2>3 DEF StartPlanning, Reads
  <2> QED BY <2>2, <2>4, <2>5 DEF Outline
<1> QED BY <1>2, <1>3

LEMMA NextTransitionOutline ==
    ASSUME TypeInv, NEW r \in Runs, NextTransition(r)
    PROVE  Outline(r)
<1> DEFINE rw == row[run[r].case]
           next(pc) == [run[r] EXCEPT !.pc = pc, !.snap = row[run[r].case]]
<1>1. ASSUME NEW pc \in {"plan", "review", "spent"}
      PROVE  /\ next(pc) \in RunRecords /\ next(pc).pc = pc
             /\ next(pc).case = run[r].case /\ next(pc).snap = rw
             /\ next(pc).left = run[r].left
  BY RunType DEF RunRecords, Points
<1>2. run[r].left \in Nat
  BY RunType, MaxRevisionsAssumption DEF MaxTransitions
<1>3. At(r, "loop") /\ UNCHANGED <<row, endorsed>>
  BY DEF NextTransition
<1>4. \/ rw.stage = "PLANNING" /\ run[r].left > 0 /\ Continue(r, next("plan"))
      \/ rw.stage = "REVIEW" /\ run[r].left > 0 /\ Continue(r, next("review"))
      \/ /\ rw.stage \in {"PLANNING", "REVIEW"} /\ run[r].left = 0
         /\ Continue(r, next("spent"))
      \/ Exit(r)
  BY DEF NextTransition, Require
<1> HIDE DEF next
<1>5. CASE rw.stage = "PLANNING" /\ run[r].left > 0 /\ Continue(r, next("plan"))
  <2>1. Reads(r, next("plan"))
    BY <1>1, <1>3, <1>5 DEF Reads
  <2> QED BY <1>1, <1>5, <2>1 DEF Outline
<1>6. CASE rw.stage = "REVIEW" /\ run[r].left > 0 /\ Continue(r, next("review"))
  <2>1. Reads(r, next("review"))
    BY <1>1, <1>3, <1>6 DEF Reads
  <2> QED BY <1>1, <1>6, <2>1 DEF Outline
<1>7. CASE /\ rw.stage \in {"PLANNING", "REVIEW"} /\ run[r].left = 0
           /\ Continue(r, next("spent"))
  <2>1. Reads(r, next("spent"))
    BY <1>1, <1>3, <1>7 DEF Reads
  <2> QED BY <1>1, <1>7, <2>1 DEF Outline
<1>8. CASE Exit(r)
  BY <1>3, <1>8, ExitOutline
<1> QED BY <1>4, <1>5, <1>6, <1>7, <1>8

\* The saves: first the row that is written, then where the run goes.
LEMMA ExitsAfter ==
    ASSUME NEW r \in Runs, NEW new \in Rows, Exit(r), SaveAs(r, new),
           Makes(run[r].pc, run[r].snap, new),
           endorsed' \in [Cases -> SUBSET Plans],
           \A c \in Cases : endorsed[c] \subseteq endorsed'[c],
           new.stage = "AWAITING_APPROVAL" => JudgedAs(new, endorsed'[run[r].case])
    PROVE  Outline(r)
<1>1. IdleRun \in RunRecords /\ IdleRun.pc = "idle"
  BY IdleType DEF IdleRun
<1> HIDE DEF IdleRun
<1>2. Writes(r, IdleRun, new)
  BY <1>1 DEF Writes
<1> QED BY <1>1, <1>2 DEF Outline, Exit

LEMMA LoopsAfter ==
    ASSUME TypeInv, NEW r \in Runs, NEW new \in Rows, LoopAgain(r), SaveAs(r, new),
           run[r].pc \in {"plan", "review"},
           Makes(run[r].pc, run[r].snap, new),
           endorsed' \in [Cases -> SUBSET Plans],
           \A c \in Cases : endorsed[c] \subseteq endorsed'[c],
           new.stage = "AWAITING_APPROVAL" => JudgedAs(new, endorsed'[run[r].case])
    PROVE  Outline(r)
<1> DEFINE next == [run[r] EXCEPT !.pc = "loop", !.left = @ - 1]
<1>1. run[r] \in RunRecords /\ run[r].left \in 1..MaxTransitions
  BY RunType, MaxRevisionsAssumption DEF MaxTransitions
<1>2. run[r].left - 1 \in 0..MaxTransitions
  BY <1>1, MaxRevisionsAssumption DEF MaxTransitions
<1>3. /\ next \in RunRecords /\ next.pc = "loop" /\ next.case = run[r].case
      /\ next.left = run[r].left - 1
  BY <1>1, <1>2 DEF RunRecords, Points
<1>4. Continue(r, next)
  BY DEF LoopAgain
<1> HIDE DEF next
<1>5. Writes(r, next, new)
  BY <1>3 DEF Writes
<1> QED BY <1>3, <1>4, <1>5 DEF Outline

LEMMA Unendorsed ==
    ASSUME TypeInv, UNCHANGED endorsed
    PROVE  /\ endorsed' \in [Cases -> SUBSET Plans]
           /\ \A c \in Cases : endorsed[c] \subseteq endorsed'[c]
  BY DEF TypeInv, TypeOK

LEMMA ClaimOutline ==
    ASSUME TypeInv, NEW r \in Runs, ClaimCase(r)
    PROVE  Outline(r)
<1> DEFINE new == Claimed(run[r].snap)
           next == [run[r] EXCEPT !.pc = "investigate", !.snap = Claimed(@)]
<1>1. run[r] \in RunRecords /\ run[r].snap \in Rows
  BY RunType
<1>2. /\ new \in Rows /\ new.stage = "INVESTIGATING"
      /\ new.plan = run[r].snap.plan /\ new.executed = run[r].snap.executed
      /\ new.revisions = run[r].snap.revisions
      /\ new.approval = run[r].snap.approval
  BY <1>1 DEF Claimed, Rows, Stages
<1>3. SaveAs(r, new) /\ Continue(r, next) /\ At(r, "claim")
  BY DEF ClaimCase
<1>4. next = [run[r] EXCEPT !.pc = "investigate", !.snap = new]
  BY <1>1 DEF RunRecords
<1> HIDE DEF new, next
<1>5. /\ next \in RunRecords /\ next.pc = "investigate" /\ next.snap = new
      /\ next.case = run[r].case
  BY <1>1, <1>2, <1>4 DEF RunRecords, Points
<1>6. Makes(run[r].pc, run[r].snap, new)
  BY <1>2, <1>3 DEF Makes, At
<1>7. Writes(r, next, new)
  BY <1>2, <1>3, <1>5, <1>6, Unendorsed DEF Writes, ClaimCase
<1> QED BY <1>2, <1>3, <1>5, <1>7 DEF Outline

LEMMA InvestigationOutline ==
    ASSUME TypeInv, NEW r \in Runs, InvestigationDone(r) \/ InvestigationFailed(r)
    PROVE  Outline(r)
<1>1. run[r].snap \in Rows
  BY RunType
<1> DEFINE ends(cause, stage) ==
              [run[r].snap EXCEPT !.rootCause = cause, !.stage = stage]
           fails == [run[r].snap EXCEPT !.stage = "FAILED"]
<1>2. ASSUME NEW cause \in {"NONE", "FOUND"},
             NEW stage \in {"PLANNING", "ESCALATED", "FAILED"}
      PROVE  /\ ends(cause, stage) \in Rows /\ ends(cause, stage).stage = stage
             /\ ends(cause, stage).plan = run[r].snap.plan
             /\ ends(cause, stage).executed = run[r].snap.executed
             /\ ends(cause, stage).revisions = run[r].snap.revisions
             /\ ends(cause, stage).approval = run[r].snap.approval
  BY <1>1 DEF Rows, Stages
<1>3. /\ fails \in Rows /\ fails.stage = "FAILED"
      /\ fails.plan = run[r].snap.plan /\ fails.executed = run[r].snap.executed
      /\ fails.revisions = run[r].snap.revisions
      /\ fails.approval = run[r].snap.approval
  BY <1>1 DEF Rows, Stages
<1>4. \/ SaveAs(r, ends("FOUND", "PLANNING"))
      \/ \E cause \in {"NONE", "FOUND"} : SaveAs(r, ends(cause, "ESCALATED"))
      \/ SaveAs(r, fails)
  BY DEF InvestigationDone, InvestigationFailed
<1> HIDE DEF ends, fails
<1>5. PICK new \in Rows :
         /\ SaveAs(r, new) /\ new.stage \in {"PLANNING", "ESCALATED", "FAILED"}
         /\ new.plan = run[r].snap.plan /\ new.executed = run[r].snap.executed
         /\ new.revisions = run[r].snap.revisions
         /\ new.approval = run[r].snap.approval
  <2>1. CASE SaveAs(r, ends("FOUND", "PLANNING"))
    BY <1>2, <2>1
  <2>2. CASE \E cause \in {"NONE", "FOUND"} : SaveAs(r, ends(cause, "ESCALATED"))
    BY <1>2, <2>2
  <2>3. CASE SaveAs(r, fails)
    BY <1>3, <2>3
  <2> QED BY <1>4, <2>1, <2>2, <2>3
<1>6. At(r, "investigate") /\ Exit(r) /\ UNCHANGED endorsed
  BY DEF InvestigationDone, InvestigationFailed
<1>7. Makes(run[r].pc, run[r].snap, new)
  BY <1>5, <1>6 DEF Makes, At
<1> QED BY <1>5, <1>6, <1>7, Unendorsed, ExitsAfter

LEMMA PlanOutline ==
    ASSUME TypeInv, NEW r \in Runs, PlanProposed(r)
    PROVE  Outline(r)
<1>1. PICK plan \in Plans : SaveAs(r, Proposed(run[r].snap, plan))
  BY DEF PlanProposed
<1> DEFINE new == Proposed(run[r].snap, plan)
<1>2. /\ At(r, "plan") /\ LoopAgain(r) /\ UNCHANGED endorsed
      /\ run[r].snap \in Rows
  BY RunType DEF PlanProposed
<1>3. /\ new \in Rows /\ new.revisions = run[r].snap.revisions
      /\ new.executed = run[r].snap.executed
      /\ new.approval = run[r].snap.approval
      /\ \/ new.stage = "ESCALATED" /\ new.plan = run[r].snap.plan
         \/ new.stage = "REVIEW" /\ new.plan \in Plans
  BY <1>2, ProposedType
<1>4. SaveAs(r, new)
  BY <1>1
<1> HIDE DEF new
<1>5. Makes(run[r].pc, run[r].snap, new)
  BY <1>2, <1>3 DEF Makes, At
<1> QED BY <1>2, <1>3, <1>4, <1>5, Unendorsed, LoopsAfter DEF At

LEMMA ReviewOutline ==
    ASSUME TypeInv, NEW r \in Runs, ReviewDone(r)
    PROVE  Outline(r)
<1>1. PICK verdict \in Verdicts \ {"NONE"} :
         SaveAs(r, Reviewed(run[r].snap, verdict)) /\ Endorse(r, verdict)
  BY DEF ReviewDone
<1> DEFINE old == run[r].snap
           new == Reviewed(run[r].snap, verdict)
<1>2. /\ At(r, "review") /\ LoopAgain(r)
      /\ run[r].snap \in Rows /\ run[r].case \in Cases
  BY RunType DEF ReviewDone
<1>3. /\ new \in Rows /\ new.plan = old.plan /\ new.executed = old.executed
      /\ new.approval = old.approval \/ new.approval.decision \in {"NONE", "PENDING"}
      /\ \/ new.stage = "ESCALATED" /\ new.revisions = old.revisions
         \/ /\ new.stage = "PLANNING" /\ old.revisions < MaxRevisions
            /\ new.revisions = old.revisions + 1
         \/ /\ new.stage = "AWAITING_APPROVAL"
            /\ new.revisions = old.revisions
            /\ verdict = "APPROVE" /\ old.plan \in Plans /\ new.review = "APPROVE"
            /\ new.approval = PendingApproval(old.plan)
  BY <1>2, ReviewedType
<1>4. SaveAs(r, new)
  BY <1>1
<1>5. old.plan \in Plans
  BY <1>2, RunType
<1> HIDE DEF new
<1>6. Makes(run[r].pc, run[r].snap, new)
  BY <1>2, <1>3, <1>5, PlanType DEF Makes, At
<1>7. endorsed \in [Cases -> SUBSET Plans]
  BY DEF TypeInv, TypeOK
<1>8. /\ endorsed' \in [Cases -> SUBSET Plans]
      /\ \A c \in Cases : endorsed[c] \subseteq endorsed'[c]
      /\ verdict = "APPROVE" => old.plan \in endorsed'[run[r].case]
  <2>1. CASE verdict = "APPROVE"
    <3>1. endorsed' = [endorsed EXCEPT ![run[r].case] = @ \cup {old.plan}]
      BY <1>1, <2>1 DEF Endorse
    <3> QED BY <1>2, <1>5, <1>7, <3>1
  <2>2. CASE verdict # "APPROVE"
    BY <1>1, <1>7, <2>2 DEF Endorse
  <2> QED BY <2>1, <2>2
<1>9. new.stage = "AWAITING_APPROVAL" => JudgedAs(new, endorsed'[run[r].case])
  BY <1>3, <1>8 DEF JudgedAs
<1> QED BY <1>2, <1>3, <1>4, <1>6, <1>8, <1>9, LoopsAfter DEF At

LEMMA AcceptOutline ==
    ASSUME TypeInv, NEW r \in Runs, AcceptPlanWithoutReview(r)
    PROVE  Outline(r)
<1> DEFINE old == run[r].snap
           new == Accepted(run[r].snap)
<1>1. /\ At(r, "review") /\ Exit(r) /\ UNCHANGED endorsed /\ SaveAs(r, new)
      /\ run[r].snap \in Rows
  BY RunType DEF AcceptPlanWithoutReview
<1>2. /\ new \in Rows /\ new.plan = old.plan /\ new.executed = old.executed
      /\ new.revisions = old.revisions /\ new.review = "NONE"
      /\ new.approval.decision \in {"NONE", "PENDING"}
      /\ \/ new.stage = "ESCALATED"
         \/ /\ new.stage = "AWAITING_APPROVAL" /\ old.plan # NoPlan
            /\ new.approval = PendingApproval(old.plan)
  BY <1>1, AcceptedType
<1> HIDE DEF new
<1>3. Makes(run[r].pc, run[r].snap, new)
  BY <1>1, <1>2 DEF Makes, At
<1>4. new.stage = "AWAITING_APPROVAL" => JudgedAs(new, endorsed'[run[r].case])
  BY <1>2 DEF JudgedAs
<1> QED BY <1>1, <1>2, <1>3, <1>4, Unendorsed, ExitsAfter

LEMMA SpentOutline ==
    ASSUME TypeInv, NEW r \in Runs, OutOfTransitions(r)
    PROVE  Outline(r)
<1> DEFINE new == [run[r].snap EXCEPT !.stage = "ESCALATED"]
<1>1. /\ At(r, "spent") /\ Exit(r) /\ UNCHANGED endorsed /\ SaveAs(r, new)
      /\ run[r].snap \in Rows
  BY RunType DEF OutOfTransitions
<1>2. /\ new \in Rows /\ new.stage = "ESCALATED" /\ new.plan = run[r].snap.plan
      /\ new.executed = run[r].snap.executed
      /\ new.revisions = run[r].snap.revisions
      /\ new.approval = run[r].snap.approval
  BY <1>1 DEF Rows, Stages
<1> HIDE DEF new
<1>3. Makes(run[r].pc, run[r].snap, new)
  BY <1>1, <1>2 DEF Makes, At
<1> QED BY <1>1, <1>2, <1>3, Unendorsed, ExitsAfter

LEMMA NextOutline ==
    ASSUME TypeInv, Next
    PROVE  \E r \in Runs : Outline(r)
<1>1. PICK r \in Runs :
         \/ \E c \in Cases : StartInvestigation(r, c) \/ StartPlanning(r, c)
         \/ RunStep(r) \/ RunDies(r)
  BY DEF Next
<1>2. CASE \E c \in Cases : StartInvestigation(r, c) \/ StartPlanning(r, c)
  BY <1>2, StartOutline
<1>3. CASE RunStep(r)
  BY <1>3, ClaimOutline, InvestigationOutline, NextTransitionOutline, PlanOutline,
     ReviewOutline, AcceptOutline, SpentOutline DEF RunStep
<1>4. CASE RunDies(r)
  BY <1>4, ExitOutline DEF RunDies
<1> QED BY <1>1, <1>2, <1>3, <1>4

-----------------------------------------------------------------------------
(* Whatever overlaps: types, and the plan that waits was judged. *)

LEMMA TypeInit == Init => TypeInv
<1> SUFFICES ASSUME Init PROVE TypeInv
  OBVIOUS
<1>1. NewRow.stage = "NEW" /\ IdleRun.pc = "idle"
  BY DEF NewRow, IdleRun
<1> QED BY <1>1, NewRowType, IdleType
        DEF Init, TypeInv, TypeOK, CaseRowTypeOK, At

LEMMA TypeStep ==
    ASSUME TypeInv, NEW r \in Runs, Outline(r)
    PROVE  TypeInv'
<1>1. PICK next \in RunRecords :
         /\ Continue(r, next)
         /\ Reads(r, next) \/ \E new \in Rows : Writes(r, next, new)
  BY DEF Outline
<1>2. /\ run' \in [Runs -> RunRecords] /\ run'[r] = next
      /\ \A q \in Runs \ {r} : run'[q] = run[q]
  BY <1>1 DEF TypeInv, TypeOK, Continue
<1>3. next.pc \in {"plan", "review"} => next.left > 0
  BY <1>1 DEF Reads, Writes
<1>4. CaseRowTypeOK' /\ endorsed' \in [Cases -> SUBSET Plans]
  <2>1. CASE Reads(r, next)
    BY <2>1 DEF Reads, TypeInv, TypeOK, CaseRowTypeOK
  <2>2. CASE \E new \in Rows : Writes(r, next, new)
    BY <2>2, RunType, SaveType DEF Writes, SaveAs
  <2> QED BY <1>1, <2>1, <2>2
<1>5. \A q \in Runs : run'[q].pc \in {"plan", "review"} => run'[q].left > 0
  BY <1>2, <1>3 DEF TypeInv
<1>6. \A c \in Cases : row'[c].stage = "REVIEW" => row'[c].plan \in Plans
  <2>1. CASE Reads(r, next)
    BY <2>1 DEF Reads, TypeInv
  <2>2. CASE \E new \in Rows : Writes(r, next, new)
    <3>1. PICK new \in Rows : Writes(r, next, new)
      BY <2>2
    <3>2. new.stage = "REVIEW" => new.plan \in Plans
      BY <3>1 DEF Writes, Makes
    <3>3. row' = [row EXCEPT ![run[r].case] = new] /\ row \in [Cases -> Rows]
      BY <3>1 DEF Writes, SaveAs, Save, TypeInv, TypeOK, CaseRowTypeOK
    <3> QED BY <3>2, <3>3 DEF TypeInv
  <2> QED BY <1>1, <2>1, <2>2
<1>7. next.pc = "review" => next.snap.plan \in Plans
  BY <1>1, RunType DEF Reads, Writes, TypeInv
<1>8. \A q \in Runs : At(q, "review")' => run'[q].snap.plan \in Plans
  BY <1>2, <1>7 DEF TypeInv, At
<1> QED BY <1>2, <1>4, <1>5, <1>6, <1>8 DEF TypeInv, TypeOK

\* CasePlanning.TypeOK: runs, snapshots and rows keep their types however the
\* workflows overlap and die, and the count of transitions never goes below 0.
THEOREM TypeCorrect == Spec => []TypeOK
<1>1. TypeInv /\ [Next]_vars => TypeInv'
  <2> SUFFICES ASSUME TypeInv, [Next]_vars PROVE TypeInv'
    OBVIOUS
  <2>1. CASE Next
    BY <2>1, NextOutline, TypeStep
  <2>2. CASE UNCHANGED vars
    BY <2>2 DEF vars, TypeInv, TypeOK, CaseRowTypeOK, At
  <2> QED BY <2>1, <2>2
<1>2. TypeInv => TypeOK
  BY DEF TypeInv
<1> QED BY TypeInit, <1>1, <1>2, PTL DEF Spec

LEMMA JudgedStep ==
    ASSUME TypeInv, WaitingPlanWasJudged, NEW r \in Runs, Outline(r)
    PROVE  WaitingPlanWasJudged'
<1>1. PICK next \in RunRecords :
         Reads(r, next) \/ \E new \in Rows : Writes(r, next, new)
  BY DEF Outline
<1>2. CASE Reads(r, next)
  BY <1>2 DEF Reads, WaitingPlanWasJudged
<1>3. CASE \E new \in Rows : Writes(r, next, new)
  <2>1. PICK new \in Rows : Writes(r, next, new)
    BY <1>3
  <2>2. run[r].case \in Cases /\ row \in [Cases -> Rows]
    BY RunType DEF TypeInv, TypeOK, CaseRowTypeOK
  <2>3. row' = [row EXCEPT ![run[r].case] = new]
    BY <2>1 DEF Writes, SaveAs, Save
  <2>4. ASSUME NEW c \in Cases, row'[c].stage = "AWAITING_APPROVAL"
        PROVE  JudgedAs(row'[c], endorsed'[c])
    <3>1. CASE c = run[r].case
      BY <2>1, <2>2, <2>3, <2>4, <3>1 DEF Writes
    <3>2. CASE c # run[r].case
      <4>1. row'[c] = row[c]
        BY <2>2, <2>3, <3>2
      <4>2. endorsed[c] \subseteq endorsed'[c]
        BY <2>1 DEF Writes
      <4> QED BY <2>4, <4>1, <4>2 DEF WaitingPlanWasJudged, JudgedAs
    <3> QED BY <3>1, <3>2
  <2> QED BY <2>4 DEF WaitingPlanWasJudged, JudgedAs
<1> QED BY <1>1, <1>2, <1>3

\* WaitingPlanWasJudged, for any number of overlapping and dying runs: no
\* lost update can put a plan before the operator that the reviewer, where
\* there was one, did not approve.
THEOREM WaitingPlansJudged == Spec => []WaitingPlanWasJudged
<1>1. Init => WaitingPlanWasJudged
  BY DEF Init, NewRow, WaitingPlanWasJudged
<1>2. TypeInv /\ WaitingPlanWasJudged /\ [Next]_vars
         => (TypeInv /\ WaitingPlanWasJudged)'
  <2> SUFFICES ASSUME TypeInv, WaitingPlanWasJudged, [Next]_vars
               PROVE  TypeInv' /\ WaitingPlanWasJudged'
    OBVIOUS
  <2>1. CASE Next
    BY <2>1, NextOutline, TypeStep, JudgedStep
  <2>2. CASE UNCHANGED vars
    BY <2>2 DEF vars, TypeInv, TypeOK, CaseRowTypeOK, At, WaitingPlanWasJudged
  <2> QED BY <2>1, <2>2
<1> QED BY TypeInit, <1>1, <1>2, PTL DEF Spec

-----------------------------------------------------------------------------
(* One run at a time: its snapshot is the row, and the transitions it has   *)
(* left are enough for the revisions that are left.                         *)

OneRun == \A q, r \in Runs : q = r

\* Transitions from a row that is being planned or reviewed to its end.
Remaining(rw) ==
    (IF rw.stage = "PLANNING" THEN 2 ELSE 1) + 2 * (MaxRevisions - rw.revisions)

\* A run and the row of its case.
OnTrack(q, rw) ==
    /\ q.pc \in {"claim", "investigate", "plan", "review"} => q.snap = rw
    /\ q.pc = "claim" => rw.stage \in {"NEW", "INVESTIGATING"}
    /\ q.pc = "investigate" => rw.stage = "INVESTIGATING"
    /\ q.pc = "plan" => rw.stage = "PLANNING"
    /\ q.pc = "review" => rw.stage = "REVIEW"
    /\ q.pc \in {"loop", "plan", "review"} /\ rw.stage \in {"PLANNING", "REVIEW"} =>
          q.left >= Remaining(rw)
    /\ q.pc # "spent"

SerialInv ==
    /\ OneRun
    /\ TypeInv
    /\ \A c \in Cases : row[c].revisions <= MaxRevisions
    /\ \A r \in Runs : OnTrack(run[r], row[run[r].case])

LEMMA SerialInit == OneRun /\ Init => SerialInv
<1> SUFFICES ASSUME OneRun, Init PROVE SerialInv
  OBVIOUS
<1>1. IdleRun.pc = "idle" /\ NewRow.revisions = 0
  BY DEF IdleRun, NewRow
<1>2. ASSUME NEW r \in Runs PROVE OnTrack(run[r], row[run[r].case])
  BY <1>1 DEF Init, OnTrack
<1>3. \A c \in Cases : row[c].revisions <= MaxRevisions
  BY <1>1, MaxRevisionsAssumption DEF Init
<1> QED BY <1>2, <1>3, TypeInit DEF SerialInv

\* The transitions suffice at the start, after a plan and after a revision.
LEMMA RemainingFacts ==
    ASSUME NEW rw \in Rows, rw.revisions <= MaxRevisions
    PROVE  /\ rw.revisions \in Nat /\ MaxRevisions \in Nat
           /\ Remaining(rw) \in 1..MaxTransitions
           /\ \A new \in Rows :
                 \/ /\ rw.stage = "PLANNING" /\ new.stage = "REVIEW"
                    /\ new.revisions = rw.revisions
                 \/ /\ rw.stage = "REVIEW" /\ new.stage = "PLANNING"
                    /\ new.revisions = rw.revisions + 1
                 => Remaining(new) = Remaining(rw) - 1
<1>1. rw.revisions \in Nat /\ MaxRevisions \in Nat
  BY MaxRevisionsAssumption DEF Rows
<1>2. Remaining(rw) \in 1..MaxTransitions
  <2>1. CASE rw.stage = "PLANNING"
    BY <1>1, <2>1 DEF Remaining, MaxTransitions
  <2>2. CASE rw.stage # "PLANNING"
    BY <1>1, <2>2 DEF Remaining, MaxTransitions
  <2> QED BY <2>1, <2>2
<1>3. ASSUME NEW new \in Rows,
             rw.stage = "PLANNING", new.stage = "REVIEW",
             new.revisions = rw.revisions
      PROVE  Remaining(new) = Remaining(rw) - 1
  BY <1>1, <1>3 DEF Remaining
<1>4. ASSUME NEW new \in Rows,
             rw.stage = "REVIEW", new.stage = "PLANNING",
             new.revisions = rw.revisions + 1
      PROVE  Remaining(new) = Remaining(rw) - 1
  BY <1>1, <1>4 DEF Remaining
<1> QED BY <1>1, <1>2, <1>3, <1>4

\* What a run saves, when its snapshot is the row.
LEMMA SerialWrite ==
    ASSUME SerialInv, NEW r \in Runs, NEW next \in RunRecords, NEW new \in Rows,
           Continue(r, next), Writes(r, next, new)
    PROVE  LET c == run[r].case
           IN  /\ row' = [row EXCEPT ![c] = new] /\ c \in Cases
               /\ Makes(run[r].pc, row[c], new)
               /\ OnTrack(run[r], row[c]) /\ run[r].pc # "spent"
               /\ new.revisions \in Nat /\ new.revisions <= MaxRevisions
<1> DEFINE c == run[r].case
<1>1. TypeInv /\ OnTrack(run[r], row[c]) /\ row[c].revisions <= MaxRevisions
  BY RunType DEF SerialInv
<1>2. run[r].pc # "spent" /\ run[r].pc \in {"claim", "investigate", "plan", "review"}
  BY <1>1 DEF OnTrack, Writes, Makes
<1>3. run[r].snap = row[c]
  BY <1>1, <1>2 DEF OnTrack
<1>4. Makes(run[r].pc, row[c], new)
  BY <1>3 DEF Writes
<1>5. row' = [row EXCEPT ![c] = new] /\ c \in Cases
  BY <1>1, RunType DEF Writes, SaveAs, Save
<1>6. new.revisions \in Nat /\ new.revisions <= MaxRevisions
  <2>1. row[c].revisions \in Nat /\ MaxRevisions \in Nat
    BY <1>1, RunType, RemainingFacts
  <2> QED BY <1>1, <1>4, <2>1 DEF Makes
<1> QED BY <1>1, <1>2, <1>4, <1>5, <1>6

LEMMA ReadsOnTrack ==
    ASSUME SerialInv, NEW r \in Runs, NEW next \in RunRecords, Reads(r, next)
    PROVE  OnTrack(next, row[next.case])
<1> DEFINE rw == row[next.case]
<1>1. next.case \in Cases /\ rw \in Rows /\ rw.revisions <= MaxRevisions
  BY DEF SerialInv, TypeInv, TypeOK, CaseRowTypeOK, RunRecords
<1>2. Remaining(rw) \in 1..MaxTransitions
  BY <1>1, RemainingFacts
<1>3. MaxTransitions \in Nat
  BY MaxRevisionsAssumption DEF MaxTransitions
<1>4. CASE next.pc \in {"idle", "claim"} \/ At(r, "loop")
  <2>1. OnTrack(run[r], row[run[r].case])
    BY DEF SerialInv
  <2> QED BY <1>2, <1>3, <1>4, <2>1 DEF Reads, OnTrack, At
<1>5. CASE next.pc = "loop" /\ next.left = MaxTransitions
  BY <1>2, <1>3, <1>5 DEF OnTrack
<1> QED BY <1>4, <1>5 DEF Reads

LEMMA WritesOnTrack ==
    ASSUME SerialInv, NEW r \in Runs, NEW next \in RunRecords, NEW new \in Rows,
           Continue(r, next), Writes(r, next, new)
    PROVE  OnTrack(next, row'[next.case])
<1> DEFINE c == run[r].case
<1>1. /\ row' = [row EXCEPT ![c] = new] /\ c \in Cases
      /\ Makes(run[r].pc, row[c], new) /\ OnTrack(run[r], row[c])
      /\ row[c] \in Rows /\ row[c].revisions <= MaxRevisions
      /\ run[r].left \in 0..MaxTransitions /\ MaxTransitions \in Nat
  BY SerialWrite, RunType, MaxRevisionsAssumption DEF SerialInv, MaxTransitions
<1>2. row'[c] = new
  BY <1>1 DEF SerialInv, TypeInv, TypeOK, CaseRowTypeOK
<1>3. CASE next.pc = "idle"
  BY <1>3 DEF OnTrack
<1>4. CASE At(r, "claim") /\ next.pc = "investigate" /\ next.case = c /\ next.snap = new
  BY <1>1, <1>2, <1>4 DEF OnTrack, Makes, At
<1>5. CASE /\ run[r].pc \in {"plan", "review"} /\ next.pc = "loop"
           /\ next.case = c /\ next.left = run[r].left - 1
  <2>1. Remaining(row[c]) \in 1..MaxTransitions /\ run[r].left >= Remaining(row[c])
    BY <1>1, <1>5, RemainingFacts DEF OnTrack
  <2>2. new.stage \in {"PLANNING", "REVIEW"} => Remaining(new) = Remaining(row[c]) - 1
    BY <1>1, <1>5, RemainingFacts DEF OnTrack, Makes
  <2>3. new.stage \in {"PLANNING", "REVIEW"} => next.left >= Remaining(new)
    BY <1>1, <1>5, <2>1, <2>2
  <2> QED BY <1>2, <1>5, <2>3 DEF OnTrack
<1> QED BY <1>3, <1>4, <1>5 DEF Writes

LEMMA SerialStep ==
    ASSUME SerialInv, NEW r \in Runs, Outline(r)
    PROVE  SerialInv'
<1>1. PICK next \in RunRecords :
         /\ Continue(r, next)
         /\ Reads(r, next) \/ \E new \in Rows : Writes(r, next, new)
  BY DEF Outline
<1>2. TypeInv'
  BY TypeStep DEF SerialInv
<1>3. run'[r] = next /\ \A q \in Runs : q = r
  BY <1>1 DEF SerialInv, OneRun, TypeInv, TypeOK, Continue
<1>4. CASE Reads(r, next)
  <2>1. OnTrack(next, row[next.case]) /\ row' = row
    BY <1>4, ReadsOnTrack DEF Reads
  <2>2. OnTrack(run'[r], row'[run'[r].case])
    BY <1>3, <2>1
  <2> QED BY <1>2, <1>3, <2>1, <2>2 DEF SerialInv, OneRun
<1>5. CASE \E new \in Rows : Writes(r, next, new)
  <2>1. PICK new \in Rows : Writes(r, next, new)
    BY <1>5
  <2>2. OnTrack(next, row'[next.case])
    BY <1>1, <2>1, WritesOnTrack
  <2>3. OnTrack(run'[r], row'[run'[r].case])
    BY <1>3, <2>2
  <2>4. /\ row' = [row EXCEPT ![run[r].case] = new]
        /\ new.revisions <= MaxRevisions
    BY <1>1, <2>1, SerialWrite
  <2>5. \A c \in Cases : row'[c].revisions <= MaxRevisions
    BY <2>4 DEF SerialInv, TypeInv, TypeOK, CaseRowTypeOK
  <2> QED BY <1>2, <1>3, <2>3, <2>5 DEF SerialInv, OneRun
<1> QED BY <1>1, <1>4, <1>5

LEMMA SerialKept == SerialInv /\ [Next]_vars => SerialInv'
<1> SUFFICES ASSUME SerialInv, [Next]_vars PROVE SerialInv'
  OBVIOUS
<1>1. CASE Next
  BY <1>1, NextOutline, SerialStep DEF SerialInv
<1>2. CASE UNCHANGED vars
  BY <1>2 DEF vars, SerialInv, OneRun, TypeInv, TypeOK, CaseRowTypeOK, At
<1> QED BY <1>1, <1>2

\* TransitionsSuffice: with one run at a time the loop of planning_workflow.py
\* ends with a decision before its bound does, for every number of revisions.
THEOREM TransitionsAreEnough == OneRun /\ Spec => []TransitionsSuffice
<1>1. SerialInv => TransitionsSuffice
  BY DEF SerialInv, OnTrack, TransitionsSuffice, At
<1> QED BY SerialInit, SerialKept, <1>1, PTL DEF Spec

-----------------------------------------------------------------------------
(* CasePlanning implements CaseLifecycle while runs come one at a time. *)

RowMoved(old, new) ==
    /\ new.executed = old.executed
    /\ \/ /\ old.stage = "REVIEW" /\ new.stage = "PLANNING"
          /\ new.plan = old.plan /\ old.revisions < MaxRevisions
          /\ new.revisions = old.revisions + 1
       \/ /\ new.revisions = old.revisions
          /\ \/ /\ old.stage = "PLANNING" /\ new.stage = "REVIEW"
                /\ new.plan \in Plans
             \/ /\ new.plan = old.plan
                /\ \/ old.stage = new.stage
                   \/ old.stage = "NEW" /\ new.stage = "INVESTIGATING"
                   \/ /\ old.stage = "INVESTIGATING"
                      /\ new.stage \in {"PLANNING", "ESCALATED", "FAILED"}
                   \/ old.stage = "PLANNING" /\ new.stage = "ESCALATED"
                   \/ /\ old.stage = "REVIEW"
                      /\ new.stage \in {"AWAITING_APPROVAL", "ESCALATED"}

Moved(c, new) == row' = [row EXCEPT ![c] = new] /\ RowMoved(row[c], new)

LEMMA MakesMoves ==
    ASSUME NEW q \in RunRecords, NEW old \in Rows, NEW new \in Rows,
           OnTrack(q, old), Makes(q.pc, old, new)
    PROVE  RowMoved(old, new)
<1>1. old.revisions \in Nat /\ new.revisions \in Nat
  BY DEF Rows
<1>2. CASE q.pc = "claim"
  BY <1>2 DEF Makes, OnTrack, RowMoved
<1>3. CASE q.pc = "investigate"
  BY <1>3 DEF Makes, OnTrack, RowMoved
<1>4. CASE q.pc = "plan"
  BY <1>4 DEF Makes, OnTrack, RowMoved
<1>5. CASE q.pc = "review"
  BY <1>1, <1>5 DEF Makes, OnTrack, RowMoved
<1> QED BY <1>2, <1>3, <1>4, <1>5 DEF Makes, OnTrack

LEMMA MovedFollows ==
    ASSUME row \in [Cases -> Rows], NEW c \in Cases, NEW new \in Rows, Moved(c, new)
    PROVE  [Lifecycle!Next]_(Lifecycle!lifecycle)
<1> DEFINE old == row[c]
           stage == [d \in Cases |-> row[d].stage]
           plan == [d \in Cases |-> row[d].plan]
           revisions == [d \in Cases |-> row[d].revisions]
           done == [d \in Cases |-> Len(row[d].executed)]
<1>1. row' = [row EXCEPT ![c] = new] /\ new.executed = old.executed
  BY DEF Moved, RowMoved
<1>2. /\ stage' = [stage EXCEPT ![c] = new.stage]
      /\ plan' = [plan EXCEPT ![c] = new.plan]
      /\ revisions' = [revisions EXCEPT ![c] = new.revisions]
  BY <1>1
<1>3. done' = done
  <2>1. \A d \in Cases : row'[d].executed = row[d].executed
    BY <1>1
  <2> QED BY <2>1
<1>4. /\ stage[c] = old.stage /\ revisions[c] = old.revisions
      /\ new.plan = old.plan => plan' = plan
      /\ new.revisions = old.revisions => revisions' = revisions
      /\ new.stage = old.stage => stage' = stage
  BY <1>1, <1>2
<1>5. CASE /\ old.stage = "REVIEW" /\ new.stage = "PLANNING"
           /\ new.plan = old.plan /\ old.revisions < MaxRevisions
           /\ new.revisions = old.revisions + 1
  <2>1. Lifecycle!Revise(c)
    BY <1>2, <1>3, <1>4, <1>5 DEF Lifecycle!Revise, Lifecycle!Enter
  <2> QED BY <2>1 DEF Lifecycle!Next
<1>6. CASE /\ old.stage = "PLANNING" /\ new.stage = "REVIEW"
           /\ new.plan \in Plans /\ new.revisions = old.revisions
  <2>1. Lifecycle!Propose(c)
    BY <1>2, <1>3, <1>4, <1>6 DEF Lifecycle!Propose, Lifecycle!Enter
  <2> QED BY <2>1 DEF Lifecycle!Next
<1>7. CASE /\ new.plan = old.plan /\ new.revisions = old.revisions
           /\ old.stage = new.stage
  BY <1>3, <1>4, <1>7 DEF Lifecycle!lifecycle
<1>8. CASE /\ new.plan = old.plan /\ new.revisions = old.revisions
           /\ \/ old.stage = "NEW" /\ new.stage = "INVESTIGATING"
              \/ /\ old.stage = "INVESTIGATING"
                 /\ new.stage \in {"PLANNING", "ESCALATED", "FAILED"}
  <2>1. Lifecycle!Investigate(c)
    BY <1>2, <1>3, <1>4, <1>8 DEF Lifecycle!Investigate, Lifecycle!Enter
  <2> QED BY <2>1 DEF Lifecycle!Next
<1>9. CASE /\ new.plan = old.plan /\ new.revisions = old.revisions
           /\ \/ old.stage = "PLANNING" /\ new.stage = "ESCALATED"
              \/ /\ old.stage = "REVIEW"
                 /\ new.stage \in {"AWAITING_APPROVAL", "ESCALATED"}
  <2>1. Lifecycle!Settle(c)
    BY <1>2, <1>3, <1>4, <1>9 DEF Lifecycle!Settle, Lifecycle!Enter
  <2> QED BY <2>1 DEF Lifecycle!Next
<1> QED BY <1>5, <1>6, <1>7, <1>8, <1>9 DEF Moved, RowMoved

LEMMA OutlineMoves ==
    ASSUME SerialInv, NEW r \in Runs, Outline(r)
    PROVE  UNCHANGED row \/ \E c \in Cases, new \in Rows : Moved(c, new)
<1>1. PICK next \in RunRecords :
         /\ Continue(r, next)
         /\ Reads(r, next) \/ \E new \in Rows : Writes(r, next, new)
  BY DEF Outline
<1>2. CASE Reads(r, next)
  BY <1>2 DEF Reads
<1>3. CASE \E new \in Rows : Writes(r, next, new)
  <2>1. PICK new \in Rows : Writes(r, next, new)
    BY <1>3
  <2> DEFINE c == run[r].case
  <2>2. /\ row' = [row EXCEPT ![c] = new] /\ c \in Cases
        /\ Makes(run[r].pc, row[c], new)
        /\ OnTrack(run[r], row[c]) /\ run[r].pc # "spent"
    BY <1>1, <2>1, SerialWrite
  <2>3. row[c] \in Rows /\ run[r] \in RunRecords
    BY <2>2, RunType DEF SerialInv
  <2>4. RowMoved(row[c], new)
    BY <2>2, <2>3, MakesMoves
  <2> QED BY <2>2, <2>4 DEF Moved
<1> QED BY <1>1, <1>2, <1>3

LEMMA InitFollows == Init => Lifecycle!Init
<1> SUFFICES ASSUME Init PROVE Lifecycle!Init
  OBVIOUS
<1>1. \A c \in Cases : row[c] = NewRow
  BY DEF Init
<1>2. /\ NewRow.stage = "NEW" /\ NewRow.plan = << >> /\ NewRow.revisions = 0
      /\ Len(NewRow.executed) = 0
  BY DEF NewRow
<1> HIDE DEF NewRow
<1> QED BY <1>1, <1>2 DEF Lifecycle!Init

\* FollowsLifecycle: with one run at a time, dying wherever it may, a case is
\* investigated, planned, reviewed and sent back for revision as CaseLifecycle
\* says, and not once more than MaxRevisions times.
THEOREM SerialRunsFollowLifecycle == OneRun /\ Spec => FollowsLifecycle
<1>1. SerialInv /\ [Next]_vars => [Lifecycle!Next]_(Lifecycle!lifecycle)
  <2> SUFFICES ASSUME SerialInv, [Next]_vars
               PROVE  [Lifecycle!Next]_(Lifecycle!lifecycle)
    OBVIOUS
  <2>1. TypeInv /\ row \in [Cases -> Rows]
    BY DEF SerialInv, TypeInv, TypeOK, CaseRowTypeOK
  <2>2. CASE Next
    BY <2>1, <2>2, NextOutline, OutlineMoves, MovedFollows DEF Lifecycle!lifecycle
  <2>3. CASE UNCHANGED vars
    BY <2>3 DEF vars, Lifecycle!lifecycle
  <2> QED BY <2>2, <2>3
<1> QED BY SerialInit, SerialKept, InitFollows, <1>1, PTL
        DEF Spec, FollowsLifecycle, Lifecycle!Spec
-----------------------------------------------------------------------------
(* What a planning run does to rows that the backend decides on meanwhile:  *)
(* it only takes up undecided rows, so it only saves undecided ones.        *)

IsOpen(rw) == rw.approval.decision \in {"NONE", "PENDING"}

OpenRuns ==
    \A r \in Runs : run[r].pc \notin {"idle", "loop"} => IsOpen(run[r].snap)

OpenRows ==
    \A c \in Cases : row[c].stage \in {"NEW", "INVESTIGATING", "PLANNING", "REVIEW"}
                        => IsOpen(row[c])

\* A row as a run may save it.
Saved(rw) ==
    /\ rw \in Rows /\ IsOpen(rw)
    /\ rw.stage = "REVIEW" => rw.plan # NoPlan
    /\ rw.stage = "AWAITING_APPROVAL" =>
          /\ rw.plan # NoPlan
          /\ rw.approval = PendingApproval(rw.plan)
          /\ rw.review \in {"APPROVE", "NONE"}

LEMMA OpenStep ==
    ASSUME TypeInv, OpenRuns, OpenRows, NEW r \in Runs, Outline(r)
    PROVE  /\ OpenRuns'
           /\ \A c \in Cases : row'[c] = row[c] \/ Saved(row'[c])
<1>1. PICK next \in RunRecords :
         /\ Continue(r, next)
         /\ Reads(r, next) \/ \E new \in Rows : Writes(r, next, new)
  BY DEF Outline
<1>2. /\ run'[r] = next /\ next.case \in Cases
      /\ \A q \in Runs \ {r} : run'[q] = run[q]
  BY <1>1 DEF TypeInv, TypeOK, Continue, RunRecords
<1>3. ASSUME next.pc \notin {"idle", "loop"} => IsOpen(next.snap)
      PROVE  OpenRuns'
  BY <1>2, <1>3 DEF OpenRuns, IsOpen
<1>4. CASE Reads(r, next)
  <2>1. next.pc \notin {"idle", "loop"} => IsOpen(next.snap)
    BY <1>2, <1>4 DEF Reads, OpenRows
  <2> QED BY <1>3, <1>4, <2>1 DEF Reads
<1>5. CASE \E new \in Rows : Writes(r, next, new)
  <2>1. PICK new \in Rows : Writes(r, next, new)
    BY <1>5
  <2>2. IsOpen(run[r].snap)
    BY <2>1 DEF OpenRuns, Writes, Makes
  <2>3. /\ IsOpen(new)
        /\ new.stage = "REVIEW" => new.plan \in Plans
        /\ new.stage = "AWAITING_APPROVAL" =>
              /\ new.plan # NoPlan /\ new.review \in {"APPROVE", "NONE"}
              /\ new.approval = PendingApproval(new.plan)
    BY <2>1, <2>2 DEF Writes, Makes, JudgedAs, IsOpen
  <2>4. Saved(new)
    BY <2>3, PlanType DEF Saved
  <2>5. \A c \in Cases : row'[c] = row[c] \/ row'[c] = new
    BY <2>1 DEF Writes, SaveAs, Save, TypeInv, TypeOK, CaseRowTypeOK
  <2>6. next.pc \notin {"idle", "loop"} => IsOpen(next.snap)
    BY <2>1, <2>3 DEF Writes
  <2> QED BY <1>3, <2>4, <2>5, <2>6
<1> QED BY <1>1, <1>4, <1>5

\* The points from which a run saves: what it has read is in its snapshot.
Keeping == {"claim", "investigate", "plan", "review", "spent"}

\* A run records no action and resolves no case; and it goes on with a row as
\* it was read or as it has just been saved.
LEMMA OutlineKeeps ==
    ASSUME TypeInv, NEW r \in Runs, Outline(r)
    PROVE  /\ \A c \in Cases :
                 \/ row'[c] = row[c]
                 \/ /\ c = run[r].case /\ run[r].pc \in Keeping
                    /\ row'[c].executed = run[r].snap.executed
                    /\ row'[c].stage # "RESOLVED"
           /\ \A q \in Runs :
                 run'[q].pc \in Keeping =>
                     run'[q] = run[q] \/ run'[q].snap = row'[run'[q].case]
<1>1. PICK next \in RunRecords :
         /\ Continue(r, next)
         /\ Reads(r, next) \/ \E new \in Rows : Writes(r, next, new)
  BY DEF Outline
<1>2. run'[r] = next /\ \A q \in Runs \ {r} : run'[q] = run[q]
  BY <1>1 DEF TypeInv, TypeOK, Continue
<1>3. CASE Reads(r, next)
  BY <1>2, <1>3 DEF Reads, Keeping
<1>4. CASE \E new \in Rows : Writes(r, next, new)
  <2>1. PICK new \in Rows : Writes(r, next, new)
    BY <1>4
  <2>2. /\ run[r].case \in Cases /\ run[r].pc \in Keeping
        /\ new.executed = run[r].snap.executed /\ new.stage # "RESOLVED"
    BY <2>1, RunType DEF Writes, Makes, Keeping
  <2>3. /\ row'[run[r].case] = new
        /\ \A c \in Cases \ {run[r].case} : row'[c] = row[c]
    BY <2>1, <2>2 DEF Writes, SaveAs, Save, TypeInv, TypeOK, CaseRowTypeOK
  <2>4. next.pc \in Keeping => next.snap = row'[next.case]
    BY <2>1, <2>3 DEF Writes, Keeping
  <2> QED BY <1>2, <2>2, <2>3, <2>4
<1> QED BY <1>1, <1>3, <1>4
=============================================================================
