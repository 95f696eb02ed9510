---------------------------- MODULE CasePlanning ----------------------------
(***************************************************************************)
(* From the new case to the plan that waits for the operator: the          *)
(* InvestigationWorkflow and the PlanningReviewWorkflow.  Each run is an   *)
(* operating-system process of its own (run_investigation.py,              *)
(* run_planning_review.py, an evaluation), so runs interleave between any  *)
(* two repository calls: an action below makes at most one.  The agents    *)
(* may answer anything their output schemas allow.                         *)
(***************************************************************************)
EXTENDS CaseRow

CONSTANTS
    Runs,
    MaxRevisions    \* settings.max_plan_revisions

ASSUME MaxRevisionsAssumption == MaxRevisions \in 0..3

VARIABLES
    run,            \* the process in each run slot
    endorsed        \* history: the plans the reviewer approved

vars == <<row, run, endorsed>>

\* claim/investigate: InvestigationWorkflow; loop/plan/review/spent: the
\* PlanningReviewWorkflow, spent when it has run out of transitions.
Points == {"idle", "claim", "investigate", "loop", "plan", "review", "spent"}

MaxTransitions == 2 + 2 * MaxRevisions

RunRecords == [pc : Points, case : Cases, snap : Rows,
               left : 0..MaxTransitions, review : {"enabled", "disabled"}]

TypeOK ==
    /\ CaseRowTypeOK
    /\ run \in [Runs -> RunRecords]
    /\ endorsed \in [Cases -> SUBSET Plans]

IdleRun == [pc |-> "idle", case |-> SomeCase, snap |-> NewRow, left |-> 0,
            review |-> "enabled"]

Init ==
    /\ row = [c \in Cases |-> NewRow]
    /\ run = [r \in Runs |-> IdleRun]
    /\ endorsed = [c \in Cases |-> {}]

Continue(r, next) == run' = [run EXCEPT ![r] = next]

Exit(r) == Continue(r, IdleRun)

\* repository.require: the row as the run goes on with it.
Require(r, pc) == Continue(r, [run[r] EXCEPT !.pc = pc, !.snap = row[run[r].case]])

SaveAs(r, rw) == Save(run[r].case, rw)

At(r, pc) == run[r].pc = pc

-----------------------------------------------------------------------------
(* InvestigationWorkflow.run *)

StartInvestigation(r, c) ==
    /\ At(r, "idle")
    /\ row[c].stage \in {"NEW", "INVESTIGATING"}
    /\ Continue(r, [IdleRun EXCEPT !.pc = "claim", !.case = c, !.snap = row[c]])
    /\ UNCHANGED <<row, endorsed>>

Claimed(rw) == [rw EXCEPT !.stage = "INVESTIGATING"]

ClaimCase(r) ==
    /\ At(r, "claim")
    /\ SaveAs(r, Claimed(run[r].snap))
    /\ Continue(r, [run[r] EXCEPT !.pc = "investigate", !.snap = Claimed(@)])
    /\ UNCHANGED endorsed

\* A root cause comes with ROOT_CAUSE_FOUND and may come with the other outcome.
InvestigationDone(r) ==
    /\ At(r, "investigate")
    /\ \/ SaveAs(r, [run[r].snap EXCEPT !.rootCause = "FOUND", !.stage = "PLANNING"])
       \/ \E cause \in {"NONE", "FOUND"} :
             SaveAs(r, [run[r].snap EXCEPT !.rootCause = cause,
                                           !.stage = "ESCALATED"])
    /\ Exit(r)
    /\ UNCHANGED endorsed

InvestigationFailed(r) ==
    /\ At(r, "investigate")
    /\ SaveAs(r, [run[r].snap EXCEPT !.stage = "FAILED"])
    /\ Exit(r)
    /\ UNCHANGED endorsed

-----------------------------------------------------------------------------
(* PlanningReviewWorkflow.run *)

StartPlanning(r, c) ==
    /\ At(r, "idle")
    /\ row[c].stage \in {"PLANNING", "REVIEW"}
    /\ \E review \in {"enabled", "disabled"} :
          Continue(r, [IdleRun EXCEPT !.pc = "loop", !.case = c,
                                      !.left = MaxTransitions, !.review = review])
    /\ UNCHANGED <<row, endorsed>>

\* Mutant: the transitions are not counted.
NextTransitionUnbounded(r) ==
    LET stage == row[run[r].case].stage
    IN  /\ At(r, "loop")
        /\ \/ stage = "PLANNING" /\ Require(r, "plan")
           \/ stage = "REVIEW" /\ Require(r, "review")
           \/ stage \notin {"PLANNING", "REVIEW"} /\ Exit(r)
        /\ UNCHANGED <<row, endorsed>>

\* Mutant: the run waits for the operator.
NextTransitionWaits(r) ==
    LET stage == row[run[r].case].stage
    IN  /\ At(r, "loop")
        /\ \/ stage = "PLANNING" /\ run[r].left > 0 /\ Require(r, "plan")
           \/ stage = "REVIEW" /\ run[r].left > 0 /\ Require(r, "review")
           \/ stage \in {"PLANNING", "REVIEW"} /\ run[r].left = 0 /\ Require(r, "spent")
           \/ stage \in TerminalStages /\ Exit(r)
        /\ UNCHANGED <<row, endorsed>>

\* The head of the loop, or what follows it, reads the row again.
NextTransition(r) ==
    LET stage == row[run[r].case].stage
    IN  /\ At(r, "loop")
        /\ \/ stage = "PLANNING" /\ run[r].left > 0 /\ Require(r, "plan")
           \/ stage = "REVIEW" /\ run[r].left > 0 /\ Require(r, "review")
           \/ stage \in {"PLANNING", "REVIEW"} /\ run[r].left = 0 /\ Require(r, "spent")
           \/ stage \notin {"PLANNING", "REVIEW"} /\ Exit(r)
        /\ UNCHANGED <<row, endorsed>>

LoopAgain(r) == Continue(r, [run[r] EXCEPT !.pc = "loop", !.left = @ - 1])

\* _run_planner: the approval, if any, stays.
Proposed(rw, plan) ==
    IF rw.rootCause = "NONE"
      THEN [rw EXCEPT !.stage = "ESCALATED"]
      ELSE [rw EXCEPT !.plan = plan, !.review = "NONE", !.stage = "REVIEW"]

\* Mutant: the plan is merged into the row as it is by then.
PlanMerged(r) ==
    /\ At(r, "plan")
    /\ \E plan \in Plans : SaveAs(r, Proposed(row[run[r].case], plan))
    /\ LoopAgain(r)
    /\ UNCHANGED endorsed

PlanProposed(r) ==
    /\ At(r, "plan")
    /\ \E plan \in Plans : SaveAs(r, Proposed(run[r].snap, plan))
    /\ LoopAgain(r)
    /\ UNCHANGED endorsed

ApprovedStage(plan) ==
    IF RequiresApproval(plan) THEN "AWAITING_APPROVAL" ELSE "EXECUTING"

\* Mutant: one revision too many.
CanReviseOnceMore(rw, verdict) == verdict = "REVISE" /\ rw.revisions <= MaxRevisions

\* determine_review_transition
CanRevise(rw, verdict) == verdict = "REVISE" /\ rw.revisions < MaxRevisions

StageAfter(rw, verdict) ==
    IF verdict = "APPROVE" THEN ApprovedStage(rw.plan)
    ELSE IF CanRevise(rw, verdict) THEN "PLANNING" ELSE "ESCALATED"

ApprovalAt(stage, plan) ==
    IF stage = "AWAITING_APPROVAL" THEN PendingApproval(plan) ELSE NoApproval

\* _run_reviewer
Reviewed(rw, verdict) ==
    LET next == StageAfter(rw, verdict)
    IN  IF rw.plan = NoPlan
          THEN [rw EXCEPT !.stage = "ESCALATED"]
          ELSE [rw EXCEPT !.review = verdict, !.stage = next,
                          !.revisions = IF CanRevise(rw, verdict) THEN @ + 1 ELSE @,
                          !.approval = ApprovalAt(next, rw.plan)]

Endorse(r, verdict) ==
    endorsed' = IF verdict = "APPROVE"
                  THEN [endorsed EXCEPT ![run[r].case] = @ \cup {run[r].snap.plan}]
                  ELSE endorsed

\* Mutant: the review is merged into the row as it is by then.
ReviewMerged(r) ==
    /\ At(r, "review") /\ run[r].review = "enabled"
    /\ \E verdict \in Verdicts \ {"NONE"} :
          /\ SaveAs(r, Reviewed(row[run[r].case], verdict))
          /\ Endorse(r, verdict)
    /\ LoopAgain(r)

\* Mutant: only what the review decides is written to the row as it is by then.
ReviewFieldsSaved(r) ==
    /\ At(r, "review") /\ run[r].review = "enabled"
    /\ \E verdict \in Verdicts \ {"NONE"} :
          LET reviewed == Reviewed(run[r].snap, verdict)
          IN  /\ SaveAs(r, [row[run[r].case] EXCEPT
                               !.review = reviewed.review, !.stage = reviewed.stage,
                               !.revisions = reviewed.revisions,
                               !.approval = reviewed.approval])
              /\ Endorse(r, verdict)
    /\ LoopAgain(r)

ReviewDone(r) ==
    /\ At(r, "review") /\ run[r].review = "enabled"
    /\ \E verdict \in Verdicts \ {"NONE"} :
          /\ SaveAs(r, Reviewed(run[r].snap, verdict))
          /\ Endorse(r, verdict)
    /\ LoopAgain(r)

\* _accept_plan_without_review
Accepted(rw) ==
    LET next == IF rw.plan = NoPlan THEN "ESCALATED" ELSE ApprovedStage(rw.plan)
    IN  [rw EXCEPT !.stage = next, !.review = "NONE",
                   !.approval = ApprovalAt(next, rw.plan)]

AcceptPlanWithoutReview(r) ==
    /\ At(r, "review") /\ run[r].review = "disabled"
    /\ SaveAs(r, Accepted(run[r].snap))
    /\ Exit(r)
    /\ UNCHANGED endorsed

OutOfTransitions(r) ==
    /\ At(r, "spent")
    /\ SaveAs(r, [run[r].snap EXCEPT !.stage = "ESCALATED"])
    /\ Exit(r)
    /\ UNCHANGED endorsed

-----------------------------------------------------------------------------
\* The process dies, or an agent of the planning workflow raises.
RunDies(r) == ~At(r, "idle") /\ Exit(r) /\ UNCHANGED <<row, endorsed>>

RunStep(r) ==
    \/ ClaimCase(r)
    \/ InvestigationDone(r)
    \/ InvestigationFailed(r)
    \/ NextTransition(r)
    \/ PlanProposed(r)
    \/ ReviewDone(r)
    \/ AcceptPlanWithoutReview(r)
    \/ OutOfTransitions(r)

Next ==
    \E r \in Runs :
        \/ \E c \in Cases : StartInvestigation(r, c) \/ StartPlanning(r, c)
        \/ RunStep(r) \/ RunDies(r)

Spec == Init /\ [][Next]_vars

\* A started run goes on, unless it dies: its agents answer or raise.
FairSpec == Spec /\ \A r \in Runs : WF_vars(RunStep(r))
=============================================================================
