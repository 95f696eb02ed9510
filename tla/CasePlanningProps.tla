-------------------------- MODULE CasePlanningProps -------------------------
(* What investigation and planning promise: properties of CasePlanning. *)
EXTENDS CasePlanning

\* However many runs save over one another, a plan waits for the operator
\* with a pending approval of that very plan; and if the row says that the
\* review approved, it was that very plan which the reviewer approved.
WaitingPlanWasJudged ==
    \A c \in Cases : row[c].stage = "AWAITING_APPROVAL" =>
        /\ row[c].approval = PendingApproval(row[c].plan)
        /\ row[c].review = "APPROVE" => row[c].plan \in endorsed[c]

\* planning_workflow.py:90-98: with one run at a time the bound on the loop
\* is never what ends it; every run is through before.
TransitionsSuffice == \A r \in Runs : ~At(r, "spent")

\* Every run ends, also when others keep changing the case under it.
RunsFinish == \A r \in Runs : ~At(r, "idle") ~> At(r, "idle")

Lifecycle == INSTANCE CaseLifecycle WITH
    stage     <- [c \in Cases |-> row[c].stage],
    plan      <- [c \in Cases |-> row[c].plan],
    revisions <- [c \in Cases |-> row[c].revisions],
    done      <- [c \in Cases |-> Len(row[c].executed)]

\* With one run at a time, dying anywhere, a case follows CaseLifecycle: it
\* is investigated once, revised at most MaxRevisions times, and an
\* escalated or failed case is left alone.
FollowsLifecycle == Lifecycle!Spec
=============================================================================
