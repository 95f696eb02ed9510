-------------------------- MODULE CaseWorkflowProps --------------------------
(* What holds of a case while its planning runs and the backend interleave. *)
EXTENDS CaseWorkflow

Execution == INSTANCE CaseExecutionProps

\* Also when a late planning run replaces the plan of a case that is being
\* decided or executed, the enterprise systems are changed only by actions of
\* a plan a human approved for that case (the digest check of
\* validate_execution_authorization; the executor keeps the plan it checked).
OnlyApprovedEffects == Execution!OnlyApprovedEffects

\* RESOLVED stays a fact about the enterprise systems when the verifier's save
\* replaces what a planning run wrote meanwhile, and the other way round.
ResolvedMeansRestored == Execution!ResolvedMeansRestored

\* A case waits for a decision that is still to be taken: no late save of a
\* planning run brings back a case together with a decision taken before, so
\* one approval never covers two plans or two executions.
Decided(c) == row[c].approval.decision \in {"APPROVED", "REJECTED"}

NoDecisionBeforeItsTime ==
    \A c \in Cases : Decided(c) => /\ row[c].approval.digest = row[c].plan
                                   /\ row[c].stage \notin {"NEW", "INVESTIGATING",
                                        "PLANNING", "REVIEW", "AWAITING_APPROVAL"}

\* Whatever runs saved before it, a case that asks for a decision can be
\* decided, unless its plan was accepted with the reviewer switched off
\* (planning_workflow.py:279): then the approval it waits for is always refused
\* (approvals/service.py:93-102).
DecidableWhenReviewed ==
    \A c \in Cases : row[c].stage = "AWAITING_APPROVAL" =>
        (Backend!Decidable(row[c]) <=> row[c].review # "NONE")
=============================================================================
