------------------------------ MODULE CaseRow -------------------------------
(***************************************************************************)
(* The case row and its repository (backend/app/state).  The repository    *)
(* keeps one JSON payload per case; save() replaces it whole, without a    *)
(* version check, so the last writer wins.  Handlers therefore work on the *)
(* snapshot they read and write all of it back.                            *)
(***************************************************************************)
EXTENDS Domain

Stages == {"NEW", "INVESTIGATING", "PLANNING", "REVIEW", "AWAITING_APPROVAL",
           "EXECUTING", "VERIFYING", "RESOLVED", "ESCALATED", "FAILED"}

TerminalStages == {"RESOLVED", "ESCALATED", "FAILED"}

Verdicts == {"NONE", "APPROVE", "REVISE", "ESCALATE"}

\* The plan stands for its digest: SHA-256 of its canonical JSON.
Approvals == [decision : {"NONE", "PENDING", "APPROVED", "REJECTED"},
              digest   : Plans \cup {NoPlan}]

NoApproval == [decision |-> "NONE", digest |-> NoPlan]

PendingApproval(plan) == [decision |-> "PENDING", digest |-> plan]

ExecutedActions == [action : PlannedActions, status : {"SUCCESS", "FAILED"}]

Rows == [stage     : Stages,
         rootCause : {"NONE", "FOUND"},
         plan      : Plans \cup {NoPlan},
         review    : Verdicts,
         revisions : Nat,
         approval  : Approvals,
         executed  : Seq(ExecutedActions),
         verified  : {"NONE", "PASSED", "FAILED"}]

\* A freshly created case.
NewRow == [stage |-> "NEW", rootCause |-> "NONE", plan |-> NoPlan,
           review |-> "NONE", revisions |-> 0, approval |-> NoApproval,
           executed |-> << >>, verified |-> "NONE"]

VARIABLE row        \* case_states.payload of every case

CaseRowTypeOK == row \in [Cases -> Rows]

Save(c, new) == row' = [row EXCEPT ![c] = new]
=============================================================================
