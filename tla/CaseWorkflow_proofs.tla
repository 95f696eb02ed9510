------------------------- MODULE CaseWorkflow_proofs --------------------------
(* Machine-checked proofs about CaseWorkflow.  What CasePlanning_proofs and *)
(* CaseExecution_proofs show of their modules is reused here: a planning    *)
(* step is a step of the first, a step of the backend one of the second     *)
(* with the view as its rows, or one of the pieces its steps are made of.   *)
EXTENDS CaseWorkflowProps, TLAPS

Plan == INSTANCE CasePlanning_proofs
Exec == INSTANCE CaseExecution_proofs WITH row <- view

-----------------------------------------------------------------------------
(* The assumptions of the two modules, and their definitions seen from here. *)

LEMMA PlanAssumptions == Plan!DomainAssumption /\ Plan!MaxRevisionsAssumption
  BY DomainAssumption, WorkflowAssumption
  DEF DomainAssumption, WorkflowAssumption, Plan!DomainAssumption,
      Plan!MaxRevisionsAssumption, PlannedActions, MatchActions, HoldActions,
      Plan!PlannedActions, Plan!MatchActions, Plan!HoldActions

LEMMA ExecAssumptions ==
    /\ Exec!DomainAssumption /\ Exec!EnterpriseAssumption
    /\ Exec!McpAssumption /\ Exec!MaxLiveAssumption
  BY DomainAssumption, EnterpriseAssumption, McpAssumption, WorkflowAssumption
  DEF DomainAssumption, EnterpriseAssumption, McpAssumption, WorkflowAssumption,
      Exec!DomainAssumption, Exec!EnterpriseAssumption, Exec!McpAssumption,
      Exec!MaxLiveAssumption, PlannedActions, MatchActions, HoldActions,
      Exec!PlannedActions, Exec!MatchActions, Exec!HoldActions,
      Worlds, InvoiceStatuses, AccountStatuses, HoldStates,
      Exec!Worlds, Exec!InvoiceStatuses, Exec!AccountStatuses, Exec!HoldStates

LEMMA SameRows == Plan!Rows = Rows /\ Exec!Rows = Rows
  BY DEF Rows, Stages, Verdicts, Approvals, ExecutedActions, PlannedActions,
     MatchActions, HoldActions, NoPlan,
     Plan!Rows, Plan!Stages, Plan!Verdicts, Plan!Approvals, Plan!ExecutedActions,
     Plan!PlannedActions, Plan!MatchActions, Plan!HoldActions, Plan!NoPlan,
     Exec!Rows, Exec!Stages, Exec!Verdicts, Exec!Approvals, Exec!ExecutedActions,
     Exec!PlannedActions, Exec!MatchActions, Exec!HoldActions, Exec!NoPlan

LEMMA SavedSound == \A rw : Plan!Saved(rw) => Exec!SoundRow(rw)
  BY DEF Plan!Saved, Plan!IsOpen, Plan!PendingApproval, Plan!NoPlan,
     Exec!SoundRow, Exec!PendingApproval, Exec!NoPlan

LEMMA PlanningNext ==
    ASSUME PlanningStep PROVE Plan!Next
<1>1. ASSUME NEW r \in Runs, NEW c \in Cases,
             Planning!StartInvestigation(r, c) \/ Planning!StartPlanning(r, c)
      PROVE  Plan!StartInvestigation(r, c) \/ Plan!StartPlanning(r, c)
  BY <1>1 DEF Planning!StartInvestigation, Plan!StartInvestigation,
     Planning!StartPlanning, Plan!StartPlanning, Planning!At, Plan!At,
     Planning!Continue, Plan!Continue, Planning!IdleRun, Plan!IdleRun,
     Planning!SomeCase, Plan!SomeCase, Planning!NewRow, Plan!NewRow,
     Planning!NoApproval, Plan!NoApproval, Planning!NoPlan, Plan!NoPlan,
     Planning!MaxTransitions, Plan!MaxTransitions
<1>2. ASSUME NEW r \in Runs, Planning!RunStep(r) PROVE Plan!RunStep(r)
  BY <1>2 DEF Planning!RunStep, Plan!RunStep, Planning!ClaimCase, Plan!ClaimCase,
     Planning!InvestigationDone, Plan!InvestigationDone,
     Planning!InvestigationFailed, Plan!InvestigationFailed,
     Planning!NextTransition, Plan!NextTransition, Planning!PlanProposed,
     Plan!PlanProposed, Planning!ReviewDone, Plan!ReviewDone,
     Planning!AcceptPlanWithoutReview, Plan!AcceptPlanWithoutReview,
     Planning!OutOfTransitions, Plan!OutOfTransitions,
     Planning!At, Plan!At, Planning!Continue, Plan!Continue, Planning!Exit, Plan!Exit,
     Planning!Require, Plan!Require, Planning!SaveAs, Plan!SaveAs,
     Planning!Save, Plan!Save, Planning!LoopAgain, Plan!LoopAgain,
     Planning!Claimed, Plan!Claimed, Planning!Proposed, Plan!Proposed,
     Planning!Reviewed, Plan!Reviewed, Planning!Accepted, Plan!Accepted,
     Planning!Endorse, Plan!Endorse, Planning!StageAfter, Plan!StageAfter,
     Planning!CanRevise, Plan!CanRevise, Planning!ApprovedStage, Plan!ApprovedStage,
     Planning!ApprovalAt, Plan!ApprovalAt, Planning!PendingApproval,
     Plan!PendingApproval, Planning!Verdicts, Plan!Verdicts,
     Planning!RequiresApproval, Plan!RequiresApproval,
     Planning!ToolRequiresApproval, Plan!ToolRequiresApproval,
     Planning!IdleRun, Plan!IdleRun, Planning!SomeCase, Plan!SomeCase,
     Planning!NewRow, Plan!NewRow, Planning!NoApproval, Plan!NoApproval,
     Planning!NoPlan, Plan!NoPlan
<1>3. ASSUME NEW r \in Runs, Planning!RunDies(r) PROVE Plan!RunDies(r)
  BY <1>3 DEF Planning!RunDies, Plan!RunDies, Planning!At, Plan!At,
     Planning!Exit, Plan!Exit, Planning!Continue, Plan!Continue,
     Planning!IdleRun, Plan!IdleRun, Planning!SomeCase, Plan!SomeCase,
     Planning!NewRow, Plan!NewRow, Planning!NoApproval, Plan!NoApproval,
     Planning!NoPlan, Plan!NoPlan
<1> QED BY <1>1, <1>2, <1>3 DEF PlanningStep, RunStep, StartRun, Plan!Next

\* The backend's steps that are CaseExecution's, on the view.
LEMMA BackendDecides ==
    ASSUME NEW c \in Cases, NEW d \in {"APPROVED", "REJECTED"}, Decide(c, d)
    PROVE  Exec!Next
<1>1. Exec!Decide(c, d)
  BY DEF Decide,
     Backend!Decide, Exec!Decide, Backend!Decidable, Exec!Decidable,
     Backend!PendingApproval, Exec!PendingApproval, Backend!world, Exec!world,
     Backend!mcpVars, Exec!mcpVars, Backend!Save, Exec!Save, Backend!Park,
     Exec!Park, Backend!Finish, Exec!Finish, Backend!IdleRequest,
     Exec!IdleRequest, Backend!SomeCase, Exec!SomeCase, Backend!NewRow,
     Exec!NewRow, Backend!NoApproval, Exec!NoApproval, Backend!NoPlan,
     Exec!NoPlan
<1> QED BY <1>1 DEF Exec!Next, Exec!Operator

LEMMA BackendNext ==
    ASSUME NEW s \in Requests, NEW c \in Cases,
           \/ Start(s, c) \/ ExecutorStep(s) \/ ClosingStep(s)
           \/ Abort(s) \/ McpStep(s)
    PROVE  Exec!Next
<1>1. CASE Start(s, c)
  <2>1. Exec!StartExecute(s, c) \/ Exec!StartVerify(s, c)
    BY <1>1 DEF Start,
     Backend!StartExecute, Exec!StartExecute, Backend!StartVerify,
     Exec!StartVerify, Backend!Authorized, Exec!Authorized,
     Backend!RequiresApproval, Exec!RequiresApproval,
     Backend!ToolRequiresApproval, Exec!ToolRequiresApproval,
     Backend!PrefixMatches, Exec!PrefixMatches, Backend!Admit, Exec!Admit,
     Backend!Cardinality, Exec!Cardinality,
     Backend!Live, Exec!Live, Backend!InProgress, Exec!InProgress, Backend!world,
     Exec!world, Backend!mcpVars, Exec!mcpVars, Backend!Save, Exec!Save,
     Backend!Park, Exec!Park, Backend!Finish, Exec!Finish, Backend!IdleRequest,
     Exec!IdleRequest, Backend!SomeCase, Exec!SomeCase, Backend!NewRow,
     Exec!NewRow, Backend!NoApproval, Exec!NoApproval, Backend!NoPlan,
     Exec!NoPlan
  <2> QED BY <2>1 DEF Exec!Next, Exec!Operator
<1>2. CASE ExecutorStep(s)
  <2>1. Exec!InvoiceReadBack(s) \/ Exec!ActionFailed(s)
    BY <1>2 DEF ExecutorStep,
     Backend!InvoiceReadBack, Exec!InvoiceReadBack, Backend!ActionFailed,
     Exec!ActionFailed, Backend!FailAction, Exec!FailAction, Backend!FailedRow,
     Exec!FailedRow, Backend!WithOutcome, Exec!WithOutcome, Backend!Planned,
     Exec!Planned, Backend!EarlierMatches, Exec!EarlierMatches, Backend!IsLatest,
     Exec!IsLatest, Backend!Issue, Exec!Issue, Backend!GetInvoice,
     Exec!GetInvoice, Backend!IsHoldRemoval, Exec!IsHoldRemoval, Backend!world,
     Exec!world, Backend!mcpVars, Exec!mcpVars, Backend!Exchange, Exec!Exchange,
     Backend!InvoiceFound, Exec!InvoiceFound, Backend!Save, Exec!Save,
     Backend!Park, Exec!Park, Backend!Finish, Exec!Finish, Backend!IdleRequest,
     Exec!IdleRequest, Backend!SomeCase, Exec!SomeCase, Backend!NewRow,
     Exec!NewRow, Backend!NoApproval, Exec!NoApproval, Backend!NoPlan,
     Exec!NoPlan
  <2> QED BY <2>1 DEF Exec!Next, Exec!HandlerStep
<1>3. CASE ClosingStep(s)
  <2>1. \/ Exec!SessionClosed(s)
        \/ Exec!CheckCrm(s) \/ Exec!CheckInvoice(s) \/ Exec!CheckHold(s)
    BY <1>3 DEF ClosingStep,
     Backend!SessionClosed, Exec!SessionClosed, Backend!CheckCrm, Exec!CheckCrm,
     Backend!CheckInvoice, Exec!CheckInvoice, Backend!CheckHold, Exec!CheckHold,
     Backend!NextCheck, Exec!NextCheck, Backend!Matched, Exec!Matched,
     Backend!MatchSucceeded, Exec!MatchSucceeded, Backend!Verdict, Exec!Verdict,
     Backend!world, Exec!world, Backend!mcpVars, Exec!mcpVars, Backend!Exchange,
     Exec!Exchange, Backend!InvoiceFound, Exec!InvoiceFound, Backend!Save,
     Exec!Save, Backend!Park, Exec!Park, Backend!Finish, Exec!Finish,
     Backend!IdleRequest, Exec!IdleRequest, Backend!SomeCase, Exec!SomeCase,
     Backend!NewRow, Exec!NewRow, Backend!NoApproval, Exec!NoApproval,
     Backend!NoPlan, Exec!NoPlan
  <2> QED BY <2>1 DEF Exec!Next, Exec!HandlerStep
<1>4. CASE Abort(s)
  <2>1. Exec!Abort(s)
    BY <1>4 DEF Abort,
     Backend!Abort, Exec!Abort, Backend!world, Exec!world, Backend!mcpVars,
     Exec!mcpVars, Backend!Exchange, Exec!Exchange, Backend!InvoiceFound,
     Exec!InvoiceFound, Backend!Save, Exec!Save, Backend!Park, Exec!Park,
     Backend!Finish, Exec!Finish, Backend!IdleRequest, Exec!IdleRequest,
     Backend!SomeCase, Exec!SomeCase, Backend!NewRow, Exec!NewRow,
     Backend!NoApproval, Exec!NoApproval, Backend!NoPlan, Exec!NoPlan
  <2> QED BY <2>1 DEF Exec!Next, Exec!HandlerStep
<1>5. CASE McpStep(s)
  <2>1. Exec!McpStep(s)
    BY <1>5 DEF McpStep, Exec!McpStep, 
     ToolStep, Exec!ToolStep, MatchPayment, Exec!MatchPayment, RemoveAccountHold,
     Exec!RemoveAccountHold, RestoreAccount, Exec!RestoreAccount, LookupInvoice,
     Exec!LookupInvoice, Exchange, Exec!Exchange, Reply, Exec!Reply, Record,
     Exec!Record, Refused, Exec!Refused, InvoiceFound, Exec!InvoiceFound,
     Matchable, Exec!Matchable, BillingMatchPayment, Exec!BillingMatchPayment,
     BillingRemoveAccountHold, Exec!BillingRemoveAccountHold, CrmRestoreAccount,
     Exec!CrmRestoreAccount, world, Exec!world
  <2> QED BY <2>1 DEF Exec!Next
<1> QED BY <1>1, <1>2, <1>3, <1>4, <1>5

\* A turn of the executor's loop, and the pause before one.
LEMMA BackendTurn ==
    ASSUME NEW s, NEW k, NEW rw, Backend!Loop(s, k, rw)
    PROVE  Exec!Loop(s, k, rw)
  BY DEF
     Backend!Loop, Exec!Loop, Backend!EndOfPlan, Exec!EndOfPlan,
     Backend!Validation, Exec!Validation, Backend!CallMatch, Exec!CallMatch,
     Backend!ReadBack, Exec!ReadBack, Backend!Suspend, Exec!Suspend,
     Backend!Resume, Exec!Resume, Backend!Issue, Exec!Issue, Backend!FailedRow,
     Exec!FailedRow, Backend!WithOutcome, Exec!WithOutcome,
     Backend!EarlierMatches, Exec!EarlierMatches, Backend!IsLatest,
     Exec!IsLatest, Backend!IsHoldRemoval, Exec!IsHoldRemoval,
     Backend!GetInvoice, Exec!GetInvoice, Backend!Save, Exec!Save, Backend!Park,
     Exec!Park, Backend!Finish, Exec!Finish, Backend!IdleRequest,
     Exec!IdleRequest, Backend!SomeCase, Exec!SomeCase, Backend!NewRow,
     Exec!NewRow, Backend!NoApproval, Exec!NoApproval, Backend!NoPlan,
     Exec!NoPlan

LEMMA BackendPieces ==
    /\ \A s, r : Backend!Park(s, r) => Exec!Park(s, r)
    /\ \A s : Backend!Planned(s) = Exec!Planned(s)
    /\ \A rw, a, status : Backend!WithOutcome(rw, a, status)
                             = Exec!WithOutcome(rw, a, status)
    /\ [t \in Requests |-> Backend!IdleRequest] = [t \in Requests |-> Exec!IdleRequest]
  BY DEF
     Backend!Park, Exec!Park, Backend!Planned, Exec!Planned, Backend!WithOutcome,
     Exec!WithOutcome, Backend!IdleRequest, Exec!IdleRequest, Backend!SomeCase,
     Exec!SomeCase, Backend!NewRow, Exec!NewRow, Backend!NoApproval,
     Exec!NoApproval, Backend!NoPlan, Exec!NoPlan

-----------------------------------------------------------------------------
(* The invariant.  The stored rows and the view of them are sound and their *)
(* approvals earned; the runs work on undecided snapshots, so what they     *)
(* save over a decided row is undecided again, and never a mixture.         *)

Frame ==
    /\ started \in 0..MaxStarts
    /\ unsaved \subseteq Cases
    /\ \A c \in Cases \ unsaved : view[c] = row[c]
    /\ shown \in [Cases -> Plans \cup {NoPlan}]

Stored == \A c \in Cases : Exec!Earned(c, row[c]) /\ Exec!SoundRow(row[c])

WorkflowInv ==
    /\ Frame
    /\ Plan!TypeInv /\ Plan!OpenRuns
    /\ Exec!BackendInv
    /\ Stored

LEMMA StoredRows ==
    ASSUME WorkflowInv
    PROVE  /\ row \in [Cases -> Rows] /\ view \in [Cases -> Rows]
           /\ Exec!TypeInv /\ Exec!SafetyInv /\ Exec!EarnedRows /\ Exec!SoundRows
           /\ \A s \in Requests : /\ Exec!SlotSafe(s) /\ Exec!SoundRow(req[s].snap)
                                   /\ req[s] \in Exec!RequestRecords
                                   /\ req[s].case \in Cases
           /\ Plan!OpenRows
<1>1. row \in [Cases -> Rows]
  BY SameRows DEF WorkflowInv, Plan!TypeInv, Plan!TypeOK, Plan!CaseRowTypeOK
<1>2. /\ Exec!TypeInv /\ Exec!SafetyInv /\ Exec!EarnedRows /\ Exec!SoundRows
      /\ \A s \in Requests : Exec!SlotSafe(s) /\ Exec!SoundRow(req[s].snap)
  BY DEF WorkflowInv, Exec!BackendInv, Exec!SafetyInv, Exec!SoundSnaps
<1>3. view \in [Cases -> Rows] /\ req \in [Requests -> Exec!RequestRecords]
  BY <1>2, SameRows DEF Exec!TypeInv, Exec!TypeOK, Exec!CaseRowTypeOK
<1>4. \A s \in Requests : req[s].case \in Cases
  BY <1>3 DEF Exec!RequestRecords
<1>5. Plan!OpenRows
  <2>1. \A c \in Cases : row[c].approval.decision
                            \in {"NONE", "PENDING", "APPROVED", "REJECTED"}
    BY <1>1 DEF Rows, Approvals
  <2> QED BY <2>1 DEF WorkflowInv, Stored, Exec!SoundRow, Exec!Undecided,
          Plan!OpenRows, Plan!IsOpen
<1> QED BY <1>1, <1>2, <1>3, <1>4, <1>5

\* A step of the backend: the stored rows stay, and what differs is unsaved.
LEMMA BackendKept ==
    ASSUME WorkflowInv, Exec!BackendInv',
           \A c \in Cases : approved[c] \subseteq approved'[c],
           UNCHANGED <<row, planningVars, shown>>,
           unsaved' \subseteq Cases,
           \A c \in Cases \ unsaved' : view'[c] = row[c]
    PROVE  WorkflowInv'
<1>1. Frame'
  BY DEF WorkflowInv, Frame, planningVars
<1>2. Plan!TypeInv' /\ Plan!OpenRuns'
  BY DEF WorkflowInv, planningVars, Plan!TypeInv, Plan!TypeOK, Plan!CaseRowTypeOK,
     Plan!At, Plan!OpenRuns, Plan!IsOpen
<1>3. Stored'
  BY DEF WorkflowInv, Stored, Exec!Earned, Exec!SoundRow
<1> QED BY <1>1, <1>2, <1>3 DEF WorkflowInv

LEMMA PlanningKept ==
    ASSUME WorkflowInv, PlanningStep
    PROVE  WorkflowInv'
<1>1. PICK r \in Runs : Plan!Outline(r)
  BY PlanningNext, PlanAssumptions, Plan!NextOutline DEF WorkflowInv
<1>2. /\ Plan!TypeInv' /\ Plan!OpenRuns'
      /\ \A c \in Cases : row'[c] = row[c] \/ Plan!Saved(row'[c])
  BY <1>1, PlanAssumptions, StoredRows, Plan!TypeStep, Plan!OpenStep DEF WorkflowInv
<1>3. \A rw, c : Plan!Saved(rw) => Exec!Earned(c, rw) /\ Exec!SoundRow(rw)
  BY SavedSound DEF Plan!Saved, Plan!IsOpen, Exec!Earned
<1>4. \A c \in Cases : Exec!Earned(c, row'[c]) /\ Exec!SoundRow(row'[c])
  BY <1>2, <1>3 DEF WorkflowInv, Stored
<1>5. row' \in [Cases -> Rows]
  BY <1>2, SameRows DEF Plan!TypeInv, Plan!TypeOK, Plan!CaseRowTypeOK
<1>6. /\ view' = [c \in Cases |-> IF c \in unsaved THEN view[c] ELSE row'[c]]
      /\ UNCHANGED <<world, mcpVars, req, approved, unsaved, shown>>
  BY DEF PlanningStep, backendVars
<1>7. /\ view' \in [Cases -> Exec!Rows]
      /\ \A c \in Cases : Exec!Earned(c, view'[c]) /\ Exec!SoundRow(view'[c])
  BY <1>4, <1>5, <1>6, StoredRows, SameRows DEF Exec!EarnedRows, Exec!SoundRows
<1>8. Exec!BackendInv'
  <2>1. UNCHANGED <<Exec!world, call, applied, approved>> /\ req' = req
    BY <1>6 DEF Exec!world, world, mcpVars
  <2>2. faults' \in 0..MaxFaults
    BY <1>6, StoredRows DEF mcpVars, Exec!TypeInv, Exec!TypeOK, Exec!McpTypeOK
  <2> QED BY <1>7, <2>1, <2>2, ExecAssumptions, Exec!ReplacedKept DEF WorkflowInv
<1>9. Frame'
  <2>1. started' \in 0..MaxStarts
    BY WorkflowAssumption DEF PlanningStep, RunStep, StartRun, WorkflowInv, Frame
  <2> QED BY <1>6, <2>1 DEF WorkflowInv, Frame
<1>10. Stored'
  BY <1>4, <1>6 DEF Stored, Exec!Earned, Exec!SoundRow
<1> QED BY <1>2, <1>8, <1>9, <1>10 DEF WorkflowInv

LEMMA SaveKept ==
    ASSUME WorkflowInv, SaveCase
    PROVE  WorkflowInv'
<1>1. /\ row' = [c \in Cases |-> IF c \in unsaved THEN view[c] ELSE row[c]]
      /\ unsaved' = {} /\ UNCHANGED <<planningVars, backendVars, view, shown>>
  BY DEF SaveCase
<1>2. Exec!BackendInv'
  <2>1. UNCHANGED Exec!vars
    BY <1>1 DEF backendVars, mcpVars, world, Exec!vars, Exec!mcpVars, Exec!world
  <2> QED BY <2>1, ExecAssumptions, Exec!BackendStep DEF WorkflowInv
<1>3. \A c \in Cases : row'[c] = view'[c] /\ row'[c] = view[c]
  BY <1>1 DEF WorkflowInv, Frame
<1>4. Frame'
  BY <1>1, <1>3 DEF WorkflowInv, Frame, planningVars
<1>5. row' \in [Cases -> Rows]
  BY <1>1, StoredRows
<1>6. Plan!TypeInv' /\ Plan!OpenRuns'
  <2>1. \A c \in Cases : row'[c].stage = "REVIEW" => row'[c].plan \in Plans
    BY <1>3, <1>5, StoredRows DEF Exec!SoundRows, Exec!SoundRow, Exec!NoPlan,
       Rows, NoPlan
  <2>2. UNCHANGED <<run, endorsed>>
    BY <1>1 DEF planningVars
  <2> QED BY <1>5, <2>1, <2>2, SameRows
          DEF WorkflowInv, Plan!TypeInv, Plan!TypeOK, Plan!CaseRowTypeOK, Plan!At,
              Plan!OpenRuns, Plan!IsOpen
<1>7. Stored'
  BY <1>1, <1>3, StoredRows DEF Stored, Exec!EarnedRows, Exec!SoundRows,
     Exec!Earned, Exec!SoundRow, backendVars
<1> QED BY <1>2, <1>4, <1>6, <1>7 DEF WorkflowInv

LEMMA CrashKept ==
    ASSUME WorkflowInv, Crash
    PROVE  WorkflowInv'
<1>1. /\ UNCHANGED <<row, planningVars, world, call, applied, approved, shown>>
      /\ view' = row /\ unsaved' = {}
      /\ req' = [s \in Requests |-> Exec!IdleRequest]
  BY BackendPieces DEF Crash
<1>2. faults' \in 0..MaxFaults
  BY StoredRows, McpAssumption
  DEF Crash, Exchange, McpAssumption, Exec!TypeInv, Exec!TypeOK, Exec!McpTypeOK
<1>3. Exec!BackendInv'
  <2>1. UNCHANGED <<Exec!world, call, applied, approved>>
    BY <1>1 DEF Exec!world, world
  <2>2. /\ view' \in [Cases -> Exec!Rows]
        /\ \A c \in Cases : Exec!Earned(c, view'[c]) /\ Exec!SoundRow(view'[c])
    BY <1>1, StoredRows, SameRows DEF WorkflowInv, Stored
  <2> QED BY <1>1, <1>2, <2>1, <2>2, ExecAssumptions, Exec!ReplacedKept
          DEF WorkflowInv
<1> QED BY <1>1, <1>3, BackendKept DEF planningVars

\* The steps of CaseExecution on the view.
LEMMA ExecKept ==
    ASSUME WorkflowInv, Exec!Next, UNCHANGED <<row, planningVars, shown>>,
           unsaved' \subseteq Cases,
           \A c \in Cases \ unsaved' : view'[c] = row[c]
    PROVE  WorkflowInv'
<1>1. Exec!BackendInv'
  BY ExecAssumptions, Exec!BackendStep DEF WorkflowInv
<1>2. \A c \in Cases : approved[c] \subseteq approved'[c]
  BY ExecAssumptions, StoredRows, Exec!ApprovedGrows
<1> QED BY <1>1, <1>2, BackendKept

\* The view after a verifier's or closing executor's step: it has saved, and
\* the request is over, or nothing has changed.
LEMMA ClosingView ==
    ASSUME WorkflowInv, NEW s \in Requests, ClosingStep(s)
    PROVE  \/ view' = view
           \/ /\ req'[s].pc = "idle"
              /\ \A c \in Cases \ {req[s].case} : view'[c] = view[c]
<1>1. ASSUME Backend!Finish(s) PROVE req'[s].pc = "idle"
  <2>1. req' = [req EXCEPT ![s] = Backend!IdleRequest]
    BY <1>1 DEF Backend!Finish, Backend!Park
  <2>2. req'[s] = Backend!IdleRequest
    BY <2>1, StoredRows DEF Exec!TypeInv, Exec!TypeOK
  <2> QED BY <2>2 DEF Backend!IdleRequest
<1>2. ASSUME NEW new, Backend!Save(req[s].case, new)
      PROVE  \A c \in Cases \ {req[s].case} : view'[c] = view[c]
  BY <1>2, StoredRows DEF Backend!Save
<1>3. \/ view' = view
      \/ Backend!Finish(s) /\ \E new : Backend!Save(req[s].case, new)
  <2>1. CASE Backend!SessionClosed(s)
    BY <2>1 DEF Backend!SessionClosed
  <2>2. CASE Backend!CheckCrm(s) \/ Backend!CheckInvoice(s) \/ Backend!CheckHold(s)
    <3>1. view' = view \/ \E ok : Backend!Verdict(s, ok)
      BY <2>2 DEF Backend!CheckCrm, Backend!CheckInvoice, Backend!CheckHold
    <3> QED BY <3>1 DEF Backend!Verdict
  <2> QED BY <2>1, <2>2 DEF ClosingStep
<1> QED BY <1>1, <1>2, <1>3

LEMMA DecideKept ==
    ASSUME WorkflowInv, NEW c \in Cases, NEW d \in {"APPROVED", "REJECTED"},
           Decide(c, d)
    PROVE  WorkflowInv'
<1>1. Exec!Next
  BY BackendDecides
<1>2. \A x \in Cases : view[x] = row[x]
  BY DEF WorkflowInv, Frame, Free, Decide
<1>3. /\ UNCHANGED <<row, planningVars, shown>> /\ unsaved' \subseteq Cases
      /\ \A x \in Cases \ unsaved' : view'[x] = row[x]
  BY <1>2, StoredRows DEF Decide, Stretch, Backend!Decide, Backend!Save
<1> QED BY <1>1, <1>3, ExecKept

LEMMA StepKept ==
    ASSUME WorkflowInv, NEW s \in Requests, NEW c \in Cases,
           \/ Start(s, c) \/ ExecutorStep(s) \/ ClosingStep(s)
           \/ Abort(s) \/ McpStep(s)
    PROVE  WorkflowInv'
<1>1. Exec!Next
  BY BackendNext
<1>2. ASSUME Free PROVE \A x \in Cases : view[x] = row[x]
  BY <1>2 DEF WorkflowInv, Frame, Free
<1>3. /\ UNCHANGED <<row, planningVars, shown>> /\ unsaved' \subseteq Cases
      /\ \A x \in Cases \ unsaved' : view'[x] = row[x]
  <2>1. CASE Start(s, c)
    BY <1>2, <2>1 DEF Start, Stretch, Backend!StartExecute, Backend!StartVerify
  <2>2. CASE ExecutorStep(s)
    BY <1>2, <2>2 DEF ExecutorStep, Stretch, Changed
  <2>3. CASE ClosingStep(s)
    BY <1>2, <2>3, ClosingView, StoredRows DEF ClosingStep, Stretch
  <2>4. CASE Abort(s)
    BY <1>2, <2>4 DEF Abort, Stretch, Backend!Abort
  <2>5. CASE McpStep(s)
    BY <2>5 DEF McpStep, WorkflowInv, Frame
  <2> QED BY <2>1, <2>2, <2>3, <2>4, <2>5
<1> QED BY <1>1, <1>3, ExecKept

LEMMA TurnKept ==
    ASSUME WorkflowInv, NEW s \in Requests, NEW k \in Nat \ {0}, Turn(s, k),
           unsaved = {}, req[s].pc \in {"open", "turn"}
    PROVE  WorkflowInv'
<1> DEFINE rw == view[req[s].case]
           r == [req[s] EXCEPT !.pc = "turn", !.at = k]
<1>1. /\ rw \in Exec!Rows /\ Exec!SoundRow(rw) /\ Exec!Earned(req[s].case, rw)
      /\ req[s] \in Exec!RequestRecords /\ req[s].pc \in Exec!Executing
  BY StoredRows, SameRows DEF Exec!EarnedRows, Exec!SoundRows, Exec!Executing
<1>2. UNCHANGED <<Exec!world, applied, faults, approved>>
  BY DEF Turn, world, Exec!world
<1>3. Exec!BackendInv'
  <2>1. CASE Backend!Park(s, r) /\ UNCHANGED <<view, call>>
    <3>1. /\ r \in Exec!RequestRecords /\ r.pc = "turn" /\ r.case = req[s].case
          /\ r.plan = req[s].plan /\ r.snap = req[s].snap
      BY <1>1 DEF Exec!RequestRecords, Exec!Points
    <3>2. Exec!Park(s, r) /\ UNCHANGED view
      BY <2>1, BackendPieces
    <3>3. UNCHANGED <<Exec!world, Exec!mcpVars, approved>>
      BY <1>2, <2>1 DEF Exec!mcpVars
    <3> HIDE DEF r, rw
    <3> QED BY <1>1, <3>1, <3>2, <3>3, ExecAssumptions, Exec!PauseKept
            DEF WorkflowInv
  <2>2. CASE Backend!Loop(s, k, rw)
    <3>1. Exec!Loop(s, k, rw)
      BY <2>2, BackendTurn
    <3> HIDE DEF rw
    <3> QED BY <1>1, <1>2, <3>1, ExecAssumptions, Exec!TurnKept DEF WorkflowInv
  <2> QED BY <2>1, <2>2 DEF Turn
<1>4. /\ UNCHANGED <<row, planningVars, shown, approved>>
      /\ unsaved' = {c \in Cases : view'[c] # view[c]}
  BY DEF Turn, Stretch, Changed
<1>5. \A c \in Cases \ unsaved' : view'[c] = row[c]
  BY <1>4 DEF WorkflowInv, Frame
<1> QED BY <1>3, <1>4, <1>5, BackendKept

LEMMA SuccessKept ==
    ASSUME WorkflowInv, NEW s \in Requests, ActionSucceeded(s)
    PROVE  WorkflowInv'
<1> DEFINE c == req[s].case
           rw == Exec!WithOutcome(req[s].snap, Exec!Planned(s), "SUCCESS")
           r == [req[s] EXCEPT !.pc = "turn"]
<1>1. /\ req[s] \in Exec!RequestRecords /\ c \in Cases
      /\ req[s].pc = "write" /\ unsaved = {}
      /\ view' = [view EXCEPT ![c] = rw] /\ Exec!Park(s, r)
      /\ UNCHANGED <<row, planningVars, shown, world, mcpVars, approved>>
      /\ unsaved' = {c}
  BY StoredRows, BackendPieces DEF ActionSucceeded, Free, Stretch
<1>2. req[s].snap \in Exec!Rows /\ Exec!Planned(s) \in Exec!PlannedActions
  BY <1>1, StoredRows, ExecAssumptions, Exec!RequestType
<1>3. /\ rw \in Exec!Rows /\ Exec!SoundRow(rw) /\ Exec!Earned(c, rw)
  BY <1>2, StoredRows, ExecAssumptions, Exec!OutcomeType, Exec!OutcomeSound,
     Exec!OutcomeEarned DEF Exec!SlotSafe
<1>4. /\ r \in Exec!RequestRecords /\ r.pc = "turn" /\ r.case = c
      /\ r.plan = req[s].plan /\ r.snap = req[s].snap
  BY <1>1 DEF Exec!RequestRecords, Exec!Points
<1>5. Exec!BackendInv'
  <2>1. UNCHANGED <<Exec!world, Exec!mcpVars, approved>>
    BY <1>1 DEF world, mcpVars, Exec!world, Exec!mcpVars
  <2>2. Exec!Save(c, rw) /\ req[s].pc \in Exec!Executing
    BY <1>1 DEF Exec!Save, Exec!Executing
  <2> HIDE DEF r, rw
  <2> QED BY <1>1, <1>3, <1>4, <2>1, <2>2, ExecAssumptions, Exec!PauseKept
          DEF WorkflowInv
<1>6. \A x \in Cases \ unsaved' : view'[x] = row[x]
  <2> HIDE DEF rw
  <2> QED BY <1>1, StoredRows DEF WorkflowInv, Frame
<1> QED BY <1>1, <1>5, <1>6, BackendKept

-----------------------------------------------------------------------------
(* The invariant is inductive, and what it says of the system. *)

LEMMA WorkflowInit == Init => WorkflowInv
<1> SUFFICES ASSUME Init PROVE WorkflowInv
  OBVIOUS
<1>1. Plan!Init
  BY DEF Init, Planning!Init, Plan!Init, Planning!NewRow, Plan!NewRow,
     Planning!NoApproval, Plan!NoApproval, Planning!NoPlan, Plan!NoPlan,
     Planning!IdleRun, Plan!IdleRun, Planning!SomeCase, Plan!SomeCase
<1>2. Plan!TypeInv
  BY <1>1, PlanAssumptions, Plan!TypeInit
<1>3. row \in [Cases -> Rows] /\ view = row
  BY <1>2, SameRows DEF Init, Plan!TypeInv, Plan!TypeOK, Plan!CaseRowTypeOK
<1>4. \A c \in Cases : Exec!Earned(c, row[c]) /\ Exec!SoundRow(row[c])
  BY <1>1 DEF Plan!Init, Plan!NewRow, Plan!NoApproval, Exec!Earned, Exec!SoundRow
<1>5. Plan!OpenRuns
  BY <1>1 DEF Plan!Init, Plan!IdleRun, Plan!OpenRuns
<1>6. Frame
  BY WorkflowAssumption DEF Init, WorkflowAssumption, Frame
<1>7. Exec!BackendInv
  <2>1. Exec!EnterpriseInit
    BY DEF Init, EnterpriseInit, Exec!EnterpriseInit
  <2>2. Exec!McpInit
    BY DEF Init, McpInit, Exec!McpInit, NoAction, Exec!NoAction, SomeCase, Exec!SomeCase
  <2>3. Exec!CaseRowTypeOK /\ Exec!EarnedRows /\ Exec!SoundRows
    BY <1>3, <1>4, SameRows DEF Exec!CaseRowTypeOK, Exec!EarnedRows, Exec!SoundRows
  <2>4. /\ req = [s \in Requests |-> Exec!IdleRequest]
        /\ approved = [c \in Cases |-> {}]
    BY BackendPieces DEF Init
  <2> QED BY <2>1, <2>2, <2>3, <2>4, ExecAssumptions, Exec!BackendStart
<1> QED BY <1>2, <1>4, <1>5, <1>6, <1>7 DEF WorkflowInv, Stored

LEMMA WorkflowStep == WorkflowInv /\ [Next]_vars => WorkflowInv'
<1> SUFFICES ASSUME WorkflowInv, [Next]_vars PROVE WorkflowInv'
  OBVIOUS
<1>1. ASSUME NEW c \in Cases, OpenPage(c) PROVE WorkflowInv'
  <2>1. UNCHANGED <<row, planningVars, backendVars, view, unsaved>>
    BY <1>1 DEF OpenPage
  <2>2. shown' \in [Cases -> Plans \cup {NoPlan}]
    BY <1>1, StoredRows DEF OpenPage, WorkflowInv, Frame, Rows
  <2>3. Exec!BackendInv'
    <3>1. UNCHANGED Exec!vars
      BY <2>1 DEF backendVars, mcpVars, world, Exec!vars, Exec!mcpVars, Exec!world
    <3> QED BY <3>1, ExecAssumptions, Exec!BackendStep DEF WorkflowInv
  <2>4. Frame' /\ Stored'
    BY <2>1, <2>2 DEF WorkflowInv, Frame, Stored, planningVars, backendVars,
       Exec!Earned, Exec!SoundRow
  <2>5. Plan!TypeInv' /\ Plan!OpenRuns'
    BY <2>1 DEF WorkflowInv, planningVars, Plan!TypeInv, Plan!TypeOK,
       Plan!CaseRowTypeOK, Plan!At, Plan!OpenRuns, Plan!IsOpen
  <2> QED BY <2>3, <2>4, <2>5 DEF WorkflowInv
<1>2. CASE Operator
  <2>1. ASSUME NEW c \in Cases, NEW d \in {"APPROVED", "REJECTED"}, Decide(c, d)
        PROVE  WorkflowInv'
    BY <2>1, DecideKept
  <2>2. ASSUME NEW s \in Requests, NEW c \in Cases, Start(s, c) PROVE WorkflowInv'
    BY <2>2, StepKept
  <2> QED BY <1>1, <1>2, <2>1, <2>2 DEF Operator
<1>3. ASSUME NEW s \in Requests, RequestStep(s) PROVE WorkflowInv'
  <2>1. CASE SessionOpened(s)
    BY <2>1, TurnKept DEF SessionOpened, Free
  <2>2. CASE NextTurn(s)
    <3>1. req[s].at + 1 \in Nat \ {0}
      BY StoredRows DEF Exec!RequestRecords
    <3> QED BY <2>2, <3>1, TurnKept DEF NextTurn
  <2>3. CASE ExecutorStep(s) \/ ClosingStep(s) \/ Abort(s)
    <3>1. SomeCase \in Cases
      BY DomainAssumption DEF DomainAssumption, SomeCase
    <3> QED BY <2>3, <3>1, StepKept
  <2> QED BY <1>3, <2>1, <2>2, <2>3, SuccessKept DEF RequestStep
<1>4. ASSUME NEW s \in Requests, McpStep(s) PROVE WorkflowInv'
  <2>1. SomeCase \in Cases
    BY DomainAssumption DEF DomainAssumption, SomeCase
  <2> QED BY <1>4, <2>1, StepKept
<1>5. CASE UNCHANGED vars
  <2>1. UNCHANGED <<Exec!vars, row, planningVars, backendVars, view, unsaved, shown>>
    BY <1>5 DEF vars, backendVars, mcpVars, world, Exec!vars, Exec!mcpVars, Exec!world
  <2>2. Exec!BackendInv'
    BY <2>1, ExecAssumptions, Exec!BackendStep DEF WorkflowInv
  <2> QED BY <2>1, <2>2, BackendKept DEF WorkflowInv, Frame, backendVars
<1> QED BY <1>2, <1>3, <1>4, <1>5, PlanningKept, SaveKept, CrashKept DEF Next

LEMMA WorkflowInvariant == Spec => []WorkflowInv
  BY WorkflowInit, WorkflowStep, PTL DEF Spec

\* CaseWorkflow.TypeOK: rows, runs, requests and enterprise data keep their
\* types, and the view differs from the stored rows only where the backend
\* has still to save.
THEOREM TypeCorrect == Spec => []TypeOK
<1>1. WorkflowInv => TypeOK
  <2> SUFFICES ASSUME WorkflowInv PROVE TypeOK
    OBVIOUS
  <2>1. Planning!TypeOK
    BY DEF WorkflowInv, Plan!TypeInv, Plan!TypeOK, Planning!TypeOK,
       Plan!CaseRowTypeOK, Planning!CaseRowTypeOK, Plan!RunRecords,
       Planning!RunRecords, Plan!Points, Planning!Points, Plan!MaxTransitions,
       Planning!MaxTransitions, Plan!Rows, Plan!Stages, Plan!Verdicts,
       Plan!Approvals, Plan!ExecutedActions, Plan!PlannedActions,
       Plan!MatchActions, Plan!HoldActions, Plan!NoPlan, Planning!Rows,
       Planning!Stages, Planning!Verdicts, Planning!Approvals,
       Planning!ExecutedActions, Planning!PlannedActions, Planning!MatchActions,
       Planning!HoldActions, Planning!NoPlan
  <2>2. Backend!TypeOK
    <3>1. Exec!TypeOK
      BY StoredRows DEF Exec!TypeInv
    <3> QED BY <3>1 DEF
     Backend!TypeOK, Exec!TypeOK, Backend!EnterpriseTypeOK,
     Exec!EnterpriseTypeOK, Backend!McpTypeOK, Exec!McpTypeOK,
     Backend!CaseRowTypeOK, Exec!CaseRowTypeOK, Backend!RequestRecords,
     Exec!RequestRecords, Backend!Points, Exec!Points, Backend!Rows, Exec!Rows,
     Backend!Stages, Exec!Stages, Backend!Verdicts, Exec!Verdicts,
     Backend!Approvals, Exec!Approvals, Backend!ExecutedActions,
     Exec!ExecutedActions, Backend!PlannedActions, Exec!PlannedActions,
     Backend!MatchActions, Exec!MatchActions, Backend!HoldActions,
     Exec!HoldActions, Backend!NoPlan, Exec!NoPlan, Backend!Calls, Exec!Calls,
     Backend!Replies, Exec!Replies, Backend!Reads, Exec!Reads, Backend!NoAction,
     Exec!NoAction, Backend!Effects, Exec!Effects, Backend!InvoiceStatuses,
     Exec!InvoiceStatuses, Backend!AccountStatuses, Exec!AccountStatuses,
     Backend!HoldStates, Exec!HoldStates
  <2> QED BY <2>1, <2>2 DEF WorkflowInv, Frame, TypeOK
<1> QED BY WorkflowInvariant, <1>1, PTL

\* OnlyApprovedEffects, with the planning runs: also when one of them replaces
\* the plan between the decision, the check of its digest and the execution,
\* only actions of a plan a human approved reach the enterprise systems.
THEOREM ApprovedEffects == Spec => []OnlyApprovedEffects
<1>1. WorkflowInv => OnlyApprovedEffects
  BY StoredRows DEF Exec!SafetyInv, Exec!EffectsJustified, Exec!Justified,
     Exec!ApprovedFor, OnlyApprovedEffects, Execution!OnlyApprovedEffects,
     Execution!ApprovedFor
<1> QED BY WorkflowInvariant, <1>1, PTL

\* Nor does any interleaving with planning runs lift a hold before an earlier
\* match of the approved plan has paid its invoice.
THEOREM HoldAfterPayment == Spec => []Execution!HoldLiftedOnlyAfterPayment
<1>1. WorkflowInv => Execution!HoldLiftedOnlyAfterPayment
  BY StoredRows DEF Exec!SafetyInv, Exec!EffectsJustified, Exec!Justified,
     Exec!PaidFirst, Exec!EarlierMatches, Exec!IsHoldRemoval,
     Execution!HoldLiftedOnlyAfterPayment, Execution!PaidFirst,
     Execution!EarlierMatches, Execution!IsHoldRemoval
<1> QED BY WorkflowInvariant, <1>1, PTL

\* NoDecisionBeforeItsTime: no late save of a planning run brings back a case
\* together with a decision, for any number of runs, requests and crashes.
THEOREM DecisionsInTime == Spec => []NoDecisionBeforeItsTime
<1>1. WorkflowInv => NoDecisionBeforeItsTime
  BY DEF WorkflowInv, Stored, Exec!SoundRow, Exec!Undecided,
     NoDecisionBeforeItsTime, Decided
<1> QED BY WorkflowInvariant, <1>1, PTL

\* DecidableWhenReviewed: a case that asks for a decision can be decided,
\* whichever saves came before, unless its plan was accepted unreviewed.
THEOREM ReviewedIsDecidable == Spec => []DecidableWhenReviewed
<1>1. ASSUME WorkflowInv, NEW c \in Cases, row[c].stage = "AWAITING_APPROVAL"
      PROVE  Backend!Decidable(row[c]) <=> row[c].review # "NONE"
  <2>1. Exec!SoundRow(row[c])
    BY <1>1 DEF WorkflowInv, Stored
  <2>2. /\ row[c].plan # << >> /\ row[c].review \in {"APPROVE", "NONE"}
        /\ row[c].approval.decision = "PENDING"
        /\ row[c].approval.digest = row[c].plan
    BY <1>1, <2>1 DEF Exec!SoundRow, Exec!PendingApproval, Exec!NoPlan
  <2> QED BY <1>1, <2>2 DEF Backend!Decidable, Backend!NoPlan
<1>2. WorkflowInv => DecidableWhenReviewed
  BY <1>1 DEF DecidableWhenReviewed
<1> QED BY WorkflowInvariant, <1>2, PTL

-----------------------------------------------------------------------------
(* What rows say of the enterprise systems, whoever saved them: the stored  *)
(* rows, the backend's view and snapshots, and the snapshots of the runs.   *)

StoredFacts ==
    /\ \A c \in Cases : Exec!Confirmed(c, row[c])
    /\ \A r \in Runs : run[r].pc \in Plan!Keeping =>
                           Exec!Confirmed(run[r].case, run[r].snap)

FactsInv == Exec!ConfirmedRows /\ Exec!ConfirmedSlots /\ StoredFacts

\* Rows and runs may change, the systems not; or the other way round.
LEMMA StillStored ==
    ASSUME UNCHANGED world,
           \A c \in Cases : Exec!Confirmed(c, row'[c]),
           \A r \in Runs : run'[r].pc \in Plan!Keeping =>
                               Exec!Confirmed(run'[r].case, run'[r].snap)
    PROVE  StoredFacts'
<1>1. \A c, rw : Exec!Confirmed(c, rw) => Exec!Confirmed(c, rw)'
  BY DEF world, Exec!Confirmed, Exec!PaidRow, Exec!Resolved, Exec!CustomerFreed
<1>2. ASSUME NEW c \in Cases PROVE Exec!Confirmed(c, row[c])'
  <2>1. PICK rw : rw = row'[c]
    OBVIOUS
  <2>2. Exec!Confirmed(c, rw)'
    BY <1>1, <2>1
  <2> QED BY <2>1, <2>2
          DEF Exec!Confirmed, Exec!PaidRow, Exec!Resolved, Exec!CustomerFreed
<1>3. ASSUME NEW r \in Runs, run'[r].pc \in Plan!Keeping
      PROVE  Exec!Confirmed(run[r].case, run[r].snap)'
  <2>1. PICK c, rw : c = run'[r].case /\ rw = run'[r].snap
    OBVIOUS
  <2>2. Exec!Confirmed(c, rw)'
    BY <1>1, <1>3, <2>1
  <2> QED BY <2>1, <2>2
          DEF Exec!Confirmed, Exec!PaidRow, Exec!Resolved, Exec!CustomerFreed
<1> QED BY <1>2, <1>3 DEF StoredFacts, Plan!Keeping

LEMMA StoredLasts ==
    ASSUME WorkflowInv, StoredFacts, UNCHANGED <<row, run>>, Exec!Lasting
    PROVE  StoredFacts'
<1>1. /\ \A c \in Cases : row[c] \in Exec!Rows
      /\ \A r \in Runs : run[r].case \in Cases /\ run[r].snap \in Exec!Rows
  <2>1. run \in [Runs -> Plan!RunRecords]
    BY DEF WorkflowInv, Plan!TypeInv, Plan!TypeOK
  <2> QED BY <2>1, StoredRows, SameRows DEF Plan!RunRecords
<1>2. \A c \in Cases, rw \in Exec!Rows : Exec!Confirmed(c, rw) => Exec!Confirmed(c, rw)'
  BY ExecAssumptions, Exec!ConfirmedLasts
<1>3. ASSUME NEW c \in Cases PROVE Exec!Confirmed(c, row[c])'
  <2>1. PICK rw : rw = row[c] /\ rw = row'[c]
    OBVIOUS
  <2>2. Exec!Confirmed(c, rw)'
    BY <1>1, <1>2, <2>1 DEF StoredFacts
  <2> QED BY <2>1, <2>2
          DEF Exec!Confirmed, Exec!PaidRow, Exec!Resolved, Exec!CustomerFreed
<1>4. ASSUME NEW r \in Runs, run'[r].pc \in Plan!Keeping
      PROVE  Exec!Confirmed(run[r].case, run[r].snap)'
  <2>1. PICK c, rw : /\ c = run[r].case /\ c = run'[r].case
                     /\ rw = run[r].snap /\ rw = run'[r].snap
    OBVIOUS
  <2>2. Exec!Confirmed(c, rw)'
    BY <1>1, <1>2, <1>4, <2>1 DEF StoredFacts
  <2> QED BY <2>1, <2>2
          DEF Exec!Confirmed, Exec!PaidRow, Exec!Resolved, Exec!CustomerFreed
<1> QED BY <1>3, <1>4 DEF StoredFacts, Plan!Keeping

\* Rows taken over from elsewhere: a run's or the backend's save, a crash.
LEMMA TakenOver ==
    ASSUME FactsInv, UNCHANGED <<world, call>>,
           \A c \in Cases : Exec!Confirmed(c, row'[c]) /\ Exec!Confirmed(c, view'[c]),
           \A r \in Runs : run'[r].pc \in Plan!Keeping =>
                               Exec!Confirmed(run'[r].case, run'[r].snap),
           req' = req \/ req' = [s \in Requests |-> Exec!IdleRequest]
    PROVE  FactsInv'
<1>1. UNCHANGED <<Exec!world, call>>
  BY DEF world, Exec!world
<1>2. Exec!ConfirmedRows' /\ Exec!ConfirmedSlots'
  BY <1>1, ExecAssumptions, Exec!ReplacedConfirmed DEF FactsInv
<1> QED BY <1>2, StillStored DEF FactsInv

LEMMA PlanningFacts ==
    ASSUME WorkflowInv, FactsInv, PlanningStep
    PROVE  FactsInv'
<1>1. PICK r \in Runs : Plan!Outline(r)
  BY PlanningNext, PlanAssumptions, Plan!NextOutline DEF WorkflowInv
<1>2. /\ \A c \in Cases :
            \/ row'[c] = row[c]
            \/ /\ c = run[r].case /\ run[r].pc \in Plan!Keeping
               /\ row'[c].executed = run[r].snap.executed
               /\ row'[c].stage # "RESOLVED"
      /\ \A q \in Runs :
            run'[q].pc \in Plan!Keeping =>
                run'[q] = run[q] \/ run'[q].snap = row'[run'[q].case]
  BY <1>1, PlanAssumptions, Plan!OutlineKeeps DEF WorkflowInv
<1>3. /\ view' = [c \in Cases |-> IF c \in unsaved THEN view[c] ELSE row'[c]]
      /\ UNCHANGED <<world, call, req>>
  BY DEF PlanningStep, backendVars, mcpVars
<1>4. \A c \in Cases : Exec!Confirmed(c, row'[c])
  BY <1>2, ExecAssumptions, Exec!SameExecutedConfirmed DEF FactsInv, StoredFacts
<1>5. \A c \in Cases : Exec!Confirmed(c, view'[c])
  BY <1>3, <1>4 DEF FactsInv, Exec!ConfirmedRows
<1>6. ASSUME NEW q \in Runs, run'[q].pc \in Plan!Keeping
      PROVE  Exec!Confirmed(run'[q].case, run'[q].snap)
  <2>1. Plan!TypeInv'
    BY <1>1, PlanAssumptions, Plan!TypeStep DEF WorkflowInv
  <2>2. run'[q].case \in Cases
    BY <2>1 DEF Plan!TypeInv, Plan!TypeOK, Plan!RunRecords
  <2> QED BY <1>2, <1>4, <1>6, <2>2 DEF FactsInv, StoredFacts
<1> QED BY <1>3, <1>4, <1>5, <1>6, TakenOver

LEMMA SaveFacts ==
    ASSUME WorkflowInv, FactsInv, SaveCase
    PROVE  FactsInv'
<1>1. /\ UNCHANGED <<run, world, call, req, view>>
      /\ \A c \in Cases : row'[c] = view[c]
  BY DEF SaveCase, planningVars, backendVars, mcpVars, WorkflowInv, Frame
<1>2. \A c \in Cases : Exec!Confirmed(c, view[c])
  BY DEF FactsInv, Exec!ConfirmedRows
<1> QED BY <1>1, <1>2, TakenOver DEF FactsInv, StoredFacts

LEMMA CrashFacts ==
    ASSUME WorkflowInv, FactsInv, Crash
    PROVE  FactsInv'
<1>1. /\ UNCHANGED <<row, run, world, call>> /\ view' = row
      /\ req' = [s \in Requests |-> Exec!IdleRequest]
  BY BackendPieces DEF Crash, planningVars
<1> QED BY <1>1, TakenOver DEF FactsInv, StoredFacts

LEMMA StillFacts ==
    ASSUME FactsInv, UNCHANGED <<row, run, world, call, req, view>>
    PROVE  FactsInv'
  BY TakenOver DEF FactsInv, StoredFacts, Exec!ConfirmedRows

LEMMA ExecFacts ==
    ASSUME WorkflowInv, FactsInv, Exec!Next, UNCHANGED <<row, run>>
    PROVE  FactsInv'
<1>1. Exec!ConfirmedRows' /\ Exec!ConfirmedSlots' /\ Exec!Lasting
  BY ExecAssumptions, StoredRows, Exec!ConfirmedStep, Exec!NextLasts DEF FactsInv
<1> QED BY <1>1, StoredLasts DEF FactsInv

LEMMA TurnFacts ==
    ASSUME WorkflowInv, FactsInv, NEW s \in Requests, NEW k \in Nat \ {0}, Turn(s, k)
    PROVE  FactsInv'
<1> DEFINE rw == view[req[s].case]
           r == [req[s] EXCEPT !.pc = "turn", !.at = k]
<1>1. /\ rw \in Exec!Rows /\ Exec!TypeInv /\ req[s] \in Exec!RequestRecords
      /\ Exec!Confirmed(req[s].case, rw)
  BY StoredRows, SameRows DEF FactsInv, Exec!ConfirmedRows
<1>2. UNCHANGED <<Exec!world, world, row, run>>
  BY DEF Turn, Stretch, planningVars, world, Exec!world
<1>3. Exec!ConfirmedRows' /\ Exec!ConfirmedSlots'
  <2>1. CASE Backend!Park(s, r) /\ UNCHANGED <<view, call>>
    <3>1. r.pc = "turn" /\ r.case = req[s].case /\ r.snap = req[s].snap
      BY <1>1 DEF Exec!RequestRecords
    <3>2. Exec!Park(s, r) /\ UNCHANGED view
      BY <2>1, BackendPieces
    <3>3. UNCHANGED <<Exec!world, call>>
      BY <1>2, <2>1
    <3> HIDE DEF r, rw
    <3> QED BY <1>1, <3>1, <3>2, <3>3, ExecAssumptions, Exec!PauseConfirmed
            DEF FactsInv
  <2>2. CASE Backend!Loop(s, k, rw)
    <3>1. Exec!Loop(s, k, rw)
      BY <2>2, BackendTurn
    <3> HIDE DEF rw
    <3> QED BY <1>1, <1>2, <3>1, ExecAssumptions, Exec!LoopConfirmed DEF FactsInv
  <2> QED BY <2>1, <2>2 DEF Turn
<1> QED BY <1>2, <1>3, StillStored DEF FactsInv, StoredFacts

LEMMA SuccessFacts ==
    ASSUME WorkflowInv, FactsInv, NEW s \in Requests, ActionSucceeded(s)
    PROVE  FactsInv'
<1> DEFINE c == req[s].case
           rw == Exec!WithOutcome(req[s].snap, Exec!Planned(s), "SUCCESS")
           r == [req[s] EXCEPT !.pc = "turn"]
<1>1. /\ Exec!TypeInv /\ req[s] \in Exec!RequestRecords
      /\ req[s].pc = "write" /\ call[s].pc = "ok"
      /\ Exec!Save(c, rw) /\ Exec!Park(s, r)
  BY StoredRows, BackendPieces DEF ActionSucceeded, Exec!Save
<1>2. UNCHANGED <<Exec!world, world, call, row, run>>
  BY DEF ActionSucceeded, Stretch, planningVars, mcpVars, world, Exec!world
<1>3. Exec!Confirmed(c, rw)
  BY <1>1, ExecAssumptions, Exec!SuccessConfirmed DEF FactsInv
<1>4. r.pc = "turn" /\ r.case = c /\ r.snap = req[s].snap
  BY <1>1 DEF Exec!RequestRecords
<1>5. Exec!ConfirmedRows' /\ Exec!ConfirmedSlots'
  <2> HIDE DEF r, rw
  <2> QED BY <1>1, <1>2, <1>3, <1>4, ExecAssumptions, Exec!PauseConfirmed DEF FactsInv
<1> QED BY <1>2, <1>5, StillStored DEF FactsInv, StoredFacts

LEMMA FactsInit == Init => FactsInv
<1> SUFFICES ASSUME Init PROVE FactsInv
  OBVIOUS
<1>1. /\ \A c \in Cases : row[c] = Exec!NewRow /\ view[c] = Exec!NewRow
      /\ \A r \in Runs : run[r].pc = "idle"
  BY DEF Init, Planning!Init, Planning!IdleRun, Planning!NewRow, Planning!NoApproval,
     Planning!NoPlan, Exec!NewRow, Exec!NoApproval, Exec!NoPlan
<1>2. \A c : Exec!Confirmed(c, Exec!NewRow)
  BY ExecAssumptions, Exec!NewRowConfirmed
<1>3. StoredFacts /\ Exec!ConfirmedRows
  BY <1>1, <1>2 DEF StoredFacts, Exec!ConfirmedRows, Plan!Keeping
<1>4. ASSUME NEW s \in Requests PROVE Exec!SlotConfirmed(req[s], call[s])
  <2>1. req[s].snap = Exec!NewRow /\ req[s].pc = "idle" /\ call[s].pc = "idle"
    BY DEF Init, McpInit, Backend!IdleRequest, Backend!NewRow, Backend!NoApproval,
       Backend!NoPlan, Exec!NewRow, Exec!NoApproval, Exec!NoPlan
  <2> QED BY <1>2, <2>1 DEF Exec!SlotConfirmed, Exec!CallConfirmed
<1> QED BY <1>3, <1>4 DEF FactsInv, Exec!ConfirmedSlots

LEMMA FactsStep == WorkflowInv /\ FactsInv /\ [Next]_vars => FactsInv'
<1> SUFFICES ASSUME WorkflowInv, FactsInv, [Next]_vars PROVE FactsInv'
  OBVIOUS
<1>1. SomeCase \in Cases
  BY DomainAssumption DEF DomainAssumption, SomeCase
<1>2. ASSUME NEW c \in Cases, NEW d \in {"APPROVED", "REJECTED"}, Decide(c, d)
      PROVE  FactsInv'
  <2>1. Exec!Next
    BY <1>2, BackendDecides
  <2>2. UNCHANGED <<row, run>>
    BY <1>2 DEF Decide, Stretch, planningVars
  <2> QED BY <2>1, <2>2, ExecFacts
<1>3. ASSUME NEW s \in Requests, NEW c \in Cases,
             \/ Start(s, c) \/ ExecutorStep(s) \/ ClosingStep(s)
             \/ Abort(s) \/ McpStep(s)
      PROVE  FactsInv'
  <2>1. Exec!Next
    BY <1>3, BackendNext
  <2>2. UNCHANGED <<row, run>>
    BY <1>3 DEF Start, ExecutorStep, ClosingStep, Abort, McpStep, Stretch, planningVars
  <2> QED BY <2>1, <2>2, ExecFacts
<1>4. ASSUME NEW c \in Cases, OpenPage(c) PROVE FactsInv'
  BY <1>4, StillFacts DEF OpenPage, planningVars, backendVars, mcpVars
<1>5. CASE Operator
  BY <1>2, <1>3, <1>4, <1>5 DEF Operator
<1>6. ASSUME NEW s \in Requests, RequestStep(s) PROVE FactsInv'
  <2>1. CASE NextTurn(s)
    <3>1. req[s].at + 1 \in Nat \ {0}
      BY StoredRows DEF Exec!RequestRecords
    <3> QED BY <2>1, <3>1, TurnFacts DEF NextTurn
  <2> QED BY <1>1, <1>3, <1>6, <2>1, TurnFacts, SuccessFacts
          DEF RequestStep, SessionOpened
<1>7. ASSUME NEW s \in Requests, McpStep(s) PROVE FactsInv'
  BY <1>1, <1>3, <1>7
<1>8. CASE UNCHANGED vars
  BY <1>8, StillFacts DEF vars, planningVars, backendVars, mcpVars
<1> QED BY <1>5, <1>6, <1>7, <1>8, PlanningFacts, SaveFacts, CrashFacts DEF Next

\* ResolvedMeansRestored: in every state, for any number of planning runs,
\* requests and crashes, a RESOLVED case has its customer restored and paid,
\* though the row that says so was saved from a snapshot.
THEOREM ResolvedRestored == Spec => []ResolvedMeansRestored
<1>1. FactsInv => ResolvedMeansRestored
  BY DEF FactsInv, StoredFacts, Exec!Confirmed, Exec!PaidRow, Exec!Resolved,
     Exec!CustomerFreed, Exec!Matched, Exec!MatchSucceeded,
     ResolvedMeansRestored, Execution!ResolvedMeansRestored, Execution!Matched,
     Execution!MatchSucceeded
<1> QED BY WorkflowInvariant, FactsInit, FactsStep, <1>1, PTL DEF Spec
=============================================================================
