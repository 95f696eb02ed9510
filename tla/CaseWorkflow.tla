---------------------------- MODULE CaseWorkflow ----------------------------
(***************************************************************************)
(* A case from its creation to its end: the planning processes             *)
(* (CasePlanning) and the backend (CaseExecution) share the case row.  They *)
(* are different operating-system processes, so a planning run may save    *)
(* between the backend's read of a row and the save that follows it, which *)
(* CaseExecution alone takes as one step.  Here the backend works on a     *)
(* view of the rows: what it has read, or is about to save.  While it owes *)
(* no save, the view is the rows.                                          *)
(***************************************************************************)
EXTENDS CaseRow, McpTools

CONSTANTS
    Runs,           \* of CasePlanning
    MaxRevisions,
    MaxLive,        \* of CaseExecution
    MaxStarts       \* bound: planning runs started

ASSUME WorkflowAssumption ==
    MaxStarts \in Nat /\ MaxLive \in Nat /\ MaxRevisions \in 0..3

VARIABLES
    run,            \* of CasePlanning
    endorsed,
    started,        \* how many of them were started
    req,            \* of CaseExecution
    approved,
    view,           \* the rows as the backend's current stretch of code has them
    unsaved,        \* the cases it is about to save
    shown           \* the plan on the operator's page of each case

planningVars == <<run, endorsed, started>>
backendVars  == <<world, mcpVars, req, approved>>
vars == <<row, planningVars, backendVars, view, unsaved, shown>>

Planning == INSTANCE CasePlanning
Backend  == INSTANCE CaseExecution WITH row <- view

TypeOK ==
    /\ Planning!TypeOK
    /\ started \in 0..MaxStarts
    /\ Backend!TypeOK
    /\ unsaved \subseteq Cases
    /\ \A c \in Cases \ unsaved : view[c] = row[c]
    /\ shown \in [Cases -> Plans \cup {NoPlan}]

Init ==
    /\ Planning!Init
    /\ started = 0
    /\ EnterpriseInit
    /\ McpInit
    /\ req = [s \in Requests |-> Backend!IdleRequest]
    /\ approved = [c \in Cases |-> {}]
    /\ view = row
    /\ unsaved = {}
    /\ shown = [c \in Cases |-> NoPlan]

-----------------------------------------------------------------------------
(* The planning processes: one repository call per step, at any time. *)

StartRun(r, c) ==
    /\ started < MaxStarts
    /\ Planning!StartInvestigation(r, c) \/ Planning!StartPlanning(r, c)
    /\ started' = started + 1

RunStep(r) ==
    /\ Planning!RunStep(r) \/ Planning!RunDies(r)
    /\ UNCHANGED started

PlanningStep ==
    /\ \E r \in Runs : RunStep(r) \/ \E c \in Cases : StartRun(r, c)
    /\ view' = [c \in Cases |-> IF c \in unsaved THEN view[c] ELSE row'[c]]
    /\ UNCHANGED <<backendVars, unsaved, shown>>

-----------------------------------------------------------------------------
(* The backend.  Its event loop goes on to another coroutine only when the *)
(* current one awaits, and never between a read and its save.              *)

Free == unsaved = {} /\ \A s \in Requests : req[s].pc # "turn"

\* What a stretch of code changes goes to the repository by a step of its own.
Stretch(cases) ==
    /\ unsaved' = cases
    /\ UNCHANGED <<row, planningVars, shown>>

Changed == {c \in Cases : view'[c] # view[c]}

\* repository.save
SaveCase ==
    /\ unsaved # {}
    /\ row' = [c \in Cases |-> IF c \in unsaved THEN view[c] ELSE row[c]]
    /\ unsaved' = {}
    /\ UNCHANGED <<planningVars, backendVars, view, shown>>

\* GET /cases/{id}: the operator's page asks for a decision on the plan.
OpenPage(c) ==
    /\ Free
    /\ shown' = [shown EXCEPT ![c] = IF row[c].stage = "AWAITING_APPROVAL"
                                       THEN row[c].plan ELSE NoPlan]
    /\ UNCHANGED <<row, planningVars, backendVars, view, unsaved>>

\* The page's buttons; the request names the case and the decision.
Decide(c, decision) ==
    /\ Free
    /\ shown[c] # NoPlan
    /\ Backend!Decide(c, decision)
    /\ Stretch({c})

Start(s, c) ==
    /\ Free
    /\ Backend!StartExecute(s, c) \/ Backend!StartVerify(s, c)
    /\ Stretch({})

\* Mutant: the plan is taken from the row read again.
TurnWithCurrentPlan(s, k) ==
    LET rw == view[req[s].case]
    IN  /\ \/ /\ k <= Len(rw.plan) /\ ~IsHoldRemoval(rw.plan[k])
              /\ Backend!Park(s, [req[s] EXCEPT !.pc = "write", !.plan = rw.plan,
                                               !.at = k, !.snap = rw])
              /\ Backend!Issue(s, rw.plan[k])
              /\ UNCHANGED view
           \/ k > Len(rw.plan) /\ Backend!Loop(s, k, rw)
        /\ UNCHANGED <<world, applied, faults, approved>>
        /\ Stretch(Changed)

\* One iteration of the executor's loop: it reads the row again.
Turn(s, k) ==
    LET rw == view[req[s].case]
        done == k <= Len(req[s].plan) /\ k <= Len(rw.executed)
    IN  /\ \/ /\ done
              /\ Backend!Park(s, [req[s] EXCEPT !.pc = "turn", !.at = k])
              /\ UNCHANGED <<view, call>>
           \/ ~done /\ Backend!Loop(s, k, rw)
        /\ UNCHANGED <<world, applied, faults, approved>>
        /\ Stretch(Changed)

SessionOpened(s) == Free /\ req[s].pc = "open" /\ Turn(s, 1)

NextTurn(s) == unsaved = {} /\ req[s].pc = "turn" /\ Turn(s, req[s].at + 1)

ActionSucceeded(s) ==
    /\ Free
    /\ req[s].pc = "write" /\ call[s].pc = "ok"
    /\ view' = [view EXCEPT ![req[s].case] =
                    Backend!WithOutcome(req[s].snap, Backend!Planned(s), "SUCCESS")]
    /\ Backend!Park(s, [req[s] EXCEPT !.pc = "turn"])
    /\ UNCHANGED <<world, mcpVars, approved>>
    /\ Stretch({req[s].case})

\* The executor's other steps, and the verifier's: a finished one has saved.
ExecutorStep(s) ==
    /\ Free
    /\ Backend!InvoiceReadBack(s) \/ Backend!ActionFailed(s)
    /\ Stretch(Changed)

ClosingStep(s) ==
    /\ Free
    /\ \/ Backend!SessionClosed(s)
       \/ Backend!CheckCrm(s) \/ Backend!CheckInvoice(s) \/ Backend!CheckHold(s)
    /\ Stretch(IF req'[s].pc = "idle" THEN {req[s].case} ELSE {})

Abort(s) == Free /\ Backend!Abort(s) /\ Stretch({})

\* The backend dies: what it had not saved is lost.
Crash ==
    /\ Backend!Live # {} \/ unsaved # {}
    /\ Exchange(FALSE)
    /\ req' = [s \in Requests |-> Backend!IdleRequest]
    /\ view' = row
    /\ unsaved' = {}
    /\ UNCHANGED <<row, planningVars, world, call, applied, approved, shown>>

McpStep(s) ==
    /\ ToolStep(s)
    /\ UNCHANGED <<row, planningVars, req, approved, view, unsaved, shown>>

RequestStep(s) ==
    \/ SessionOpened(s) \/ NextTurn(s) \/ ActionSucceeded(s)
    \/ ExecutorStep(s) \/ ClosingStep(s) \/ Abort(s)

Operator ==
    \/ \E c \in Cases : OpenPage(c)
    \/ \E c \in Cases, d \in {"APPROVED", "REJECTED"} : Decide(c, d)
    \/ \E s \in Requests, c \in Cases : Start(s, c)

Next ==
    \/ PlanningStep
    \/ Operator
    \/ SaveCase
    \/ \E s \in Requests : RequestStep(s) \/ McpStep(s)
    \/ Crash

Spec == Init /\ [][Next]_vars
=============================================================================
