--------------------------- MODULE CaseExecution ----------------------------
(***************************************************************************)
(* From the human decision to the closed case: ApprovalService, the        *)
(* DeterministicExecutor and the DeterministicVerifier, serving requests   *)
(* in one uvicorn process against the enterprise systems.  A request is a  *)
(* coroutine: an action below is the code from one await to the next, so   *)
(* everything between two awaits (a save and the read that follows it) is  *)
(* one step and requests interleave only where the event loop lets them.   *)
(***************************************************************************)
EXTENDS CaseRow, McpTools, FiniteSets

CONSTANT MaxLive    \* bound: requests being served at once

ASSUME MaxLiveAssumption == MaxLive \in Nat

VARIABLES
    req,        \* the coroutine of each request slot
    approved    \* history: the plans a human approved, per case

vars == <<world, mcpVars, row, req, approved>>

\* open/turn/check/write/close: the executor; crm/invoices/hold: the verifier.
\* "turn", before an iteration of the executor's loop, is a point of its own
\* only in CaseWorkflow: no await is there.
Points == {"idle", "open", "turn", "check", "write", "close",
           "crm", "invoices", "hold"}

\* snap is the row as read; at the position in the plan, or in the executed
\* actions when verifying; probe the position whose invoice is looked up.
RequestRecords == [pc : Points, case : Cases, plan : Plans \cup {NoPlan},
                   at : Nat, probe : Nat, snap : Rows,
                   checks : {"passed", "failed"}]

TypeOK ==
    /\ EnterpriseTypeOK
    /\ McpTypeOK
    /\ CaseRowTypeOK
    /\ req \in [Requests -> RequestRecords]
    /\ approved \in [Cases -> SUBSET Plans]

\* Cases as the planning workflow leaves them: reviewed, or accepted without
\* a review when the reviewer is disabled, and waiting for the operator.
ReadyRows ==
    {rw \in [stage : {"AWAITING_APPROVAL"}, rootCause : {"FOUND"}, plan : Plans,
             review : {"APPROVE", "NONE"}, revisions : {0},
             approval : {PendingApproval(plan) : plan \in Plans},
             executed : {<< >>}, verified : {"NONE"}] :
        rw.approval.digest = rw.plan}

IdleRequest == [pc |-> "idle", case |-> SomeCase, plan |-> NoPlan, at |-> 0,
                probe |-> 0, snap |-> NewRow, checks |-> "passed"]

Init ==
    /\ EnterpriseInit
    /\ McpInit
    /\ row \in [Cases -> ReadyRows]
    /\ req = [s \in Requests |-> IdleRequest]
    /\ approved = [c \in Cases |-> {}]

Live == {s \in Requests : req[s].pc # "idle"}

\* A new request takes a slot whose last tool call is over.
Admit(s) == s \notin Live /\ ~InProgress(s) /\ Cardinality(Live) < MaxLive

Park(s, r) == req' = [req EXCEPT ![s] = r]

Finish(s) == Park(s, IdleRequest)

Issue(s, a) ==
    call' = [call EXCEPT ![s] = [pc |-> "billing", case |-> req[s].case,
                                 action |-> a]]

-----------------------------------------------------------------------------
(* ApprovalService.decide: no await, one step. *)

Decidable(rw) ==
    /\ rw.stage = "AWAITING_APPROVAL"
    /\ rw.plan # NoPlan
    /\ rw.review = "APPROVE"
    /\ rw.approval.decision = "PENDING"
    /\ rw.approval.digest = rw.plan

Decide(c, decision) ==
    /\ Decidable(row[c])
    /\ Save(c, [row[c] EXCEPT
                  !.approval.decision = decision,
                  !.stage = IF decision = "APPROVED" THEN "EXECUTING"
                            ELSE "ESCALATED"])
    /\ approved' = IF decision = "APPROVED"
                     THEN [approved EXCEPT ![c] = @ \cup {row[c].plan}]
                     ELSE approved
    /\ UNCHANGED <<world, mcpVars, req>>

-----------------------------------------------------------------------------
(* DeterministicExecutor *)

\* Mutant: the reviewer's approval is taken for the human one.
AuthorizedByReview(rw) ==
    /\ rw.stage \in {"AWAITING_APPROVAL", "EXECUTING"}
    /\ rw.plan # NoPlan
    /\ rw.review = "APPROVE"

Authorized(rw) ==
    /\ rw.stage = "EXECUTING"
    /\ rw.plan # NoPlan
    /\ rw.review = "APPROVE"
    /\ RequiresApproval(rw.plan) => /\ rw.approval.decision = "APPROVED"
                                    /\ rw.approval.digest = rw.plan

PrefixMatches(rw) ==
    /\ Len(rw.executed) <= Len(rw.plan)
    /\ \A k \in 1..Len(rw.executed) :
          /\ rw.executed[k].status = "SUCCESS"
          /\ rw.executed[k].action = rw.plan[k]

StartExecute(s, c) ==
    /\ Admit(s)
    /\ Authorized(row[c])
    /\ PrefixMatches(row[c])
    /\ Park(s, [IdleRequest EXCEPT !.pc = "open", !.case = c,
                                   !.plan = row[c].plan])
    /\ UNCHANGED <<world, mcpVars, row, approved>>

WithOutcome(rw, a, status) ==
    [rw EXCEPT !.executed = Append(@, [action |-> a, status |-> status])]

\* Mutant: the action is recorded and the stage forgotten.
FailedActionOnly(rw, a) == WithOutcome(rw, a, "FAILED")

\* except Exception: the FAILED action and stage, on top of the snapshot.
FailedRow(rw, a) == [WithOutcome(rw, a, "FAILED") EXCEPT !.stage = "FAILED"]

\* The match actions before position k, read back latest first.
EarlierMatches(plan, k) == {j \in 1..(k - 1) : plan[j].tool = "match_payment"}

IsLatest(j, S) == j \in S /\ \A i \in S : i <= j

\* Mutant: executed actions are not skipped.
ResumeAtOnce(k, rw) == k

\* Positions that already have an outcome are skipped, whatever it is.
Resume(k, rw) == IF k > Len(rw.executed) THEN k ELSE Len(rw.executed) + 1

Suspend(s, pc, n, rw) == [req[s] EXCEPT !.pc = pc, !.at = n, !.snap = rw]

\* The body of the loop at position n with rw in the row, up to its next
\* await: the plan is done; validate_planned_action raises, outside the try;
\* a match is called; a hold removal needs an earlier match, and has the
\* latest one's invoice read back first.
EndOfPlan(s, n, rw) ==
    /\ n > Len(req[s].plan)
    /\ Park(s, Suspend(s, "close", n, rw))
    /\ Save(req[s].case, rw)
    /\ UNCHANGED call

Validation(s, n, rw) ==
    /\ n <= Len(req[s].plan) /\ req[s].plan[n].evidence = "unknown"
    /\ Finish(s)
    /\ Save(req[s].case, rw)
    /\ UNCHANGED call

CallMatch(s, n, rw) ==
    /\ n <= Len(req[s].plan) /\ req[s].plan[n].evidence = "known"
    /\ ~IsHoldRemoval(req[s].plan[n])
    /\ Park(s, Suspend(s, "write", n, rw))
    /\ Save(req[s].case, rw)
    /\ Issue(s, req[s].plan[n])

ReadBack(s, n, rw) ==
    LET plan == req[s].plan
        earlier == EarlierMatches(plan, n)
    IN  /\ n <= Len(plan) /\ plan[n].evidence = "known" /\ IsHoldRemoval(plan[n])
        /\ \/ /\ earlier = {}
              /\ Finish(s)
              /\ Save(req[s].case, FailedRow(rw, plan[n]))
              /\ UNCHANGED call
           \/ \E j \in earlier :
                 /\ IsLatest(j, earlier)
                 /\ Park(s, [Suspend(s, "check", n, rw) EXCEPT !.probe = j])
                 /\ Save(req[s].case, rw)
                 /\ Issue(s, GetInvoice(plan[j].invoice))

Loop(s, k, rw) ==
    LET n == Resume(k, rw)
    IN  \/ EndOfPlan(s, n, rw)
        \/ Validation(s, n, rw)
        \/ CallMatch(s, n, rw)
        \/ ReadBack(s, n, rw)

SessionOpened(s) ==
    /\ req[s].pc = "open"
    /\ Loop(s, 1, row[req[s].case])
    /\ UNCHANGED <<world, applied, faults, approved>>

Planned(s) == req[s].plan[req[s].at]

FailAction(s) ==
    /\ Save(req[s].case, FailedRow(req[s].snap, Planned(s)))
    /\ Finish(s)

\* An invoice read back PAID lets the hold go; else the match before it.
InvoiceReadBack(s) ==
    LET r == req[s]
        rest == EarlierMatches(r.plan, r.probe)
    IN  /\ r.pc = "check"
        /\ \/ /\ call[s].pc = "paid"
              /\ Issue(s, Planned(s)) /\ Park(s, [r EXCEPT !.pc = "write"])
              /\ UNCHANGED row
           \/ /\ call[s].pc = "unpaid"
              /\ \E j \in rest : /\ IsLatest(j, rest)
                                 /\ Issue(s, GetInvoice(r.plan[j].invoice))
                                 /\ Park(s, [r EXCEPT !.probe = j])
              /\ UNCHANGED row
           \/ /\ call[s].pc = "unpaid" /\ rest = {}
              /\ FailAction(s) /\ UNCHANGED call
        /\ UNCHANGED <<world, applied, faults, approved>>

\* Mutant: OperationResult.success is not looked at.
ActionAnswered(s) ==
    /\ req[s].pc = "write"
    /\ call[s].pc \in {"ok", "error"}
    /\ Loop(s, req[s].at + 1, WithOutcome(req[s].snap, Planned(s), "SUCCESS"))
    /\ UNCHANGED <<world, applied, faults, approved>>

ActionSucceeded(s) ==
    /\ req[s].pc = "write"
    /\ call[s].pc = "ok"
    /\ Loop(s, req[s].at + 1, WithOutcome(req[s].snap, Planned(s), "SUCCESS"))
    /\ UNCHANGED <<world, applied, faults, approved>>

\* Mutant: a failed write is recorded and the loop goes on.
ActionFailedGoesOn(s) ==
    /\ req[s].pc = "write"
    /\ call[s].pc = "error"
    /\ Loop(s, req[s].at + 1, FailedRow(req[s].snap, Planned(s)))
    /\ UNCHANGED <<world, applied, faults, approved>>

\* The tool answers with an error, or the exchange with the MCP server fails
\* while the tool goes on there.
ActionFailed(s) ==
    /\ req[s].pc \in {"check", "write"}
    /\ \/ call[s].pc = "error" /\ UNCHANGED faults
       \/ Exchange(FALSE)
    /\ FailAction(s)
    /\ UNCHANGED <<world, call, applied, approved>>

SessionClosed(s) ==
    LET c == req[s].case
    IN  /\ req[s].pc = "close"
        /\ Save(c, [row[c] EXCEPT !.stage = "VERIFYING"])
        /\ Finish(s)
        /\ UNCHANGED <<world, mcpVars, approved>>

-----------------------------------------------------------------------------
(* DeterministicVerifier *)

\* Mutant: the stage of the case is not checked.
StartVerifyAnyStage(s, c) ==
    /\ Admit(s)
    /\ Park(s, [IdleRequest EXCEPT !.pc = "crm", !.case = c, !.snap = row[c]])
    /\ UNCHANGED <<world, mcpVars, row, approved>>

StartVerify(s, c) ==
    /\ Admit(s)
    /\ row[c].stage = "VERIFYING"
    /\ Park(s, [IdleRequest EXCEPT !.pc = "crm", !.case = c, !.snap = row[c]])
    /\ UNCHANGED <<world, mcpVars, row, approved>>

MatchSucceeded(x) == x.status = "SUCCESS" /\ x.action.tool = "match_payment"

\* _matched_invoice_ids: the first successful match of each invoice.
Matched(rw) ==
    {k \in 1..Len(rw.executed) :
        /\ MatchSucceeded(rw.executed[k])
        /\ \A j \in 1..(k - 1) : MatchSucceeded(rw.executed[j]) =>
              rw.executed[j].action.invoice # rw.executed[k].action.invoice}

\* Mutant: the check just made comes next again.
SameCheckNext(s, k, ok) ==
    LET later == {j \in Matched(req[s].snap) : j >= k}
        r == [req[s] EXCEPT !.checks = IF ok THEN "passed" ELSE "failed"]
    IN  \/ later = {} /\ Park(s, [r EXCEPT !.pc = "hold"])
        \/ \E j \in later :
              /\ \A i \in later : j <= i
              /\ Park(s, [r EXCEPT !.pc = "invoices", !.at = j])

\* Where the verifier goes after the checks up to position k.
NextCheck(s, k, ok) ==
    LET later == {j \in Matched(req[s].snap) : j > k}
        r == [req[s] EXCEPT !.checks = IF ok THEN "passed" ELSE "failed"]
    IN  \/ later = {} /\ Park(s, [r EXCEPT !.pc = "hold"])
        \/ \E j \in later :
              /\ \A i \in later : j <= i
              /\ Park(s, [r EXCEPT !.pc = "invoices", !.at = j])

Verdict(s, ok) ==
    /\ Save(req[s].case,
            [req[s].snap EXCEPT !.verified = IF ok THEN "PASSED" ELSE "FAILED",
                                !.stage = IF ok THEN "RESOLVED" ELSE "FAILED"])
    /\ Finish(s)

\* Mutant: a CRM that answers is enough.
CheckCrmReachable(s) ==
    /\ req[s].pc = "crm"
    /\ \E works \in BOOLEAN :
          /\ Exchange(works)
          /\ \/ /\ works /\ NextCheck(s, 0, Matched(req[s].snap) # {})
                /\ UNCHANGED row
             \/ ~works /\ Verdict(s, FALSE)
    /\ UNCHANGED <<world, call, applied, approved>>

\* Mutant: that nothing was matched is not held against the case.
CheckCrmOnly(s) ==
    LET cust == CustomerOf[req[s].case]
    IN  /\ req[s].pc = "crm"
        /\ \E works \in BOOLEAN :
              /\ Exchange(works)
              /\ \/ /\ works /\ cust \in Mapped
                    /\ NextCheck(s, 0, account[cust] = "ACTIVE")
                    /\ UNCHANGED row
                 \/ ~(works /\ cust \in Mapped) /\ Verdict(s, FALSE)
        /\ UNCHANGED <<world, call, applied, approved>>

CheckCrm(s) ==
    LET cust == CustomerOf[req[s].case]
    IN  /\ req[s].pc = "crm"
        /\ \E works \in BOOLEAN :
              /\ Exchange(works)
              /\ \/ /\ works /\ cust \in Mapped
                    /\ NextCheck(s, 0, /\ account[cust] = "ACTIVE"
                                       /\ Matched(req[s].snap) # {})
                    /\ UNCHANGED row
                 \/ ~(works /\ cust \in Mapped) /\ Verdict(s, FALSE)
        /\ UNCHANGED <<world, call, applied, approved>>

CheckInvoice(s) ==
    LET r == req[s]
        i == r.snap.executed[r.at].action.invoice
    IN  /\ r.pc = "invoices"
        /\ \E works \in BOOLEAN :
              /\ Exchange(works)
              /\ NextCheck(s, r.at, /\ r.checks = "passed" /\ works
                                    /\ InvoiceFound(CustomerOf[r.case], i)
                                    /\ invoice[i] = "PAID")
        /\ UNCHANGED <<world, call, applied, row, approved>>

CheckHold(s) ==
    /\ req[s].pc = "hold"
    /\ \E works \in BOOLEAN :
          /\ Exchange(works)
          /\ Verdict(s, /\ req[s].checks = "passed" /\ works
                        /\ hold[CustomerOf[req[s].case]] # "ACTIVE")
    /\ UNCHANGED <<world, call, applied, approved>>

-----------------------------------------------------------------------------
\* An exception no handler turns into a stage: the MCP session does not open
\* or close, or billing answers the verifier with a record it cannot parse.
Abort(s) ==
    /\ req[s].pc \in {"open", "close", "crm", "invoices", "hold"}
    /\ Exchange(FALSE)
    /\ Finish(s)
    /\ UNCHANGED <<world, call, applied, row, approved>>

\* The backend process dies; the row and the MCP server's tasks survive.
Crash ==
    /\ Live # {}
    /\ Exchange(FALSE)
    /\ req' = [s \in Requests |-> IdleRequest]
    /\ UNCHANGED <<world, call, applied, row, approved>>

HandlerStep(s) ==
    \/ SessionOpened(s)
    \/ InvoiceReadBack(s)
    \/ ActionSucceeded(s)
    \/ ActionFailed(s)
    \/ SessionClosed(s)
    \/ CheckCrm(s)
    \/ CheckInvoice(s)
    \/ CheckHold(s)
    \/ Abort(s)

McpStep(s) == ToolStep(s) /\ UNCHANGED <<row, req, approved>>

Operator ==
    \/ \E c \in Cases, d \in {"APPROVED", "REJECTED"} : Decide(c, d)
    \/ \E s \in Requests, c \in Cases : StartExecute(s, c) \/ StartVerify(s, c)

Next ==
    \/ Operator
    \/ \E s \in Requests : HandlerStep(s) \/ McpStep(s)
    \/ Crash

Spec == Init /\ [][Next]_vars

\* The event loop runs every coroutine that can go on, and the HTTP timeouts
\* end every exchange; the operator owes nothing.
FairSpec ==
    Spec /\ \A s \in Requests : WF_vars(HandlerStep(s)) /\ WF_vars(McpStep(s))
=============================================================================
