------------------------ MODULE CaseExecution_proofs ------------------------
(* Machine-checked proofs about CaseExecution, for every set of cases,      *)
(* plans, request slots and systems, and for every number of failures: its  *)
(* types; that only approved actions reach the enterprise systems and a     *)
(* hold is lifted only after an approved match has paid its invoice; that   *)
(* what the rows say is true (a recorded success did happen, the records    *)
(* line up with the plan, a RESOLVED case is restored); and that a case     *)
(* follows CaseLifecycle while its requests come one at a time.             *)
EXTENDS CaseExecutionProps, FiniteSetTheorems, TLAPS

USE DEF NoPlan

Executing == {"open", "turn", "check", "write", "close"}

Verifying == {"crm", "invoices", "hold"}

LEMMA SomeCaseType == SomeCase \in Cases
  BY DomainAssumption DEF SomeCase

LEMMA NewRowType == NewRow \in Rows
  BY DEF NewRow, Rows, Stages, Verdicts, Approvals, NoApproval

LEMMA IdleType == IdleRequest \in RequestRecords
  BY SomeCaseType, NewRowType DEF IdleRequest, RequestRecords, Points

LEMMA PlanType ==
    ASSUME NEW plan \in Plans \cup {NoPlan}
    PROVE  /\ Len(plan) \in Nat
           /\ \A k \in 1..Len(plan) : plan[k] \in PlannedActions
  BY DomainAssumption

LEMMA InitTypeOK == Init => TypeOK
<1> SUFFICES ASSUME Init PROVE TypeOK
  OBVIOUS
<1>1. EnterpriseTypeOK
  BY EnterpriseAssumption DEF Init, EnterpriseInit, EnterpriseTypeOK, Worlds
<1>2. McpTypeOK
  BY SomeCaseType, McpAssumption
  DEF Init, McpInit, McpTypeOK, Calls, Effects
<1>3. CaseRowTypeOK
  <2>1. ASSUME NEW rw \in ReadyRows PROVE rw \in Rows
    <3>1. \A plan \in Plans : PendingApproval(plan) \in Approvals
      BY DEF PendingApproval, Approvals
    <3>2. << >> \in Seq(ExecutedActions)
      OBVIOUS
    <3>3. rw.approval \in Approvals
      BY <3>1 DEF ReadyRows
    <3>4. rw \in [stage : {"AWAITING_APPROVAL"}, rootCause : {"FOUND"}, plan : Plans,
                  review : {"APPROVE", "NONE"}, revisions : {0},
                  approval : Approvals, executed : Seq(ExecutedActions),
                  verified : {"NONE"}]
      BY <3>2, <3>3 DEF ReadyRows
    <3> QED BY <3>4 DEF Rows, Stages, Verdicts
  <2> QED BY <2>1 DEF Init, CaseRowTypeOK
<1>4. req \in [Requests -> RequestRecords] /\ approved \in [Cases -> SUBSET Plans]
  BY IdleType DEF Init
<1> QED BY <1>1, <1>2, <1>3, <1>4 DEF TypeOK

-----------------------------------------------------------------------------
(* TypeOK is inductive together with two facts: an executor that waits for *)
(* a tool is at a position of its plan, and only a hold removal goes on to *)
(* the CRM.                                                                *)

InPlan(r) ==
    /\ r.pc \in {"check", "write"} => r.at \in 1..Len(r.plan)
    /\ r.pc = "check" => r.probe \in 1..Len(r.plan)

PositionsInPlan ==
    \A s \in Requests : InPlan(req[s])

\* Only remove_account_hold has a second half, at the CRM.
SecondHalves ==
    \A s \in Requests : call[s].pc = "crm" => call[s].action \in HoldActions

TypeInv == TypeOK /\ PositionsInPlan /\ SecondHalves

LEMMA SaveType ==
    ASSUME CaseRowTypeOK, NEW c \in Cases, NEW new \in Rows, Save(c, new)
    PROVE  CaseRowTypeOK'
  BY DEF CaseRowTypeOK, Save

LEMMA OutcomeType ==
    ASSUME NEW rw \in Rows, NEW a \in PlannedActions,
           NEW status \in {"SUCCESS", "FAILED"}
    PROVE  /\ WithOutcome(rw, a, status) \in Rows
           /\ FailedRow(rw, a) \in Rows
<1>1. \A st \in {"SUCCESS", "FAILED"} :
         Append(rw.executed, [action |-> a, status |-> st]) \in Seq(ExecutedActions)
  BY DEF Rows, ExecutedActions
<1> QED BY <1>1 DEF WithOutcome, FailedRow, Rows, Stages

LEMMA ParkType ==
    ASSUME req \in [Requests -> RequestRecords], PositionsInPlan,
           NEW s \in Requests, NEW r \in RequestRecords, Park(s, r), InPlan(r)
    PROVE  req' \in [Requests -> RequestRecords] /\ PositionsInPlan'
  BY DEF Park, PositionsInPlan

LEMMA FinishType ==
    ASSUME req \in [Requests -> RequestRecords], PositionsInPlan,
           NEW s \in Requests, Finish(s)
    PROVE  req' \in [Requests -> RequestRecords] /\ PositionsInPlan'
<1>1. InPlan(IdleRequest)
  BY DEF IdleRequest, InPlan
<1> QED BY <1>1, IdleType, ParkType DEF Finish

LEMMA IssueType ==
    ASSUME TypeOK, SecondHalves, NEW s \in Requests,
           NEW a \in PlannedActions \cup Reads, Issue(s, a)
    PROVE  call' \in [Requests -> Calls] /\ SecondHalves'
  BY DEF TypeOK, McpTypeOK, Calls, Issue, RequestRecords, SecondHalves

LEMMA GetInvoiceType ==
    ASSUME NEW plan \in Plans \cup {NoPlan}, NEW k, NEW j \in EarlierMatches(plan, k),
           k \in 1..Len(plan)
    PROVE  /\ j \in 1..Len(plan)
           /\ GetInvoice(plan[j].invoice) \in Reads
<1>1. j \in 1..Len(plan) /\ plan[j].tool = "match_payment"
  BY PlanType DEF EarlierMatches
<1>2. plan[j] \in MatchActions
  BY <1>1, PlanType DEF PlannedActions, HoldActions
<1> QED BY <1>1, <1>2 DEF MatchActions, Reads, GetInvoice

LEMMA RequestType ==
    ASSUME TypeInv, NEW s \in Requests
    PROVE  /\ req[s] \in RequestRecords
           /\ req[s].case \in Cases
           /\ req[s].plan \in Plans \cup {NoPlan}
           /\ req[s].snap \in Rows
           /\ req[s].at \in Nat
           /\ row[req[s].case] \in Rows
           /\ req[s].pc \in {"check", "write"} =>
                 req[s].at \in 1..Len(req[s].plan) /\ Planned(s) \in PlannedActions
           /\ req[s].pc = "check" => req[s].probe \in 1..Len(req[s].plan)
<1>1. req[s] \in RequestRecords
  BY DEF TypeInv, TypeOK
<1>2. /\ req[s].case \in Cases
      /\ req[s].plan \in Plans \cup {NoPlan}
      /\ req[s].snap \in Rows
      /\ req[s].at \in Nat
  BY <1>1 DEF RequestRecords
<1>3. row[req[s].case] \in Rows
  BY <1>2 DEF TypeInv, TypeOK, CaseRowTypeOK
<1>4. InPlan(req[s])
  BY DEF TypeInv, PositionsInPlan
<1> QED BY <1>1, <1>2, <1>3, <1>4, PlanType DEF Planned, InPlan

LEMMA SuspendType ==
    ASSUME TypeInv, NEW s \in Requests, NEW pc \in Points, NEW n \in Nat,
           NEW rw \in Rows
    PROVE  /\ Suspend(s, pc, n, rw) \in RequestRecords
           /\ Suspend(s, pc, n, rw).pc = pc
           /\ Suspend(s, pc, n, rw).at = n
           /\ Suspend(s, pc, n, rw).plan = req[s].plan
  BY RequestType DEF Suspend, RequestRecords

LEMMA ProbeType ==
    ASSUME NEW r \in RequestRecords, NEW j \in Nat
    PROVE  /\ [r EXCEPT !.probe = j] \in RequestRecords
           /\ [r EXCEPT !.probe = j].pc = r.pc
           /\ [r EXCEPT !.probe = j].at = r.at
           /\ [r EXCEPT !.probe = j].plan = r.plan
           /\ [r EXCEPT !.probe = j].case = r.case
           /\ [r EXCEPT !.probe = j].snap = r.snap
           /\ [r EXCEPT !.probe = j].probe = j
  BY DEF RequestRecords

\* The steps that end with the loop keep the types of all they change.
LEMMA LoopType ==
    ASSUME TypeInv, NEW s \in Requests, NEW k \in Nat \ {0}, NEW rw \in Rows,
           Loop(s, k, rw)
    PROVE  /\ CaseRowTypeOK'
           /\ req' \in [Requests -> RequestRecords]
           /\ PositionsInPlan'
           /\ call' \in [Requests -> Calls] /\ SecondHalves'
<1> DEFINE n == Resume(k, rw)
           plan == req[s].plan
<1>1. /\ CaseRowTypeOK /\ req \in [Requests -> RequestRecords]
      /\ PositionsInPlan /\ call \in [Requests -> Calls] /\ TypeOK
      /\ SecondHalves /\ (UNCHANGED call => SecondHalves')
  BY DEF TypeInv, TypeOK, McpTypeOK, SecondHalves
<1>2. n \in Nat \ {0}
  <2>1. Len(rw.executed) \in Nat
    BY DEF Rows
  <2> QED BY <2>1 DEF Resume
<1>3. req[s].case \in Cases /\ plan \in Plans \cup {NoPlan}
  BY RequestType
<1>4. n <= Len(plan) => n \in 1..Len(plan) /\ plan[n] \in PlannedActions
  BY <1>2, <1>3, PlanType
<1>5. CASE EndOfPlan(s, n, rw)
  <2>1. CaseRowTypeOK'
    BY <1>1, <1>3, <1>5, SaveType DEF EndOfPlan
  <2>2. Suspend(s, "close", n, rw) \in RequestRecords
        /\ Suspend(s, "close", n, rw).pc = "close"
    BY <1>2, SuspendType DEF Points
  <2>3. req' \in [Requests -> RequestRecords] /\ PositionsInPlan'
    BY <1>1, <1>5, <2>2, ParkType DEF EndOfPlan, InPlan
  <2> QED BY <1>1, <1>5, <2>1, <2>3 DEF EndOfPlan
<1>6. CASE Validation(s, n, rw)
  <2>1. CaseRowTypeOK'
    BY <1>1, <1>3, <1>6, SaveType DEF Validation
  <2>2. req' \in [Requests -> RequestRecords] /\ PositionsInPlan'
    BY <1>1, <1>6, FinishType DEF Validation
  <2> QED BY <1>1, <1>6, <2>1, <2>2 DEF Validation
<1>7. CASE CallMatch(s, n, rw)
  <2>1. n \in 1..Len(plan) /\ plan[n] \in PlannedActions
    BY <1>4, <1>7 DEF CallMatch
  <2>2. CaseRowTypeOK'
    BY <1>1, <1>3, <1>7, SaveType DEF CallMatch
  <2>3. /\ Suspend(s, "write", n, rw) \in RequestRecords
        /\ Suspend(s, "write", n, rw).at \in 1..Len(Suspend(s, "write", n, rw).plan)
        /\ Suspend(s, "write", n, rw).pc = "write"
    BY <1>2, <2>1, SuspendType DEF Points
  <2>4. req' \in [Requests -> RequestRecords] /\ PositionsInPlan'
    BY <1>1, <1>7, <2>3, ParkType DEF CallMatch, InPlan
  <2>5. call' \in [Requests -> Calls] /\ SecondHalves'
    BY <1>1, <1>7, <2>1, IssueType DEF CallMatch
  <2> QED BY <2>2, <2>4, <2>5
<1>8. CASE ReadBack(s, n, rw)
  <2>1. n \in 1..Len(plan) /\ plan[n] \in PlannedActions
    BY <1>4, <1>8 DEF ReadBack
  <2>2. CASE /\ Finish(s) /\ Save(req[s].case, FailedRow(rw, plan[n]))
             /\ UNCHANGED call
    <3>1. FailedRow(rw, plan[n]) \in Rows
      BY <2>1, OutcomeType
    <3>2. CaseRowTypeOK'
      BY <1>1, <1>3, <2>2, <3>1, SaveType
    <3> QED BY <1>1, <2>2, <3>2, FinishType
  <2>3. CASE \E j \in EarlierMatches(plan, n) :
               /\ Park(s, [Suspend(s, "check", n, rw) EXCEPT !.probe = j])
               /\ Save(req[s].case, rw)
               /\ Issue(s, GetInvoice(plan[j].invoice))
    <3>1. PICK j \in EarlierMatches(plan, n) :
               /\ Park(s, [Suspend(s, "check", n, rw) EXCEPT !.probe = j])
               /\ Save(req[s].case, rw)
               /\ Issue(s, GetInvoice(plan[j].invoice))
      BY <2>3
    <3>2. j \in 1..Len(plan) /\ GetInvoice(plan[j].invoice) \in Reads
      BY <1>3, <2>1, GetInvoiceType
    <3> DEFINE r == [Suspend(s, "check", n, rw) EXCEPT !.probe = j]
    <3>3. r \in RequestRecords /\ r.at = n /\ r.plan = plan /\ r.probe = j
      BY <1>2, <3>2, SuspendType, ProbeType DEF Points
    <3>4. req' \in [Requests -> RequestRecords] /\ PositionsInPlan'
      BY <1>1, <2>1, <3>1, <3>2, <3>3, ParkType DEF InPlan
    <3>5. call' \in [Requests -> Calls] /\ SecondHalves'
      BY <1>1, <3>1, <3>2, IssueType
    <3> QED BY <1>1, <1>3, <3>1, <3>4, <3>5, SaveType
  <2> QED BY <1>8, <2>2, <2>3 DEF ReadBack
<1> QED BY <1>5, <1>6, <1>7, <1>8 DEF Loop

LEMMA MoveType ==
    ASSUME NEW r \in RequestRecords, NEW pc \in Points, NEW j \in Nat
    PROVE  /\ [r EXCEPT !.pc = pc] \in RequestRecords
           /\ [r EXCEPT !.pc = pc].pc = pc
           /\ [r EXCEPT !.pc = pc, !.at = j] \in RequestRecords
           /\ [r EXCEPT !.pc = pc, !.at = j].pc = pc
  BY DEF RequestRecords

LEMMA NextCheckType ==
    ASSUME TypeInv, NEW s \in Requests, NEW k, NEW ok, NextCheck(s, k, ok)
    PROVE  req' \in [Requests -> RequestRecords] /\ PositionsInPlan'
<1> DEFINE r == [req[s] EXCEPT !.checks = IF ok THEN "passed" ELSE "failed"]
<1>1. req \in [Requests -> RequestRecords] /\ PositionsInPlan
  BY DEF TypeInv, TypeOK
<1>4. r \in RequestRecords
  BY RequestType DEF RequestRecords
<1>2. CASE Park(s, [r EXCEPT !.pc = "hold"])
  <2> HIDE DEF r
  <2>1. /\ [r EXCEPT !.pc = "hold"] \in RequestRecords
        /\ [r EXCEPT !.pc = "hold"].pc = "hold"
    BY <1>4, MoveType DEF Points
  <2> QED BY <1>1, <1>2, <2>1, ParkType DEF InPlan
<1>3. CASE \E j \in Matched(req[s].snap) : Park(s, [r EXCEPT !.pc = "invoices", !.at = j])
  <2>1. PICK j \in Matched(req[s].snap) : Park(s, [r EXCEPT !.pc = "invoices", !.at = j])
    BY <1>3
  <2>2. j \in Nat
    BY DEF Matched
  <2> HIDE DEF r
  <2>3. /\ [r EXCEPT !.pc = "invoices", !.at = j] \in RequestRecords
        /\ [r EXCEPT !.pc = "invoices", !.at = j].pc = "invoices"
    BY <1>4, <2>2 DEF RequestRecords, Points
  <2> QED BY <1>1, <2>1, <2>3, ParkType DEF InPlan
<1> QED BY <1>2, <1>3 DEF NextCheck

LEMMA VerdictType ==
    ASSUME TypeInv, NEW s \in Requests, NEW ok, Verdict(s, ok)
    PROVE  /\ CaseRowTypeOK'
           /\ req' \in [Requests -> RequestRecords] /\ PositionsInPlan'
<1>1. [req[s].snap EXCEPT !.verified = IF ok THEN "PASSED" ELSE "FAILED",
                          !.stage = IF ok THEN "RESOLVED" ELSE "FAILED"] \in Rows
  BY RequestType DEF Rows, Stages
<1>2. CaseRowTypeOK'
  BY <1>1, RequestType, SaveType DEF Verdict, TypeInv, TypeOK
<1> QED BY <1>2, FinishType DEF Verdict, TypeInv, TypeOK

LEMMA ExchangeType ==
    ASSUME McpTypeOK, NEW works \in BOOLEAN, Exchange(works)
    PROVE  faults' \in 0..MaxFaults
  BY McpAssumption DEF McpTypeOK, Exchange

LEMMA ReplyType ==
    ASSUME McpTypeOK, SecondHalves, NEW s \in Requests,
           NEW r \in {"crm"} \cup Replies, Reply(s, r),
           r = "crm" => call[s].action \in HoldActions
    PROVE  call' \in [Requests -> Calls] /\ SecondHalves'
  BY DEF McpTypeOK, Calls, Reply, SecondHalves, Replies

LEMMA CallType ==
    ASSUME McpTypeOK, NEW s \in Requests
    PROVE  /\ call[s] \in Calls
           /\ call[s].case \in Cases
           /\ CustomerOf[call[s].case] \in Customers
           /\ call[s].action.tool = "match_payment" => call[s].action \in MatchActions
           /\ call[s].action.tool = "remove_account_hold" => call[s].action \in HoldActions
  BY DomainAssumption DEF McpTypeOK, Calls, PlannedActions, MatchActions,
     HoldActions, Reads, NoAction

LEMMA ToolStepType ==
    ASSUME EnterpriseTypeOK, McpTypeOK, SecondHalves, NEW s \in Requests,
           ToolStep(s)
    PROVE  EnterpriseTypeOK' /\ McpTypeOK' /\ SecondHalves'
<1> DEFINE a == call[s].action
           cust == CustomerOf[call[s].case]
<1>1. /\ cust \in Customers /\ call[s].case \in Cases
      /\ a.tool = "match_payment" =>
           a \in PlannedActions /\ a.payment \in Payments /\ a.invoice \in Invoices
      /\ a.tool = "remove_account_hold" => a \in HoldActions /\ a \in PlannedActions
      /\ call[s].pc = "crm" => a \in PlannedActions
  BY CallType DEF MatchActions, HoldActions, PlannedActions, SecondHalves
<1>2. CASE MatchPayment(s)
  <2>1. EnterpriseTypeOK'
    BY <1>1, <1>2 DEF MatchPayment, Refused, BillingMatchPayment, world,
       EnterpriseTypeOK, InvoiceStatuses
  <2>2. faults' \in 0..MaxFaults
    BY <1>2, ExchangeType DEF MatchPayment
  <2>3. call' \in [Requests -> Calls] /\ SecondHalves'
    BY <1>2, ReplyType DEF MatchPayment, Refused, Replies
  <2>4. applied' \subseteq Effects
    BY <1>1, <1>2 DEF MatchPayment, Refused, Record, Effects, McpTypeOK
  <2> QED BY <2>1, <2>2, <2>3, <2>4 DEF McpTypeOK
<1>3. CASE RemoveAccountHold(s)
  <2>1. EnterpriseTypeOK'
    BY <1>1, <1>3 DEF RemoveAccountHold, Refused, BillingRemoveAccountHold,
       world, EnterpriseTypeOK, HoldStates
  <2>2. faults' \in 0..MaxFaults
    BY <1>3, ExchangeType DEF RemoveAccountHold
  <2>3. call' \in [Requests -> Calls] /\ SecondHalves'
    BY <1>1, <1>3, ReplyType DEF RemoveAccountHold, Refused, Replies
  <2>4. applied' \subseteq Effects
    BY <1>1, <1>3 DEF RemoveAccountHold, Refused, Record, Effects, McpTypeOK
  <2> QED BY <2>1, <2>2, <2>3, <2>4 DEF McpTypeOK
<1>4. CASE RestoreAccount(s)
  <2>1. EnterpriseTypeOK'
    BY <1>1, <1>4 DEF RestoreAccount, Refused, CrmRestoreAccount, world,
       EnterpriseTypeOK, AccountStatuses
  <2>2. faults' \in 0..MaxFaults
    BY <1>4, ExchangeType DEF RestoreAccount
  <2>3. call' \in [Requests -> Calls] /\ SecondHalves'
    BY <1>4, ReplyType DEF RestoreAccount, Refused, Replies
  <2>4. applied' \subseteq Effects
    BY <1>1, <1>4 DEF RestoreAccount, Refused, Record, Effects, McpTypeOK
  <2> QED BY <2>1, <2>2, <2>3, <2>4 DEF McpTypeOK
<1>5. CASE LookupInvoice(s)
  <2>1. EnterpriseTypeOK' /\ applied' \subseteq Effects
    BY <1>5 DEF LookupInvoice, world, EnterpriseTypeOK, McpTypeOK
  <2>2. faults' \in 0..MaxFaults
    BY <1>5, ExchangeType DEF LookupInvoice
  <2>3. \E r \in {"error", "paid", "unpaid"} : Reply(s, r)
    BY <1>5 DEF LookupInvoice
  <2>4. call' \in [Requests -> Calls] /\ SecondHalves'
    BY <2>3, ReplyType DEF Replies
  <2> QED BY <2>1, <2>2, <2>4 DEF McpTypeOK
<1> QED BY <1>2, <1>3, <1>4, <1>5 DEF ToolStep

LEMMA TypeInvStutter ==
    ASSUME TypeInv, UNCHANGED vars PROVE TypeInv'
  BY DEF TypeInv, TypeOK, EnterpriseTypeOK, McpTypeOK, CaseRowTypeOK,
     PositionsInPlan, SecondHalves, vars, world, mcpVars

LEMMA TypeInvNext ==
    ASSUME TypeInv, Next PROVE TypeInv'
<1> USE DEF TypeInv, TypeOK
<1>1. ASSUME NEW c \in Cases, NEW d \in {"APPROVED", "REJECTED"}, Decide(c, d)
      PROVE  TypeInv'
  <2>1. row[c] \in Rows /\ row[c].plan \in Plans
    BY <1>1 DEF Decide, Decidable, CaseRowTypeOK, Rows
  <2>2. [row[c] EXCEPT !.approval.decision = d,
                       !.stage = IF d = "APPROVED" THEN "EXECUTING"
                                 ELSE "ESCALATED"] \in Rows
    BY <2>1 DEF Rows, Approvals, Stages
  <2>3. CaseRowTypeOK'
    BY <1>1, <2>2, SaveType DEF Decide
  <2>4. approved' \in [Cases -> SUBSET Plans]
    BY <1>1, <2>1 DEF Decide
  <2> QED BY <1>1, <2>3, <2>4 DEF Decide, EnterpriseTypeOK, McpTypeOK, world,
          mcpVars, PositionsInPlan, SecondHalves
<1>2. ASSUME NEW s \in Requests, NEW c \in Cases, StartExecute(s, c)
      PROVE  TypeInv'
  <2> DEFINE r == [IdleRequest EXCEPT !.pc = "open", !.case = c,
                                      !.plan = row[c].plan]
  <2>1. r \in RequestRecords /\ r.pc = "open"
    BY IdleType DEF RequestRecords, Points, CaseRowTypeOK, Rows
  <2>2. InPlan(r)
    BY <2>1 DEF InPlan
  <2>3. Park(s, r)
    BY <1>2 DEF StartExecute
  <2>4. req' \in [Requests -> RequestRecords] /\ PositionsInPlan'
    <3> HIDE DEF r
    <3> QED BY <2>1, <2>2, <2>3, ParkType
  <2> QED BY <1>2, <2>4 DEF StartExecute, EnterpriseTypeOK, McpTypeOK,
          CaseRowTypeOK, world, mcpVars, SecondHalves
<1>3. ASSUME NEW s \in Requests, NEW c \in Cases, StartVerify(s, c)
      PROVE  TypeInv'
  <2> DEFINE r == [IdleRequest EXCEPT !.pc = "crm", !.case = c, !.snap = row[c]]
  <2>1. r \in RequestRecords /\ r.pc = "crm"
    BY IdleType DEF RequestRecords, Points, CaseRowTypeOK
  <2>2. req' \in [Requests -> RequestRecords] /\ PositionsInPlan'
    BY <1>3, <2>1, ParkType DEF StartVerify, InPlan
  <2> QED BY <1>3, <2>2 DEF StartVerify, EnterpriseTypeOK, McpTypeOK,
          CaseRowTypeOK, world, mcpVars, SecondHalves
<1>4. ASSUME NEW s \in Requests, SessionOpened(s) PROVE TypeInv'
  <2>1. /\ CaseRowTypeOK' /\ req' \in [Requests -> RequestRecords]
        /\ PositionsInPlan' /\ call' \in [Requests -> Calls] /\ SecondHalves'
    BY <1>4, RequestType, LoopType DEF SessionOpened
  <2> QED BY <1>4, <2>1 DEF SessionOpened, EnterpriseTypeOK, McpTypeOK, world
<1>5. ASSUME NEW s \in Requests, FailAction(s), req[s].pc \in {"check", "write"}
      PROVE  /\ CaseRowTypeOK'
             /\ req' \in [Requests -> RequestRecords] /\ PositionsInPlan'
  <2>1. FailedRow(req[s].snap, Planned(s)) \in Rows /\ req[s].case \in Cases
    BY <1>5, RequestType, OutcomeType
  <2> QED BY <1>5, <2>1, SaveType, FinishType DEF FailAction
<1>6. ASSUME NEW s \in Requests, InvoiceReadBack(s) PROVE TypeInv'
  <2> DEFINE r == req[s]
             rest == EarlierMatches(r.plan, r.probe)
  <2>1. /\ r \in RequestRecords /\ r.at \in 1..Len(r.plan)
        /\ r.plan \in Plans \cup {NoPlan} /\ Planned(s) \in PlannedActions
        /\ r.pc = "check" /\ r.probe \in 1..Len(r.plan)
    BY <1>6, RequestType DEF InvoiceReadBack
  <2>2. CASE /\ Issue(s, Planned(s)) /\ Park(s, [r EXCEPT !.pc = "write"])
             /\ UNCHANGED row
    <3>1. call' \in [Requests -> Calls] /\ SecondHalves'
      BY <2>1, <2>2, IssueType
    <3>2. /\ [r EXCEPT !.pc = "write"] \in RequestRecords
          /\ [r EXCEPT !.pc = "write"].at = r.at
          /\ [r EXCEPT !.pc = "write"].plan = r.plan
          /\ [r EXCEPT !.pc = "write"].pc = "write"
      BY <2>1 DEF RequestRecords, Points
    <3>3. req' \in [Requests -> RequestRecords] /\ PositionsInPlan'
      BY <2>1, <2>2, <3>2, ParkType DEF InPlan
    <3> QED BY <1>6, <2>2, <3>1, <3>3 DEF InvoiceReadBack, EnterpriseTypeOK,
            McpTypeOK, CaseRowTypeOK, world
  <2>3. CASE /\ \E j \in rest : /\ Issue(s, GetInvoice(r.plan[j].invoice))
                                /\ Park(s, [r EXCEPT !.probe = j])
             /\ UNCHANGED row
    <3>1. PICK j \in rest : /\ Issue(s, GetInvoice(r.plan[j].invoice))
                            /\ Park(s, [r EXCEPT !.probe = j])
      BY <2>3
    <3>2. j \in 1..Len(r.plan) /\ GetInvoice(r.plan[j].invoice) \in Reads
      BY <2>1, GetInvoiceType
    <3>3. call' \in [Requests -> Calls] /\ SecondHalves'
      BY <3>1, <3>2, IssueType
    <3>4. req' \in [Requests -> RequestRecords] /\ PositionsInPlan'
      <4> DEFINE moved == [r EXCEPT !.probe = j]
      <4>1. /\ moved \in RequestRecords /\ moved.at = r.at
            /\ moved.plan = r.plan /\ moved.probe = j
        <5>1. j \in Nat
          BY <3>2
        <5> QED BY <2>1, <5>1, ProbeType
      <4>2. InPlan(moved)
        <5> HIDE DEF moved
        <5> QED BY <2>1, <3>2, <4>1 DEF InPlan
      <4>3. Park(s, moved)
        BY <3>1
      <4> HIDE DEF moved, r
      <4> QED BY <4>1, <4>2, <4>3, ParkType
    <3> QED BY <1>6, <2>3, <3>3, <3>4 DEF InvoiceReadBack, EnterpriseTypeOK,
            McpTypeOK, CaseRowTypeOK, world
  <2>4. CASE FailAction(s) /\ UNCHANGED call
    BY <1>5, <1>6, <2>1, <2>4 DEF InvoiceReadBack, EnterpriseTypeOK, McpTypeOK,
       world, SecondHalves
  <2> QED BY <1>6, <2>2, <2>3, <2>4 DEF InvoiceReadBack
<1>7. ASSUME NEW s \in Requests, ActionSucceeded(s) PROVE TypeInv'
  <2>1. /\ WithOutcome(req[s].snap, Planned(s), "SUCCESS") \in Rows
        /\ req[s].at + 1 \in Nat \ {0}
    BY <1>7, RequestType, OutcomeType DEF ActionSucceeded
  <2>2. /\ CaseRowTypeOK' /\ req' \in [Requests -> RequestRecords]
        /\ PositionsInPlan' /\ call' \in [Requests -> Calls] /\ SecondHalves'
    BY <1>7, <2>1, LoopType DEF ActionSucceeded
  <2> QED BY <1>7, <2>2 DEF ActionSucceeded, EnterpriseTypeOK, McpTypeOK, world
<1>8. ASSUME NEW s \in Requests, ActionFailed(s) PROVE TypeInv'
  <2>1. faults' \in 0..MaxFaults
    BY <1>8, ExchangeType DEF ActionFailed, McpTypeOK
  <2> QED BY <1>5, <1>8, <2>1 DEF ActionFailed, EnterpriseTypeOK, McpTypeOK,
          world, SecondHalves
<1>9. ASSUME NEW s \in Requests, SessionClosed(s) PROVE TypeInv'
  <2>1. [row[req[s].case] EXCEPT !.stage = "VERIFYING"] \in Rows
    BY RequestType DEF Rows, Stages
  <2>2. CaseRowTypeOK' /\ req' \in [Requests -> RequestRecords] /\ PositionsInPlan'
    BY <1>9, <2>1, RequestType, SaveType, FinishType DEF SessionClosed
  <2> QED BY <1>9, <2>2 DEF SessionClosed, EnterpriseTypeOK, McpTypeOK, world,
          mcpVars, SecondHalves
<1>10. ASSUME NEW s \in Requests, CheckCrm(s) PROVE TypeInv'
  <2>1. PICK works \in BOOLEAN :
           /\ Exchange(works)
           /\ \/ /\ NextCheck(s, 0, /\ account[CustomerOf[req[s].case]] = "ACTIVE"
                                    /\ Matched(req[s].snap) # {})
                 /\ UNCHANGED row
              \/ Verdict(s, FALSE)
    BY <1>10 DEF CheckCrm
  <2>2. CaseRowTypeOK' /\ req' \in [Requests -> RequestRecords] /\ PositionsInPlan'
    BY <2>1, NextCheckType, VerdictType DEF CaseRowTypeOK
  <2>3. faults' \in 0..MaxFaults
    BY <2>1, ExchangeType
  <2> QED BY <1>10, <2>2, <2>3 DEF CheckCrm, EnterpriseTypeOK, McpTypeOK, world,
          SecondHalves
<1>11. ASSUME NEW s \in Requests, CheckInvoice(s) PROVE TypeInv'
  <2>1. \E works \in BOOLEAN : Exchange(works)
    BY <1>11 DEF CheckInvoice
  <2>2. req' \in [Requests -> RequestRecords] /\ PositionsInPlan'
    BY <1>11, NextCheckType DEF CheckInvoice
  <2>3. faults' \in 0..MaxFaults
    BY <2>1, ExchangeType
  <2> QED BY <1>11, <2>2, <2>3 DEF CheckInvoice, EnterpriseTypeOK, McpTypeOK,
          CaseRowTypeOK, world, SecondHalves
<1>12. ASSUME NEW s \in Requests, CheckHold(s) PROVE TypeInv'
  <2>1. \E works \in BOOLEAN : Exchange(works)
    BY <1>12 DEF CheckHold
  <2>2. CaseRowTypeOK' /\ req' \in [Requests -> RequestRecords] /\ PositionsInPlan'
    BY <1>12, VerdictType DEF CheckHold
  <2>3. faults' \in 0..MaxFaults
    BY <2>1, ExchangeType
  <2> QED BY <1>12, <2>2, <2>3 DEF CheckHold, EnterpriseTypeOK, McpTypeOK, world,
          SecondHalves
<1>13. ASSUME NEW s \in Requests, Abort(s) PROVE TypeInv'
  <2>1. faults' \in 0..MaxFaults
    BY <1>13, ExchangeType DEF Abort
  <2>2. req' \in [Requests -> RequestRecords] /\ PositionsInPlan'
    BY <1>13, FinishType DEF Abort
  <2> QED BY <1>13, <2>1, <2>2 DEF Abort, EnterpriseTypeOK, McpTypeOK,
          CaseRowTypeOK, world, SecondHalves
<1>14. ASSUME Crash PROVE TypeInv'
  <2>1. faults' \in 0..MaxFaults
    BY <1>14, ExchangeType DEF Crash
  <2>2. req' \in [Requests -> RequestRecords] /\ PositionsInPlan'
    BY <1>14, IdleType DEF Crash, PositionsInPlan, InPlan, IdleRequest
  <2> QED BY <1>14, <2>1, <2>2 DEF Crash, EnterpriseTypeOK, McpTypeOK,
          CaseRowTypeOK, world, SecondHalves
<1>15. ASSUME NEW s \in Requests, McpStep(s) PROVE TypeInv'
  <2>1. EnterpriseTypeOK' /\ McpTypeOK' /\ SecondHalves'
    BY <1>15, ToolStepType DEF McpStep
  <2> QED BY <1>15, <2>1 DEF McpStep, CaseRowTypeOK, PositionsInPlan
<1> QED BY <1>1, <1>2, <1>3, <1>4, <1>6, <1>7, <1>8, <1>9, <1>10, <1>11, <1>12,
        <1>13, <1>14, <1>15 DEF Next, Operator, HandlerStep

\* Every reachable state is well typed: the rows, the coroutines, the tool
\* calls and the enterprise data, however requests and crashes interleave.
THEOREM TypeCorrect == Spec => []TypeOK
<1>1. Init => TypeInv
  BY InitTypeOK DEF Init, McpInit, TypeInv, PositionsInPlan, InPlan,
     IdleRequest, SecondHalves
<1>2. TypeInv /\ [Next]_vars => TypeInv'
  BY TypeInvStutter, TypeInvNext
<1>3. TypeInv => TypeOK
  BY DEF TypeInv
<1> QED BY <1>1, <1>2, <1>3, PTL DEF Spec

-----------------------------------------------------------------------------
USE DEF Executing

(* Neither property is inductive: an action reaches the systems two awaits  *)
(* after it was authorized, on the strength of a plan the coroutine keeps   *)
(* and of an approval the row keeps, both copied through snapshots.  The    *)
(* invariant follows the approval along that way.                           *)

Justified(c, a) == ApprovedFor(c, a) /\ (IsHoldRemoval(a) => PaidFirst(c, a))

\* An APPROVED record, in the row or in a snapshot of it, was the operator's.
Earned(c, rw) == rw.approval.decision = "APPROVED" => rw.approval.digest \in approved[c]

EarnedRows == \A c \in Cases : Earned(c, row[c])

\* While an executor waits for a read-back, the tool looks up the invoice of
\* an earlier match of its approved plan.
ReadsBack(r, t) ==
    /\ t.case = r.case
    /\ IsHoldRemoval(r.plan[r.at])
    /\ r.probe \in EarlierMatches(r.plan, r.at)
    /\ t.action = GetInvoice(r.plan[r.probe].invoice)
    /\ t.pc = "paid" => invoice[r.plan[r.probe].invoice] = "PAID"

SlotSafe(s) ==
    /\ Earned(req[s].case, req[s].snap)
    /\ req[s].pc \in Executing =>
          req[s].plan \in approved[req[s].case]
    /\ req[s].pc = "check" => ReadsBack(req[s], call[s])
    /\ call[s].action \in PlannedActions => Justified(call[s].case, call[s].action)

EffectsJustified == \A e \in applied : Justified(e.case, e.action)

SafetyInv ==
    /\ TypeInv
    /\ EarnedRows
    /\ \A s \in Requests : SlotSafe(s)
    /\ EffectsJustified

-----------------------------------------------------------------------------
(* What never goes back: approvals are kept, and a PAID invoice stays PAID. *)

Grows ==
    /\ \A c \in Cases : approved[c] \subseteq approved'[c]
    /\ \A i \in Invoices : invoice[i] = "PAID" => invoice'[i] = "PAID"

LEMMA MatchedInvoice ==
    ASSUME NEW plan \in Plans \cup {NoPlan}, NEW k \in 1..Len(plan),
           NEW j \in EarlierMatches(plan, k)
    PROVE  plan[j].invoice \in Invoices
<1>1. j \in 1..Len(plan) /\ plan[j].tool = "match_payment"
  BY PlanType DEF EarlierMatches
<1>2. plan[j] \in MatchActions
  BY <1>1, PlanType DEF PlannedActions, HoldActions
<1> QED BY <1>2 DEF MatchActions

LEMMA UnchangedGrows ==
    ASSUME UNCHANGED <<invoice, approved>> PROVE Grows
  BY DEF Grows

LEMMA JustifiedStable ==
    ASSUME TypeInv, Grows, NEW c \in Cases, NEW a, Justified(c, a)
    PROVE  Justified(c, a)'
<1>1. approved[c] \subseteq Plans /\ approved[c] \subseteq approved'[c]
  BY DEF TypeInv, TypeOK, Grows
<1>2. ApprovedFor(c, a)'
  BY <1>1 DEF Justified, ApprovedFor
<1>3. ASSUME PaidFirst(c, a) PROVE PaidFirst(c, a)'
  <2>1. PICK plan \in approved[c] : \E k \in 1..Len(plan) :
           /\ plan[k] = a
           /\ \E j \in EarlierMatches(plan, k) : invoice[plan[j].invoice] = "PAID"
    BY <1>3 DEF PaidFirst
  <2>2. PICK k \in 1..Len(plan) :
           /\ plan[k] = a
           /\ \E j \in EarlierMatches(plan, k) : invoice[plan[j].invoice] = "PAID"
    BY <2>1
  <2>3. PICK j \in EarlierMatches(plan, k) : invoice[plan[j].invoice] = "PAID"
    BY <2>2
  <2>4. plan \in Plans /\ plan \in approved'[c]
    BY <1>1
  <2>5. plan[j].invoice \in Invoices
    BY <2>4, MatchedInvoice
  <2>6. invoice'[plan[j].invoice] = "PAID"
    BY <2>3, <2>5 DEF Grows
  <2> QED BY <2>2, <2>4, <2>6 DEF PaidFirst, EarlierMatches
<1> QED BY <1>2, <1>3 DEF Justified

LEMMA EarnedStable ==
    ASSUME Grows, NEW c \in Cases, NEW rw, Earned(c, rw)
    PROVE  Earned(c, rw)'
  BY DEF Grows, Earned

\* A slot whose coroutine and tool call stay as they are stays safe.
LEMMA SlotStable ==
    ASSUME TypeInv, Grows, NEW s \in Requests, SlotSafe(s),
           req'[s] = req[s], call'[s] = call[s]
    PROVE  SlotSafe(s)'
<1> DEFINE r == req[s]
<1>1. r.case \in Cases /\ r.plan \in Plans \cup {NoPlan} /\ call[s].case \in Cases
  BY RequestType, CallType DEF TypeInv, TypeOK
<1>2. Earned(r.case, r.snap)'
  BY <1>1, EarnedStable DEF SlotSafe
<1>3. r.pc \in Executing => r.plan \in approved'[r.case]
  BY <1>1 DEF SlotSafe, Grows
<1>4. ASSUME r.pc = "check" PROVE ReadsBack(r, call[s])'
  <2>1. ReadsBack(r, call[s]) /\ r.at \in 1..Len(r.plan)
    BY <1>4, RequestType DEF SlotSafe
  <2>2. r.plan[r.probe].invoice \in Invoices
    BY <1>1, <2>1, MatchedInvoice DEF ReadsBack
  <2> QED BY <2>1, <2>2 DEF ReadsBack, Grows, EarlierMatches
<1>5. call[s].action \in PlannedActions => Justified(call[s].case, call[s].action)'
  BY <1>1, JustifiedStable DEF SlotSafe
<1> QED BY <1>2, <1>3, <1>4, <1>5 DEF SlotSafe

-----------------------------------------------------------------------------
(* The pieces steps are made of. *)

LEMMA SaveEarned ==
    ASSUME TypeInv, EarnedRows, UNCHANGED approved,
           NEW c \in Cases, NEW new, Save(c, new), Earned(c, new)
    PROVE  EarnedRows'
  BY DEF TypeInv, TypeOK, CaseRowTypeOK, EarnedRows, Earned, Save

\* Parking one coroutine, with its tool call moved on or left alone.
LEMMA ParkSafe ==
    ASSUME SafetyInv, UNCHANGED <<invoice, approved>>,
           NEW s \in Requests, NEW r, Park(s, r),
           \A t \in Requests \ {s} : call'[t] = call[t],
           Earned(r.case, r.snap),
           r.pc \in Executing => r.plan \in approved[r.case],
           r.pc = "check" => ReadsBack(r, call'[s]),
           call'[s].action \in PlannedActions =>
              Justified(call'[s].case, call'[s].action)
    PROVE  \A t \in Requests : SlotSafe(t)'
<1>1. Grows
  BY UnchangedGrows
<1>2. \A t \in Requests \ {s} : req'[t] = req[t]
  BY DEF Park, SafetyInv, TypeInv, TypeOK
<1>3. \A t \in Requests \ {s} : SlotSafe(t)'
  BY <1>1, <1>2, SlotStable DEF SafetyInv
<1>4. req'[s] = r
  BY DEF Park, SafetyInv, TypeInv, TypeOK
<1>5. Earned(r.case, r.snap)'
  BY DEF Earned
<1>6. r.pc = "check" => ReadsBack(r, call[s])'
  BY DEF ReadsBack, EarlierMatches
<1>7. (call[s].action \in PlannedActions => Justified(call[s].case, call[s].action))'
  BY DEF Justified, ApprovedFor, PaidFirst, EarlierMatches
<1>8. SlotSafe(s)'
  BY <1>4, <1>5, <1>6, <1>7 DEF SlotSafe
<1> QED BY <1>3, <1>8

LEMMA FinishSafe ==
    ASSUME SafetyInv, UNCHANGED <<invoice, approved, call>>,
           NEW s \in Requests, Finish(s)
    PROVE  \A t \in Requests : SlotSafe(t)'
<1>1. /\ IdleRequest.pc = "idle"
      /\ Earned(IdleRequest.case, IdleRequest.snap)
  BY DEF IdleRequest, Earned, NewRow, NoApproval
<1>2. call[s].action \in PlannedActions => Justified(call[s].case, call[s].action)
  BY DEF SafetyInv, SlotSafe
<1> HIDE DEF IdleRequest
<1> QED BY <1>1, <1>2, ParkSafe DEF Finish

LEMMA IssueCall ==
    ASSUME TypeInv, NEW s \in Requests, NEW a, Issue(s, a)
    PROVE  /\ call'[s] = [pc |-> "billing", case |-> req[s].case, action |-> a]
           /\ \A t \in Requests \ {s} : call'[t] = call[t]
  BY DEF TypeInv, TypeOK, McpTypeOK, Issue

LEMMA OutcomeEarned ==
    ASSUME NEW c, NEW rw \in Rows, NEW a, NEW status, Earned(c, rw)
    PROVE  Earned(c, WithOutcome(rw, a, status)) /\ Earned(c, FailedRow(rw, a))
  BY DEF Earned, WithOutcome, FailedRow, Rows

\* A step of an approved plan is approved.
LEMMA StepApproved ==
    ASSUME NEW c, NEW plan \in approved[c], NEW k \in 1..Len(plan)
    PROVE  ApprovedFor(c, plan[k])
  BY DEF ApprovedFor

LEMMA LoopSafe ==
    ASSUME SafetyInv, UNCHANGED <<world, approved>>,
           NEW s \in Requests, NEW k \in Nat \ {0}, NEW rw \in Rows,
           Earned(req[s].case, rw), req[s].plan \in approved[req[s].case],
           Loop(s, k, rw)
    PROVE  EarnedRows' /\ \A t \in Requests : SlotSafe(t)'
<1> DEFINE n == Resume(k, rw)
           plan == req[s].plan
           c == req[s].case
<1>1. /\ TypeInv /\ c \in Cases /\ plan \in Plans \cup {NoPlan}
      /\ UNCHANGED <<invoice, approved>> /\ req[s] \in RequestRecords
  BY RequestType DEF SafetyInv, world
<1>2. n \in Nat \ {0}
  <2>1. Len(rw.executed) \in Nat
    BY DEF Rows
  <2> QED BY <2>1 DEF Resume
<1>3. n <= Len(plan) => n \in 1..Len(plan) /\ plan[n] \in PlannedActions
  BY <1>1, <1>2, PlanType
<1>4. call[s].action \in PlannedActions => Justified(call[s].case, call[s].action)
  BY DEF SafetyInv, SlotSafe
<1>5. \A pc \in Points : /\ Suspend(s, pc, n, rw).pc = pc
                          /\ Suspend(s, pc, n, rw).at = n
                          /\ Suspend(s, pc, n, rw).plan = plan
                          /\ Suspend(s, pc, n, rw).case = c
                          /\ Suspend(s, pc, n, rw).snap = rw
  BY <1>1 DEF Suspend, RequestRecords
<1>6. Save(c, rw) => EarnedRows'
  BY <1>1, SaveEarned DEF SafetyInv
<1>7. CASE EndOfPlan(s, n, rw)
  <2>1. Park(s, Suspend(s, "close", n, rw)) /\ UNCHANGED call /\ EarnedRows'
    BY <1>6, <1>7 DEF EndOfPlan
  <2> HIDE DEF n
  <2> QED BY <1>1, <1>4, <1>5, <2>1, ParkSafe DEF Points
<1>8. CASE Validation(s, n, rw)
  BY <1>1, <1>6, <1>8, FinishSafe DEF Validation
<1>9. CASE CallMatch(s, n, rw)
  <2>1. /\ Park(s, Suspend(s, "write", n, rw)) /\ Issue(s, plan[n])
        /\ EarnedRows' /\ ~IsHoldRemoval(plan[n])
    BY <1>6, <1>9 DEF CallMatch
  <2>2. n \in 1..Len(plan)
    BY <1>3, <1>9 DEF CallMatch
  <2>3. Justified(c, plan[n])
    BY <2>1, <2>2, StepApproved DEF Justified
  <2>4. call'[s].case = c /\ call'[s].action = plan[n]
        /\ \A t \in Requests \ {s} : call'[t] = call[t]
    <3> HIDE DEF n
    <3>1. /\ call'[s] = [pc |-> "billing", case |-> c, action |-> plan[n]]
          /\ \A t \in Requests \ {s} : call'[t] = call[t]
      BY <1>1, <2>1, IssueCall
    <3> QED BY <3>1
  <2> HIDE DEF n
  <2> QED BY <1>1, <1>5, <2>1, <2>3, <2>4, ParkSafe DEF Points
<1>10. CASE ReadBack(s, n, rw)
  <2>1. n \in 1..Len(plan) /\ plan[n] \in PlannedActions /\ IsHoldRemoval(plan[n])
    BY <1>3, <1>10 DEF ReadBack
  <2>2. CASE /\ Finish(s) /\ Save(c, FailedRow(rw, plan[n])) /\ UNCHANGED call
    <3>1. Earned(c, FailedRow(rw, plan[n]))
      BY OutcomeEarned
    <3>2. EarnedRows'
      BY <1>1, <2>2, <3>1, SaveEarned DEF SafetyInv
    <3> QED BY <1>1, <2>2, <3>2, FinishSafe
  <2>3. CASE \E j \in EarlierMatches(plan, n) :
               /\ Park(s, [Suspend(s, "check", n, rw) EXCEPT !.probe = j])
               /\ Save(c, rw)
               /\ Issue(s, GetInvoice(plan[j].invoice))
    <3>1. PICK j \in EarlierMatches(plan, n) :
               /\ Park(s, [Suspend(s, "check", n, rw) EXCEPT !.probe = j])
               /\ Save(c, rw)
               /\ Issue(s, GetInvoice(plan[j].invoice))
      BY <2>3
    <3> DEFINE r == [Suspend(s, "check", n, rw) EXCEPT !.probe = j]
    <3>2. Suspend(s, "check", n, rw) \in RequestRecords
      BY <1>1, <1>2, SuspendType DEF Points
    <3>3. j \in Nat
      BY DEF EarlierMatches
    <3>4. /\ r.pc = "check" /\ r.at = n /\ r.plan = plan /\ r.case = c
          /\ r.snap = rw /\ r.probe = j
      BY <1>5, <3>2, <3>3, ProbeType DEF Points
    <3>5. /\ call'[s] = [pc |-> "billing", case |-> c,
                         action |-> GetInvoice(plan[j].invoice)]
          /\ \A t \in Requests \ {s} : call'[t] = call[t]
      BY <1>1, <3>1, IssueCall
    <3>6. Park(s, r)
      BY <3>1
    <3> HIDE DEF r, n
    <3>7. ReadsBack(r, call'[s])
      BY <2>1, <3>4, <3>5 DEF ReadsBack
    <3>8. call'[s].action \notin PlannedActions
      BY <3>5 DEF GetInvoice, PlannedActions, MatchActions, HoldActions
    <3> QED BY <1>1, <1>6, <3>1, <3>4, <3>5, <3>6, <3>7, <3>8, ParkSafe
  <2> QED BY <1>10, <2>2, <2>3 DEF ReadBack
<1> QED BY <1>7, <1>8, <1>9, <1>10 DEF Loop

LEMMA FailSafe ==
    ASSUME SafetyInv, UNCHANGED <<invoice, approved, call>>, NEW s \in Requests,
           req[s].pc \in {"check", "write"}, FailAction(s)
    PROVE  EarnedRows' /\ \A t \in Requests : SlotSafe(t)'
<1>1. /\ Earned(req[s].case, req[s].snap)
      /\ req[s].case \in Cases /\ req[s].snap \in Rows /\ TypeInv
  BY RequestType DEF SafetyInv, SlotSafe
<1>2. Earned(req[s].case, FailedRow(req[s].snap, Planned(s)))
  BY <1>1, OutcomeEarned
<1>3. EarnedRows'
  BY <1>1, <1>2, SaveEarned DEF FailAction, SafetyInv
<1> QED BY <1>3, FinishSafe DEF FailAction

LEMMA VerdictSafe ==
    ASSUME SafetyInv, UNCHANGED <<invoice, approved, call>>, NEW s \in Requests,
           NEW ok, Verdict(s, ok)
    PROVE  EarnedRows' /\ \A t \in Requests : SlotSafe(t)'
<1> DEFINE new == [req[s].snap EXCEPT !.verified = IF ok THEN "PASSED" ELSE "FAILED",
                                      !.stage = IF ok THEN "RESOLVED" ELSE "FAILED"]
<1>1. /\ Earned(req[s].case, req[s].snap)
      /\ req[s].case \in Cases /\ req[s].snap \in Rows /\ TypeInv
  BY RequestType DEF SafetyInv, SlotSafe
<1>2. Earned(req[s].case, new)
  BY <1>1 DEF Earned, Rows
<1>3. Save(req[s].case, new)
  BY DEF Verdict
<1>4. EarnedRows'
  <2> HIDE DEF new
  <2> QED BY <1>1, <1>2, <1>3, SaveEarned DEF SafetyInv
<1> QED BY <1>4, FinishSafe DEF Verdict

LEMMA NextCheckSafe ==
    ASSUME SafetyInv, UNCHANGED <<invoice, approved, call>>, NEW s \in Requests,
           NEW k, NEW ok, NextCheck(s, k, ok)
    PROVE  \A t \in Requests : SlotSafe(t)'
<1> DEFINE r == [req[s] EXCEPT !.checks = IF ok THEN "passed" ELSE "failed"]
<1>1. req[s] \in RequestRecords /\ SlotSafe(s)
  BY RequestType DEF SafetyInv
<1>2. r \in RequestRecords /\ r.case = req[s].case /\ r.snap = req[s].snap
  BY <1>1 DEF RequestRecords
<1>3. \E r2 : Park(s, r2) /\ r2.pc \in {"hold", "invoices"}
                /\ r2.case = req[s].case /\ r2.snap = req[s].snap
  <2>1. CASE Park(s, [r EXCEPT !.pc = "hold"])
    <3> HIDE DEF r
    <3>1. /\ [r EXCEPT !.pc = "hold"].pc = "hold"
          /\ [r EXCEPT !.pc = "hold"].case = req[s].case
          /\ [r EXCEPT !.pc = "hold"].snap = req[s].snap
      BY <1>2 DEF RequestRecords
    <3> QED BY <2>1, <3>1
  <2>2. CASE \E j \in Matched(req[s].snap) :
               Park(s, [r EXCEPT !.pc = "invoices", !.at = j])
    <3> HIDE DEF r
    <3>1. PICK j : Park(s, [r EXCEPT !.pc = "invoices", !.at = j])
      BY <2>2
    <3>2. /\ [r EXCEPT !.pc = "invoices", !.at = j].pc = "invoices"
          /\ [r EXCEPT !.pc = "invoices", !.at = j].case = req[s].case
          /\ [r EXCEPT !.pc = "invoices", !.at = j].snap = req[s].snap
      BY <1>2 DEF RequestRecords
    <3> QED BY <3>1, <3>2
  <2> QED BY <2>1, <2>2 DEF NextCheck
<1> QED BY <1>1, <1>3, ParkSafe DEF SlotSafe

LEMMA EffectsStable ==
    ASSUME TypeInv, EffectsJustified, Grows, UNCHANGED applied
    PROVE  EffectsJustified'
<1>1. \A e \in applied : e.case \in Cases
  BY DEF TypeInv, TypeOK, McpTypeOK, Effects
<1> QED BY <1>1, JustifiedStable DEF EffectsJustified

LEMMA ToolSafe ==
    ASSUME SafetyInv, NEW s \in Requests, McpStep(s),
           NEW c, c = call[s].case, NEW a, a = call[s].action
    PROVE  EarnedRows' /\ (\A t \in Requests : SlotSafe(t)') /\ EffectsJustified'
<1>1. /\ TypeInv /\ EnterpriseTypeOK /\ McpTypeOK /\ SecondHalves
      /\ EarnedRows /\ EffectsJustified /\ UNCHANGED <<row, req, approved>>
      /\ ToolStep(s)
  BY DEF SafetyInv, TypeInv, TypeOK, McpStep
<1>2. /\ c \in Cases
      /\ a.tool = "match_payment" => a \in PlannedActions
      /\ a.tool = "remove_account_hold" => a \in PlannedActions
      /\ call[s].pc = "crm" => a \in PlannedActions
  BY <1>1, CallType DEF PlannedActions, SecondHalves
<1>3. Grows
  BY <1>1 DEF Grows, ToolStep, MatchPayment, RemoveAccountHold, RestoreAccount,
     LookupInvoice, Refused, BillingMatchPayment, BillingRemoveAccountHold,
     CrmRestoreAccount, world, EnterpriseTypeOK
<1>4. EarnedRows'
  BY <1>1 DEF EarnedRows, Earned
<1>5. PICK reply :
         /\ Reply(s, reply)
         /\ reply = "paid" => invoice[a.invoice] = "PAID" /\ UNCHANGED invoice
  BY <1>1 DEF ToolStep, MatchPayment, RemoveAccountHold, RestoreAccount,
     LookupInvoice, Refused, world
<1>6. /\ call'[s].case = c /\ call'[s].action = a /\ call'[s].pc = reply
      /\ \A t \in Requests \ {s} : call'[t] = call[t]
  BY <1>1, <1>5 DEF Reply, McpTypeOK, Calls
<1>7. \A t \in Requests \ {s} : SlotSafe(t)'
  BY <1>1, <1>3, <1>6, SlotStable DEF SafetyInv
<1>8. SlotSafe(s)'
  <2> DEFINE r == req[s]
  <2>1. SlotSafe(s) /\ r \in RequestRecords
    BY RequestType, <1>1 DEF SafetyInv
  <2>2. Earned(r.case, r.snap)'
    BY <1>1, <2>1 DEF SlotSafe, Earned
  <2>3. r.pc = "check" => ReadsBack(r, call[s])'
    BY <1>1, <1>5, <1>6, <2>1 DEF SlotSafe, ReadsBack, EarlierMatches, GetInvoice
  <2>4. a \in PlannedActions => Justified(c, a)'
    BY <1>1, <1>2, <1>3, <2>1, JustifiedStable DEF SlotSafe
  <2> QED BY <1>1, <1>6, <2>1, <2>2, <2>3, <2>4 DEF SlotSafe
<1>9. ASSUME applied' # applied PROVE a \in PlannedActions
  BY <1>1, <1>2, <1>9 DEF ToolStep, MatchPayment, RemoveAccountHold,
     RestoreAccount, LookupInvoice, Refused
<1>10. \A e \in applied' : e \in applied \/ (e.case = c /\ e.action = a)
  BY <1>1 DEF ToolStep, MatchPayment, RemoveAccountHold, RestoreAccount,
     LookupInvoice, Refused, Record
<1>11. \A e \in applied : Justified(e.case, e.action)'
  <2>1. \A e \in applied : e.case \in Cases
    BY <1>1 DEF McpTypeOK, Effects
  <2> QED BY <1>1, <1>3, <2>1, JustifiedStable DEF EffectsJustified
<1>12. EffectsJustified'
  BY <1>6, <1>8, <1>9, <1>10, <1>11 DEF SlotSafe, EffectsJustified
<1> QED BY <1>4, <1>7, <1>8, <1>12

-----------------------------------------------------------------------------
(* The invariant is inductive. *)

LEMMA SafetyInit == Init => SafetyInv
<1> SUFFICES ASSUME Init PROVE SafetyInv
  OBVIOUS
<1>1. TypeInv
  BY InitTypeOK DEF Init, McpInit, TypeInv, PositionsInPlan, InPlan,
     IdleRequest, SecondHalves
<1>2. EarnedRows
  <2>1. \A c \in Cases : row[c].approval \in {PendingApproval(p) : p \in Plans}
    BY DEF Init, ReadyRows
  <2> QED BY <2>1 DEF EarnedRows, Earned, PendingApproval
<1>3. \A s \in Requests : SlotSafe(s)
  <2>1. NoAction \notin PlannedActions
    BY DEF NoAction, PlannedActions, MatchActions, HoldActions
  <2>2. IdleRequest.pc = "idle" /\ Earned(IdleRequest.case, IdleRequest.snap)
    BY DEF IdleRequest, Earned, NewRow, NoApproval
  <2>3. \A s \in Requests : req[s] = IdleRequest /\ call[s].action = NoAction
    BY DEF Init, McpInit
  <2> HIDE DEF IdleRequest, NoAction
  <2> QED BY <2>1, <2>2, <2>3 DEF SlotSafe
<1>4. EffectsJustified
  BY DEF Init, McpInit, EffectsJustified
<1> QED BY <1>1, <1>2, <1>3, <1>4 DEF SafetyInv

LEMMA AuthorizedPlanApproved ==
    ASSUME TypeInv, EarnedRows, NEW c \in Cases, Authorized(row[c])
    PROVE  row[c].plan \in approved[c]
<1>1. row[c].plan \in Plans
  BY DEF Authorized, TypeInv, TypeOK, CaseRowTypeOK, Rows
<1>2. 1 \in 1..Len(row[c].plan) /\ row[c].plan[1] \in PlannedActions
  <2>1. Len(row[c].plan) \in 1..4
    BY <1>1, DomainAssumption
  <2>2. \A k \in 1..Len(row[c].plan) : row[c].plan[k] \in PlannedActions
    BY ONLY <1>1, PlanType
  <2>3. \A n \in 1..4 : 1 \in 1..n
    OBVIOUS
  <2>4. 1 \in 1..Len(row[c].plan)
    BY ONLY <2>1, <2>3, Zenon
  <2> QED BY ONLY <2>2, <2>4, Zenon
<1>3. ToolRequiresApproval[row[c].plan[1].tool]
  BY <1>2 DEF ToolRequiresApproval, PlannedActions, MatchActions, HoldActions
<1>4. RequiresApproval(row[c].plan)
  BY <1>2, <1>3 DEF RequiresApproval
<1> QED BY <1>4 DEF Authorized, EarnedRows, Earned

LEMMA SafetyStep ==
    ASSUME SafetyInv, Next PROVE SafetyInv'
<1>1. TypeInv /\ TypeInv' /\ EarnedRows /\ EffectsJustified
  BY TypeInvNext DEF SafetyInv
<1>2. ASSUME NEW c \in Cases, NEW d \in {"APPROVED", "REJECTED"}, Decide(c, d)
      PROVE  SafetyInv'
  <2>1. approved \in [Cases -> SUBSET Plans] /\ row \in [Cases -> Rows]
    BY <1>1 DEF TypeInv, TypeOK, CaseRowTypeOK
  <2>2. Grows
    BY <1>2, <2>1 DEF Decide, Grows, world
  <2>3. Earned(c, row[c])'
    <3>1. row[c].approval \in Approvals /\ row[c].plan = row[c].approval.digest
      BY <1>2, <2>1 DEF Decide, Decidable, Rows
    <3>2. row'[c].approval = [row[c].approval EXCEPT !.decision = d]
      BY <1>2, <2>1 DEF Decide, Save, Rows
    <3>3. row'[c].approval.decision = d /\ row'[c].approval.digest = row[c].plan
      BY <3>1, <3>2 DEF Approvals
    <3>4. d = "APPROVED" => row[c].plan \in approved'[c]
      BY <1>2, <2>1 DEF Decide
    <3> QED BY <3>3, <3>4 DEF Earned
  <2>4. \A x \in Cases \ {c} : row'[x] = row[x]
    BY <1>2, <2>1 DEF Decide, Save
  <2>5. \A x \in Cases \ {c} : Earned(x, row[x])'
    BY <1>1, <2>2, <2>4 DEF EarnedRows, Earned, Grows
  <2>6. EarnedRows'
    BY <2>3, <2>5 DEF EarnedRows, Earned
  <2>7. \A s \in Requests : SlotSafe(s)'
    BY <1>1, <1>2, <2>2, SlotStable DEF Decide, mcpVars, SafetyInv
  <2>8. EffectsJustified'
    BY <1>1, <1>2, <2>2, EffectsStable DEF Decide, mcpVars
  <2> QED BY <1>1, <2>6, <2>7, <2>8 DEF SafetyInv
<1>3. ASSUME NEW s \in Requests, NEW c \in Cases, StartExecute(s, c)
      PROVE  SafetyInv'
  <2> DEFINE r == [IdleRequest EXCEPT !.pc = "open", !.case = c,
                                      !.plan = row[c].plan]
  <2>1. row[c].plan \in approved[c]
    BY <1>1, <1>3, AuthorizedPlanApproved DEF StartExecute
  <2>2. /\ r.pc = "open" /\ r.case = c /\ r.plan = row[c].plan
        /\ Earned(c, r.snap)
    BY DEF IdleRequest, Earned, NewRow, NoApproval
  <2>3. /\ Park(s, r)
        /\ UNCHANGED <<invoice, approved, call, row, applied>>
    BY <1>3 DEF StartExecute, world, mcpVars
  <2>4. call[s].action \in PlannedActions => Justified(call[s].case, call[s].action)
    BY DEF SafetyInv, SlotSafe
  <2>5. \A t \in Requests : SlotSafe(t)'
    <3> HIDE DEF r
    <3> QED BY <2>1, <2>2, <2>3, <2>4, ParkSafe
  <2> QED BY <1>1, <2>3, <2>5, UnchangedGrows, EffectsStable
          DEF SafetyInv, EarnedRows, Earned
<1>4. ASSUME NEW s \in Requests, NEW c \in Cases, StartVerify(s, c)
      PROVE  SafetyInv'
  <2> DEFINE r == [IdleRequest EXCEPT !.pc = "crm", !.case = c, !.snap = row[c]]
  <2>1. /\ r.pc = "crm" /\ r.case = c /\ r.snap = row[c]
        /\ Earned(c, row[c])
    BY <1>1 DEF IdleRequest, EarnedRows
  <2>2. /\ Park(s, r)
        /\ UNCHANGED <<invoice, approved, call, row, applied>>
    BY <1>4 DEF StartVerify, world, mcpVars
  <2>3. call[s].action \in PlannedActions => Justified(call[s].case, call[s].action)
    BY DEF SafetyInv, SlotSafe
  <2>4. \A t \in Requests : SlotSafe(t)'
    <3> HIDE DEF r
    <3> QED BY <2>1, <2>2, <2>3, ParkSafe
  <2> QED BY <1>1, <2>2, <2>4, UnchangedGrows, EffectsStable
          DEF SafetyInv, EarnedRows, Earned
<1>5. ASSUME EarnedRows', \A t \in Requests : SlotSafe(t)',
             UNCHANGED <<world, applied, approved>>
      PROVE  SafetyInv'
  BY <1>1, <1>5, UnchangedGrows, EffectsStable DEF SafetyInv, world
<1>6. ASSUME NEW s \in Requests, SessionOpened(s) PROVE SafetyInv'
  <2>1. /\ row[req[s].case] \in Rows /\ req[s].case \in Cases
        /\ req[s].plan \in approved[req[s].case]
        /\ Earned(req[s].case, row[req[s].case])
    BY <1>1, <1>6, RequestType DEF SessionOpened, SafetyInv, SlotSafe, EarnedRows
  <2> QED BY <1>5, <1>6, <2>1, LoopSafe DEF SessionOpened
<1>7. ASSUME NEW s \in Requests, InvoiceReadBack(s) PROVE SafetyInv'
  <2> DEFINE r == req[s]
             rest == EarlierMatches(r.plan, r.probe)
  <2>1. /\ r \in RequestRecords /\ r.pc = "check" /\ ReadsBack(r, call[s])
        /\ r.plan \in approved[r.case] /\ Earned(r.case, r.snap)
        /\ r.at \in 1..Len(r.plan) /\ r.probe \in 1..Len(r.plan)
        /\ UNCHANGED <<world, applied, approved>>
        /\ UNCHANGED <<invoice, approved>>
    BY <1>1, <1>7, RequestType DEF InvoiceReadBack, SafetyInv, SlotSafe, world
  <2>2. CASE /\ call[s].pc = "paid" /\ Issue(s, Planned(s))
             /\ Park(s, [r EXCEPT !.pc = "write"]) /\ UNCHANGED row
    <3>1. /\ call'[s] = [pc |-> "billing", case |-> r.case, action |-> Planned(s)]
          /\ \A t \in Requests \ {s} : call'[t] = call[t]
      BY <1>1, <2>2, IssueCall
    <3>2. ApprovedFor(r.case, Planned(s)) /\ PaidFirst(r.case, Planned(s))
      BY <2>1, <2>2 DEF ReadsBack, ApprovedFor, PaidFirst, Planned
    <3>3. /\ [r EXCEPT !.pc = "write"].pc = "write"
          /\ [r EXCEPT !.pc = "write"].case = r.case
          /\ [r EXCEPT !.pc = "write"].snap = r.snap
          /\ [r EXCEPT !.pc = "write"].plan = r.plan
      BY <2>1 DEF RequestRecords
    <3>4. \A t \in Requests : SlotSafe(t)'
      <4> DEFINE r2 == [r EXCEPT !.pc = "write"]
      <4>1. Justified(call'[s].case, call'[s].action)
        BY <3>1, <3>2 DEF Justified
      <4>2. /\ r2.pc = "write" /\ Earned(r2.case, r2.snap)
            /\ r2.plan \in approved[r2.case]
        BY <2>1, <3>3
      <4>3. Park(s, r2) /\ UNCHANGED <<invoice, approved>>
        BY <2>1, <2>2
      <4> HIDE DEF r2
      <4> QED BY <3>1, <4>1, <4>2, <4>3, ParkSafe
    <3> QED BY <1>1, <1>5, <2>1, <2>2, <3>4 DEF EarnedRows, Earned
  <2>3. CASE /\ \E j \in rest : /\ Issue(s, GetInvoice(r.plan[j].invoice))
                                /\ Park(s, [r EXCEPT !.probe = j])
             /\ UNCHANGED row
    <3>1. PICK j \in rest : /\ Issue(s, GetInvoice(r.plan[j].invoice))
                            /\ Park(s, [r EXCEPT !.probe = j])
      BY <2>3
    <3>2. j \in Nat /\ j \in EarlierMatches(r.plan, r.at)
      BY <2>1 DEF EarlierMatches, ReadsBack
    <3> DEFINE moved == [r EXCEPT !.probe = j]
    <3>3. /\ moved.pc = "check" /\ moved.at = r.at /\ moved.plan = r.plan
          /\ moved.case = r.case /\ moved.snap = r.snap /\ moved.probe = j
      BY <2>1, <3>2, ProbeType
    <3>4. /\ call'[s] = [pc |-> "billing", case |-> r.case,
                         action |-> GetInvoice(r.plan[j].invoice)]
          /\ \A t \in Requests \ {s} : call'[t] = call[t]
      BY <1>1, <3>1, IssueCall
    <3>5. Park(s, moved)
      BY <3>1
    <3> HIDE DEF moved
    <3>6. ReadsBack(moved, call'[s])
      BY <2>1, <3>2, <3>3, <3>4 DEF ReadsBack
    <3>7. call'[s].action \notin PlannedActions
      BY <3>4 DEF GetInvoice, PlannedActions, MatchActions, HoldActions
    <3>8. \A t \in Requests : SlotSafe(t)'
      <4>1. /\ Earned(moved.case, moved.snap)
            /\ moved.plan \in approved[moved.case]
        BY <2>1, <3>3
      <4>2. \A t \in Requests \ {s} : call'[t] = call[t]
        BY <3>4
      <4>3. UNCHANGED <<invoice, approved>>
        BY <2>1
      <4> HIDE DEF r, rest
      <4> QED BY <3>5, <3>6, <3>7, <4>1, <4>2, <4>3, ParkSafe
    <3> QED BY <1>1, <1>5, <2>1, <2>3, <3>8 DEF EarnedRows, Earned
  <2>4. CASE FailAction(s) /\ UNCHANGED call
    BY <1>5, <2>1, <2>4, FailSafe
  <2> QED BY <1>7, <2>2, <2>3, <2>4 DEF InvoiceReadBack
<1>8. ASSUME NEW s \in Requests, ActionSucceeded(s) PROVE SafetyInv'
  <2> DEFINE rw == WithOutcome(req[s].snap, Planned(s), "SUCCESS")
  <2>1. /\ rw \in Rows /\ req[s].at + 1 \in Nat \ {0}
        /\ req[s].snap \in Rows
    BY <1>1, <1>8, RequestType, OutcomeType DEF ActionSucceeded
  <2>2. /\ req[s].plan \in approved[req[s].case]
        /\ Earned(req[s].case, rw)
    BY <1>8, <2>1, OutcomeEarned DEF ActionSucceeded, SafetyInv, SlotSafe
  <2>3. Loop(s, req[s].at + 1, rw) /\ UNCHANGED <<world, applied, approved>>
    BY <1>8 DEF ActionSucceeded
  <2> HIDE DEF rw
  <2> QED BY <1>5, <2>1, <2>2, <2>3, LoopSafe
<1>9. ASSUME NEW s \in Requests, ActionFailed(s) PROVE SafetyInv'
  BY <1>5, <1>9, FailSafe DEF ActionFailed, world
<1>10. ASSUME NEW s \in Requests, SessionClosed(s) PROVE SafetyInv'
  <2>1. /\ req[s].case \in Cases /\ row[req[s].case] \in Rows
        /\ Earned(req[s].case, row[req[s].case])
    BY <1>1, RequestType DEF EarnedRows
  <2>2. Earned(req[s].case, [row[req[s].case] EXCEPT !.stage = "VERIFYING"])
    BY <2>1 DEF Earned, Rows
  <2>3. EarnedRows'
    BY <1>1, <1>10, <2>1, <2>2, SaveEarned DEF SessionClosed
  <2> QED BY <1>5, <1>10, <2>3, FinishSafe DEF SessionClosed, world, mcpVars
<1>11. ASSUME NEW s \in Requests, CheckCrm(s) PROVE SafetyInv'
  <2>1. \/ /\ \E ok \in BOOLEAN : NextCheck(s, 0, ok)
           /\ UNCHANGED row
        \/ Verdict(s, FALSE)
    BY <1>11 DEF CheckCrm
  <2>2. EarnedRows' /\ \A t \in Requests : SlotSafe(t)'
    BY <1>1, <1>11, <2>1, NextCheckSafe, VerdictSafe
    DEF CheckCrm, world, EarnedRows, Earned
  <2> QED BY <1>5, <1>11, <2>2 DEF CheckCrm
<1>12. ASSUME NEW s \in Requests, CheckInvoice(s) PROVE SafetyInv'
  <2>1. \E k, ok : NextCheck(s, k, ok)
    BY <1>12 DEF CheckInvoice
  <2>2. EarnedRows' /\ \A t \in Requests : SlotSafe(t)'
    BY <1>1, <1>12, <2>1, NextCheckSafe DEF CheckInvoice, world, EarnedRows, Earned
  <2> QED BY <1>5, <1>12, <2>2 DEF CheckInvoice
<1>13. ASSUME NEW s \in Requests, CheckHold(s) PROVE SafetyInv'
  <2>1. \E ok : Verdict(s, ok)
    BY <1>13 DEF CheckHold
  <2>2. EarnedRows' /\ \A t \in Requests : SlotSafe(t)'
    BY <1>13, <2>1, VerdictSafe DEF CheckHold, world
  <2> QED BY <1>5, <1>13, <2>2 DEF CheckHold
<1>14. ASSUME NEW s \in Requests, Abort(s) PROVE SafetyInv'
  BY <1>1, <1>5, <1>14, FinishSafe DEF Abort, world, EarnedRows, Earned
<1>15. ASSUME Crash PROVE SafetyInv'
  <2>1. IdleRequest.pc = "idle" /\ Earned(IdleRequest.case, IdleRequest.snap)'
    BY DEF IdleRequest, Earned, NewRow, NoApproval
  <2>2. \A t \in Requests :
           (call[t].action \in PlannedActions =>
               Justified(call[t].case, call[t].action))'
    BY <1>15 DEF Crash, world, SafetyInv, SlotSafe, Justified, ApprovedFor,
       PaidFirst, EarlierMatches
  <2>3. \A t \in Requests : req'[t] = IdleRequest
    BY <1>15 DEF Crash
  <2> HIDE DEF IdleRequest
  <2>4. \A t \in Requests : SlotSafe(t)'
    BY <2>1, <2>2, <2>3 DEF SlotSafe
  <2> QED BY <1>1, <1>5, <1>15, <2>4 DEF Crash, EarnedRows, Earned
<1>16. ASSUME NEW s \in Requests, McpStep(s) PROVE SafetyInv'
  BY <1>1, <1>16, ToolSafe DEF SafetyInv
<1> QED BY <1>2, <1>3, <1>4, <1>6, <1>7, <1>8, <1>9, <1>10, <1>11, <1>12, <1>13,
        <1>14, <1>15, <1>16 DEF Next, Operator, HandlerStep

LEMMA SafetyStutter ==
    ASSUME SafetyInv, UNCHANGED vars PROVE SafetyInv'
<1>1. TypeInv /\ TypeInv' /\ Grows
  BY TypeInvStutter DEF SafetyInv, vars, world, Grows
<1>2. EarnedRows'
  BY DEF SafetyInv, EarnedRows, Earned, vars
<1>3. \A s \in Requests : SlotSafe(s)'
  BY <1>1, SlotStable DEF SafetyInv, vars, mcpVars
<1>4. EffectsJustified'
  BY <1>1, EffectsStable DEF SafetyInv, vars, mcpVars
<1> QED BY <1>1, <1>2, <1>3, <1>4 DEF SafetyInv

LEMMA SafetyInvariant == Spec => []SafetyInv
<1>1. SafetyInv /\ [Next]_vars => SafetyInv'
  BY SafetyStep, SafetyStutter
<1> QED BY SafetyInit, <1>1, PTL DEF Spec

\* No enterprise system is ever changed but by an action of a plan that a
\* human approved for that case, with any number of cases, plans, concurrent
\* requests, failed exchanges and crashes.
THEOREM ApprovedEffects == Spec => []OnlyApprovedEffects
<1>1. SafetyInv => OnlyApprovedEffects
  BY DEF SafetyInv, EffectsJustified, Justified, OnlyApprovedEffects
<1> QED BY SafetyInvariant, <1>1, PTL

\* A billing hold is lifted only once an earlier match of the approved plan
\* has made its invoice PAID, also by a tool that outlives its executor.
THEOREM HoldAfterPayment == Spec => []HoldLiftedOnlyAfterPayment
<1>1. SafetyInv => HoldLiftedOnlyAfterPayment
  BY DEF SafetyInv, EffectsJustified, Justified, HoldLiftedOnlyAfterPayment
<1> QED BY SafetyInvariant, <1>1, PTL

-----------------------------------------------------------------------------
(* The decision on a row: it is about the row's plan and not taken before   *)
(* its time, a row under review has a plan, and one that waits for the      *)
(* decision can be decided once reviewed.                                   *)

Undecided == {"NEW", "INVESTIGATING", "PLANNING", "REVIEW", "AWAITING_APPROVAL"}

SoundRow(rw) ==
    /\ rw.approval.decision \in {"APPROVED", "REJECTED"} =>
          rw.approval.digest = rw.plan /\ rw.stage \notin Undecided
    /\ rw.stage = "REVIEW" => rw.plan # NoPlan
    /\ rw.stage = "AWAITING_APPROVAL" =>
          /\ rw.plan # NoPlan
          /\ rw.approval = PendingApproval(rw.plan)
          /\ rw.review \in {"APPROVE", "NONE"}

SoundRows == \A c \in Cases : SoundRow(row[c])

SoundSnaps == \A s \in Requests : SoundRow(req[s].snap)

\* Executor and verifier close a row or leave its stage; the rest stays.
Edits(rw, new) ==
    /\ new.plan = rw.plan /\ new.approval = rw.approval /\ new.review = rw.review
    /\ new.stage \in {rw.stage, "FAILED", "VERIFYING", "RESOLVED"}

LEMMA EditSound ==
    ASSUME NEW rw, NEW new, SoundRow(rw), Edits(rw, new)
    PROVE  SoundRow(new)
  BY DEF SoundRow, Edits, Undecided

LEMMA OutcomeSound ==
    ASSUME NEW rw \in Rows, NEW a, NEW status, SoundRow(rw)
    PROVE  SoundRow(WithOutcome(rw, a, status)) /\ SoundRow(FailedRow(rw, a))
<1>1. Edits(rw, WithOutcome(rw, a, status)) /\ Edits(rw, FailedRow(rw, a))
  BY DEF Edits, WithOutcome, FailedRow, Rows
<1> QED BY <1>1, EditSound

LEMMA NewRowSound == SoundRow(NewRow)
  BY DEF SoundRow, NewRow, NoApproval

LEMMA SaveSound ==
    ASSUME TypeInv, SoundRows, NEW c \in Cases, NEW new, Save(c, new), SoundRow(new)
    PROVE  SoundRows'
<1>1. \A x \in Cases : row'[x] = new \/ row'[x] = row[x]
  BY DEF TypeInv, TypeOK, CaseRowTypeOK, Save
<1>2. \A x \in Cases : SoundRow(row'[x])
  BY <1>1 DEF SoundRows
<1> QED BY <1>2 DEF SoundRows, SoundRow

LEMMA ParkSound ==
    ASSUME TypeInv, SoundSnaps, NEW s \in Requests, NEW r, Park(s, r),
           SoundRow(r.snap)
    PROVE  SoundSnaps'
<1>1. \A x \in Requests : req'[x] = r \/ req'[x] = req[x]
  BY DEF TypeInv, TypeOK, Park
<1>2. \A x \in Requests : SoundRow(req'[x].snap)
  BY <1>1 DEF SoundSnaps
<1> QED BY <1>2 DEF SoundSnaps, SoundRow

LEMMA FinishSound ==
    ASSUME TypeInv, SoundSnaps, NEW s \in Requests, Finish(s)
    PROVE  SoundSnaps'
<1>1. IdleRequest.snap = NewRow
  BY DEF IdleRequest
<1> HIDE DEF IdleRequest
<1> QED BY <1>1, NewRowSound, ParkSound DEF Finish

LEMMA LoopSound ==
    ASSUME TypeInv, SoundRows, SoundSnaps, NEW s \in Requests, NEW k \in Nat \ {0},
           NEW rw \in Rows, SoundRow(rw), Loop(s, k, rw)
    PROVE  SoundRows' /\ SoundSnaps'
<1> DEFINE n == Resume(k, rw)
           c == req[s].case
<1>1. c \in Cases /\ req[s] \in RequestRecords
  BY RequestType
<1>2. \A pc : Suspend(s, pc, n, rw).snap = rw
  BY <1>1 DEF Suspend, RequestRecords
<1>3. \A pc, j : [Suspend(s, pc, n, rw) EXCEPT !.probe = j].snap = rw
  BY <1>1 DEF Suspend, RequestRecords
<1>4. Save(c, rw) => SoundRows'
  BY <1>1, SaveSound
<1>5. CASE EndOfPlan(s, n, rw)
  <2>1. Park(s, Suspend(s, "close", n, rw)) /\ Save(c, rw)
    BY <1>5 DEF EndOfPlan
  <2> QED BY <1>2, <1>4, <2>1, ParkSound
<1>6. CASE Validation(s, n, rw)
  BY <1>4, <1>6, FinishSound DEF Validation
<1>7. CASE CallMatch(s, n, rw)
  <2>1. Park(s, Suspend(s, "write", n, rw)) /\ Save(c, rw)
    BY <1>7 DEF CallMatch
  <2> QED BY <1>2, <1>4, <2>1, ParkSound
<1>8. CASE ReadBack(s, n, rw)
  <2>1. CASE Finish(s) /\ Save(c, FailedRow(rw, req[s].plan[n]))
    BY <1>1, <2>1, OutcomeSound, SaveSound, FinishSound
  <2>2. CASE \E j : /\ Park(s, [Suspend(s, "check", n, rw) EXCEPT !.probe = j])
                    /\ Save(c, rw)
    BY <1>3, <1>4, <2>2, ParkSound
  <2> QED BY <1>8, <2>1, <2>2 DEF ReadBack
<1> QED BY <1>5, <1>6, <1>7, <1>8 DEF Loop

LEMMA FailSound ==
    ASSUME TypeInv, SoundRows, SoundSnaps, NEW s \in Requests, FailAction(s)
    PROVE  SoundRows' /\ SoundSnaps'
<1>1. /\ req[s].case \in Cases /\ req[s].snap \in Rows /\ SoundRow(req[s].snap)
  BY RequestType DEF SoundSnaps
<1>2. SoundRow(FailedRow(req[s].snap, Planned(s)))
  BY <1>1, OutcomeSound
<1> QED BY <1>1, <1>2, SaveSound, FinishSound DEF FailAction

LEMMA VerdictSound ==
    ASSUME TypeInv, SoundRows, SoundSnaps, NEW s \in Requests, NEW ok, Verdict(s, ok)
    PROVE  SoundRows' /\ SoundSnaps'
<1> DEFINE new == [req[s].snap EXCEPT !.verified = IF ok THEN "PASSED" ELSE "FAILED",
                                      !.stage = IF ok THEN "RESOLVED" ELSE "FAILED"]
<1>1. /\ req[s].case \in Cases /\ req[s].snap \in Rows /\ SoundRow(req[s].snap)
  BY RequestType DEF SoundSnaps
<1>2. Edits(req[s].snap, new)
  BY <1>1 DEF Edits, Rows
<1>3. Save(req[s].case, new)
  BY DEF Verdict
<1> HIDE DEF new
<1>4. SoundRow(new)
  BY <1>1, <1>2, EditSound
<1> QED BY <1>1, <1>3, <1>4, SaveSound, FinishSound DEF Verdict

LEMMA NextCheckSound ==
    ASSUME TypeInv, SoundSnaps, NEW s \in Requests, NEW k, NEW ok, NextCheck(s, k, ok)
    PROVE  SoundSnaps'
<1> DEFINE mark == IF ok THEN "passed" ELSE "failed"
           r == [req[s] EXCEPT !.checks = mark]
<1>1. req[s] \in RequestRecords /\ SoundRow(req[s].snap)
  BY RequestType DEF SoundSnaps
<1>2. /\ [r EXCEPT !.pc = "hold"].snap = req[s].snap
      /\ \A j : [r EXCEPT !.pc = "invoices", !.at = j].snap = req[s].snap
  <2> HIDE DEF mark
  <2> QED BY <1>1 DEF RequestRecords
<1> HIDE DEF r
<1> QED BY <1>1, <1>2, ParkSound DEF NextCheck, r

LEMMA DecisionSound ==
    ASSUME NEW rw \in Rows, NEW d \in {"APPROVED", "REJECTED"}, Decidable(rw)
    PROVE  LET new == [rw EXCEPT !.approval.decision = d,
                                 !.stage = IF d = "APPROVED" THEN "EXECUTING"
                                           ELSE "ESCALATED"]
           IN  SoundRow(new) /\ new.approval.digest = rw.plan
<1> DEFINE new == [rw EXCEPT !.approval.decision = d,
                             !.stage = IF d = "APPROVED" THEN "EXECUTING"
                                       ELSE "ESCALATED"]
<1>1. rw.approval \in Approvals /\ rw.approval.digest = rw.plan
  BY DEF Rows, Decidable
<1>2. /\ new.plan = rw.plan /\ new.stage \in {"EXECUTING", "ESCALATED"}
      /\ new.approval = [rw.approval EXCEPT !.decision = d]
  BY DEF Rows
<1>3. new.approval.digest = rw.plan
  BY <1>1, <1>2 DEF Approvals
<1> HIDE DEF new
<1>4. SoundRow(new) /\ new.approval.digest = rw.plan
  BY <1>2, <1>3 DEF SoundRow, Undecided
<1> QED BY <1>4 DEF new

\* Every step of the backend leaves the rows and the snapshots sound.
LEMMA SoundStep ==
    ASSUME TypeInv, SoundRows, SoundSnaps, Next
    PROVE  SoundRows' /\ SoundSnaps'
<1>1. (row' = row => SoundRows') /\ (req' = req => SoundSnaps')
  BY DEF SoundRows, SoundSnaps, SoundRow
<1>2. ASSUME NEW c \in Cases, NEW d \in {"APPROVED", "REJECTED"}, Decide(c, d)
      PROVE  SoundRows' /\ SoundSnaps'
  <2>1. row[c] \in Rows
    BY DEF TypeInv, TypeOK, CaseRowTypeOK
  <2>2. SoundRows'
    BY <1>2, <2>1, DecisionSound, SaveSound DEF Decide
  <2> QED BY <1>1, <1>2, <2>2 DEF Decide
<1>3. ASSUME NEW s \in Requests, NEW c \in Cases,
             StartExecute(s, c) \/ StartVerify(s, c)
      PROVE  SoundRows' /\ SoundSnaps'
  <2>1. \E r : Park(s, r) /\ r.snap \in {NewRow, row[c]}
    <3>1. CASE StartExecute(s, c)
      <4> DEFINE r == [IdleRequest EXCEPT !.pc = "open", !.case = c,
                                          !.plan = row[c].plan]
      <4>1. r.snap = NewRow
        BY DEF IdleRequest
      <4>2. Park(s, r)
        BY <3>1 DEF StartExecute
      <4> QED BY <4>1, <4>2
    <3>2. CASE StartVerify(s, c)
      <4> DEFINE r == [IdleRequest EXCEPT !.pc = "crm", !.case = c, !.snap = row[c]]
      <4>1. r.snap = row[c]
        BY DEF IdleRequest
      <4>2. Park(s, r)
        BY <3>2 DEF StartVerify
      <4> QED BY <4>1, <4>2
    <3> QED BY <1>3, <3>1, <3>2
  <2>2. SoundSnaps'
    BY <2>1, NewRowSound, ParkSound DEF SoundRows
  <2> QED BY <1>1, <1>3, <2>2 DEF StartExecute, StartVerify
<1>4. ASSUME NEW s \in Requests, SessionOpened(s)
      PROVE  SoundRows' /\ SoundSnaps'
  BY <1>4, RequestType, LoopSound DEF SessionOpened, SoundRows
<1>5. ASSUME NEW s \in Requests, InvoiceReadBack(s)
      PROVE  SoundRows' /\ SoundSnaps'
  <2>1. req[s] \in RequestRecords /\ SoundRow(req[s].snap)
    BY RequestType DEF SoundSnaps
  <2>2. /\ [req[s] EXCEPT !.pc = "write"].snap = req[s].snap
        /\ \A j : [req[s] EXCEPT !.probe = j].snap = req[s].snap
    BY <2>1 DEF RequestRecords
  <2>3. \/ Park(s, [req[s] EXCEPT !.pc = "write"]) /\ UNCHANGED row
        \/ (\E j : Park(s, [req[s] EXCEPT !.probe = j])) /\ UNCHANGED row
        \/ FailAction(s)
    BY <1>5 DEF InvoiceReadBack
  <2> QED BY <1>1, <2>1, <2>2, <2>3, ParkSound, FailSound
<1>6. ASSUME NEW s \in Requests, ActionSucceeded(s)
      PROVE  SoundRows' /\ SoundSnaps'
  <2> DEFINE rw == WithOutcome(req[s].snap, Planned(s), "SUCCESS")
  <2>1. /\ rw \in Rows /\ req[s].at + 1 \in Nat \ {0} /\ SoundRow(rw)
    BY <1>6, RequestType, OutcomeType, OutcomeSound DEF ActionSucceeded, SoundSnaps
  <2>2. Loop(s, req[s].at + 1, rw)
    BY <1>6 DEF ActionSucceeded
  <2> HIDE DEF rw
  <2> QED BY <2>1, <2>2, LoopSound
<1>7. ASSUME NEW s \in Requests, ActionFailed(s)
      PROVE  SoundRows' /\ SoundSnaps'
  BY <1>7, FailSound DEF ActionFailed
<1>8. ASSUME NEW s \in Requests, SessionClosed(s)
      PROVE  SoundRows' /\ SoundSnaps'
  <2> DEFINE c == req[s].case
             new == [row[c] EXCEPT !.stage = "VERIFYING"]
  <2>1. c \in Cases /\ row[c] \in Rows /\ SoundRow(row[c])
    BY RequestType DEF SoundRows
  <2>2. Edits(row[c], new)
    BY <2>1 DEF Edits, Rows
  <2>3. Save(c, new) /\ Finish(s)
    BY <1>8 DEF SessionClosed
  <2> HIDE DEF new
  <2> QED BY <2>1, <2>2, <2>3, EditSound, SaveSound, FinishSound
<1>9. ASSUME NEW s \in Requests, CheckCrm(s) \/ CheckInvoice(s) \/ CheckHold(s)
      PROVE  SoundRows' /\ SoundSnaps'
  <2>1. \/ (\E k, ok : NextCheck(s, k, ok)) /\ UNCHANGED row
        \/ \E ok : Verdict(s, ok)
    BY <1>9 DEF CheckCrm, CheckInvoice, CheckHold
  <2> QED BY <1>1, <2>1, NextCheckSound, VerdictSound
<1>10. ASSUME NEW s \in Requests, Abort(s) \/ McpStep(s)
       PROVE  SoundRows' /\ SoundSnaps'
  BY <1>1, <1>10, FinishSound DEF Abort, McpStep
<1>11. CASE Crash
  <2>1. IdleRequest.snap = NewRow
    BY DEF IdleRequest
  <2> HIDE DEF IdleRequest
  <2>2. \A s \in Requests : SoundRow(req'[s].snap)
    BY <1>11, <2>1, NewRowSound DEF Crash
  <2> QED BY <1>1, <1>11, <2>2 DEF Crash, SoundSnaps, SoundRow
<1> QED BY <1>2, <1>3, <1>4, <1>5, <1>6, <1>7, <1>8, <1>9, <1>10, <1>11
        DEF Next, Operator, HandlerStep
-----------------------------------------------------------------------------
(* The same for what CaseWorkflow makes of a step: a turn of the loop, a    *)
(* pause before one, and rows that others have replaced.                    *)

BackendInv == SafetyInv /\ SoundRows /\ SoundSnaps

\* Idle slots and sound rows are a good place to start.
LEMMA BackendStart ==
    ASSUME EnterpriseInit, McpInit, CaseRowTypeOK, EarnedRows, SoundRows,
           req = [s \in Requests |-> IdleRequest],
           approved = [c \in Cases |-> {}]
    PROVE  BackendInv
<1>1. EnterpriseTypeOK
  BY EnterpriseAssumption DEF EnterpriseInit, EnterpriseTypeOK, Worlds
<1>2. McpTypeOK
  BY SomeCaseType, McpAssumption DEF McpInit, McpTypeOK, Calls, Effects
<1>3. TypeInv
  BY <1>1, <1>2, IdleType DEF TypeInv, TypeOK, PositionsInPlan, InPlan,
     IdleRequest, SecondHalves, McpInit
<1>4. \A s \in Requests : SlotSafe(s) /\ SoundRow(req[s].snap)
  <2>1. NoAction \notin PlannedActions
    BY DEF NoAction, PlannedActions, MatchActions, HoldActions
  <2>2. /\ IdleRequest.pc = "idle" /\ IdleRequest.snap = NewRow
        /\ Earned(IdleRequest.case, IdleRequest.snap)
    BY DEF IdleRequest, Earned, NewRow, NoApproval
  <2>3. \A s \in Requests : req[s] = IdleRequest /\ call[s].action = NoAction
    BY DEF McpInit
  <2> HIDE DEF IdleRequest, NoAction
  <2> QED BY <2>1, <2>2, <2>3, NewRowSound DEF SlotSafe
<1>5. EffectsJustified
  BY DEF McpInit, EffectsJustified
<1> QED BY <1>3, <1>4, <1>5 DEF BackendInv, SafetyInv, SoundSnaps

LEMMA BackendStep ==
    ASSUME BackendInv, [Next]_vars PROVE BackendInv'
<1>1. CASE Next
  BY <1>1, SafetyStep, SoundStep DEF BackendInv, SafetyInv
<1>2. CASE UNCHANGED vars
  BY <1>2, SafetyStutter DEF BackendInv, SoundRows, SoundSnaps, SoundRow, vars
<1> QED BY <1>1, <1>2

LEMMA TurnKept ==
    ASSUME BackendInv, UNCHANGED <<world, applied, faults, approved>>,
           NEW s \in Requests, req[s].pc \in Executing,
           NEW k \in Nat \ {0}, NEW rw \in Rows, Loop(s, k, rw),
           Earned(req[s].case, rw), SoundRow(rw)
    PROVE  BackendInv'
<1>1. /\ SafetyInv /\ TypeInv /\ EffectsJustified /\ SoundRows /\ SoundSnaps
      /\ SlotSafe(s)
  BY DEF BackendInv, SafetyInv
<1>2. EarnedRows' /\ \A t \in Requests : SlotSafe(t)'
  BY <1>1, LoopSafe DEF SlotSafe
<1>3. TypeInv'
  <2>1. /\ CaseRowTypeOK' /\ req' \in [Requests -> RequestRecords]
        /\ PositionsInPlan' /\ call' \in [Requests -> Calls] /\ SecondHalves'
    BY <1>1, LoopType
  <2> QED BY <1>1, <2>1 DEF TypeInv, TypeOK, EnterpriseTypeOK, McpTypeOK, world
<1>4. EffectsJustified'
  BY <1>1, UnchangedGrows, EffectsStable DEF world
<1>5. SoundRows' /\ SoundSnaps'
  BY <1>1, LoopSound
<1> QED BY <1>2, <1>3, <1>4, <1>5 DEF BackendInv, SafetyInv

LEMMA PauseKept ==
    ASSUME BackendInv, UNCHANGED <<world, mcpVars, approved>>,
           NEW s \in Requests, req[s].pc \in Executing,
           NEW r \in RequestRecords, Park(s, r), r.pc = "turn",
           r.case = req[s].case, r.plan = req[s].plan, r.snap = req[s].snap,
           NEW rw \in Rows, Earned(req[s].case, rw), SoundRow(rw),
           UNCHANGED row \/ Save(req[s].case, rw)
    PROVE  BackendInv'
<1>1. /\ SafetyInv /\ TypeInv /\ EffectsJustified /\ SoundRows /\ SoundSnaps
      /\ SlotSafe(s) /\ EarnedRows /\ UNCHANGED <<invoice, approved, call>>
  BY DEF BackendInv, SafetyInv, world, mcpVars
<1>2. req[s].case \in Cases
  BY <1>1, RequestType
<1>3. \A t \in Requests : SlotSafe(t)'
  BY <1>1, ParkSafe DEF SlotSafe
<1>4. EarnedRows' /\ SoundRows' /\ CaseRowTypeOK'
  <2>1. CASE UNCHANGED row
    BY <1>1, <2>1 DEF EarnedRows, Earned, SoundRows, SoundRow, TypeInv, TypeOK,
       CaseRowTypeOK
  <2>2. CASE Save(req[s].case, rw)
    BY <1>1, <1>2, <2>2, SaveEarned, SaveSound, SaveType DEF TypeInv, TypeOK
  <2> QED BY <2>1, <2>2
<1>5. req' \in [Requests -> RequestRecords] /\ PositionsInPlan'
  BY <1>1, ParkType DEF InPlan, TypeInv, TypeOK
<1>6. TypeInv'
  BY <1>1, <1>4, <1>5 DEF TypeInv, TypeOK, EnterpriseTypeOK, McpTypeOK, world,
     mcpVars, SecondHalves
<1>7. EffectsJustified'
  BY <1>1, UnchangedGrows, EffectsStable DEF mcpVars
<1>8. SoundSnaps'
  BY <1>1, ParkSound DEF SoundSnaps
<1> QED BY <1>3, <1>4, <1>6, <1>7, <1>8 DEF BackendInv, SafetyInv

LEMMA ReplacedKept ==
    ASSUME BackendInv, UNCHANGED <<world, call, applied, approved>>,
           faults' \in 0..MaxFaults,
           row' \in [Cases -> Rows],
           \A c \in Cases : Earned(c, row'[c]) /\ SoundRow(row'[c]),
           req' = req \/ req' = [s \in Requests |-> IdleRequest]
    PROVE  BackendInv'
<1>1. /\ SafetyInv /\ TypeInv /\ EffectsJustified /\ SoundSnaps
      /\ \A s \in Requests : SlotSafe(s)
  BY DEF BackendInv, SafetyInv
<1>2. EarnedRows' /\ SoundRows'
  BY DEF EarnedRows, Earned, SoundRows, SoundRow
<1>3. Grows /\ EffectsJustified'
  BY <1>1, UnchangedGrows, EffectsStable DEF world
<1>4. CASE req' = req
  <2>1. TypeInv'
    BY <1>1, <1>4 DEF TypeInv, TypeOK, EnterpriseTypeOK, McpTypeOK, CaseRowTypeOK,
       world, PositionsInPlan, SecondHalves
  <2>2. \A s \in Requests : SlotSafe(s)'
    BY <1>1, <1>3, <1>4, SlotStable
  <2> QED BY <1>1, <1>2, <1>3, <1>4, <2>1, <2>2
          DEF BackendInv, SafetyInv, SoundSnaps, SoundRow
<1>5. CASE req' = [s \in Requests |-> IdleRequest]
  <2>1. req' \in [Requests -> RequestRecords] /\ PositionsInPlan'
    BY <1>5, IdleType DEF PositionsInPlan, InPlan, IdleRequest
  <2>2. TypeInv'
    BY <1>1, <2>1 DEF TypeInv, TypeOK, EnterpriseTypeOK, McpTypeOK, CaseRowTypeOK,
       world, SecondHalves
  <2>3. /\ IdleRequest.pc = "idle" /\ IdleRequest.snap = NewRow
        /\ Earned(IdleRequest.case, IdleRequest.snap)'
    BY DEF IdleRequest, Earned, NewRow, NoApproval
  <2>4. \A t \in Requests :
           (call[t].action \in PlannedActions =>
               Justified(call[t].case, call[t].action))'
    BY <1>1 DEF world, SlotSafe, Justified, ApprovedFor, PaidFirst, EarlierMatches
  <2>5. \A t \in Requests : req'[t] = IdleRequest
    BY <1>5
  <2> HIDE DEF IdleRequest
  <2>6. \A t \in Requests : SlotSafe(t)'
    BY <2>3, <2>4, <2>5 DEF SlotSafe
  <2>7. \A t \in Requests : SoundRow(req'[t].snap)
    BY <2>3, <2>5, NewRowSound
  <2> QED BY <1>2, <1>3, <2>2, <2>6, <2>7
          DEF BackendInv, SafetyInv, SoundSnaps, SoundRow
<1> QED BY <1>4, <1>5

\* Approvals are never taken back.
LEMMA ApprovedGrows ==
    ASSUME TypeInv, [Next]_vars
    PROVE  \A c \in Cases : approved[c] \subseteq approved'[c]
<1>1. approved \in [Cases -> SUBSET Plans]
  BY DEF TypeInv, TypeOK
<1>2. ASSUME NEW c \in Cases, NEW d, Decide(c, d)
      PROVE  \A x \in Cases : approved[x] \subseteq approved'[x]
  BY <1>1, <1>2 DEF Decide
<1>3. \/ \E c \in Cases, d \in {"APPROVED", "REJECTED"} : Decide(c, d)
      \/ UNCHANGED approved
  BY DEF Next, vars, Operator, StartExecute, StartVerify, HandlerStep, McpStep, Crash,
     SessionOpened, InvoiceReadBack, ActionSucceeded, ActionFailed, SessionClosed,
     CheckCrm, CheckInvoice, CheckHold, Abort
<1> QED BY <1>2, <1>3
-----------------------------------------------------------------------------
(* What rows say of the enterprise systems: what they record as matched is  *)
(* PAID, and a RESOLVED case is restored.  It needs neither the plan of the *)
(* case nor the history of effects, so it survives rows that others have    *)
(* replaced, as in CaseWorkflow.                                            *)

PaidRow(rw) ==
    \A k \in 1..Len(rw.executed) :
        MatchSucceeded(rw.executed[k]) =>
            invoice[rw.executed[k].action.invoice] = "PAID"

CustomerFreed(c) ==
    /\ account[CustomerOf[c]] = "ACTIVE"
    /\ hold[CustomerOf[c]] # "ACTIVE"

Resolved(c, rw) ==
    rw.stage = "RESOLVED" => CustomerFreed(c) /\ Matched(rw) # {}

Confirmed(c, rw) == PaidRow(rw) /\ Resolved(c, rw)

CallConfirmed(t) ==
    t.pc = "ok" /\ t.action.tool = "match_payment" =>
        invoice[t.action.invoice] = "PAID"

\* The snapshot to be saved is confirmed, a write waits for the action of its
\* position, and checks that have passed stay passed.
SlotConfirmed(r, t) ==
    /\ Confirmed(r.case, r.snap)
    /\ r.pc = "write" => t.action = r.plan[r.at]
    /\ r.pc \in {"invoices", "hold"} /\ r.checks = "passed" =>
          account[CustomerOf[r.case]] = "ACTIVE" /\ Matched(r.snap) # {}
    /\ CallConfirmed(t)

ConfirmedRows == \A c \in Cases : Confirmed(c, row[c])

ConfirmedSlots == \A s \in Requests : SlotConfirmed(req[s], call[s])

\* What the enterprise systems never take back.
Lasting ==
    /\ \A i \in Invoices : invoice[i] = "PAID" => invoice'[i] = "PAID"
    /\ \A x \in Customers : account[x] = "ACTIVE" => account'[x] = "ACTIVE"
    /\ \A x \in Customers : hold[x] # "ACTIVE" => hold'[x] # "ACTIVE"

LEMMA ConfirmedLasts ==
    ASSUME Lasting, NEW c \in Cases, NEW rw \in Rows, Confirmed(c, rw)
    PROVE  Confirmed(c, rw)'
<1>1. CustomerOf[c] \in Customers
  BY DomainAssumption DEF DomainAssumption
<1>2. \A k \in 1..Len(rw.executed) :
         MatchSucceeded(rw.executed[k]) => rw.executed[k].action.invoice \in Invoices
  <2>1. rw.executed \in Seq(ExecutedActions)
    BY DEF Rows
  <2>2. \A k \in 1..Len(rw.executed) : rw.executed[k] \in ExecutedActions
    BY <2>1
  <2> QED BY <2>2 DEF MatchSucceeded, ExecutedActions, PlannedActions, MatchActions,
          HoldActions
<1>3. PaidRow(rw)'
  BY <1>2 DEF Lasting, Confirmed, PaidRow, MatchSucceeded
<1>4. Resolved(c, rw)'
  BY <1>1 DEF Lasting, Confirmed, Resolved, CustomerFreed, Matched, MatchSucceeded
<1> QED BY <1>3, <1>4 DEF Confirmed

LEMMA SlotLasts ==
    ASSUME Lasting, NEW r \in RequestRecords, NEW t \in Calls, SlotConfirmed(r, t)
    PROVE  SlotConfirmed(r, t)'
<1>1. /\ r.case \in Cases /\ r.snap \in Rows /\ CustomerOf[r.case] \in Customers
      /\ t.action.tool = "match_payment" => t.action.invoice \in Invoices
  BY DomainAssumption DEF DomainAssumption, RequestRecords, Calls, PlannedActions,
     MatchActions, HoldActions, Reads, NoAction
<1>2. Confirmed(r.case, r.snap)'
  BY <1>1, ConfirmedLasts DEF SlotConfirmed
<1>3. CallConfirmed(t)'
  BY <1>1 DEF Lasting, SlotConfirmed, CallConfirmed
<1> QED BY <1>1, <1>2, <1>3 DEF SlotConfirmed, Lasting, Matched, MatchSucceeded

LEMMA NewRowConfirmed == \A c : Confirmed(c, NewRow)
  BY DEF Confirmed, PaidRow, Resolved, NewRow

\* Steps that leave the systems alone.
LEMMA StillRows ==
    ASSUME UNCHANGED world, \A c \in Cases : Confirmed(c, row'[c])
    PROVE  ConfirmedRows'
<1> SUFFICES ASSUME NEW c \in Cases PROVE Confirmed(c, row[c])'
  BY DEF ConfirmedRows
<1>1. PICK rw : rw = row'[c]
  OBVIOUS
<1>2. Confirmed(c, rw)
  BY <1>1
<1>3. Confirmed(c, rw)'
  BY <1>2 DEF world, Confirmed, PaidRow, Resolved, CustomerFreed
<1> QED BY <1>1, <1>3 DEF Confirmed, PaidRow, Resolved, CustomerFreed

LEMMA StillSlots ==
    ASSUME UNCHANGED world, \A s \in Requests : SlotConfirmed(req'[s], call'[s])
    PROVE  ConfirmedSlots'
<1> SUFFICES ASSUME NEW s \in Requests PROVE SlotConfirmed(req[s], call[s])'
  BY DEF ConfirmedSlots
<1>1. PICK r, t : r = req'[s] /\ t = call'[s]
  OBVIOUS
<1>2. SlotConfirmed(r, t)
  BY <1>1
<1>3. SlotConfirmed(r, t)'
  BY <1>2 DEF world, SlotConfirmed, CallConfirmed, Confirmed, PaidRow, Resolved,
     CustomerFreed
<1> QED BY <1>1, <1>3 DEF SlotConfirmed, CallConfirmed, Confirmed, PaidRow, Resolved,
        CustomerFreed

LEMMA SaveConfirmed ==
    ASSUME TypeInv, UNCHANGED world, ConfirmedRows, NEW c \in Cases, NEW new,
           Save(c, new), Confirmed(c, new)
    PROVE  ConfirmedRows'
<1>1. \A x \in Cases : (x = c /\ row'[x] = new) \/ row'[x] = row[x]
  BY DEF TypeInv, TypeOK, CaseRowTypeOK, Save
<1>2. \A x \in Cases : Confirmed(x, row'[x])
  BY <1>1 DEF ConfirmedRows
<1> QED BY <1>2, StillRows

LEMMA ParkConfirmed ==
    ASSUME TypeInv, UNCHANGED world, ConfirmedSlots, NEW s \in Requests, NEW r,
           Park(s, r), \A t \in Requests \ {s} : call'[t] = call[t],
           SlotConfirmed(r, call'[s])
    PROVE  ConfirmedSlots'
<1>1. \A x \in Requests :
         (x = s /\ req'[x] = r) \/ (req'[x] = req[x] /\ call'[x] = call[x])
  BY DEF TypeInv, TypeOK, Park
<1>2. \A x \in Requests : SlotConfirmed(req'[x], call'[x])
  BY <1>1 DEF ConfirmedSlots
<1> QED BY <1>2, StillSlots

LEMMA FinishConfirmed ==
    ASSUME TypeInv, UNCHANGED <<world, call>>, ConfirmedSlots, NEW s \in Requests,
           Finish(s)
    PROVE  ConfirmedSlots'
<1>1. IdleRequest.snap = NewRow /\ IdleRequest.pc = "idle"
  BY DEF IdleRequest
<1> HIDE DEF IdleRequest
<1>2. SlotConfirmed(IdleRequest, call'[s])
  BY <1>1, NewRowConfirmed DEF ConfirmedSlots, SlotConfirmed
<1> QED BY <1>2, ParkConfirmed DEF Finish, world

LEMMA IssueConfirmed ==
    ASSUME TypeInv, NEW s \in Requests, NEW a, Issue(s, a)
    PROVE  /\ call'[s].action = a /\ CallConfirmed(call'[s])
           /\ \A t \in Requests \ {s} : call'[t] = call[t]
  BY DEF TypeInv, TypeOK, McpTypeOK, Issue, CallConfirmed

\* A record of a success that has paid its invoice, or of a failure.
LEMMA OutcomeConfirmed ==
    ASSUME NEW c \in Cases, NEW rw \in Rows, Confirmed(c, rw),
           NEW a \in PlannedActions, NEW status \in {"SUCCESS", "FAILED"},
           status = "SUCCESS" /\ a.tool = "match_payment" =>
               invoice[a.invoice] = "PAID"
    PROVE  Confirmed(c, WithOutcome(rw, a, status)) /\ Confirmed(c, FailedRow(rw, a))
<1> DEFINE x == [action |-> a, status |-> status]
           y == [action |-> a, status |-> "FAILED"]
           n == Len(rw.executed)
           done == WithOutcome(rw, a, status)
           failed == FailedRow(rw, a)
<1>1. /\ n \in Nat /\ rw.executed \in Seq(ExecutedActions)
      /\ x \in ExecutedActions /\ y \in ExecutedActions
  BY DEF Rows, ExecutedActions
<1>2. /\ done.stage = rw.stage /\ done.executed = Append(rw.executed, x)
      /\ failed.stage = "FAILED" /\ failed.executed = Append(rw.executed, y)
  BY DEF WithOutcome, FailedRow, Rows
<1>3. ASSUME NEW z \in ExecutedActions
      PROVE  /\ Len(Append(rw.executed, z)) = n + 1
             /\ \A k \in 1..n : Append(rw.executed, z)[k] = rw.executed[k]
             /\ Append(rw.executed, z)[n + 1] = z
             /\ \A k \in 1..(n + 1) : k \in 1..n \/ k = n + 1
  BY <1>1
<1>4. x.action = a /\ x.status = status /\ y.action = a /\ y.status = "FAILED"
  OBVIOUS
<1> HIDE DEF x, y, n, done, failed
<1>5. PaidRow(done)
  BY <1>1, <1>2, <1>3, <1>4 DEF Confirmed, PaidRow, MatchSucceeded, n
<1>6. PaidRow(failed)
  BY <1>1, <1>2, <1>3, <1>4 DEF Confirmed, PaidRow, MatchSucceeded, n
<1>7. Matched(rw) \subseteq Matched(done)
  <2>1. \A k \in Matched(rw) :
           k \in 1..n /\ k \in 1..(n + 1) /\ \A j \in 1..(k - 1) : j \in 1..n
    BY <1>1 DEF Matched, n
  <2> QED BY <1>1, <1>2, <1>3, <2>1 DEF Matched
<1> QED BY <1>2, <1>5, <1>6, <1>7 DEF Confirmed, Resolved, done, failed


LEMMA LoopConfirmed ==
    ASSUME TypeInv, UNCHANGED world, ConfirmedRows, ConfirmedSlots,
           NEW s \in Requests, NEW k \in Nat \ {0}, NEW rw \in Rows,
           Confirmed(req[s].case, rw), Loop(s, k, rw)
    PROVE  ConfirmedRows' /\ ConfirmedSlots'
<1> DEFINE n == Resume(k, rw)
           c == req[s].case
           plan == req[s].plan
<1>1. /\ c \in Cases /\ req[s] \in RequestRecords /\ plan \in Plans \cup {NoPlan}
      /\ CallConfirmed(call[s])
  BY RequestType DEF ConfirmedSlots, SlotConfirmed
<1>2. \A pc, j : LET r == Suspend(s, pc, n, rw)
                     p == [r EXCEPT !.probe = j]
                 IN  /\ r.pc = pc /\ r.at = n /\ r.snap = rw
                     /\ r.case = c /\ r.plan = plan
                     /\ p.pc = pc /\ p.snap = rw /\ p.case = c
  BY <1>1 DEF Suspend, RequestRecords
<1>3. Save(c, rw) => ConfirmedRows'
  BY <1>1, SaveConfirmed
<1> HIDE DEF n
<1>4. CASE EndOfPlan(s, n, rw)
  <2> DEFINE r == Suspend(s, "close", n, rw)
  <2>1. r.pc = "close" /\ r.snap = rw /\ r.case = c
    BY <1>2
  <2>2. Park(s, r) /\ UNCHANGED call /\ ConfirmedRows'
    BY <1>3, <1>4 DEF EndOfPlan
  <2> HIDE DEF r
  <2>3. SlotConfirmed(r, call'[s])
    BY <1>1, <2>1, <2>2 DEF SlotConfirmed
  <2> QED BY <2>2, <2>3, ParkConfirmed
<1>5. CASE Validation(s, n, rw)
  BY <1>3, <1>5, FinishConfirmed DEF Validation
<1>6. CASE CallMatch(s, n, rw)
  <2> DEFINE r == Suspend(s, "write", n, rw)
  <2>1. r.pc = "write" /\ r.snap = rw /\ r.case = c /\ r.at = n /\ r.plan = plan
    BY <1>2
  <2>2. Park(s, r) /\ Issue(s, plan[n]) /\ ConfirmedRows'
    BY <1>3, <1>6 DEF CallMatch
  <2> HIDE DEF r
  <2>3. /\ call'[s].action = plan[n] /\ CallConfirmed(call'[s])
        /\ \A t \in Requests \ {s} : call'[t] = call[t]
    BY <2>2, IssueConfirmed
  <2>4. SlotConfirmed(r, call'[s])
    BY <2>1, <2>3 DEF SlotConfirmed
  <2> QED BY <2>2, <2>3, <2>4, ParkConfirmed
<1>7. CASE ReadBack(s, n, rw)
  <2>1. CASE Finish(s) /\ Save(c, FailedRow(rw, plan[n])) /\ UNCHANGED call
    <3>1. n \in 1..Len(plan)
      <4>1. n \in Nat \ {0}
        BY DEF n, Resume, Rows
      <4> QED BY <1>1, <1>7, <4>1, PlanType DEF ReadBack
    <3>2. plan[n] \in PlannedActions
      BY <1>1, <3>1, PlanType
    <3>3. Confirmed(c, FailedRow(rw, plan[n]))
      <4> HIDE DEF plan, c
      <4>1. "FAILED" \in {"SUCCESS", "FAILED"} /\ Confirmed(c, rw)
        BY DEF c
      <4> QED BY <1>1, <3>2, <4>1, OutcomeConfirmed
    <3> QED BY <1>1, <2>1, <3>3, SaveConfirmed, FinishConfirmed
  <2>2. CASE \E j : /\ Park(s, [Suspend(s, "check", n, rw) EXCEPT !.probe = j])
                    /\ Save(c, rw) /\ \E a : Issue(s, a)
    <3>1. PICK j, a : /\ Park(s, [Suspend(s, "check", n, rw) EXCEPT !.probe = j])
                      /\ Save(c, rw) /\ Issue(s, a)
      BY <2>2
    <3> DEFINE r == [Suspend(s, "check", n, rw) EXCEPT !.probe = j]
    <3>2. r.pc = "check" /\ r.snap = rw /\ r.case = c
      BY <1>2
    <3>3. Park(s, r)
      BY <3>1
    <3> HIDE DEF r
    <3>4. CallConfirmed(call'[s]) /\ \A t \in Requests \ {s} : call'[t] = call[t]
      BY <3>1, IssueConfirmed
    <3>5. SlotConfirmed(r, call'[s])
      BY <3>2, <3>4 DEF SlotConfirmed
    <3> QED BY <1>3, <3>1, <3>3, <3>4, <3>5, ParkConfirmed
  <2> QED BY <1>7, <2>1, <2>2 DEF ReadBack
<1> QED BY <1>4, <1>5, <1>6, <1>7 DEF Loop, n

LEMMA FailConfirmed ==
    ASSUME TypeInv, UNCHANGED <<world, call>>, ConfirmedRows, ConfirmedSlots,
           NEW s \in Requests, req[s].pc \in {"check", "write"}, FailAction(s)
    PROVE  ConfirmedRows' /\ ConfirmedSlots'
<1>1. /\ req[s].case \in Cases /\ req[s].snap \in Rows
      /\ Planned(s) \in PlannedActions /\ Confirmed(req[s].case, req[s].snap)
  BY RequestType DEF ConfirmedSlots, SlotConfirmed
<1>2. \A a \in PlannedActions, c \in Cases, rw \in Rows :
         Confirmed(c, rw) => Confirmed(c, FailedRow(rw, a))
  <2>1. "FAILED" \in {"SUCCESS", "FAILED"}
    OBVIOUS
  <2> QED BY <2>1, OutcomeConfirmed
<1>3. Confirmed(req[s].case, FailedRow(req[s].snap, Planned(s)))
  BY <1>1, <1>2
<1> QED BY <1>1, <1>3, SaveConfirmed, FinishConfirmed DEF FailAction

LEMMA VerdictConfirmed ==
    ASSUME TypeInv, UNCHANGED <<world, call>>, ConfirmedRows, ConfirmedSlots,
           NEW s \in Requests, NEW ok \in BOOLEAN, Verdict(s, ok),
           ok => CustomerFreed(req[s].case) /\ Matched(req[s].snap) # {}
    PROVE  ConfirmedRows' /\ ConfirmedSlots'
<1> DEFINE rw == req[s].snap
           new == [rw EXCEPT !.verified = IF ok THEN "PASSED" ELSE "FAILED",
                             !.stage = IF ok THEN "RESOLVED" ELSE "FAILED"]
<1>1. req[s].case \in Cases /\ rw \in Rows /\ Confirmed(req[s].case, rw)
  BY RequestType DEF ConfirmedSlots, SlotConfirmed
<1>2. new.executed = rw.executed /\ (new.stage = "RESOLVED" => ok)
  BY <1>1 DEF Rows
<1>3. Save(req[s].case, new) /\ Finish(s)
  BY DEF Verdict
<1> HIDE DEF new
<1>4. Confirmed(req[s].case, new)
  BY <1>1, <1>2 DEF Confirmed, PaidRow, Resolved, Matched
<1> QED BY <1>1, <1>3, <1>4, SaveConfirmed, FinishConfirmed

LEMMA NextCheckConfirmed ==
    ASSUME TypeInv, UNCHANGED <<world, call>>, ConfirmedSlots,
           NEW s \in Requests, NEW k, NEW ok \in BOOLEAN, NextCheck(s, k, ok),
           ok => /\ account[CustomerOf[req[s].case]] = "ACTIVE"
                 /\ Matched(req[s].snap) # {}
    PROVE  ConfirmedSlots'
<1> DEFINE mark == IF ok THEN "passed" ELSE "failed"
           r == [req[s] EXCEPT !.checks = mark]
<1>1. /\ req[s] \in RequestRecords /\ CallConfirmed(call[s])
      /\ Confirmed(req[s].case, req[s].snap)
  BY RequestType DEF ConfirmedSlots, SlotConfirmed
<1>2. mark = "passed" => ok
  OBVIOUS
<1> HIDE DEF mark
<1>3. PICK x : /\ Park(s, x) /\ x.pc \in {"hold", "invoices"}
               /\ x.case = req[s].case /\ x.snap = req[s].snap /\ x.checks = mark
  <2>1. LET h == [r EXCEPT !.pc = "hold"]
        IN  /\ h.pc = "hold" /\ h.case = req[s].case
            /\ h.snap = req[s].snap /\ h.checks = mark
    BY <1>1 DEF RequestRecords
  <2>2. \A j : LET i == [r EXCEPT !.pc = "invoices", !.at = j]
               IN  /\ i.pc = "invoices" /\ i.case = req[s].case
                   /\ i.snap = req[s].snap /\ i.checks = mark
    BY <1>1 DEF RequestRecords
  <2>3. \/ Park(s, [r EXCEPT !.pc = "hold"])
        \/ \E j : Park(s, [r EXCEPT !.pc = "invoices", !.at = j])
    BY DEF NextCheck, mark
  <2> HIDE DEF r
  <2> QED BY <2>1, <2>2, <2>3
<1>4. SlotConfirmed(x, call'[s])
  BY <1>1, <1>2, <1>3 DEF SlotConfirmed
<1> QED BY <1>3, <1>4, ParkConfirmed

\* A tool: nothing is taken back, and "ok" for a match is earned by billing.
LEMMA ToolLasts ==
    ASSUME TypeInv, NEW s \in Requests, McpStep(s)
    PROVE  /\ Lasting
           /\ \A t \in Requests \ {s} : call'[t] = call[t]
           /\ call'[s].action = call[s].action
           /\ call'[s].pc = "ok" /\ call[s].action.tool = "match_payment" =>
                 invoice'[call[s].action.invoice] = "PAID"
<1> DEFINE a == call[s].action
           cust == CustomerOf[call[s].case]
<1>1. /\ EnterpriseTypeOK /\ McpTypeOK /\ cust \in Customers /\ call[s] \in Calls
      /\ a.tool = "match_payment" => a.invoice \in Invoices
      /\ a.tool = "remove_account_hold" => a.tool # "match_payment"
      /\ call[s].pc = "crm" => a \in HoldActions
  BY CallType DEF TypeInv, TypeOK, SecondHalves, MatchActions
<1>2. \A r : Reply(s, r) => /\ call'[s].action = a /\ call'[s].pc = r
                            /\ \A t \in Requests \ {s} : call'[t] = call[t]
  BY <1>1 DEF Reply, McpTypeOK, Calls
<1>3. UNCHANGED world => Lasting
  BY DEF world, Lasting
<1>4. CASE Refused(s)
  BY <1>2, <1>3, <1>4 DEF Refused
<1>5. CASE MatchPayment(s)
  <2>1. CASE BillingMatchPayment(a.payment, a.invoice) /\ \E r : Reply(s, r)
    <3>1. Lasting /\ invoice'[a.invoice] = "PAID"
      BY <1>1, <1>5, <2>1
      DEF MatchPayment, BillingMatchPayment, EnterpriseTypeOK, Lasting
    <3> QED BY <1>2, <2>1, <3>1
  <2> QED BY <1>4, <1>5, <2>1 DEF MatchPayment
<1>6. CASE RemoveAccountHold(s)
  <2>1. CASE BillingRemoveAccountHold(cust) /\ \E r : Reply(s, r)
    <3>1. Lasting
      BY <1>1, <2>1 DEF BillingRemoveAccountHold, EnterpriseTypeOK, Lasting
    <3> QED BY <1>1, <1>2, <1>6, <2>1, <3>1 DEF RemoveAccountHold
  <2> QED BY <1>4, <1>6, <2>1 DEF RemoveAccountHold
<1>7. CASE RestoreAccount(s)
  <2>1. CASE CrmRestoreAccount(cust) /\ \E r : Reply(s, r)
    <3>1. Lasting
      BY <1>1, <2>1 DEF CrmRestoreAccount, EnterpriseTypeOK, Lasting
    <3>2. a.tool # "match_payment"
      BY <1>1, <1>7 DEF RestoreAccount, HoldActions
    <3> QED BY <1>2, <2>1, <3>1, <3>2
  <2> QED BY <1>4, <1>7, <2>1 DEF RestoreAccount
<1>8. CASE LookupInvoice(s)
  <2>1. a.tool # "match_payment" /\ UNCHANGED world /\ \E r : Reply(s, r)
    BY <1>8 DEF LookupInvoice
  <2> QED BY <1>2, <1>3, <2>1
<1> QED BY <1>5, <1>6, <1>7, <1>8 DEF McpStep, ToolStep

LEMMA ToolConfirmed ==
    ASSUME TypeInv, ConfirmedRows, ConfirmedSlots, NEW s \in Requests, McpStep(s)
    PROVE  ConfirmedRows' /\ ConfirmedSlots'
<1>1. /\ Lasting /\ UNCHANGED <<row, req>>
      /\ \A t \in Requests \ {s} : call'[t] = call[t]
      /\ call'[s].action = call[s].action
      /\ call'[s].pc = "ok" /\ call[s].action.tool = "match_payment" =>
             invoice'[call[s].action.invoice] = "PAID"
  BY ToolLasts DEF McpStep
<1>2. /\ \A c \in Cases : row[c] \in Rows
      /\ \A t \in Requests : req[t] \in RequestRecords /\ call[t] \in Calls
  BY DEF TypeInv, TypeOK, CaseRowTypeOK, McpTypeOK
<1>3. \A c \in Cases, rw \in Rows : Confirmed(c, rw) => Confirmed(c, rw)'
  BY <1>1, ConfirmedLasts
<1>4. \A r \in RequestRecords, t \in Calls : SlotConfirmed(r, t) => SlotConfirmed(r, t)'
  BY <1>1, SlotLasts
<1>5. ConfirmedRows'
  BY <1>1, <1>2, <1>3 DEF ConfirmedRows, Confirmed, PaidRow, Resolved, CustomerFreed
<1>6. \A t \in Requests : SlotConfirmed(req[t], call[t])'
  <2>1. \A t \in Requests : SlotConfirmed(req[t], call[t])
    BY DEF ConfirmedSlots
  <2>2. ASSUME NEW t \in Requests \ {s} PROVE SlotConfirmed(req[t], call[t])'
    <3>1. PICK r \in RequestRecords, a \in Calls :
             r = req[t] /\ r = req'[t] /\ a = call[t] /\ a = call'[t]
      BY <1>1, <1>2
    <3>2. SlotConfirmed(r, a)'
      BY <1>4, <2>1, <3>1
    <3> QED BY <3>1, <3>2 DEF SlotConfirmed, CallConfirmed, Confirmed, PaidRow,
            Resolved, CustomerFreed
  <2>3. SlotConfirmed(req[s], call[s])'
    <3>1. SlotConfirmed(req[s], call[s])
      BY <2>1
    <3>2. Confirmed(req[s].case, req[s].snap)'
      <4>1. req[s].case \in Cases /\ req[s].snap \in Rows
        BY <1>2 DEF RequestRecords
      <4>2. PICK c \in Cases, rw \in Rows :
               /\ c = req[s].case /\ c = req'[s].case
               /\ rw = req[s].snap /\ rw = req'[s].snap
        BY <1>1, <4>1
      <4>3. Confirmed(c, rw)'
        BY <1>3, <3>1, <4>2 DEF SlotConfirmed
      <4> QED BY <4>2, <4>3 DEF Confirmed, PaidRow, Resolved, CustomerFreed
    <3>3. CallConfirmed(call[s])'
      BY <1>1 DEF CallConfirmed
    <3>4. CustomerOf[req[s].case] \in Customers
      BY <1>2, DomainAssumption DEF DomainAssumption, RequestRecords
    <3> QED BY <1>1, <3>1, <3>2, <3>3, <3>4 DEF SlotConfirmed, Lasting
  <2> QED BY <2>2, <2>3
<1> QED BY <1>5, <1>6 DEF ConfirmedSlots

\* The tool has answered a write: its success may be recorded.
LEMMA SuccessConfirmed ==
    ASSUME TypeInv, ConfirmedSlots, NEW s \in Requests,
           req[s].pc = "write", call[s].pc = "ok"
    PROVE  LET rw == WithOutcome(req[s].snap, Planned(s), "SUCCESS")
           IN  rw \in Rows /\ req[s].at + 1 \in Nat \ {0} /\ Confirmed(req[s].case, rw)
<1>1. /\ req[s].snap \in Rows /\ req[s].case \in Cases /\ Planned(s) \in PlannedActions
      /\ req[s].at \in Nat
      /\ Confirmed(req[s].case, req[s].snap)
      /\ Planned(s).tool = "match_payment" => invoice[Planned(s).invoice] = "PAID"
  BY RequestType DEF ConfirmedSlots, SlotConfirmed, CallConfirmed, Planned
<1>2. "SUCCESS" \in {"SUCCESS", "FAILED"}
  OBVIOUS
<1>3. WithOutcome(req[s].snap, Planned(s), "SUCCESS") \in Rows
  BY <1>1, <1>2, OutcomeType
<1>4. \A a \in PlannedActions, c \in Cases, rw \in Rows :
         Confirmed(c, rw) /\ (a.tool = "match_payment" => invoice[a.invoice] = "PAID")
            => Confirmed(c, WithOutcome(rw, a, "SUCCESS"))
  BY <1>2, OutcomeConfirmed
<1> QED BY <1>1, <1>3, <1>4

\* Rows that others have replaced by confirmed ones, and a backend that died.
LEMMA ReplacedConfirmed ==
    ASSUME ConfirmedSlots, UNCHANGED <<world, call>>,
           \A c \in Cases : Confirmed(c, row'[c]),
           req' = req \/ req' = [s \in Requests |-> IdleRequest]
    PROVE  ConfirmedRows' /\ ConfirmedSlots'
<1>1. IdleRequest.snap = NewRow /\ IdleRequest.pc = "idle"
  BY DEF IdleRequest
<1>2. \A s \in Requests : req'[s] = req[s] \/ req'[s] = IdleRequest
  OBVIOUS
<1> HIDE DEF IdleRequest
<1>3. \A s \in Requests : SlotConfirmed(req'[s], call'[s])
  BY <1>1, <1>2, NewRowConfirmed DEF ConfirmedSlots, SlotConfirmed
<1> QED BY <1>3, StillRows, StillSlots DEF ConfirmedRows

\* Every step of the backend and of the tools leaves rows and slots confirmed.
LEMMA ConfirmedStep ==
    ASSUME TypeInv, ConfirmedRows, ConfirmedSlots, Next
    PROVE  ConfirmedRows' /\ ConfirmedSlots'
<1>1. /\ (UNCHANGED <<world, row>> => ConfirmedRows')
      /\ (UNCHANGED <<world, call, req>> => ConfirmedSlots')
  BY StillRows, StillSlots DEF ConfirmedRows, ConfirmedSlots
<1>2. ASSUME NEW c \in Cases, NEW d \in {"APPROVED", "REJECTED"}, Decide(c, d)
      PROVE  ConfirmedRows' /\ ConfirmedSlots'
  <2> DEFINE new == [row[c] EXCEPT !.approval.decision = d,
                                   !.stage = IF d = "APPROVED" THEN "EXECUTING"
                                             ELSE "ESCALATED"]
  <2>1. row[c] \in Rows /\ Confirmed(c, row[c])
    BY DEF TypeInv, TypeOK, CaseRowTypeOK, ConfirmedRows
  <2>2. Save(c, new) /\ UNCHANGED <<world, call, req>>
    BY <1>2 DEF Decide, mcpVars
  <2>3. new.executed = row[c].executed /\ new.stage # "RESOLVED"
    BY <2>1 DEF Rows
  <2> HIDE DEF new
  <2>4. Confirmed(c, new)
    BY <2>1, <2>3 DEF Confirmed, PaidRow, Resolved
  <2> QED BY <1>1, <2>2, <2>4, SaveConfirmed
<1>3. ASSUME NEW s \in Requests, NEW c \in Cases,
             StartExecute(s, c) \/ StartVerify(s, c)
      PROVE  ConfirmedRows' /\ ConfirmedSlots'
  <2>1. PICK r : /\ Park(s, r) /\ r.case = c /\ r.pc \in {"open", "crm"}
                 /\ r.snap \in {NewRow, row[c]}
    <3>1. CASE StartExecute(s, c)
      <4> DEFINE r == [IdleRequest EXCEPT !.pc = "open", !.case = c,
                                          !.plan = row[c].plan]
      <4>1. r.snap = NewRow /\ r.case = c /\ r.pc = "open"
        BY DEF IdleRequest
      <4>2. Park(s, r)
        BY <3>1 DEF StartExecute
      <4> HIDE DEF r
      <4> QED BY <4>1, <4>2
    <3>2. CASE StartVerify(s, c)
      <4> DEFINE r == [IdleRequest EXCEPT !.pc = "crm", !.case = c, !.snap = row[c]]
      <4>1. r.snap = row[c] /\ r.case = c /\ r.pc = "crm"
        BY DEF IdleRequest
      <4>2. Park(s, r)
        BY <3>2 DEF StartVerify
      <4> HIDE DEF r
      <4> QED BY <4>1, <4>2
    <3> QED BY <1>3, <3>1, <3>2
  <2>2. UNCHANGED <<world, call, row>>
    BY <1>3 DEF StartExecute, StartVerify, mcpVars
  <2>3. SlotConfirmed(r, call'[s])
    BY <2>1, <2>2, NewRowConfirmed DEF ConfirmedRows, ConfirmedSlots, SlotConfirmed
  <2> QED BY <1>1, <2>1, <2>2, <2>3, ParkConfirmed
<1>4. ASSUME NEW s \in Requests, SessionOpened(s)
      PROVE  ConfirmedRows' /\ ConfirmedSlots'
  <2>1. /\ row[req[s].case] \in Rows /\ Confirmed(req[s].case, row[req[s].case])
        /\ 1 \in Nat \ {0}
    BY RequestType DEF ConfirmedRows
  <2>2. Loop(s, 1, row[req[s].case]) /\ UNCHANGED world
    BY <1>4 DEF SessionOpened
  <2> QED BY <2>1, <2>2, LoopConfirmed
<1>5. ASSUME NEW s \in Requests, InvoiceReadBack(s)
      PROVE  ConfirmedRows' /\ ConfirmedSlots'
  <2> DEFINE r == [req[s] EXCEPT !.pc = "write"]
             p(j) == [req[s] EXCEPT !.probe = j]
  <2>1. req[s] \in RequestRecords /\ Confirmed(req[s].case, req[s].snap)
    BY RequestType DEF ConfirmedSlots, SlotConfirmed
  <2>2. /\ r.pc = "write" /\ r.case = req[s].case /\ r.snap = req[s].snap
        /\ r.plan[r.at] = Planned(s)
        /\ \A j : p(j).pc = req[s].pc /\ p(j).case = req[s].case /\ p(j).snap = req[s].snap
    BY <2>1 DEF RequestRecords, Planned
  <2>3. /\ req[s].pc = "check" /\ UNCHANGED world
        /\ \/ Issue(s, Planned(s)) /\ Park(s, r) /\ UNCHANGED row
           \/ (\E j, a : Issue(s, a) /\ Park(s, p(j))) /\ UNCHANGED row
           \/ FailAction(s) /\ UNCHANGED call
    BY <1>5 DEF InvoiceReadBack
  <2> HIDE DEF r, p
  <2>4. CASE Issue(s, Planned(s)) /\ Park(s, r) /\ UNCHANGED row
    <3>1. /\ call'[s].action = Planned(s) /\ CallConfirmed(call'[s])
          /\ \A t \in Requests \ {s} : call'[t] = call[t]
      BY <2>4, IssueConfirmed
    <3>2. SlotConfirmed(r, call'[s])
      BY <2>1, <2>2, <3>1 DEF SlotConfirmed
    <3> QED BY <1>1, <2>3, <2>4, <3>1, <3>2, ParkConfirmed
  <2>5. CASE (\E j, a : Issue(s, a) /\ Park(s, p(j))) /\ UNCHANGED row
    <3>1. PICK j, a : Issue(s, a) /\ Park(s, p(j))
      BY <2>5
    <3>2. CallConfirmed(call'[s]) /\ \A t \in Requests \ {s} : call'[t] = call[t]
      BY <3>1, IssueConfirmed
    <3>3. SlotConfirmed(p(j), call'[s])
      BY <2>1, <2>2, <2>3, <3>2 DEF SlotConfirmed
    <3> QED BY <1>1, <2>3, <2>5, <3>1, <3>2, <3>3, ParkConfirmed
  <2> QED BY <2>3, <2>4, <2>5, FailConfirmed
<1>6. ASSUME NEW s \in Requests, ActionSucceeded(s)
      PROVE  ConfirmedRows' /\ ConfirmedSlots'
  <2> DEFINE rw == WithOutcome(req[s].snap, Planned(s), "SUCCESS")
  <2>1. rw \in Rows /\ req[s].at + 1 \in Nat \ {0} /\ Confirmed(req[s].case, rw)
    BY <1>6, SuccessConfirmed DEF ActionSucceeded
  <2>2. Loop(s, req[s].at + 1, rw) /\ UNCHANGED world
    BY <1>6 DEF ActionSucceeded
  <2> HIDE DEF rw
  <2> QED BY <2>1, <2>2, LoopConfirmed
<1>7. ASSUME NEW s \in Requests, ActionFailed(s)
      PROVE  ConfirmedRows' /\ ConfirmedSlots'
  BY <1>7, FailConfirmed DEF ActionFailed
<1>8. ASSUME NEW s \in Requests, SessionClosed(s)
      PROVE  ConfirmedRows' /\ ConfirmedSlots'
  <2> DEFINE c == req[s].case
             new == [row[c] EXCEPT !.stage = "VERIFYING"]
  <2>1. c \in Cases /\ row[c] \in Rows /\ Confirmed(c, row[c])
    BY RequestType DEF ConfirmedRows
  <2>2. new.executed = row[c].executed /\ new.stage # "RESOLVED"
    BY <2>1 DEF Rows
  <2>3. Save(c, new) /\ Finish(s) /\ UNCHANGED <<world, call>>
    BY <1>8 DEF SessionClosed, mcpVars
  <2> HIDE DEF new
  <2>4. Confirmed(c, new)
    BY <2>1, <2>2 DEF Confirmed, PaidRow, Resolved
  <2> QED BY <2>1, <2>3, <2>4, SaveConfirmed, FinishConfirmed
<1>9. ASSUME NEW s \in Requests, CheckCrm(s)
      PROVE  ConfirmedRows' /\ ConfirmedSlots'
  <2> DEFINE ok == /\ account[CustomerOf[req[s].case]] = "ACTIVE"
                   /\ Matched(req[s].snap) # {}
  <2>1. /\ UNCHANGED <<world, call>>
        /\ (NextCheck(s, 0, ok) /\ UNCHANGED row) \/ Verdict(s, FALSE)
    BY <1>9 DEF CheckCrm
  <2>2. CASE NextCheck(s, 0, ok) /\ UNCHANGED row
    <3>1. ok \in BOOLEAN
      OBVIOUS
    <3> QED BY <1>1, <2>1, <2>2, <3>1, NextCheckConfirmed
  <2>3. CASE Verdict(s, FALSE)
    BY <2>1, <2>3, VerdictConfirmed
  <2> QED BY <2>1, <2>2, <2>3
<1>10. ASSUME NEW s \in Requests, CheckInvoice(s)
       PROVE  ConfirmedRows' /\ ConfirmedSlots'
  <2> DEFINE i == req[s].snap.executed[req[s].at].action.invoice
             ok(works) == /\ req[s].checks = "passed" /\ works
                          /\ InvoiceFound(CustomerOf[req[s].case], i)
                          /\ invoice[i] = "PAID"
  <2>1. req[s].pc = "invoices" /\ UNCHANGED <<world, call, row>>
    BY <1>10 DEF CheckInvoice
  <2>2. PICK works \in BOOLEAN : NextCheck(s, req[s].at, ok(works))
    BY <1>10 DEF CheckInvoice
  <2>3. ok(works) => /\ account[CustomerOf[req[s].case]] = "ACTIVE"
                     /\ Matched(req[s].snap) # {}
    BY <2>1 DEF ConfirmedSlots, SlotConfirmed
  <2>4. ok(works) \in BOOLEAN
    OBVIOUS
  <2> HIDE DEF ok
  <2> QED BY <1>1, <2>1, <2>2, <2>3, <2>4, NextCheckConfirmed
<1>11. ASSUME NEW s \in Requests, CheckHold(s)
       PROVE  ConfirmedRows' /\ ConfirmedSlots'
  <2> DEFINE ok(works) == /\ req[s].checks = "passed" /\ works
                          /\ hold[CustomerOf[req[s].case]] # "ACTIVE"
  <2>1. req[s].pc = "hold" /\ UNCHANGED <<world, call>>
    BY <1>11 DEF CheckHold
  <2>2. PICK works \in BOOLEAN : Verdict(s, ok(works))
    BY <1>11 DEF CheckHold
  <2>3. ok(works) => CustomerFreed(req[s].case) /\ Matched(req[s].snap) # {}
    BY <2>1 DEF ConfirmedSlots, SlotConfirmed, CustomerFreed
  <2>4. ok(works) \in BOOLEAN
    OBVIOUS
  <2> HIDE DEF ok
  <2> QED BY <2>1, <2>2, <2>3, <2>4, VerdictConfirmed
<1>12. ASSUME NEW s \in Requests, Abort(s)
       PROVE  ConfirmedRows' /\ ConfirmedSlots'
  BY <1>1, <1>12, FinishConfirmed DEF Abort
<1>13. CASE Crash
  <2>1. /\ UNCHANGED <<world, call, row>>
        /\ req' = [s \in Requests |-> IdleRequest]
    BY <1>13 DEF Crash
  <2> QED BY <2>1, ReplacedConfirmed DEF ConfirmedRows
<1> QED BY <1>2, <1>3, <1>4, <1>5, <1>6, <1>7, <1>8, <1>9, <1>10, <1>11, <1>12,
        <1>13, ToolConfirmed DEF Next, Operator, HandlerStep

\* The pause before a turn of the loop, as CaseWorkflow has it.
LEMMA PauseConfirmed ==
    ASSUME TypeInv, ConfirmedRows, ConfirmedSlots, UNCHANGED <<world, call>>,
           NEW s \in Requests, NEW r, Park(s, r), r.pc = "turn",
           r.case = req[s].case, r.snap = req[s].snap,
           NEW rw, Confirmed(req[s].case, rw),
           UNCHANGED row \/ Save(req[s].case, rw)
    PROVE  ConfirmedRows' /\ ConfirmedSlots'
<1>1. req[s].case \in Cases /\ SlotConfirmed(req[s], call[s])
  BY RequestType DEF ConfirmedSlots
<1>2. SlotConfirmed(r, call'[s])
  BY <1>1 DEF SlotConfirmed
<1>3. ConfirmedSlots'
  BY <1>2, ParkConfirmed
<1>4. ConfirmedRows'
  BY <1>1, StillRows, SaveConfirmed DEF ConfirmedRows
<1> QED BY <1>3, <1>4

LEMMA NextLasts ==
    ASSUME TypeInv, Next
    PROVE  Lasting
<1>1. ASSUME NEW s \in Requests, McpStep(s) PROVE Lasting
  BY <1>1, ToolLasts
<1>2. (\E s \in Requests : McpStep(s)) \/ UNCHANGED world
  BY DEF Next, Operator, Decide, StartExecute, StartVerify, HandlerStep, Crash,
     SessionOpened, InvoiceReadBack, ActionSucceeded, ActionFailed, SessionClosed,
     CheckCrm, CheckInvoice, CheckHold, Abort
<1>3. UNCHANGED world => Lasting
  BY DEF world, Lasting
<1> QED BY <1>1, <1>2, <1>3

LEMMA SameExecutedConfirmed ==
    \A c, old, new :
        /\ Confirmed(c, old) /\ new.executed = old.executed
        /\ new.stage # "RESOLVED"
        => Confirmed(c, new)
  BY DEF Confirmed, PaidRow, Resolved

-----------------------------------------------------------------------------
(* Rows are written back from snapshots, so whatever holds of the row must  *)
(* hold of every snapshot a coroutine may still save, and the record of an  *)
(* action must be tied to the tool call that earns it.                      *)

Effect(c, a, system) == [case |-> c, action |-> a, system |-> system]

\* The action changed every system it writes to.
Reached(c, a) ==
    /\ Effect(c, a, "billing") \in applied
    /\ IsHoldRemoval(a) => Effect(c, a, "crm") \in applied

Recorded(c, rw) ==
    \A k \in 1..Len(rw.executed) :
        rw.executed[k].status = "SUCCESS" => Reached(c, rw.executed[k].action)

LinesUp(rw) ==
    /\ Len(rw.executed) <= Len(rw.plan)
    /\ \A k \in 1..Len(rw.executed) : rw.executed[k].action = rw.plan[k]

RowTrue(c, rw) == Recorded(c, rw) /\ LinesUp(rw) /\ Resolved(c, rw)

\* A coroutine works on the plan of its case; the snapshot it will save is
\* true; its position is the first one without a record; the tool it waits
\* for carries out that position; and a passed check stays passed.
CoroutineTrue(r, t) ==
    /\ r.pc \in Executing => r.plan = row[r.case].plan
    /\ r.pc \in {"check", "write"} \cup Verifying =>
          RowTrue(r.case, r.snap) /\ r.snap.plan = row[r.case].plan
    /\ r.pc \in {"check", "write"} => r.at = Len(r.snap.executed) + 1
    /\ r.pc = "write" => t.case = r.case /\ t.action = r.plan[r.at]
    /\ r.pc \in {"invoices", "hold"} /\ r.checks = "passed" =>
          account[CustomerOf[r.case]] = "ACTIVE" /\ Matched(r.snap) # {}

CallTrue(t) ==
    /\ t.pc = "crm" => Effect(t.case, t.action, "billing") \in applied
    /\ t.pc = "ok" => Reached(t.case, t.action)

MatchesPaid ==
    \A e \in applied :
        e.action.tool = "match_payment" => invoice[e.action.invoice] = "PAID"

RowsTrue == \A c \in Cases : RowTrue(c, row[c])

SlotsTrue == \A s \in Requests : CoroutineTrue(req[s], call[s]) /\ CallTrue(call[s])

RecordInv ==
    /\ TypeInv
    /\ RowsTrue
    /\ SlotsTrue
    /\ MatchesPaid
    /\ RestoredOnlyAfterHoldRemoval

-----------------------------------------------------------------------------
(* What never goes back: effects stay, a restored account stays ACTIVE, a   *)
(* lifted hold is not set again, and the plan of a case is not replaced.    *)

Onward ==
    /\ applied \subseteq applied'
    /\ \A x \in Customers : account[x] = "ACTIVE" => account'[x] = "ACTIVE"
    /\ \A x \in Customers : hold[x] # "ACTIVE" => hold'[x] # "ACTIVE"
    /\ \A c \in Cases : row'[c].plan = row[c].plan

LEMMA ReachedOnward ==
    ASSUME Onward, NEW c, NEW a, Reached(c, a) PROVE Reached(c, a)'
  BY DEF Onward, Reached

LEMMA RowTrueOnward ==
    ASSUME Onward, NEW c \in Cases, NEW rw, RowTrue(c, rw)
    PROVE  RowTrue(c, rw)'
<1>1. Recorded(c, rw)'
  BY ReachedOnward DEF RowTrue, Recorded
<1>2. LinesUp(rw)'
  BY DEF RowTrue, LinesUp
<1>3. Resolved(c, rw)'
  <2>1. CustomerOf[c] \in Customers
    BY DomainAssumption
  <2>2. CustomerFreed(c) => CustomerFreed(c)'
    BY <2>1 DEF Onward, CustomerFreed
  <2> QED BY <2>2 DEF RowTrue, Resolved, Matched
<1> QED BY <1>1, <1>2, <1>3 DEF RowTrue

LEMMA CallOnward ==
    ASSUME Onward, NEW t, CallTrue(t) PROVE CallTrue(t)'
  BY ReachedOnward DEF Onward, CallTrue

LEMMA CoroutineOnward ==
    ASSUME Onward, NEW r \in RequestRecords, NEW t, CoroutineTrue(r, t)
    PROVE  CoroutineTrue(r, t)'
<1>1. r.case \in Cases /\ CustomerOf[r.case] \in Customers
  BY DomainAssumption DEF RequestRecords
<1>2. row'[r.case].plan = row[r.case].plan
  BY <1>1 DEF Onward
<1>3. RowTrue(r.case, r.snap) => RowTrue(r.case, r.snap)'
  BY <1>1, RowTrueOnward
<1>4. account[CustomerOf[r.case]] = "ACTIVE" => account'[CustomerOf[r.case]] = "ACTIVE"
  BY <1>1 DEF Onward
<1> QED BY <1>2, <1>3, <1>4 DEF CoroutineTrue, Matched

\* The slots of the other requests.
LEMMA OthersOnward ==
    ASSUME RecordInv, Onward, NEW s \in Requests,
           req'[s] = req[s], call'[s] = call[s]
    PROVE  (CoroutineTrue(req[s], call[s]) /\ CallTrue(call[s]))'
<1> DEFINE r == req[s]
           t == call[s]
<1>1. r \in RequestRecords /\ CoroutineTrue(r, t) /\ CallTrue(t)
  BY RequestType DEF RecordInv, SlotsTrue
<1>2. \A y : \A x \in RequestRecords :
         CoroutineTrue(x, y) => CoroutineTrue(x, y)'
  BY CoroutineOnward
<1>3. \A y : CallTrue(y) => CallTrue(y)'
  BY CallOnward
<1> QED BY <1>1, <1>2, <1>3 DEF CoroutineTrue, CallTrue

-----------------------------------------------------------------------------
(* The pieces steps are made of. *)

LEMMA RowFields ==
    ASSUME NEW rw \in Rows
    PROVE  /\ Len(rw.executed) \in Nat /\ Len(rw.plan) \in Nat
           /\ \A k \in 1..Len(rw.executed) : rw.executed[k] \in ExecutedActions
           /\ rw.plan \in Plans \cup {NoPlan}
<1>1. rw.executed \in Seq(ExecutedActions) /\ rw.plan \in Plans \cup {NoPlan}
  BY DEF Rows
<1> QED BY <1>1, PlanType

\* A record for the first position without one keeps the row true.
LEMMA OutcomeTrue ==
    ASSUME NEW c \in Cases, NEW rw \in Rows, RowTrue(c, rw),
           NEW a \in PlannedActions, NEW status \in {"SUCCESS", "FAILED"},
           Len(rw.executed) + 1 <= Len(rw.plan),
           a = rw.plan[Len(rw.executed) + 1],
           status = "SUCCESS" => Reached(c, a)
    PROVE  /\ RowTrue(c, WithOutcome(rw, a, status))
           /\ WithOutcome(rw, a, status).plan = rw.plan
           /\ Len(WithOutcome(rw, a, status).executed) = Len(rw.executed) + 1
<1> DEFINE new == WithOutcome(rw, a, status)
           n == Len(rw.executed)
<1>1. /\ n \in Nat /\ Len(rw.plan) \in Nat /\ rw.executed \in Seq(ExecutedActions)
      /\ \A k \in 1..n : rw.executed[k] \in ExecutedActions
  BY RowFields DEF Rows
<1>2. /\ new.plan = rw.plan /\ new.stage = rw.stage
      /\ new.executed = Append(rw.executed, [action |-> a, status |-> status])
  BY DEF WithOutcome, Rows
<1>3. /\ Len(new.executed) = n + 1
      /\ \A k \in 1..n : new.executed[k] = rw.executed[k]
      /\ new.executed[n + 1] = [action |-> a, status |-> status]
  BY <1>1, <1>2 DEF ExecutedActions
<1>4. new.executed[n + 1].action = a /\ new.executed[n + 1].status = status
  BY <1>3
<1>5. \A k \in 1..(n + 1) : k \in 1..n \/ k = n + 1
  BY <1>1
<1> HIDE DEF new
<1>6. Recorded(c, new)
  BY <1>3, <1>4, <1>5 DEF RowTrue, Recorded
<1>7. LinesUp(new)
  BY <1>1, <1>2, <1>3, <1>4, <1>5 DEF RowTrue, LinesUp
<1>8. Matched(rw) \subseteq Matched(new)
  <2>1. \A k \in Matched(rw) : k \in 1..n /\ k \in 1..(n + 1) /\ \A j \in 1..(k - 1) : j \in 1..n
    BY <1>1 DEF Matched
  <2> QED BY <1>3, <2>1 DEF Matched
<1>9. Resolved(c, new)
  BY <1>2, <1>8 DEF RowTrue, Resolved
<1> QED BY <1>2, <1>3, <1>6, <1>7, <1>9 DEF RowTrue, new

\* So does a failure, which also takes the case to FAILED.
LEMMA FailureTrue ==
    ASSUME NEW c \in Cases, NEW rw \in Rows, RowTrue(c, rw),
           NEW a \in PlannedActions,
           Len(rw.executed) + 1 <= Len(rw.plan),
           a = rw.plan[Len(rw.executed) + 1]
    PROVE  RowTrue(c, FailedRow(rw, a)) /\ FailedRow(rw, a).plan = rw.plan
<1> DEFINE new == WithOutcome(rw, a, "FAILED")
<1>1. /\ RowTrue(c, new) /\ new.plan = rw.plan /\ new \in Rows
  BY OutcomeTrue, OutcomeType
<1>2. /\ FailedRow(rw, a).executed = new.executed
      /\ FailedRow(rw, a).plan = new.plan
      /\ FailedRow(rw, a).stage = "FAILED"
  BY <1>1 DEF FailedRow, Rows
<1> QED BY <1>1, <1>2 DEF RowTrue, Recorded, LinesUp, Resolved

\* Saving a true row with the plan the case has.
LEMMA SaveTrue ==
    ASSUME RecordInv, UNCHANGED <<world, applied>>, NEW c \in Cases, NEW new,
           Save(c, new), RowTrue(c, new), new.plan = row[c].plan
    PROVE  Onward /\ RowsTrue'
<1>1. row' = [row EXCEPT ![c] = new] /\ row \in [Cases -> Rows]
  BY DEF Save, RecordInv, TypeInv, TypeOK, CaseRowTypeOK
<1>2. Onward
  BY <1>1 DEF Onward, world
<1>3. \A x \in Cases : RowTrue(x, row'[x])
  BY <1>1 DEF RecordInv, RowsTrue
<1>4. \A rw : \A x \in Cases : RowTrue(x, rw) => RowTrue(x, rw)'
  BY <1>2, RowTrueOnward
<1> QED BY <1>2, <1>3, <1>4 DEF RowsTrue, RowTrue, Recorded, LinesUp, Resolved

\* Parking one coroutine, with its tool call moved on or left alone.
LEMMA ParkTrue ==
    ASSUME RecordInv, Onward, NEW s \in Requests, NEW r \in RequestRecords,
           Park(s, r),
           \A t \in Requests \ {s} : call'[t] = call[t],
           CoroutineTrue(r, call'[s]), CallTrue(call'[s])
    PROVE  SlotsTrue'
<1>1. req' = [req EXCEPT ![s] = r] /\ req \in [Requests -> RequestRecords]
  BY DEF Park, RecordInv, TypeInv, TypeOK
<1>2. \A t \in Requests \ {s} : (CoroutineTrue(req[t], call[t]) /\ CallTrue(call[t]))'
  BY <1>1, OthersOnward
<1>3. \A y : \A x \in RequestRecords :
            CoroutineTrue(x, y) => CoroutineTrue(x, y)'
  BY CoroutineOnward
<1>4. \A y : CallTrue(y) => CallTrue(y)'
  BY CallOnward
<1>5. req'[s] = r
  BY <1>1
<1>6. (CoroutineTrue(req[s], call[s]) /\ CallTrue(call[s]))'
  BY <1>3, <1>4, <1>5 DEF CoroutineTrue, CallTrue
<1> QED BY <1>2, <1>6 DEF SlotsTrue

LEMMA FinishTrue ==
    ASSUME RecordInv, Onward, UNCHANGED call, NEW s \in Requests, Finish(s)
    PROVE  SlotsTrue'
<1>1. IdleRequest.pc = "idle"
  BY DEF IdleRequest
<1>2. CoroutineTrue(IdleRequest, call'[s])
  BY <1>1 DEF CoroutineTrue, Executing, Verifying
<1>3. CallTrue(call'[s])
  BY DEF RecordInv, SlotsTrue
<1> HIDE DEF IdleRequest
<1> QED BY <1>2, <1>3, IdleType, ParkTrue DEF Finish

LEMMA IssueTrue ==
    ASSUME RecordInv, NEW s \in Requests, NEW a, Issue(s, a)
    PROVE  /\ call'[s].case = req[s].case /\ call'[s].action = a
           /\ CallTrue(call'[s])
           /\ \A t \in Requests \ {s} : call'[t] = call[t]
  BY DEF RecordInv, TypeInv, TypeOK, McpTypeOK, Issue, CallTrue

LEMMA SuspendFields ==
    ASSUME TypeInv, NEW s \in Requests, NEW pc \in Points, NEW n \in Nat,
           NEW rw \in Rows, NEW j \in Nat
    PROVE  LET r == Suspend(s, pc, n, rw)
               p == [r EXCEPT !.probe = j]
           IN  /\ r \in RequestRecords /\ p \in RequestRecords
               /\ r.pc = pc /\ r.at = n /\ r.snap = rw
               /\ r.case = req[s].case /\ r.plan = req[s].plan
               /\ p.pc = pc /\ p.at = n /\ p.snap = rw /\ p.probe = j
               /\ p.case = req[s].case /\ p.plan = req[s].plan
  BY RequestType DEF Suspend, RequestRecords

LEMMA LoopTrue ==
    ASSUME RecordInv, UNCHANGED <<world, applied>>,
           NEW s \in Requests, NEW k \in Nat \ {0}, NEW rw \in Rows,
           RowTrue(req[s].case, rw), rw.plan = row[req[s].case].plan,
           req[s].plan = row[req[s].case].plan,
           k <= Len(rw.executed) + 1,
           Loop(s, k, rw)
    PROVE  Onward /\ RowsTrue' /\ SlotsTrue'
<1> DEFINE n == Resume(k, rw)
           plan == req[s].plan
           c == req[s].case
<1>1. /\ TypeInv /\ c \in Cases /\ plan \in Plans \cup {NoPlan}
      /\ plan = rw.plan /\ plan = row[c].plan /\ CallTrue(call[s])
  BY RequestType DEF RecordInv, SlotsTrue
<1>2. /\ n = Len(rw.executed) + 1 /\ n \in Nat \ {0}
      /\ Len(rw.executed) \in Nat /\ Len(plan) \in Nat
  <2>1. Len(rw.executed) \in Nat /\ Len(plan) \in Nat
    BY RowFields, PlanType, <1>1
  <2> QED BY <2>1 DEF Resume
<1>3. n <= Len(plan) => n \in 1..Len(plan) /\ plan[n] \in PlannedActions
  BY <1>1, <1>2, PlanType
<1>4. Save(c, rw) => Onward /\ RowsTrue'
  BY <1>1, SaveTrue
<1>5. \A pc \in {"write", "check", "close"}, j \in Nat :
         LET r == Suspend(s, pc, n, rw)
             p == [r EXCEPT !.probe = j]
         IN  /\ r \in RequestRecords /\ p \in RequestRecords
             /\ r.pc = pc /\ r.at = n /\ r.snap = rw
             /\ r.case = c /\ r.plan = plan
             /\ p.pc = pc /\ p.at = n /\ p.snap = rw
             /\ p.case = c /\ p.plan = plan
  BY <1>1, <1>2, SuspendFields DEF Points
<1> HIDE DEF n
<1>6. CASE EndOfPlan(s, n, rw)
  <2> DEFINE r == Suspend(s, "close", n, rw)
  <2>1. r \in RequestRecords /\ r.pc = "close" /\ r.case = c /\ r.plan = plan
    BY <1>5
  <2>2. Park(s, r) /\ UNCHANGED call /\ Onward /\ RowsTrue'
    BY <1>4, <1>6 DEF EndOfPlan
  <2> HIDE DEF r
  <2>3. CoroutineTrue(r, call'[s])
    BY <1>1, <2>1 DEF CoroutineTrue, Verifying
  <2> QED BY <1>1, <2>1, <2>2, <2>3, ParkTrue
<1>7. CASE Validation(s, n, rw)
  BY <1>4, <1>7, FinishTrue DEF Validation
<1>8. CASE CallMatch(s, n, rw)
  <2> DEFINE r == Suspend(s, "write", n, rw)
  <2>1. /\ r \in RequestRecords /\ r.pc = "write" /\ r.at = n /\ r.snap = rw
        /\ r.case = c /\ r.plan = plan
    BY <1>5
  <2>2. Park(s, r) /\ Issue(s, plan[n]) /\ Onward /\ RowsTrue'
    BY <1>4, <1>8 DEF CallMatch
  <2> HIDE DEF r
  <2>3. /\ call'[s].case = c /\ call'[s].action = plan[n] /\ CallTrue(call'[s])
        /\ \A t \in Requests \ {s} : call'[t] = call[t]
    BY <2>2, IssueTrue
  <2>4. CoroutineTrue(r, call'[s])
    BY <1>1, <1>2, <2>1, <2>3 DEF CoroutineTrue, Verifying
  <2> QED BY <2>1, <2>2, <2>3, <2>4, ParkTrue
<1>9. CASE ReadBack(s, n, rw)
  <2>1. n \in 1..Len(plan) /\ plan[n] \in PlannedActions
    BY <1>3, <1>9 DEF ReadBack
  <2>2. CASE Finish(s) /\ Save(c, FailedRow(rw, plan[n])) /\ UNCHANGED call
    <3>1. RowTrue(c, FailedRow(rw, plan[n])) /\ FailedRow(rw, plan[n]).plan = rw.plan
      <4> DEFINE a == plan[n]
      <4>1. c \in Cases /\ RowTrue(c, rw) /\ a \in PlannedActions
        BY <1>1, <2>1
      <4>2. Len(rw.executed) + 1 <= Len(rw.plan) /\ a = rw.plan[Len(rw.executed) + 1]
        BY <1>1, <1>2, <2>1
      <4> HIDE DEF a, c
      <4>3. RowTrue(c, FailedRow(rw, a)) /\ FailedRow(rw, a).plan = rw.plan
        BY <4>1, <4>2, FailureTrue
      <4> QED BY <4>3 DEF a
    <3>2. Onward /\ RowsTrue'
      BY <1>1, <2>2, <3>1, SaveTrue
    <3> QED BY <2>2, <3>2, FinishTrue
  <2>3. CASE \E j \in EarlierMatches(plan, n) :
               /\ Park(s, [Suspend(s, "check", n, rw) EXCEPT !.probe = j])
               /\ Save(c, rw)
               /\ Issue(s, GetInvoice(plan[j].invoice))
    <3>1. PICK j \in EarlierMatches(plan, n) :
               /\ Park(s, [Suspend(s, "check", n, rw) EXCEPT !.probe = j])
               /\ Save(c, rw)
               /\ Issue(s, GetInvoice(plan[j].invoice))
      BY <2>3
    <3> DEFINE r == [Suspend(s, "check", n, rw) EXCEPT !.probe = j]
    <3>2. j \in Nat
      BY DEF EarlierMatches
    <3>3. /\ r \in RequestRecords /\ r.pc = "check" /\ r.at = n /\ r.snap = rw
          /\ r.case = c /\ r.plan = plan
      BY <1>5, <3>2
    <3>4. Park(s, r)
      BY <3>1
    <3> HIDE DEF r
    <3>5. /\ CallTrue(call'[s])
          /\ \A t \in Requests \ {s} : call'[t] = call[t]
      BY <3>1, IssueTrue
    <3>6. CoroutineTrue(r, call'[s])
      BY <1>1, <1>2, <3>3 DEF CoroutineTrue, Verifying
    <3>7. Onward /\ RowsTrue'
      BY <1>4, <3>1
    <3> QED BY <3>3, <3>4, <3>5, <3>6, <3>7, ParkTrue
  <2> QED BY <1>9, <2>2, <2>3 DEF ReadBack
<1> QED BY <1>6, <1>7, <1>8, <1>9 DEF Loop, n

LEMMA FailTrue ==
    ASSUME RecordInv, UNCHANGED <<world, applied, call>>, NEW s \in Requests,
           req[s].pc \in {"check", "write"}, FailAction(s)
    PROVE  Onward /\ RowsTrue' /\ SlotsTrue'
<1> DEFINE r == req[s]
<1>1. /\ r.case \in Cases /\ r.snap \in Rows /\ Planned(s) \in PlannedActions
      /\ r.at \in 1..Len(r.plan)
      /\ RowTrue(r.case, r.snap) /\ r.snap.plan = row[r.case].plan
      /\ r.plan = r.snap.plan /\ r.at = Len(r.snap.executed) + 1
  BY RequestType DEF RecordInv, SlotsTrue, CoroutineTrue, Executing
<1>2. /\ Planned(s) = r.snap.plan[Len(r.snap.executed) + 1]
      /\ Len(r.snap.executed) + 1 <= Len(r.snap.plan)
  BY <1>1, RowFields DEF Planned
<1> DEFINE a == Planned(s)
           rw == r.snap
<1>3. RowTrue(r.case, FailedRow(rw, a)) /\ FailedRow(rw, a).plan = row[r.case].plan
  <2>1. a \in PlannedActions /\ rw \in Rows /\ r.case \in Cases /\ RowTrue(r.case, rw)
    BY <1>1
  <2>2. a = rw.plan[Len(rw.executed) + 1] /\ Len(rw.executed) + 1 <= Len(rw.plan)
    BY <1>2
  <2> HIDE DEF a, rw
  <2>3. RowTrue(r.case, FailedRow(rw, a)) /\ FailedRow(rw, a).plan = rw.plan
    BY <2>1, <2>2, FailureTrue
  <2> QED BY <1>1, <2>3 DEF rw
<1>4. Onward /\ RowsTrue'
  BY <1>1, <1>3, SaveTrue DEF FailAction
<1> QED BY <1>4, FinishTrue DEF FailAction

-----------------------------------------------------------------------------
(* The verifier: what it found stays so while it goes on.                   *)

LEMMA NextCheckTrue ==
    ASSUME RecordInv, Onward, UNCHANGED <<world, call>>,
           NEW s \in Requests, NEW k, NEW ok \in BOOLEAN,
           req[s].pc \in Verifying, NextCheck(s, k, ok),
           ok => /\ account[CustomerOf[req[s].case]] = "ACTIVE"
                 /\ Matched(req[s].snap) # {}
    PROVE  SlotsTrue'
<1> DEFINE q == req[s]
           mark == IF ok THEN "passed" ELSE "failed"
           r == [q EXCEPT !.checks = mark]
<1>1. /\ q \in RequestRecords /\ CoroutineTrue(q, call[s]) /\ CallTrue(call[s])
      /\ RowTrue(q.case, q.snap) /\ q.snap.plan = row[q.case].plan
  BY RequestType DEF RecordInv, SlotsTrue, CoroutineTrue
<1>2. /\ mark \in {"passed", "failed"}
      /\ mark = "passed" => /\ account[CustomerOf[q.case]] = "ACTIVE"
                            /\ Matched(q.snap) # {}
  OBVIOUS
<1>3. \/ Park(s, [r EXCEPT !.pc = "hold"])
      \/ \E j \in Matched(q.snap) : Park(s, [r EXCEPT !.pc = "invoices", !.at = j])
  BY DEF NextCheck
<1> HIDE DEF mark
<1>4. PICK x \in RequestRecords :
         /\ Park(s, x)
         /\ x.pc \in {"hold", "invoices"} /\ x.case = q.case /\ x.snap = q.snap
         /\ x.checks = mark
  <2>1. q \in RequestRecords /\ mark \in {"passed", "failed"}
    BY <1>1, <1>2
  <2>2. Matched(q.snap) \subseteq Nat
    BY DEF Matched
  <2>3. CASE Park(s, [r EXCEPT !.pc = "hold"])
    <3> DEFINE new == [r EXCEPT !.pc = "hold"]
    <3>1. /\ new \in RequestRecords /\ new.pc = "hold" /\ new.case = q.case
          /\ new.snap = q.snap /\ new.checks = mark
      <4> HIDE DEF q
      <4> QED BY <2>1 DEF RequestRecords, Points
    <3>2. Park(s, new)
      BY <2>3
    <3> HIDE DEF new
    <3> QED BY <3>1, <3>2
  <2>4. CASE \E j \in Matched(q.snap) : Park(s, [r EXCEPT !.pc = "invoices", !.at = j])
    <3>1. PICK j \in Matched(q.snap) : Park(s, [r EXCEPT !.pc = "invoices", !.at = j])
      BY <2>4
    <3> DEFINE new == [r EXCEPT !.pc = "invoices", !.at = j]
    <3>2. /\ new \in RequestRecords /\ new.pc = "invoices" /\ new.case = q.case
          /\ new.snap = q.snap /\ new.checks = mark
      <4> HIDE DEF q
      <4> QED BY <2>1, <2>2 DEF RequestRecords, Points
    <3>3. Park(s, new)
      BY <3>1
    <3> HIDE DEF new
    <3> QED BY <3>2, <3>3
  <2> QED BY <1>3, <2>3, <2>4
<1>5. CoroutineTrue(x, call'[s]) /\ CallTrue(call'[s])
  BY <1>1, <1>2, <1>4 DEF CoroutineTrue, Executing, Verifying
<1> QED BY <1>4, <1>5, ParkTrue

LEMMA VerdictTrue ==
    ASSUME RecordInv, UNCHANGED <<world, applied, call>>,
           NEW s \in Requests, NEW ok \in BOOLEAN,
           req[s].pc \in Verifying, Verdict(s, ok),
           ok => CustomerFreed(req[s].case) /\ Matched(req[s].snap) # {}
    PROVE  Onward /\ RowsTrue' /\ SlotsTrue'
<1> DEFINE r == req[s]
           new == [r.snap EXCEPT !.verified = IF ok THEN "PASSED" ELSE "FAILED",
                                 !.stage = IF ok THEN "RESOLVED" ELSE "FAILED"]
<1>1. /\ r.case \in Cases /\ r.snap \in Rows
      /\ RowTrue(r.case, r.snap) /\ r.snap.plan = row[r.case].plan
  BY RequestType DEF RecordInv, SlotsTrue, CoroutineTrue
<1>2. /\ new.executed = r.snap.executed /\ new.plan = r.snap.plan
      /\ new.stage = "RESOLVED" => ok
  BY <1>1 DEF Rows
<1>3. Save(r.case, new) /\ Finish(s)
  BY DEF Verdict
<1> HIDE DEF new
<1>4. RowTrue(r.case, new)
  BY <1>1, <1>2 DEF RowTrue, Recorded, LinesUp, Resolved, Matched
<1>5. Onward /\ RowsTrue'
  BY <1>1, <1>2, <1>3, <1>4, SaveTrue
<1> QED BY <1>3, <1>5, FinishTrue

-----------------------------------------------------------------------------
(* The tools: an answer "ok" is earned by the writes before it.             *)

\* What a step of a tool does to its own call.
ToolMoves(s, reply) ==
    /\ Reply(s, reply)
    /\ applied \subseteq applied'
    /\ \A e \in applied' : e \in applied \/ (e.case = call[s].case
                                             /\ e.action = call[s].action)
    /\ reply = "crm" => Effect(call[s].case, call[s].action, "billing") \in applied'
    /\ reply = "ok" => Reached(call[s].case, call[s].action)'
    /\ \A e \in applied' \ applied : e.system = "crm" =>
          [e EXCEPT !.system = "billing"] \in applied

LEMMA ToolEffects ==
    ASSUME RecordInv, NEW s \in Requests, McpStep(s)
    PROVE  /\ \E reply \in {"crm"} \cup Replies : ToolMoves(s, reply)
           /\ Onward
           /\ \A i \in Invoices : invoice[i] = "PAID" => invoice'[i] = "PAID"
           /\ \A e \in applied' \ applied :
                 e.action.tool = "match_payment" => invoice'[e.action.invoice] = "PAID"
<1> DEFINE a == call[s].action
           c == call[s].case
<1>1. /\ EnterpriseTypeOK /\ McpTypeOK /\ c \in Cases /\ CustomerOf[c] \in Customers
      /\ a.tool = "match_payment" => a \in MatchActions
      /\ a.tool = "remove_account_hold" => a \in HoldActions
      /\ call[s].pc = "crm" => a \in HoldActions
      /\ CallTrue(call[s]) /\ UNCHANGED row
  BY CallType DEF RecordInv, TypeInv, TypeOK, SecondHalves, SlotsTrue, McpStep
<1>2. CASE MatchPayment(s)
  <2>1. a \in MatchActions /\ ~IsHoldRemoval(a)
    BY <1>1, <1>2 DEF MatchPayment, IsHoldRemoval
  <2>2. CASE /\ BillingMatchPayment(a.payment, a.invoice) /\ Record(s, "billing")
             /\ \E r \in {"ok", "error"} : Reply(s, r)
    <3>1. PICK r \in {"ok", "error"} : Reply(s, r)
      BY <2>2
    <3>2. applied' = applied \cup {Effect(c, a, "billing")}
      BY <2>2 DEF Record, Effect
    <3>3. call'[s].case = c /\ call'[s].action = a
      BY <1>1, <3>1 DEF Reply, McpTypeOK, Calls
    <3>4. ToolMoves(s, r)
      BY <2>1, <3>1, <3>2, <3>3 DEF ToolMoves, Effect, Reached
    <3>5. /\ \A i \in Invoices : invoice[i] = "PAID" => invoice'[i] = "PAID"
          /\ invoice'[a.invoice] = "PAID"
      BY <1>1, <2>1, <2>2 DEF BillingMatchPayment, EnterpriseTypeOK, MatchActions
    <3>6. Onward
      BY <1>1, <2>2, <3>2 DEF Onward, BillingMatchPayment
    <3> QED BY <3>2, <3>4, <3>5, <3>6 DEF Effect, Replies
  <2>3. CASE Refused(s)
    BY <1>1, <2>3 DEF Refused, ToolMoves, Onward, world, Replies
  <2> QED BY <1>2, <2>2, <2>3 DEF MatchPayment
<1>3. CASE RemoveAccountHold(s)
  <2>1. a \in HoldActions /\ a.tool # "match_payment"
    BY <1>1, <1>3 DEF RemoveAccountHold
  <2>2. CASE /\ BillingRemoveAccountHold(CustomerOf[c]) /\ Record(s, "billing")
             /\ \E r \in {"crm", "error"} : Reply(s, r)
    <3>1. PICK r \in {"crm", "error"} : Reply(s, r)
      BY <2>2
    <3>2. applied' = applied \cup {Effect(c, a, "billing")}
      BY <2>2 DEF Record, Effect
    <3>3. ToolMoves(s, r)
      BY <3>1, <3>2 DEF ToolMoves, Effect
    <3>4. Onward
      BY <1>1, <2>2, <3>2 DEF Onward, BillingRemoveAccountHold, EnterpriseTypeOK
    <3> QED BY <2>1, <2>2, <3>2, <3>3, <3>4
            DEF Effect, Replies, BillingRemoveAccountHold
  <2>3. CASE Refused(s)
    BY <1>1, <2>3 DEF Refused, ToolMoves, Onward, world, Replies
  <2> QED BY <1>3, <2>2, <2>3 DEF RemoveAccountHold
<1>4. CASE RestoreAccount(s)
  <2>1. /\ a \in HoldActions /\ a.tool # "match_payment"
        /\ Effect(c, a, "billing") \in applied
    BY <1>1, <1>4 DEF RestoreAccount, HoldActions, CallTrue
  <2>2. CASE /\ CrmRestoreAccount(CustomerOf[c]) /\ Record(s, "crm")
             /\ \E r \in {"ok", "error"} : Reply(s, r)
    <3>1. PICK r \in {"ok", "error"} : Reply(s, r)
      BY <2>2
    <3>2. applied' = applied \cup {Effect(c, a, "crm")}
      BY <2>2 DEF Record, Effect
    <3>3. call'[s].case = c /\ call'[s].action = a
      BY <1>1, <3>1 DEF Reply, McpTypeOK, Calls
    <3>4. [Effect(c, a, "crm") EXCEPT !.system = "billing"] = Effect(c, a, "billing")
      BY DEF Effect
    <3>5. ToolMoves(s, r)
      BY <2>1, <3>1, <3>2, <3>3, <3>4 DEF ToolMoves, Effect, Reached
    <3>6. Onward
      BY <1>1, <2>2, <3>2 DEF Onward, CrmRestoreAccount, EnterpriseTypeOK
    <3> QED BY <2>1, <2>2, <3>2, <3>5, <3>6 DEF Effect, Replies, CrmRestoreAccount
  <2>3. CASE Refused(s)
    BY <1>1, <2>3 DEF Refused, ToolMoves, Onward, world, Replies
  <2> QED BY <1>4, <2>2, <2>3 DEF RestoreAccount
<1>5. CASE LookupInvoice(s)
  <2>1. PICK r \in {"error", "paid", "unpaid"} : Reply(s, r)
    BY <1>5 DEF LookupInvoice
  <2>2. ToolMoves(s, r)
    BY <1>5, <2>1 DEF LookupInvoice, ToolMoves
  <2> QED BY <1>1, <1>5, <2>1, <2>2 DEF LookupInvoice, Onward, world, Replies
<1> QED BY <1>2, <1>3, <1>4, <1>5 DEF McpStep, ToolStep

LEMMA ToolTrue ==
    ASSUME RecordInv, NEW s \in Requests, McpStep(s)
    PROVE  RowsTrue' /\ SlotsTrue' /\ MatchesPaid' /\ RestoredOnlyAfterHoldRemoval'
<1>1. /\ Onward /\ UNCHANGED <<row, req>> /\ McpTypeOK
      /\ RowsTrue /\ SlotsTrue /\ MatchesPaid /\ RestoredOnlyAfterHoldRemoval
  BY ToolEffects DEF McpStep, RecordInv, TypeInv, TypeOK
<1>2. PICK reply \in {"crm"} \cup Replies : ToolMoves(s, reply)
  BY ToolEffects
<1>3. /\ call'[s].case = call[s].case /\ call'[s].action = call[s].action
      /\ call'[s].pc = reply
      /\ \A t \in Requests \ {s} : call'[t] = call[t]
  BY <1>1, <1>2 DEF ToolMoves, Reply, McpTypeOK, Calls
<1>4. RowsTrue'
  <2>1. \A rw : \A c \in Cases : RowTrue(c, rw) => RowTrue(c, rw)'
    BY <1>1, RowTrueOnward
  <2> QED BY <1>1, <2>1 DEF RowsTrue, RowTrue, Recorded, LinesUp, Resolved
<1>5. SlotsTrue'
  <2>1. \A t \in Requests \ {s} : (CoroutineTrue(req[t], call[t]) /\ CallTrue(call[t]))'
    BY <1>1, <1>3, OthersOnward
  <2>2. CoroutineTrue(req[s], call[s])'
    <3>1. req[s] \in RequestRecords /\ CoroutineTrue(req[s], call[s])
      BY <1>1, RequestType DEF RecordInv, SlotsTrue
    <3>2. \A y : \A x \in RequestRecords :
                CoroutineTrue(x, y) => CoroutineTrue(x, y)'
      BY <1>1, CoroutineOnward
    <3> QED BY <1>1, <1>3, <3>1, <3>2 DEF CoroutineTrue
  <2>3. CallTrue(call[s])'
    BY <1>2, <1>3 DEF ToolMoves, CallTrue, Reached
  <2> QED BY <2>1, <2>2, <2>3 DEF SlotsTrue
<1>6. MatchesPaid'
  <2>1. \A e \in applied : e.action.tool = "match_payment" => e.action.invoice \in Invoices
    BY <1>1 DEF McpTypeOK, Effects, PlannedActions, MatchActions, HoldActions
  <2>2. /\ \A i \in Invoices : invoice[i] = "PAID" => invoice'[i] = "PAID"
        /\ \A e \in applied' \ applied :
              e.action.tool = "match_payment" => invoice'[e.action.invoice] = "PAID"
    BY ToolEffects
  <2> QED BY <1>1, <2>1, <2>2 DEF MatchesPaid
<1>7. RestoredOnlyAfterHoldRemoval'
  BY <1>1, <1>2 DEF ToolMoves, RestoredOnlyAfterHoldRemoval
<1> QED BY <1>4, <1>5, <1>6, <1>7

-----------------------------------------------------------------------------
(* The invariant is inductive. *)

LEMMA RecordInit == Init => RecordInv
<1> SUFFICES ASSUME Init PROVE RecordInv
  OBVIOUS
<1>1. TypeInv
  BY InitTypeOK DEF Init, McpInit, TypeInv, PositionsInPlan, InPlan,
     IdleRequest, SecondHalves
<1>2. ASSUME NEW c \in Cases PROVE RowTrue(c, row[c])
  <2>1. row[c].executed = << >> /\ row[c].stage = "AWAITING_APPROVAL"
    BY DEF Init, ReadyRows
  <2>2. row[c] \in Rows
    BY <1>1 DEF TypeInv, TypeOK, CaseRowTypeOK
  <2> QED BY <2>1, <2>2, RowFields DEF RowTrue, Recorded, LinesUp, Resolved
<1>3. ASSUME NEW s \in Requests
      PROVE  CoroutineTrue(req[s], call[s]) /\ CallTrue(call[s])
  <2>1. req[s].pc = "idle" /\ call[s].pc = "idle"
    BY DEF Init, McpInit, IdleRequest
  <2> QED BY <2>1 DEF CoroutineTrue, CallTrue, Executing, Verifying
<1>4. applied = {}
  BY DEF Init, McpInit
<1> QED BY <1>1, <1>2, <1>3, <1>4
        DEF RecordInv, RowsTrue, SlotsTrue, MatchesPaid, RestoredOnlyAfterHoldRemoval

\* Only the stage or the approval changes: the records stay true.
LEMMA StageTrue ==
    ASSUME NEW c \in Cases, NEW old, RowTrue(c, old), NEW new,
           new.executed = old.executed, new.plan = old.plan,
           new.stage # "RESOLVED"
    PROVE  RowTrue(c, new)
  BY DEF RowTrue, Recorded, LinesUp, Resolved

LEMMA RecordStep ==
    ASSUME RecordInv, Next PROVE RecordInv'
<1>1. /\ TypeInv /\ TypeInv' /\ RowsTrue /\ SlotsTrue
      /\ \A c \in Cases : row[c] \in Rows /\ RowTrue(c, row[c])
  BY TypeInvNext DEF RecordInv, RowsTrue, TypeInv, TypeOK, CaseRowTypeOK
<1>2. ASSUME RowsTrue', SlotsTrue', UNCHANGED <<world, applied>> PROVE RecordInv'
  BY <1>1, <1>2 DEF RecordInv, MatchesPaid, RestoredOnlyAfterHoldRemoval, world
<1>3. ASSUME UNCHANGED <<world, applied, row>> PROVE Onward /\ RowsTrue'
  BY <1>1, <1>3 DEF Onward, world, RowsTrue, RowTrue, Recorded, LinesUp, Resolved,
     CustomerFreed, Reached, Matched
<1>4. ASSUME NEW c \in Cases, NEW d \in {"APPROVED", "REJECTED"}, Decide(c, d)
      PROVE  RecordInv'
  <2> DEFINE new == [row[c] EXCEPT !.approval.decision = d,
                                   !.stage = IF d = "APPROVED" THEN "EXECUTING"
                                             ELSE "ESCALATED"]
  <2>1. /\ Save(c, new) /\ UNCHANGED <<req, call>>
        /\ UNCHANGED <<world, applied>>
    BY <1>4 DEF Decide, mcpVars
  <2>2. /\ new.executed = row[c].executed /\ new.plan = row[c].plan
        /\ new.stage # "RESOLVED"
    BY <1>1 DEF Rows
  <2> HIDE DEF new
  <2>3. RowTrue(c, new)
    BY <1>1, <2>2, StageTrue
  <2>4. Onward /\ RowsTrue'
    BY <2>1, <2>2, <2>3, SaveTrue
  <2>5. SlotsTrue'
    BY <2>1, <2>4, OthersOnward DEF SlotsTrue
  <2> QED BY <1>2, <2>1, <2>4, <2>5
<1>5. ASSUME NEW s \in Requests, NEW c \in Cases, StartExecute(s, c)
      PROVE  RecordInv'
  <2> DEFINE r == [IdleRequest EXCEPT !.pc = "open", !.case = c,
                                      !.plan = row[c].plan]
  <2>1. r \in RequestRecords /\ r.pc = "open" /\ r.case = c /\ r.plan = row[c].plan
    BY <1>1, IdleType DEF RequestRecords, Points, Rows
  <2>2. Park(s, r) /\ UNCHANGED call /\ UNCHANGED <<world, applied, row>>
    BY <1>5 DEF StartExecute, mcpVars
  <2> HIDE DEF r
  <2>3. CoroutineTrue(r, call'[s]) /\ CallTrue(call'[s])
    BY <1>1, <2>1, <2>2 DEF CoroutineTrue, Verifying, SlotsTrue
  <2>4. Onward /\ RowsTrue'
    BY <1>3, <2>2
  <2>5. SlotsTrue'
    BY <2>1, <2>2, <2>3, <2>4, ParkTrue
  <2> QED BY <1>2, <2>2, <2>4, <2>5
<1>6. ASSUME NEW s \in Requests, NEW c \in Cases, StartVerify(s, c)
      PROVE  RecordInv'
  <2> DEFINE r == [IdleRequest EXCEPT !.pc = "crm", !.case = c, !.snap = row[c]]
  <2>1. r \in RequestRecords /\ r.pc = "crm" /\ r.case = c /\ r.snap = row[c]
    BY <1>1, IdleType DEF RequestRecords, Points
  <2>2. Park(s, r) /\ UNCHANGED call /\ UNCHANGED <<world, applied, row>>
    BY <1>6 DEF StartVerify, mcpVars
  <2> HIDE DEF r
  <2>3. CoroutineTrue(r, call'[s]) /\ CallTrue(call'[s])
    BY <1>1, <2>1, <2>2 DEF CoroutineTrue, Executing, Verifying, SlotsTrue
  <2>4. Onward /\ RowsTrue'
    BY <1>3, <2>2
  <2>5. SlotsTrue'
    BY <2>1, <2>2, <2>3, <2>4, ParkTrue
  <2> QED BY <1>2, <2>2, <2>4, <2>5
<1>7. ASSUME NEW s \in Requests, SessionOpened(s) PROVE RecordInv'
  <2> DEFINE rw == row[req[s].case]
  <2>1. /\ rw \in Rows /\ RowTrue(req[s].case, rw) /\ req[s].plan = rw.plan
        /\ 1 <= Len(rw.executed) + 1 /\ 1 \in Nat \ {0}
    BY <1>1, <1>7, RequestType, RowFields
    DEF SessionOpened, SlotsTrue, CoroutineTrue, Executing
  <2>2. Loop(s, 1, rw) /\ UNCHANGED <<world, applied>>
    BY <1>7 DEF SessionOpened
  <2>3. RowsTrue' /\ SlotsTrue'
    BY <2>1, <2>2, LoopTrue
  <2> QED BY <1>2, <2>2, <2>3
<1>8. ASSUME NEW s \in Requests, InvoiceReadBack(s) PROVE RecordInv'
  <2> DEFINE r == req[s]
             rest == EarlierMatches(r.plan, r.probe)
  <2>1. /\ r \in RequestRecords /\ r.pc = "check" /\ CoroutineTrue(r, call[s])
        /\ UNCHANGED <<world, applied>> /\ Planned(s) = r.plan[r.at]
    BY <1>1, <1>8, RequestType DEF InvoiceReadBack, SlotsTrue, Planned
  <2>2. CASE /\ Issue(s, Planned(s)) /\ Park(s, [r EXCEPT !.pc = "write"])
             /\ UNCHANGED row
    <3> DEFINE new == [r EXCEPT !.pc = "write"]
    <3>1. /\ new \in RequestRecords /\ new.pc = "write" /\ new.case = r.case
          /\ new.plan = r.plan /\ new.at = r.at /\ new.snap = r.snap
      BY <2>1 DEF RequestRecords, Points
    <3>2. Park(s, new)
      BY <2>2
    <3>3. /\ call'[s].case = r.case /\ call'[s].action = Planned(s)
          /\ CallTrue(call'[s])
          /\ \A t \in Requests \ {s} : call'[t] = call[t]
      BY <2>2, IssueTrue
    <3> HIDE DEF new
    <3>4. CoroutineTrue(new, call'[s])
      BY <2>1, <3>1, <3>3 DEF CoroutineTrue, Executing, Verifying
    <3>5. Onward /\ RowsTrue'
      BY <1>3, <2>1, <2>2
    <3>6. SlotsTrue'
      BY <3>1, <3>2, <3>3, <3>4, <3>5, ParkTrue
    <3> QED BY <1>2, <2>1, <3>5, <3>6
  <2>3. CASE /\ \E j \in rest : /\ Issue(s, GetInvoice(r.plan[j].invoice))
                                /\ Park(s, [r EXCEPT !.probe = j])
             /\ UNCHANGED row
    <3>1. PICK j \in rest : /\ Issue(s, GetInvoice(r.plan[j].invoice))
                            /\ Park(s, [r EXCEPT !.probe = j])
      BY <2>3
    <3> DEFINE new == [r EXCEPT !.probe = j]
    <3>2. j \in Nat
      BY <2>1 DEF EarlierMatches
    <3>3. /\ new \in RequestRecords /\ new.pc = "check" /\ new.case = r.case
          /\ new.plan = r.plan /\ new.at = r.at /\ new.snap = r.snap
      BY <2>1, <3>2, ProbeType
    <3>4. Park(s, new)
      BY <3>1
    <3>5. CallTrue(call'[s]) /\ \A t \in Requests \ {s} : call'[t] = call[t]
      BY <3>1, IssueTrue
    <3> HIDE DEF new
    <3>6. CoroutineTrue(new, call'[s])
      BY <2>1, <3>3 DEF CoroutineTrue, Executing, Verifying
    <3>7. Onward /\ RowsTrue'
      BY <1>3, <2>1, <2>3
    <3>8. SlotsTrue'
      BY <3>3, <3>4, <3>5, <3>6, <3>7, ParkTrue
    <3> QED BY <1>2, <2>1, <3>7, <3>8
  <2>4. CASE FailAction(s) /\ UNCHANGED call
    BY <1>2, <2>1, <2>4, FailTrue
  <2> QED BY <1>8, <2>2, <2>3, <2>4 DEF InvoiceReadBack
<1>9. ASSUME NEW s \in Requests, ActionSucceeded(s) PROVE RecordInv'
  <2> DEFINE r == req[s]
             a == Planned(s)
             rw == WithOutcome(r.snap, a, "SUCCESS")
  <2>1. /\ r.snap \in Rows /\ r.case \in Cases /\ a \in PlannedActions
        /\ r.at \in 1..Len(r.plan) /\ RowTrue(r.case, r.snap)
        /\ r.snap.plan = row[r.case].plan /\ r.plan = r.snap.plan
        /\ r.at = Len(r.snap.executed) + 1
        /\ Reached(r.case, a)
    BY <1>1, <1>9, RequestType
    DEF ActionSucceeded, SlotsTrue, CoroutineTrue, CallTrue, Executing, Planned
  <2>2. /\ a = r.snap.plan[Len(r.snap.executed) + 1]
        /\ Len(r.snap.executed) + 1 <= Len(r.snap.plan)
        /\ r.at + 1 \in Nat \ {0}
    BY <2>1, RowFields DEF Planned
  <2>3. Loop(s, r.at + 1, rw) /\ UNCHANGED <<world, applied>>
    BY <1>9 DEF ActionSucceeded
  <2>4. rw \in Rows
    BY <2>1, OutcomeType
  <2>5. /\ RowTrue(r.case, rw) /\ rw.plan = r.snap.plan
        /\ Len(rw.executed) = Len(r.snap.executed) + 1
    <3> HIDE DEF r, a
    <3> QED BY <2>1, <2>2, OutcomeTrue
  <2>6. /\ rw.plan = row[r.case].plan /\ r.plan = row[r.case].plan
        /\ r.at + 1 <= Len(rw.executed) + 1
    <3> HIDE DEF rw
    <3>1. r.at \in Nat
      BY <2>1
    <3> QED BY <2>1, <2>2, <2>5, <3>1
  <2> HIDE DEF rw
  <2>7. RowsTrue' /\ SlotsTrue'
    BY <2>2, <2>3, <2>4, <2>5, <2>6, LoopTrue
  <2> QED BY <1>2, <2>3, <2>7
<1>10. ASSUME NEW s \in Requests, ActionFailed(s) PROVE RecordInv'
  BY <1>2, <1>10, FailTrue DEF ActionFailed
<1>11. ASSUME NEW s \in Requests, SessionClosed(s) PROVE RecordInv'
  <2> DEFINE c == req[s].case
             new == [row[c] EXCEPT !.stage = "VERIFYING"]
  <2>1. /\ Save(c, new) /\ Finish(s) /\ UNCHANGED call
        /\ UNCHANGED <<world, applied>> /\ c \in Cases
    BY <1>1, <1>11, RequestType DEF SessionClosed, mcpVars
  <2>2. /\ new.executed = row[c].executed /\ new.plan = row[c].plan
        /\ new.stage # "RESOLVED"
    BY <1>1, <2>1 DEF Rows
  <2> HIDE DEF new
  <2>3. RowTrue(c, new)
    BY <1>1, <2>1, <2>2, StageTrue
  <2>4. Onward /\ RowsTrue'
    BY <2>1, <2>2, <2>3, SaveTrue
  <2> QED BY <1>2, <2>1, <2>4, FinishTrue
<1>12. ASSUME NEW s \in Requests, CheckCrm(s) PROVE RecordInv'
  <2> DEFINE ok == /\ account[CustomerOf[req[s].case]] = "ACTIVE"
                   /\ Matched(req[s].snap) # {}
  <2>1. /\ req[s].pc \in Verifying /\ UNCHANGED call
        /\ UNCHANGED <<world, applied>>
        /\ \/ NextCheck(s, 0, ok) /\ UNCHANGED row
           \/ Verdict(s, FALSE)
    BY <1>12 DEF CheckCrm, Verifying
  <2>2. CASE NextCheck(s, 0, ok) /\ UNCHANGED row
    <3>1. Onward /\ RowsTrue'
      BY <1>3, <2>1, <2>2
    <3>2. SlotsTrue'
      BY <2>1, <2>2, <3>1, NextCheckTrue
    <3> QED BY <1>2, <2>1, <3>1, <3>2
  <2>3. CASE Verdict(s, FALSE)
    BY <1>2, <2>1, <2>3, VerdictTrue
  <2> QED BY <2>1, <2>2, <2>3
<1>13. ASSUME NEW s \in Requests, CheckInvoice(s) PROVE RecordInv'
  <2> DEFINE i == req[s].snap.executed[req[s].at].action.invoice
             ok(works) == /\ req[s].checks = "passed" /\ works
                          /\ InvoiceFound(CustomerOf[req[s].case], i)
                          /\ invoice[i] = "PAID"
  <2>1. /\ req[s].pc = "invoices" /\ UNCHANGED call
        /\ UNCHANGED <<world, applied, row>>
    BY <1>13 DEF CheckInvoice
  <2>2. PICK works \in BOOLEAN : NextCheck(s, req[s].at, ok(works))
    BY <1>13 DEF CheckInvoice
  <2>3. Onward /\ RowsTrue'
    BY <1>3, <2>1
  <2>4. ok(works) => /\ account[CustomerOf[req[s].case]] = "ACTIVE"
                     /\ Matched(req[s].snap) # {}
    BY <1>1, <2>1 DEF SlotsTrue, CoroutineTrue
  <2>5. ok(works) \in BOOLEAN
    OBVIOUS
  <2>6. SlotsTrue'
    <3> HIDE DEF ok
    <3> QED BY <2>1, <2>2, <2>3, <2>4, <2>5, NextCheckTrue DEF Verifying
  <2> QED BY <1>2, <2>1, <2>3, <2>6
<1>14. ASSUME NEW s \in Requests, CheckHold(s) PROVE RecordInv'
  <2> DEFINE ok(works) == /\ req[s].checks = "passed" /\ works
                          /\ hold[CustomerOf[req[s].case]] # "ACTIVE"
  <2>1. req[s].pc = "hold" /\ UNCHANGED <<world, applied, call>>
    BY <1>14 DEF CheckHold
  <2>2. PICK works \in BOOLEAN : Verdict(s, ok(works))
    BY <1>14 DEF CheckHold
  <2>3. ok(works) => CustomerFreed(req[s].case) /\ Matched(req[s].snap) # {}
    BY <1>1, <2>1 DEF SlotsTrue, CoroutineTrue, CustomerFreed
  <2>4. ok(works) \in BOOLEAN
    OBVIOUS
  <2> HIDE DEF ok
  <2>5. RowsTrue' /\ SlotsTrue'
    BY <2>1, <2>2, <2>3, <2>4, VerdictTrue DEF Verifying
  <2> QED BY <1>2, <2>1, <2>5
<1>15. ASSUME NEW s \in Requests, Abort(s) PROVE RecordInv'
  BY <1>2, <1>3, <1>15, FinishTrue DEF Abort
<1>16. ASSUME Crash PROVE RecordInv'
  <2>1. Onward /\ RowsTrue' /\ UNCHANGED call
    BY <1>3, <1>16 DEF Crash
  <2>2. \A t \in Requests : CallTrue(call[t])'
    BY <1>1, <2>1, CallOnward DEF SlotsTrue, CallTrue
  <2>3. \A t \in Requests : req'[t].pc = "idle"
    BY <1>16 DEF Crash, IdleRequest
  <2>4. \A t \in Requests : CoroutineTrue(req[t], call[t])'
    BY <2>3 DEF CoroutineTrue, Executing, Verifying
  <2> QED BY <1>2, <1>16, <2>1, <2>2, <2>4 DEF Crash, SlotsTrue
<1>17. ASSUME NEW s \in Requests, McpStep(s) PROVE RecordInv'
  BY <1>1, <1>17, ToolTrue DEF RecordInv
<1> QED BY <1>4, <1>5, <1>6, <1>7, <1>8, <1>9, <1>10, <1>11, <1>12, <1>13, <1>14,
        <1>15, <1>16, <1>17 DEF Next, Operator, HandlerStep

LEMMA RecordStutter ==
    ASSUME RecordInv, UNCHANGED vars PROVE RecordInv'
<1>1. /\ UNCHANGED <<invoice, settles, hold, account>>
      /\ UNCHANGED <<call, applied, faults>> /\ UNCHANGED <<row, req>>
  BY DEF vars, world, mcpVars
<1>2. RowsTrue'
  BY <1>1 DEF RecordInv, RowsTrue, RowTrue, Recorded, LinesUp, Resolved,
              CustomerFreed, Reached, Matched
<1>3. SlotsTrue'
  BY <1>1 DEF RecordInv, SlotsTrue, CoroutineTrue, CallTrue, RowTrue, Recorded,
              LinesUp, Resolved, CustomerFreed, Reached, Matched
<1>4. MatchesPaid' /\ RestoredOnlyAfterHoldRemoval'
  BY <1>1 DEF RecordInv, MatchesPaid, RestoredOnlyAfterHoldRemoval
<1> QED BY <1>2, <1>3, <1>4, TypeInvStutter DEF RecordInv

LEMMA RecordInvariant == Spec => []RecordInv
<1>1. RecordInv /\ [Next]_vars => RecordInv'
  BY RecordStep, RecordStutter
<1> QED BY RecordInit, <1>1, PTL DEF Spec

-----------------------------------------------------------------------------
\* The CRM account is restored only for a case whose hold removal reached
\* billing, also when the tool runs on after its request died.
THEOREM RestoredAfterRemoval == Spec => []RestoredOnlyAfterHoldRemoval
<1>1. RecordInv => RestoredOnlyAfterHoldRemoval
  BY DEF RecordInv
<1> QED BY RecordInvariant, <1>1, PTL

\* What a row records as SUCCESS has reached every system it writes to,
\* however many executors append to it from stale snapshots.
THEOREM RecordedSuccess == Spec => []SuccessWasApplied
<1>1. RecordInv => SuccessWasApplied
  BY DEF RecordInv, RowsTrue, RowTrue, Recorded, Reached, Effect, SuccessWasApplied
<1> QED BY RecordInvariant, <1>1, PTL

\* The executed actions of a row line up with its plan, position by position.
THEOREM RecordsLineUp == Spec => []ExecutedFollowsPlan
<1>1. RecordInv => ExecutedFollowsPlan
  BY DEF RecordInv, RowsTrue, RowTrue, LinesUp, ExecutedFollowsPlan
<1> QED BY RecordInvariant, <1>1, PTL

\* A RESOLVED case is one whose customer is restored, whatever snapshot the
\* verifier saved: what it found ACTIVE, lifted or PAID has stayed so.
THEOREM ResolvedRestored == Spec => []ResolvedMeansRestored
<1>1. RecordInv => ResolvedMeansRestored
  <2> SUFFICES ASSUME RecordInv, NEW c \in Cases, row[c].stage = "RESOLVED"
               PROVE  /\ account[CustomerOf[c]] = "ACTIVE"
                      /\ hold[CustomerOf[c]] # "ACTIVE"
                      /\ Matched(row[c]) # {}
                      /\ \A k \in Matched(row[c]) :
                            invoice[row[c].executed[k].action.invoice] = "PAID"
    BY DEF ResolvedMeansRestored
  <2>1. CustomerFreed(c) /\ Matched(row[c]) # {} /\ Recorded(c, row[c]) /\ MatchesPaid
    BY DEF RecordInv, RowsTrue, RowTrue, Resolved
  <2>2. ASSUME NEW k \in Matched(row[c])
        PROVE  invoice[row[c].executed[k].action.invoice] = "PAID"
    <3> DEFINE a == row[c].executed[k].action
    <3>1. /\ k \in 1..Len(row[c].executed) /\ a.tool = "match_payment"
          /\ row[c].executed[k].status = "SUCCESS"
      BY DEF Matched, MatchSucceeded
    <3>2. Effect(c, a, "billing") \in applied
      BY <2>1, <3>1 DEF Recorded, Reached
    <3>3. Effect(c, a, "billing").action = a
      BY DEF Effect
    <3> QED BY <2>1, <3>1, <3>2, <3>3 DEF MatchesPaid
  <2> QED BY <2>1, <2>2 DEF CustomerFreed
<1> QED BY RecordInvariant, <1>1, PTL

-----------------------------------------------------------------------------
(* The lifecycle, whatever fails and however often the backend dies. *)

-----------------------------------------------------------------------------
(* With one request at a time a coroutine's snapshot is the row, which is   *)
(* what fails when requests overlap; and a case that is still to be carried *)
(* out has only successful records.                                         *)

AllSucceeded(rw) ==
    \A k \in 1..Len(rw.executed) : rw.executed[k].status = "SUCCESS"

RowOnTrack(rw) ==
    rw.stage \in {"AWAITING_APPROVAL", "EXECUTING"} => AllSucceeded(rw)

\* A coroutine and the row of its case.
OnTrack(r, rw) ==
    /\ r.pc \in Executing => rw.stage = "EXECUTING"
    /\ r.pc \in Verifying => rw.stage = "VERIFYING"
    /\ r.pc \in {"check", "write"} \cup Verifying => r.snap = rw
    /\ r.pc = "close" => Len(rw.executed) = Len(rw.plan)
    /\ r.pc = "check" => r.probe \in EarlierMatches(r.plan, r.at)
    /\ r.pc = "write" /\ IsHoldRemoval(r.plan[r.at]) =>
          EarlierMatches(r.plan, r.at) # {}

OneAtATime == \A s, t \in Live : s = t

RowsOnTrack == \A c \in Cases : RowOnTrack(row[c])

SlotsOnTrack == \A s \in Requests : OnTrack(req[s], row[req[s].case])

SerialInv ==
    /\ MaxLive <= 1
    /\ RecordInv
    /\ OneAtATime
    /\ RowsOnTrack
    /\ SlotsOnTrack

-----------------------------------------------------------------------------
(* Counting the actions carried out. *)

LEMMA SuccessesFinite ==
    ASSUME NEW rw \in Rows
    PROVE  IsFiniteSet(Successes(rw)) /\ Cardinality(Successes(rw)) \in Nat
<1>1. Len(rw.executed) \in Nat
  BY RowFields
<1>2. IsFiniteSet(1..Len(rw.executed))
  BY <1>1, FS_Interval
<1>3. IsFiniteSet(Successes(rw))
  BY <1>2, FS_Subset DEF Successes
<1> QED BY <1>3, FS_CardinalityType

LEMMA AllCounted ==
    ASSUME NEW rw \in Rows, AllSucceeded(rw)
    PROVE  Cardinality(Successes(rw)) = Len(rw.executed)
<1>1. Len(rw.executed) \in Nat
  BY RowFields
<1>2. Successes(rw) = 1..Len(rw.executed)
  BY DEF Successes, AllSucceeded
<1>3. Cardinality(1..Len(rw.executed)) = Len(rw.executed)
  BY <1>1, FS_Interval
<1> QED BY <1>2, <1>3

LEMMA OutcomeFields ==
    ASSUME NEW rw \in Rows, NEW a \in PlannedActions,
           NEW status \in {"SUCCESS", "FAILED"}
    PROVE  LET n == Len(rw.executed)
               w == WithOutcome(rw, a, status)
               f == FailedRow(rw, a)
           IN  /\ w.stage = rw.stage /\ f.stage = "FAILED"
               /\ w.plan = rw.plan /\ f.plan = rw.plan
               /\ w.revisions = rw.revisions /\ f.revisions = rw.revisions
               /\ Len(w.executed) = n + 1 /\ Len(f.executed) = n + 1
               /\ \A k \in 1..n : /\ w.executed[k] = rw.executed[k]
                                  /\ f.executed[k] = rw.executed[k]
               /\ w.executed[n + 1].status = status
               /\ f.executed[n + 1].status = "FAILED"
<1>1. \A st \in {"SUCCESS", "FAILED"} :
         LET n == Len(rw.executed)
             x == Append(rw.executed, [action |-> a, status |-> st])
         IN  /\ n \in Nat
             /\ Len(x) = n + 1
             /\ \A k \in 1..n : x[k] = rw.executed[k]
             /\ x[n + 1].status = st
  BY DEF Rows, ExecutedActions
<1> QED BY <1>1 DEF WithOutcome, FailedRow, Rows

\* A failed action is not counted.
LEMMA FailureNotCounted ==
    ASSUME NEW rw \in Rows, NEW a \in PlannedActions
    PROVE  Successes(FailedRow(rw, a)) = Successes(rw)
<1> DEFINE n == Len(rw.executed)
           f == FailedRow(rw, a)
<1>1. n \in Nat
  BY RowFields
<1>2. /\ Len(f.executed) = n + 1 /\ f.executed[n + 1].status = "FAILED"
      /\ \A k \in 1..n : f.executed[k] = rw.executed[k]
  BY OutcomeFields
<1> HIDE DEF f
<1>3. \A k \in 1..(n + 1) : k \in 1..n \/ k = n + 1
  BY <1>1
<1>4. 1..n \subseteq 1..(n + 1)
  BY <1>1
<1>5. Successes(f) = Successes(rw)
  BY <1>2, <1>3, <1>4 DEF Successes
<1> QED BY <1>5 DEF f

LEMMA SuccessCounted ==
    ASSUME NEW rw \in Rows, NEW a \in PlannedActions, AllSucceeded(rw)
    PROVE  AllSucceeded(WithOutcome(rw, a, "SUCCESS"))
<1> DEFINE n == Len(rw.executed)
           w == WithOutcome(rw, a, "SUCCESS")
<1>1. n \in Nat
  BY RowFields
<1>2. /\ Len(w.executed) = n + 1 /\ w.executed[n + 1].status = "SUCCESS"
      /\ \A k \in 1..n : w.executed[k] = rw.executed[k]
  BY OutcomeFields
<1> HIDE DEF w
<1>3. \A k \in 1..(n + 1) : k \in 1..n \/ k = n + 1
  BY <1>1
<1>4. AllSucceeded(w)
  BY <1>2, <1>3 DEF AllSucceeded
<1> QED BY <1>4 DEF w

-----------------------------------------------------------------------------
(* What a step may do to a row, and that each is a step of the lifecycle.   *)

RowMove(old, new) ==
    /\ new.plan = old.plan /\ new.revisions = old.revisions
    /\ \/ /\ old.stage = "AWAITING_APPROVAL"
          /\ new.stage \in {"EXECUTING", "ESCALATED"}
          /\ Successes(new) = Successes(old)
       \/ /\ old.stage = "EXECUTING" /\ new.stage = "EXECUTING"
          /\ Cardinality(Successes(old)) < Len(old.plan)
          /\ Cardinality(Successes(new)) = Cardinality(Successes(old)) + 1
       \/ /\ old.stage = "EXECUTING" /\ new.stage = "FAILED"
          /\ Successes(new) = Successes(old)
       \/ /\ old.stage = "EXECUTING" /\ new.stage = "VERIFYING"
          /\ Cardinality(Successes(old)) = Len(old.plan)
          /\ Successes(new) = Successes(old)
       \/ /\ old.stage = "VERIFYING" /\ new.stage \in {"RESOLVED", "FAILED"}
          /\ Successes(new) = Successes(old)

Moved ==
    \/ UNCHANGED row
    \/ \E c \in Cases, new \in Rows : Save(c, new) /\ RowMove(row[c], new)

LEMMA MovedFollows ==
    ASSUME row \in [Cases -> Rows], Moved
    PROVE  [Lifecycle!Next]_(Lifecycle!lifecycle)
<1>1. CASE UNCHANGED row
  BY <1>1 DEF Lifecycle!lifecycle
<1>2. CASE \E c \in Cases, new \in Rows : Save(c, new) /\ RowMove(row[c], new)
  <2> DEFINE stage == [c \in Cases |-> row[c].stage]
             plan == [c \in Cases |-> row[c].plan]
             revisions == [c \in Cases |-> row[c].revisions]
             done == [c \in Cases |-> Cardinality(Successes(row[c]))]
  <2>1. PICK c \in Cases, new \in Rows : Save(c, new) /\ RowMove(row[c], new)
    BY <1>2
  <2>2. /\ row'[c] = new
        /\ \A x \in Cases : x # c => row'[x] = row[x]
    BY <2>1 DEF Save
  <2>3. /\ stage' = [stage EXCEPT ![c] = new.stage]
        /\ plan' = plan /\ revisions' = revisions
        /\ done' = [done EXCEPT ![c] = Cardinality(Successes(new))]
    BY <2>1, <2>2 DEF RowMove
  <2>4. ASSUME Successes(new) = Successes(row[c]) PROVE done' = done
    <3>1. \A x \in Cases : Successes(row'[x]) = Successes(row[x])
      BY <2>2, <2>4
    <3>2. done' = [x \in Cases |-> Cardinality(Successes(row'[x]))]
      BY DEF Successes
    <3> QED BY <3>1, <3>2
  <2>5. /\ stage[c] = row[c].stage /\ plan[c] = row[c].plan
        /\ done[c] = Cardinality(Successes(row[c]))
    OBVIOUS
  <2>6. stage' = [stage EXCEPT ![c] = new.stage]
    BY <2>3
  <2>7. CASE /\ row[c].stage = "AWAITING_APPROVAL"
             /\ new.stage \in {"EXECUTING", "ESCALATED"}
             /\ Successes(new) = Successes(row[c])
    <3>1. Lifecycle!Settle(c)
      BY <2>3, <2>4, <2>5, <2>7 DEF Lifecycle!Settle, Lifecycle!Enter
    <3> QED BY <3>1 DEF Lifecycle!Next
  <2>8. CASE /\ row[c].stage = "EXECUTING" /\ new.stage = "EXECUTING"
             /\ Cardinality(Successes(row[c])) < Len(row[c].plan)
             /\ Cardinality(Successes(new)) = Cardinality(Successes(row[c])) + 1
    <3>1. stage' = stage
      BY <2>3, <2>5, <2>8
    <3>2. Lifecycle!Perform(c)
      BY <2>3, <2>5, <2>8, <3>1 DEF Lifecycle!Perform
    <3> QED BY <3>2 DEF Lifecycle!Next
  <2>9. CASE /\ Successes(new) = Successes(row[c])
             /\ \/ row[c].stage = "EXECUTING" /\ new.stage = "FAILED"
                \/ /\ row[c].stage = "EXECUTING" /\ new.stage = "VERIFYING"
                   /\ Cardinality(Successes(row[c])) = Len(row[c].plan)
                \/ row[c].stage = "VERIFYING" /\ new.stage \in {"RESOLVED", "FAILED"}
    <3>1. Lifecycle!Conclude(c)
      BY <2>3, <2>4, <2>5, <2>9 DEF Lifecycle!Conclude, Lifecycle!Enter
    <3> QED BY <3>1 DEF Lifecycle!Next
  <2> QED BY <2>1, <2>7, <2>8, <2>9 DEF RowMove
<1> QED BY <1>1, <1>2 DEF Moved

-----------------------------------------------------------------------------
(* The pieces steps are made of.                                            *)

LEMMA AdmitAlone ==
    ASSUME SerialInv, NEW s \in Requests, Admit(s) PROVE Live = {}
<1> SUFFICES ASSUME Live # {} PROVE FALSE
  OBVIOUS
<1>1. PICK t \in Live : TRUE
  OBVIOUS
<1>2. Live = {t}
  BY <1>1 DEF SerialInv, OneAtATime
<1>3. Cardinality(Live) = 1
  BY <1>2, FS_Singleton
<1> QED BY <1>3, MaxLiveAssumption DEF Admit, SerialInv

\* The only coroutine there is moves on.
LEMMA ParkAlone ==
    ASSUME SerialInv, NEW s \in Requests, Live \subseteq {s},
           NEW r \in RequestRecords, Park(s, r), OnTrack(r, row'[r.case])
    PROVE  OneAtATime' /\ SlotsOnTrack'
<1>1. req' = [req EXCEPT ![s] = r] /\ req \in [Requests -> RequestRecords]
  BY DEF Park, SerialInv, RecordInv, TypeInv, TypeOK
<1>2. \A t \in Requests \ {s} : req'[t].pc = "idle"
  BY <1>1 DEF Live
<1>3. OneAtATime'
  BY <1>2 DEF OneAtATime, Live
<1>4. \A t \in Requests \ {s} : OnTrack(req'[t], row'[req'[t].case])
  BY <1>2 DEF OnTrack, Executing, Verifying
<1>5. req'[s] = r
  BY <1>1
<1> QED BY <1>3, <1>4, <1>5 DEF SlotsOnTrack

LEMMA FinishAlone ==
    ASSUME SerialInv, NEW s \in Requests, Live \subseteq {s}, Finish(s)
    PROVE  OneAtATime' /\ SlotsOnTrack'
<1>1. OnTrack(IdleRequest, row'[IdleRequest.case])
  BY DEF IdleRequest, OnTrack, Executing, Verifying
<1> HIDE DEF IdleRequest
<1> QED BY <1>1, IdleType, ParkAlone DEF Finish

LEMMA SaveOnTrack ==
    ASSUME SerialInv, NEW c \in Cases, NEW new, RowOnTrack(new), Save(c, new)
    PROVE  RowsOnTrack' /\ row'[c] = new
  BY DEF SerialInv, RecordInv, TypeInv, TypeOK, CaseRowTypeOK, Save, RowsOnTrack

\* A live coroutine is alone, and its facts are at hand.
LEMMA Alone ==
    ASSUME SerialInv, NEW s \in Requests, req[s].pc # "idle"
    PROVE  /\ Live \subseteq {s}
           /\ req[s] \in RequestRecords /\ req[s].case \in Cases
           /\ row[req[s].case] \in Rows
           /\ OnTrack(req[s], row[req[s].case])
           /\ CoroutineTrue(req[s], call[s])
  BY RequestType DEF SerialInv, OneAtATime, Live, SlotsOnTrack, RecordInv, SlotsTrue

\* The loop saves the row it was given, or finds that nothing was matched
\* before a hold removal and fails.
LEMMA LoopOnTrack ==
    ASSUME SerialInv, NEW s \in Requests, req[s].pc # "idle",
           NEW k \in Nat \ {0}, NEW rw \in Rows, LinesUp(rw), AllSucceeded(rw),
           rw.stage = "EXECUTING", rw.plan = req[s].plan,
           k <= Len(rw.executed) + 1, Loop(s, k, rw)
    PROVE  /\ OneAtATime' /\ RowsOnTrack' /\ SlotsOnTrack'
           /\ \/ Save(req[s].case, rw)
              \/ LET n == Len(rw.executed) + 1
                 IN  /\ n \in 1..Len(rw.plan) /\ rw.plan[n] \in PlannedActions
                     /\ EarlierMatches(rw.plan, n) = {} /\ IsHoldRemoval(rw.plan[n])
                     /\ Save(req[s].case, FailedRow(rw, rw.plan[n]))
<1> DEFINE n == Resume(k, rw)
           plan == req[s].plan
           c == req[s].case
<1>1. /\ Live \subseteq {s} /\ c \in Cases /\ plan \in Plans \cup {NoPlan}
      /\ TypeInv /\ plan = rw.plan
  BY Alone, RequestType DEF SerialInv, RecordInv
<1>2. /\ n = Len(rw.executed) + 1 /\ n \in Nat \ {0}
      /\ Len(rw.executed) \in Nat /\ Len(plan) \in Nat
  <2>1. Len(rw.executed) \in Nat /\ Len(plan) \in Nat
    BY RowFields, PlanType, <1>1
  <2> QED BY <2>1 DEF Resume
<1>3. n <= Len(plan) => n \in 1..Len(plan) /\ plan[n] \in PlannedActions
  BY <1>1, <1>2, PlanType
<1>4. Save(c, rw) => RowsOnTrack' /\ row'[c] = rw
  BY <1>1, SaveOnTrack DEF RowOnTrack
<1>5. \A pc \in {"write", "check", "close"}, j \in Nat :
         LET r == Suspend(s, pc, n, rw)
             p == [r EXCEPT !.probe = j]
         IN  /\ r \in RequestRecords /\ p \in RequestRecords
             /\ r.pc = pc /\ r.at = n /\ r.snap = rw
             /\ r.case = c /\ r.plan = plan
             /\ p.pc = pc /\ p.at = n /\ p.snap = rw /\ p.probe = j
             /\ p.case = c /\ p.plan = plan
  BY <1>1, <1>2, SuspendFields DEF Points
<1> HIDE DEF n
<1>6. CASE EndOfPlan(s, n, rw)
  <2> DEFINE r == Suspend(s, "close", n, rw)
  <2>1. r \in RequestRecords /\ r.pc = "close" /\ r.case = c
    BY <1>5
  <2>2. Park(s, r) /\ Save(c, rw) /\ n > Len(plan)
    BY <1>6 DEF EndOfPlan
  <2>3. Len(rw.executed) = Len(rw.plan)
    BY <1>1, <1>2, <2>2 DEF LinesUp
  <2> HIDE DEF r
  <2>4. OnTrack(r, row'[r.case])
    BY <1>4, <2>1, <2>2, <2>3 DEF OnTrack, Executing, Verifying
  <2> QED BY <1>1, <1>4, <2>1, <2>2, <2>4, ParkAlone
<1>7. CASE Validation(s, n, rw)
  BY <1>1, <1>4, <1>7, FinishAlone DEF Validation
<1>8. CASE CallMatch(s, n, rw)
  <2> DEFINE r == Suspend(s, "write", n, rw)
  <2>1. /\ r \in RequestRecords /\ r.pc = "write" /\ r.at = n /\ r.snap = rw
        /\ r.case = c /\ r.plan = plan
    BY <1>5
  <2>2. Park(s, r) /\ Save(c, rw) /\ ~IsHoldRemoval(plan[n])
    BY <1>8 DEF CallMatch
  <2> HIDE DEF r
  <2>3. OnTrack(r, row'[r.case])
    BY <1>4, <2>1, <2>2 DEF OnTrack, Executing, Verifying
  <2> QED BY <1>1, <1>4, <2>1, <2>2, <2>3, ParkAlone
<1>9. CASE ReadBack(s, n, rw)
  <2>1. n \in 1..Len(plan) /\ plan[n] \in PlannedActions /\ IsHoldRemoval(plan[n])
    BY <1>3, <1>9 DEF ReadBack
  <2>2. CASE /\ EarlierMatches(plan, n) = {}
             /\ Finish(s) /\ Save(c, FailedRow(rw, plan[n]))
    <3>1. FailedRow(rw, plan[n]).stage = "FAILED"
      BY <2>1, OutcomeFields
    <3>2. RowsOnTrack'
      BY <1>1, <2>2, <3>1, SaveOnTrack DEF RowOnTrack
    <3> QED BY <1>1, <1>2, <2>1, <2>2, <3>2, FinishAlone
  <2>3. CASE \E j \in EarlierMatches(plan, n) :
               /\ Park(s, [Suspend(s, "check", n, rw) EXCEPT !.probe = j])
               /\ Save(c, rw)
    <3>1. PICK j \in EarlierMatches(plan, n) :
               /\ Park(s, [Suspend(s, "check", n, rw) EXCEPT !.probe = j])
               /\ Save(c, rw)
      BY <2>3
    <3> DEFINE r == [Suspend(s, "check", n, rw) EXCEPT !.probe = j]
    <3>2. j \in Nat
      BY DEF EarlierMatches
    <3>3. /\ r \in RequestRecords /\ r.pc = "check" /\ r.at = n /\ r.snap = rw
          /\ r.case = c /\ r.plan = plan /\ r.probe = j
      BY <1>5, <3>2
    <3>4. Park(s, r)
      BY <3>1
    <3> HIDE DEF r
    <3>5. OnTrack(r, row'[r.case])
      BY <1>4, <3>1, <3>3 DEF OnTrack, Executing, Verifying
    <3> QED BY <1>1, <1>4, <3>1, <3>3, <3>4, <3>5, ParkAlone
  <2> QED BY <1>9, <2>2, <2>3 DEF ReadBack
<1> QED BY <1>6, <1>7, <1>8, <1>9
        DEF Loop, n, EndOfPlan, Validation, CallMatch

\* A failed action ends the execution.
LEMMA FailOnTrack ==
    ASSUME SerialInv, NEW s \in Requests, req[s].pc \in {"check", "write"},
           FailAction(s)
    PROVE  OneAtATime' /\ RowsOnTrack' /\ SlotsOnTrack' /\ Moved
<1> DEFINE r == req[s]
           a == Planned(s)
<1>1. /\ Live \subseteq {s} /\ r.case \in Cases /\ row[r.case] \in Rows
      /\ r.snap = row[r.case] /\ row[r.case].stage = "EXECUTING"
      /\ a \in PlannedActions
  BY Alone, RequestType DEF OnTrack, Executing, SerialInv, RecordInv
<1>2. /\ Save(r.case, FailedRow(row[r.case], a)) /\ Finish(s)
      /\ FailedRow(row[r.case], a) \in Rows
  BY <1>1, OutcomeType DEF FailAction
<1>3. RowMove(row[r.case], FailedRow(row[r.case], a))
  BY <1>1, OutcomeFields, FailureNotCounted DEF RowMove
<1>4. FailedRow(row[r.case], a).stage = "FAILED"
  BY <1>1, OutcomeFields
<1>5. RowsOnTrack'
  BY <1>1, <1>2, <1>4, SaveOnTrack DEF RowOnTrack
<1> QED BY <1>1, <1>2, <1>3, <1>5, FinishAlone DEF Moved

LEMMA NextCheckOnTrack ==
    ASSUME SerialInv, NEW s \in Requests, NEW k, NEW ok,
           req[s].pc \in Verifying, NextCheck(s, k, ok), UNCHANGED row
    PROVE  OneAtATime' /\ RowsOnTrack' /\ SlotsOnTrack'
<1> DEFINE q == req[s]
           r == [q EXCEPT !.checks = IF ok THEN "passed" ELSE "failed"]
<1>1. /\ Live \subseteq {s} /\ q \in RequestRecords /\ OnTrack(q, row[q.case])
      /\ row[q.case].stage = "VERIFYING" /\ q.snap = row[q.case]
  BY Alone DEF OnTrack, Verifying
<1>2. r \in RequestRecords /\ r.case = q.case /\ r.snap = q.snap
  BY <1>1 DEF RequestRecords
<1>3. PICK x \in RequestRecords :
         Park(s, x) /\ x.pc \in {"hold", "invoices"} /\ x.case = q.case /\ x.snap = q.snap
  <2>1. CASE Park(s, [r EXCEPT !.pc = "hold"])
    <3> DEFINE new == [r EXCEPT !.pc = "hold"]
    <3>1. /\ new \in RequestRecords /\ new.pc = "hold" /\ new.case = q.case
          /\ new.snap = q.snap
      <4> HIDE DEF r, q
      <4> QED BY <1>2 DEF RequestRecords, Points
    <3>2. Park(s, new)
      BY <2>1
    <3> HIDE DEF new
    <3> QED BY <3>1, <3>2
  <2>2. CASE \E j \in Matched(q.snap) : Park(s, [r EXCEPT !.pc = "invoices", !.at = j])
    <3>1. PICK j \in Matched(q.snap) : Park(s, [r EXCEPT !.pc = "invoices", !.at = j])
      BY <2>2
    <3> DEFINE new == [r EXCEPT !.pc = "invoices", !.at = j]
    <3>2. j \in Nat
      BY DEF Matched
    <3>3. /\ new \in RequestRecords /\ new.pc = "invoices" /\ new.case = q.case
          /\ new.snap = q.snap
      <4> HIDE DEF r, q
      <4> QED BY <1>2, <3>2 DEF RequestRecords, Points
    <3>4. Park(s, new)
      BY <3>1
    <3> HIDE DEF new
    <3> QED BY <3>3, <3>4
  <2> QED BY <2>1, <2>2 DEF NextCheck
<1>4. OnTrack(x, row'[x.case])
  BY <1>1, <1>3 DEF OnTrack, Executing
<1>5. OneAtATime' /\ SlotsOnTrack'
  BY <1>1, <1>3, <1>4, ParkAlone
<1>6. RowsOnTrack'
  BY DEF SerialInv, RowsOnTrack
<1> QED BY <1>5, <1>6

LEMMA VerdictOnTrack ==
    ASSUME SerialInv, NEW s \in Requests, NEW ok, req[s].pc \in Verifying,
           Verdict(s, ok)
    PROVE  OneAtATime' /\ RowsOnTrack' /\ SlotsOnTrack' /\ Moved
<1> DEFINE r == req[s]
           c == r.case
           new == [r.snap EXCEPT !.verified = IF ok THEN "PASSED" ELSE "FAILED",
                                 !.stage = IF ok THEN "RESOLVED" ELSE "FAILED"]
<1>1. /\ Live \subseteq {s} /\ c \in Cases /\ row[c] \in Rows
      /\ r.snap = row[c] /\ row[c].stage = "VERIFYING"
  BY Alone DEF OnTrack, Verifying
<1>2. /\ new \in Rows /\ new.stage \in {"RESOLVED", "FAILED"}
      /\ new.plan = row[c].plan /\ new.revisions = row[c].revisions
      /\ new.executed = row[c].executed
  BY <1>1 DEF Rows, Stages
<1>3. Save(c, new) /\ Finish(s)
  BY DEF Verdict
<1> HIDE DEF new
<1>4. RowMove(row[c], new)
  BY <1>1, <1>2 DEF RowMove, Successes
<1>5. RowsOnTrack'
  BY <1>1, <1>2, <1>3, SaveOnTrack DEF RowOnTrack
<1> QED BY <1>1, <1>2, <1>3, <1>4, <1>5, FinishAlone DEF Moved

-----------------------------------------------------------------------------
(* The invariant is inductive, and every step is a step of the lifecycle.   *)

LEMMA SerialInit ==
    ASSUME MaxLive <= 1, Init PROVE SerialInv
<1>1. \A s \in Requests : req[s].pc = "idle"
  BY DEF Init, IdleRequest
<1>2. \A c \in Cases : row[c].executed = << >>
  BY DEF Init, ReadyRows
<1> QED BY <1>1, <1>2, RecordInit DEF SerialInv, OneAtATime, Live, RowsOnTrack,
        RowOnTrack, AllSucceeded, SlotsOnTrack, OnTrack, Executing, Verifying

LEMMA SerialStep ==
    ASSUME SerialInv, Next
    PROVE  SerialInv' /\ Moved
<1>1. /\ RecordInv /\ RecordInv' /\ MaxLive <= 1 /\ TypeInv
      /\ OneAtATime /\ RowsOnTrack /\ SlotsOnTrack
      /\ row \in [Cases -> Rows]
  BY RecordStep DEF SerialInv, RecordInv, TypeInv, TypeOK, CaseRowTypeOK
<1> SUFFICES OneAtATime' /\ RowsOnTrack' /\ SlotsOnTrack' /\ Moved
  BY <1>1 DEF SerialInv
<1>2. UNCHANGED row => RowsOnTrack' /\ Moved
  BY <1>1 DEF RowsOnTrack, Moved
<1>3. ASSUME NEW c \in Cases, NEW d \in {"APPROVED", "REJECTED"}, Decide(c, d)
      PROVE  OneAtATime' /\ RowsOnTrack' /\ SlotsOnTrack' /\ Moved
  <2> DEFINE new == [row[c] EXCEPT !.approval.decision = d,
                                   !.stage = IF d = "APPROVED" THEN "EXECUTING"
                                             ELSE "ESCALATED"]
  <2>1. /\ Save(c, new) /\ UNCHANGED req /\ row[c].stage = "AWAITING_APPROVAL"
    BY <1>3 DEF Decide, Decidable
  <2>2. /\ new \in Rows /\ new.stage \in {"EXECUTING", "ESCALATED"}
        /\ new.plan = row[c].plan /\ new.revisions = row[c].revisions
        /\ new.executed = row[c].executed
    <3>1. row[c] \in Rows
      BY <1>1
    <3>2. new \in Rows
      BY <3>1 DEF Rows, Stages, Approvals
    <3> QED BY <3>1, <3>2 DEF Rows
  <2> HIDE DEF new
  <2>3. RowMove(row[c], new)
    BY <2>1, <2>2 DEF RowMove, Successes
  <2>4. RowOnTrack(new)
    BY <1>1, <2>1, <2>2 DEF RowsOnTrack, RowOnTrack, AllSucceeded
  <2>5. RowsOnTrack'
    BY <2>1, <2>4, SaveOnTrack
  <2>6. ASSUME NEW s \in Requests PROVE OnTrack(req[s], row'[req[s].case])
    <3>1. CASE req[s].pc \in Executing \cup Verifying
      <4>1. req[s].case # c
        BY <1>1, <2>1, <3>1 DEF SlotsOnTrack, OnTrack
      <4>2. req[s].case \in Cases
        BY <1>1, RequestType
      <4>3. row'[req[s].case] = row[req[s].case]
        BY <1>1, <2>1, <4>1, <4>2 DEF Save
      <4> QED BY <1>1, <4>3 DEF SlotsOnTrack
    <3> QED BY <3>1 DEF OnTrack, Executing, Verifying
  <2> QED BY <1>1, <2>1, <2>2, <2>3, <2>5, <2>6
          DEF OneAtATime, Live, SlotsOnTrack, Moved
<1>4. ASSUME NEW s \in Requests, NEW c \in Cases, StartExecute(s, c)
      PROVE  OneAtATime' /\ RowsOnTrack' /\ SlotsOnTrack' /\ Moved
  <2> DEFINE r == [IdleRequest EXCEPT !.pc = "open", !.case = c,
                                      !.plan = row[c].plan]
  <2>1. r \in RequestRecords /\ r.pc = "open" /\ r.case = c
    BY <1>1, IdleType DEF RequestRecords, Points, Rows
  <2>2. /\ Park(s, r) /\ UNCHANGED row /\ Live \subseteq {s}
        /\ row[c].stage = "EXECUTING"
    BY <1>4, AdmitAlone DEF StartExecute, Authorized
  <2> HIDE DEF r
  <2>3. OnTrack(r, row'[r.case])
    BY <2>1, <2>2 DEF OnTrack, Verifying
  <2> QED BY <1>2, <2>1, <2>2, <2>3, ParkAlone
<1>5. ASSUME NEW s \in Requests, NEW c \in Cases, StartVerify(s, c)
      PROVE  OneAtATime' /\ RowsOnTrack' /\ SlotsOnTrack' /\ Moved
  <2> DEFINE r == [IdleRequest EXCEPT !.pc = "crm", !.case = c, !.snap = row[c]]
  <2>1. r \in RequestRecords /\ r.pc = "crm" /\ r.case = c /\ r.snap = row[c]
    BY <1>1, IdleType DEF RequestRecords, Points
  <2>2. /\ Park(s, r) /\ UNCHANGED row /\ Live \subseteq {s}
        /\ row[c].stage = "VERIFYING"
    BY <1>5, AdmitAlone DEF StartVerify
  <2> HIDE DEF r
  <2>3. OnTrack(r, row'[r.case])
    BY <2>1, <2>2 DEF OnTrack, Executing
  <2> QED BY <1>2, <2>1, <2>2, <2>3, ParkAlone
<1>6. ASSUME NEW s \in Requests, SessionOpened(s)
      PROVE  OneAtATime' /\ RowsOnTrack' /\ SlotsOnTrack' /\ Moved
  <2> DEFINE c == req[s].case
             rw == row[c]
             n == Len(rw.executed) + 1
  <2>1. /\ req[s].pc # "idle" /\ c \in Cases /\ rw \in Rows
        /\ rw.stage = "EXECUTING" /\ AllSucceeded(rw) /\ rw.plan = req[s].plan
        /\ LinesUp(rw) /\ 1 <= n /\ 1 \in Nat \ {0}
    BY <1>1, <1>6, Alone, RowFields
    DEF SessionOpened, OnTrack, CoroutineTrue, Executing, RowsOnTrack, RowOnTrack,
        RecordInv, RowsTrue, RowTrue
  <2>2. Loop(s, 1, rw)
    BY <1>6 DEF SessionOpened
  <2>3. /\ OneAtATime' /\ RowsOnTrack' /\ SlotsOnTrack'
        /\ \/ Save(c, rw)
           \/ /\ rw.plan[n] \in PlannedActions
              /\ Save(c, FailedRow(rw, rw.plan[n]))
    BY <2>1, <2>2, LoopOnTrack
  <2>4. CASE Save(c, rw)
    BY <1>1, <2>3, <2>4 DEF Save, Moved
  <2>5. CASE /\ rw.plan[n] \in PlannedActions
             /\ Save(c, FailedRow(rw, rw.plan[n]))
    <3>1. RowMove(rw, FailedRow(rw, rw.plan[n]))
      BY <2>1, <2>5, OutcomeFields, FailureNotCounted DEF RowMove
    <3>2. FailedRow(rw, rw.plan[n]) \in Rows
      BY <2>1, <2>5, OutcomeType
    <3> QED BY <2>1, <2>3, <2>5, <3>1, <3>2 DEF Moved
  <2> QED BY <2>3, <2>4, <2>5
<1>7. ASSUME NEW s \in Requests, InvoiceReadBack(s)
      PROVE  OneAtATime' /\ RowsOnTrack' /\ SlotsOnTrack' /\ Moved
  <2> DEFINE r == req[s]
             rest == EarlierMatches(r.plan, r.probe)
  <2>1. /\ r \in RequestRecords /\ r.pc = "check" /\ Live \subseteq {s}
        /\ OnTrack(r, row[r.case]) /\ r.at \in Nat
    BY <1>1, <1>7, Alone, RequestType DEF InvoiceReadBack
  <2>2. CASE Park(s, [r EXCEPT !.pc = "write"]) /\ UNCHANGED row
    <3> DEFINE x == [r EXCEPT !.pc = "write"]
    <3>1. /\ x \in RequestRecords /\ x.pc = "write" /\ x.case = r.case
          /\ x.plan = r.plan /\ x.at = r.at /\ x.snap = r.snap
      BY <2>1 DEF RequestRecords, Points
    <3>2. Park(s, x)
      BY <2>2
    <3> HIDE DEF x
    <3>3. OnTrack(x, row'[x.case])
      BY <2>1, <2>2, <3>1 DEF OnTrack, Executing, Verifying
    <3> QED BY <1>2, <2>1, <2>2, <3>1, <3>2, <3>3, ParkAlone
  <2>3. CASE (\E j \in rest : Park(s, [r EXCEPT !.probe = j])) /\ UNCHANGED row
    <3>1. PICK j \in rest : Park(s, [r EXCEPT !.probe = j])
      BY <2>3
    <3> DEFINE x == [r EXCEPT !.probe = j]
    <3>2. j \in Nat /\ j \in EarlierMatches(r.plan, r.at)
      BY <2>1 DEF EarlierMatches, OnTrack
    <3>3. /\ x \in RequestRecords /\ x.pc = "check" /\ x.case = r.case
          /\ x.plan = r.plan /\ x.at = r.at /\ x.snap = r.snap /\ x.probe = j
      BY <2>1, <3>2, ProbeType
    <3>4. Park(s, x)
      BY <3>1
    <3> HIDE DEF x
    <3>5. OnTrack(x, row'[x.case])
      BY <2>1, <2>3, <3>2, <3>3 DEF OnTrack, Executing, Verifying
    <3> QED BY <1>2, <2>1, <2>3, <3>3, <3>4, <3>5, ParkAlone
  <2>4. CASE FailAction(s)
    BY <2>1, <2>4, FailOnTrack
  <2> QED BY <1>7, <2>2, <2>3, <2>4 DEF InvoiceReadBack
<1>8. ASSUME NEW s \in Requests, ActionSucceeded(s)
      PROVE  OneAtATime' /\ RowsOnTrack' /\ SlotsOnTrack' /\ Moved
  <2> DEFINE r == req[s]
             c == r.case
             a == Planned(s)
             old == row[c]
             rw == WithOutcome(old, a, "SUCCESS")
             n == Len(rw.executed) + 1
  <2>1. /\ r.pc = "write" /\ c \in Cases /\ old \in Rows /\ r.snap = old
        /\ old.stage = "EXECUTING" /\ AllSucceeded(old) /\ old.plan = r.plan
        /\ RowTrue(c, old) /\ a \in PlannedActions /\ r.at \in 1..Len(r.plan)
        /\ r.at = Len(old.executed) + 1 /\ a = old.plan[r.at]
        /\ IsHoldRemoval(a) => EarlierMatches(old.plan, r.at) # {}
        /\ r.plan \in Plans \cup {NoPlan}
    BY <1>1, <1>8, Alone, RequestType
    DEF ActionSucceeded, OnTrack, CoroutineTrue, Executing, RowsOnTrack,
        RowOnTrack, RecordInv, RowsTrue, Planned
  <2>2. Loop(s, r.at + 1, rw)
    BY <1>8, <2>1 DEF ActionSucceeded
  <2>3. /\ Len(old.executed) \in Nat /\ Len(old.plan) \in Nat /\ r.at + 1 \in Nat \ {0}
        /\ Len(old.executed) + 1 <= Len(old.plan)
    BY <2>1, RowFields
  <2>4. /\ rw \in Rows /\ rw.stage = "EXECUTING" /\ rw.plan = old.plan
        /\ rw.revisions = old.revisions /\ AllSucceeded(rw)
        /\ Len(rw.executed) = Len(old.executed) + 1
    <3> HIDE DEF old, a
    <3>1. old \in Rows /\ a \in PlannedActions /\ "SUCCESS" \in {"SUCCESS", "FAILED"}
      BY <2>1
    <3>2. rw \in Rows
      BY <3>1, OutcomeType
    <3>3. /\ rw.stage = old.stage /\ rw.plan = old.plan /\ rw.revisions = old.revisions
          /\ Len(rw.executed) = Len(old.executed) + 1
      BY <3>1, OutcomeFields
    <3>4. AllSucceeded(rw)
      BY <2>1, <3>1, SuccessCounted
    <3> QED BY <2>1, <3>2, <3>3, <3>4
  <2>5. LinesUp(rw)
    <3>1. /\ RowTrue(c, old) /\ a = old.plan[Len(old.executed) + 1]
          /\ Reached(c, a)
      <4>1. CoroutineTrue(r, call[s]) /\ CallTrue(call[s]) /\ call[s].pc = "ok"
        BY <1>1, <1>8 DEF RecordInv, SlotsTrue, ActionSucceeded
      <4>2. Reached(c, r.plan[r.at])
        BY <2>1, <4>1 DEF CoroutineTrue, CallTrue
      <4> QED BY <2>1, <4>2
    <3> HIDE DEF old, a
    <3>2. RowTrue(c, rw)
      BY <2>1, <2>3, <3>1, OutcomeTrue
    <3> QED BY <3>2 DEF RowTrue
  <2>6. RowMove(old, rw)
    <3>1. Cardinality(Successes(old)) = Len(old.executed)
      BY <2>1, AllCounted
    <3> HIDE DEF rw
    <3>2. Cardinality(Successes(rw)) = Len(old.executed) + 1
      BY <2>4, AllCounted
    <3> HIDE DEF old
    <3>3. Len(old.executed) < Len(old.plan)
      BY <2>3
    <3> QED BY <2>1, <2>4, <3>1, <3>2, <3>3 DEF RowMove
  <2>7. ASSUME n \in 1..Len(rw.plan), IsHoldRemoval(rw.plan[n])
        PROVE  EarlierMatches(rw.plan, n) # {}
    <3>1. /\ n = r.at + 1 /\ rw.plan = old.plan
          /\ r.at \in Nat /\ r.at \in 1..(n - 1)
      <4> HIDE DEF rw
      <4> QED BY <2>1, <2>3, <2>4
    <3>2. CASE IsHoldRemoval(a)
      <4>1. PICK j \in EarlierMatches(old.plan, r.at) : TRUE
        BY <2>1, <3>2
      <4>2. j \in 1..(r.at - 1) /\ old.plan[j].tool = "match_payment"
        BY <4>1 DEF EarlierMatches
      <4> HIDE DEF n, old, rw, a, r
      <4>3. j \in 1..(n - 1)
        BY <3>1, <4>2
      <4> QED BY <3>1, <4>2, <4>3 DEF EarlierMatches
    <3>3. CASE ~IsHoldRemoval(a)
      <4>1. a.tool = "match_payment"
        BY <2>1, <3>3 DEF IsHoldRemoval, PlannedActions, MatchActions, HoldActions
      <4> QED BY <2>1, <3>1, <4>1 DEF EarlierMatches
    <3> QED BY <3>2, <3>3
  <2>8. /\ req[s].pc # "idle" /\ rw.plan = req[s].plan
        /\ r.at + 1 <= Len(rw.executed) + 1
    <3> HIDE DEF rw
    <3> QED BY <2>1, <2>3, <2>4
  <2> HIDE DEF rw
  <2>9. /\ OneAtATime' /\ RowsOnTrack' /\ SlotsOnTrack'
        /\ Save(c, rw)
    BY <2>2, <2>3, <2>4, <2>5, <2>7, <2>8, LoopOnTrack
  <2> QED BY <2>1, <2>4, <2>6, <2>9 DEF Moved
<1>9. ASSUME NEW s \in Requests, ActionFailed(s)
      PROVE  OneAtATime' /\ RowsOnTrack' /\ SlotsOnTrack' /\ Moved
  BY <1>9, FailOnTrack DEF ActionFailed
<1>10. ASSUME NEW s \in Requests, SessionClosed(s)
       PROVE  OneAtATime' /\ RowsOnTrack' /\ SlotsOnTrack' /\ Moved
  <2> DEFINE c == req[s].case
             new == [row[c] EXCEPT !.stage = "VERIFYING"]
  <2>1. /\ Save(c, new) /\ Finish(s) /\ Live \subseteq {s} /\ c \in Cases
        /\ row[c] \in Rows /\ row[c].stage = "EXECUTING"
        /\ Len(row[c].executed) = Len(row[c].plan) /\ AllSucceeded(row[c])
    BY <1>1, <1>10, Alone
    DEF SessionClosed, OnTrack, Executing, RowsOnTrack, RowOnTrack
  <2>2. /\ new \in Rows /\ new.stage = "VERIFYING" /\ new.plan = row[c].plan
        /\ new.revisions = row[c].revisions /\ new.executed = row[c].executed
    BY <2>1 DEF Rows, Stages
  <2> HIDE DEF new
  <2>3. Cardinality(Successes(row[c])) = Len(row[c].plan)
    BY <2>1, AllCounted
  <2>4. RowMove(row[c], new)
    BY <2>1, <2>2, <2>3 DEF RowMove, Successes
  <2>5. RowsOnTrack'
    BY <2>1, <2>2, SaveOnTrack DEF RowOnTrack
  <2> QED BY <2>1, <2>2, <2>4, <2>5, FinishAlone DEF Moved
<1>11. ASSUME NEW s \in Requests, CheckCrm(s)
       PROVE  OneAtATime' /\ RowsOnTrack' /\ SlotsOnTrack' /\ Moved
  <2>1. /\ req[s].pc \in Verifying
        /\ \/ (\E ok : NextCheck(s, 0, ok)) /\ UNCHANGED row
           \/ Verdict(s, FALSE)
    BY <1>11 DEF CheckCrm, Verifying
  <2> QED BY <1>2, <2>1, NextCheckOnTrack, VerdictOnTrack
<1>12. ASSUME NEW s \in Requests, CheckInvoice(s)
       PROVE  OneAtATime' /\ RowsOnTrack' /\ SlotsOnTrack' /\ Moved
  <2>1. /\ req[s].pc \in Verifying /\ UNCHANGED row
        /\ \E ok : NextCheck(s, req[s].at, ok)
    BY <1>12 DEF CheckInvoice, Verifying
  <2> QED BY <1>2, <2>1, NextCheckOnTrack
<1>13. ASSUME NEW s \in Requests, CheckHold(s)
       PROVE  OneAtATime' /\ RowsOnTrack' /\ SlotsOnTrack' /\ Moved
  <2>1. req[s].pc \in Verifying /\ \E ok : Verdict(s, ok)
    BY <1>13 DEF CheckHold, Verifying
  <2> QED BY <2>1, VerdictOnTrack
<1>14. ASSUME NEW s \in Requests, Abort(s)
       PROVE  OneAtATime' /\ RowsOnTrack' /\ SlotsOnTrack' /\ Moved
  <2>1. Live \subseteq {s}
    BY <1>14, Alone DEF Abort
  <2> QED BY <1>2, <1>14, <2>1, FinishAlone DEF Abort
<1>15. ASSUME Crash PROVE OneAtATime' /\ RowsOnTrack' /\ SlotsOnTrack' /\ Moved
  <2>1. \A t \in Requests : req'[t].pc = "idle"
    BY <1>15 DEF Crash, IdleRequest
  <2> QED BY <1>2, <1>15, <2>1
          DEF Crash, OneAtATime, Live, SlotsOnTrack, OnTrack, Executing, Verifying
<1>16. ASSUME NEW s \in Requests, McpStep(s)
       PROVE  OneAtATime' /\ RowsOnTrack' /\ SlotsOnTrack' /\ Moved
  BY <1>1, <1>2, <1>16 DEF McpStep, OneAtATime, Live, SlotsOnTrack
<1> QED BY <1>3, <1>4, <1>5, <1>6, <1>7, <1>8, <1>9, <1>10, <1>11, <1>12, <1>13,
        <1>14, <1>15, <1>16 DEF Next, Operator, HandlerStep

LEMMA SerialStutter ==
    ASSUME SerialInv, UNCHANGED vars PROVE SerialInv' /\ Moved
  BY RecordStutter DEF SerialInv, vars, OneAtATime, Live, RowsOnTrack,
     SlotsOnTrack, Moved

LEMMA SerialInvariant == MaxLive <= 1 /\ Spec => []SerialInv
<1>1. MaxLive <= 1 /\ Init => SerialInv
  BY SerialInit
<1>2. SerialInv /\ [Next]_vars => SerialInv'
  BY SerialStep, SerialStutter
<1> QED BY <1>1, <1>2, PTL DEF Spec

-----------------------------------------------------------------------------
(* The two promises that need one request at a time.                        *)

LEMMA InitFollows ==
    ASSUME Init PROVE Lifecycle!Init
<1>1. row \in [Cases -> ReadyRows]
  BY DEF Init
<1>2. ASSUME NEW c \in Cases
      PROVE  /\ row[c].stage = "AWAITING_APPROVAL" /\ row[c].plan \in Plans
             /\ row[c].plan # << >> /\ row[c].revisions = 0
             /\ row[c].executed = << >>
  <2>1. /\ row[c].stage = "AWAITING_APPROVAL" /\ row[c].plan \in Plans
        /\ row[c].revisions = 0 /\ row[c].executed = << >>
    BY <1>1 DEF ReadyRows
  <2>2. row[c].plan # << >>
    <3>1. Len(row[c].plan) \in 1..4
      BY <2>1, DomainAssumption
    <3>2. Len(<< >>) \notin 1..4
      OBVIOUS
    <3> HIDE DEF NoPlan
    <3> QED BY <3>1, <3>2, Zenon
  <2> QED BY <2>1, <2>2
<1>3. ASSUME NEW c \in Cases PROVE Cardinality(Successes(row[c])) = 0
  <2>1. Successes(row[c]) = {}
    BY <1>2 DEF Successes
  <2> QED BY <2>1, FS_EmptySet
<1> QED BY <1>2, <1>3 DEF Lifecycle!Init

\* With one request at a time, and whatever crashes and failed calls, a case
\* lives as CaseLifecycle says: its plan is approved before anything is done,
\* carried out action by action and as a whole before it is verified, and a
\* closed case stays closed.
THEOREM SerialFollowsLifecycle == MaxLive <= 1 /\ Spec => FollowsLifecycle
<1>1. Init => Lifecycle!Init
  BY InitFollows
<1>2. SerialInv /\ [Next]_vars => [Lifecycle!Next]_(Lifecycle!lifecycle)
  <2> SUFFICES ASSUME SerialInv, [Next]_vars
               PROVE  [Lifecycle!Next]_(Lifecycle!lifecycle)
    OBVIOUS
  <2>1. row \in [Cases -> Rows]
    BY DEF SerialInv, RecordInv, TypeInv, TypeOK, CaseRowTypeOK
  <2>2. Moved
    BY SerialStep, SerialStutter
  <2> QED BY <2>1, <2>2, MovedFollows
<1> QED BY <1>1, <1>2, SerialInvariant, PTL
        DEF Spec, FollowsLifecycle, Lifecycle!Spec

WriteStarted(s) ==
    /\ call'[s] # call[s] /\ call'[s].pc = "billing"
    /\ call'[s].action \in PlannedActions

\* Only an executor that goes on to wait for it calls a write tool.
LEMMA WriteStartedByExecutor ==
    ASSUME SerialInv, Next, NEW s \in Requests, WriteStarted(s)
    PROVE  req'[s].pc = "write"
<1>1. /\ TypeInv /\ call \in [Requests -> Calls]
      /\ req \in [Requests -> RequestRecords]
  BY DEF SerialInv, RecordInv, TypeInv, TypeOK, McpTypeOK
<1>2. call' # call
  BY DEF WriteStarted
<1>3. \A i : GetInvoice(i) \notin PlannedActions
  BY DEF GetInvoice, PlannedActions, MatchActions, HoldActions
<1>4. ASSUME NEW t \in Requests, NEW a, Issue(t, a)
      PROVE  t = s /\ a \in PlannedActions
  <2>1. /\ call'[t].action = a
        /\ \A x \in Requests \ {t} : call'[x] = call[x]
    BY <1>1, <1>4 DEF Issue
  <2> QED BY <2>1 DEF WriteStarted
<1>5. ASSUME NEW t \in Requests, NEW k \in Nat \ {0}, NEW rw \in Rows, Loop(t, k, rw)
      PROVE  req'[s].pc = "write"
  <2> DEFINE n == Resume(k, rw)
  <2>1. n \in Nat
    BY RowFields DEF Resume
  <2> HIDE DEF n
  <2>2. CallMatch(t, n, rw) \/ ReadBack(t, n, rw)
    BY <1>2, <1>5 DEF Loop, EndOfPlan, Validation, n
  <2>3. CASE CallMatch(t, n, rw)
    <3> DEFINE r == Suspend(t, "write", n, rw)
    <3>1. r.pc = "write"
      BY <1>1, <2>1, SuspendType DEF Points
    <3>2. Park(t, r) /\ t = s
      BY <1>4, <2>3 DEF CallMatch
    <3> HIDE DEF r
    <3> QED BY <1>1, <3>1, <3>2 DEF Park
  <2>4. CASE ReadBack(t, n, rw)
    BY <1>2, <1>3, <1>4, <2>4 DEF ReadBack
  <2> QED BY <2>2, <2>3, <2>4
<1>6. ASSUME NEW t \in Requests, SessionOpened(t) PROVE req'[s].pc = "write"
  <2>1. row[req[t].case] \in Rows /\ 1 \in Nat \ {0}
    BY <1>1, RequestType
  <2> QED BY <1>5, <1>6, <2>1 DEF SessionOpened
<1>7. ASSUME NEW t \in Requests, ActionSucceeded(t) PROVE req'[s].pc = "write"
  <2>1. /\ WithOutcome(req[t].snap, Planned(t), "SUCCESS") \in Rows
        /\ req[t].at + 1 \in Nat \ {0}
    BY <1>1, <1>7, RequestType, OutcomeType DEF ActionSucceeded
  <2> QED BY <1>5, <1>7, <2>1 DEF ActionSucceeded
<1>8. ASSUME NEW t \in Requests, InvoiceReadBack(t) PROVE req'[s].pc = "write"
  <2>1. Park(t, [req[t] EXCEPT !.pc = "write"]) /\ t = s
    BY <1>2, <1>3, <1>4, <1>8 DEF InvoiceReadBack
  <2> QED BY <1>1, <2>1 DEF Park, RequestRecords
<1>9. ASSUME NEW t \in Requests, McpStep(t) PROVE FALSE
  <2>1. PICK reply \in {"crm"} \cup Replies : Reply(t, reply)
    BY <1>9, ToolEffects DEF ToolMoves, SerialInv
  <2>2. \A x \in Requests : call'[x] = call[x] \/ call'[x].pc = reply
    BY <1>1, <2>1 DEF Reply, Calls
  <2> QED BY <2>2 DEF WriteStarted, Replies
<1> QED BY <1>2, <1>6, <1>7, <1>8, <1>9
        DEF Next, Operator, HandlerStep, Decide, StartExecute, StartVerify,
            ActionFailed, SessionClosed, CheckCrm, CheckInvoice, CheckHold, Abort,
            Crash, mcpVars

\* With one request at a time no write tool is called for a case that is not
\* EXECUTING: not after it failed, was escalated or went on to verification.
THEOREM SerialWritesWhileExecuting ==
    MaxLive <= 1 /\ Spec => WritesStartWhileExecuting
<1> DEFINE Allowed == \A s \in Requests :
              WriteStarted(s) => row'[call'[s].case].stage = "EXECUTING"
<1>1. SerialInv /\ [Next]_vars => [Allowed]_vars
  <2> SUFFICES ASSUME SerialInv, Next, NEW s \in Requests, WriteStarted(s)
               PROVE  row'[call'[s].case].stage = "EXECUTING"
    BY DEF Allowed
  <2>1. req'[s].pc = "write"
    BY WriteStartedByExecutor
  <2>2. SerialInv'
    BY SerialStep
  <2>3. call'[s].case = req'[s].case
    BY <2>1, <2>2 DEF SerialInv, RecordInv, SlotsTrue, CoroutineTrue
  <2>4. row'[req'[s].case].stage = "EXECUTING"
    BY <2>1, <2>2 DEF SerialInv, SlotsOnTrack, OnTrack, Executing
  <2> QED BY <2>3, <2>4
<1>2. [Allowed]_vars => [\A s \in Requests :
          call'[s] # call[s] /\ call'[s].pc = "billing"
            /\ call'[s].action \in PlannedActions
          => row'[call'[s].case].stage = "EXECUTING"]_vars
  BY DEF Allowed, WriteStarted
<1> QED BY <1>1, <1>2, SerialInvariant, PTL DEF Spec, WritesStartWhileExecuting

\* With one request at a time RESOLVED, ESCALATED and FAILED are final: it
\* takes two overlapping requests to bring a closed case back.
THEOREM SerialTerminalIsFinal == MaxLive <= 1 /\ Spec => TerminalStagesAreFinal
<1> DEFINE Final == \A c \in Cases : row[c].stage \in TerminalStages =>
                                        row'[c].stage = row[c].stage
<1>1. SerialInv /\ [Next]_vars => [Final]_vars
  <2> SUFFICES ASSUME SerialInv, Next, NEW c \in Cases,
                      row[c].stage \in TerminalStages
               PROVE  row'[c].stage = row[c].stage
    BY DEF Final
  <2>1. Moved /\ row \in [Cases -> Rows]
    BY SerialStep DEF SerialInv, RecordInv, TypeInv, TypeOK, CaseRowTypeOK
  <2>2. CASE \E x \in Cases, new \in Rows : Save(x, new) /\ RowMove(row[x], new)
    <3>1. PICK x \in Cases, new \in Rows : Save(x, new) /\ RowMove(row[x], new)
      BY <2>2
    <3>2. row[x].stage \notin TerminalStages
      BY <3>1 DEF RowMove, TerminalStages
    <3> QED BY <2>1, <3>1, <3>2 DEF Save
  <2> QED BY <2>1, <2>2 DEF Moved
<1> QED BY <1>1, SerialInvariant, PTL DEF Spec, TerminalStagesAreFinal
=============================================================================
