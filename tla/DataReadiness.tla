---------------------------- MODULE DataReadiness ----------------------------
(***************************************************************************)
(* The deterministic data readiness report with which an investigation     *)
(* begins (backend/app/agents/data_readiness.py).  It reads the CRM and    *)
(* billing one request after the other, while tool calls of other cases    *)
(* write to both: the environment, tool calls of McpTools.                 *)
(***************************************************************************)
EXTENDS McpTools
LOCAL INSTANCE SequencesExt

CONSTANT References     \* the invoice references in a case's description

ASSUME ReferencesAssumption == References \in [Cases -> Seq(Invoices)]

WarningCodes ==
    {"CRM_LOOKUP_FAILED", "MISSING_BILLING_ID", "NO_INVOICE_REFERENCE",
     "INVOICE_LOOKUP_FAILED", "CUSTOMER_INVOICE_MISMATCH",
     "CRM_BILLING_STATUS_CONFLICT", "BILLING_HOLD_LOOKUP_FAILED"}

Reports == [pc : {"idle", "customer", "account", "invoices", "hold", "end", "done"},
            case : Cases, todo : Seq(Invoices),
            account : AccountStatuses \cup {"None"},
            hold : HoldStates \cup {"None"},
            invoices : SUBSET (Invoices \X InvoiceStatuses),
            warnings : SUBSET WarningCodes]

VARIABLES
    report,     \* the assessment under way, or the last one
    moments     \* history: account and hold together, since it was started

vars == <<world, mcpVars, report, moments>>

TypeOK ==
    /\ EnterpriseTypeOK
    /\ McpTypeOK
    /\ report \in Reports
    /\ moments \subseteq AccountStatuses \X BOOLEAN

\* extract_invoice_ids: canonical ids, each once, in the order they occur.
ExtractInvoiceIds(references) ==
    FoldLeft(LAMBDA ids, i : IF Contains(ids, i) THEN ids ELSE Append(ids, i),
             << >>, references)

NewReport(c) ==
    LET ids == ExtractInvoiceIds(References[c])
    IN  [pc |-> "customer", case |-> c,
         todo |-> SubSeq(ids, 1, IF Len(ids) < 3 THEN Len(ids) ELSE 3),
         account |-> "None", hold |-> "None", invoices |-> {},
         warnings |-> IF ids = << >> THEN {"NO_INVOICE_REFERENCE"} ELSE {}]

Init ==
    /\ EnterpriseInit
    /\ McpInit
    /\ report = [NewReport(SomeCase) EXCEPT !.pc = "idle"]
    /\ moments = {}

TheCustomer == CustomerOf[report.case]

Warn(r, code) == [r EXCEPT !.warnings = @ \cup {code}]

\* Mutant: the hold is read before the account.
HoldFirst == [customer |-> "hold", hold |-> "invoices", invoices |-> "account",
              account |-> "end"]

\* What is asked for after what.
Order == [customer |-> "account", account |-> "invoices", invoices |-> "hold",
          hold |-> "end"]

\* One request of the assessment: an answer, or an IntegrationError.
Ask(step, answered, failed) ==
    /\ report.pc = step
    /\ \E works \in BOOLEAN :
          Exchange(works) /\ report' = (IF works THEN answered ELSE failed)
    /\ UNCHANGED <<world, call, applied>>

StartAssessment ==
    /\ report.pc \in {"idle", "done"}
    /\ \E c \in Cases : report' = NewReport(c)
    /\ UNCHANGED <<world, mcpVars>>

ReadCustomer ==
    Ask("customer", [report EXCEPT !.pc = Order.customer],
        Warn([report EXCEPT !.pc = "done"], "CRM_LOOKUP_FAILED"))

\* A customer without a billing id ends the assessment after this request.
ReadAccount ==
    LET after == IF TheCustomer \in Mapped
                   THEN [report EXCEPT !.pc = Order.account]
                   ELSE Warn([report EXCEPT !.pc = "done"], "MISSING_BILLING_ID")
    IN  Ask("account", [after EXCEPT !.account = account[TheCustomer]],
            Warn(after, "CRM_LOOKUP_FAILED"))

\* Billing refuses an invoice of another customer with CUST_MISMATCH, one that
\* it does not know with INV_404.
RefusedAs(i) == IF InvoiceOwner[i] \in Customers THEN "CUSTOMER_INVOICE_MISMATCH"
                                                ELSE "INVOICE_LOOKUP_FAILED"

\* Mutant: an invoice that billing refuses is asked for again.
ReadInvoiceUntilFound ==
    LET i    == Head(report.todo)
        next == [report EXCEPT !.todo = Tail(@)]
    IN  /\ report.todo # << >>
        /\ Ask("invoices",
               IF InvoiceFound(TheCustomer, i)
                 THEN [next EXCEPT !.invoices = @ \cup {<<i, invoice[i]>>}]
                 ELSE Warn(report, RefusedAs(i)),
               Warn(next, "INVOICE_LOOKUP_FAILED"))

ReadInvoice ==
    LET i    == Head(report.todo)
        next == [report EXCEPT !.todo = Tail(@)]
    IN  /\ report.todo # << >>
        /\ Ask("invoices",
               IF InvoiceFound(TheCustomer, i)
                 THEN [next EXCEPT !.invoices = @ \cup {<<i, invoice[i]>>}]
                 ELSE Warn(next, RefusedAs(i)),
               Warn(next, "INVOICE_LOOKUP_FAILED"))

InvoicesRead ==
    /\ report.pc = "invoices" /\ report.todo = << >>
    /\ report' = [report EXCEPT !.pc = Order.invoices]
    /\ UNCHANGED <<world, mcpVars>>

\* get_account_hold_optional: no row, a row, or an error.
ReadHold ==
    Ask("hold", [report EXCEPT !.pc = Order.hold, !.hold = hold[TheCustomer]],
        Warn([report EXCEPT !.pc = Order.hold], "BILLING_HOLD_LOOKUP_FAILED"))

\* Mutant: a hold that is there is a hold that is active.
AnyHoldConflicts ==
    \/ report.account = "ACTIVE" /\ report.hold \in {"ACTIVE", "INACTIVE"}
    \/ report.account = "SUSPENDED" /\ report.hold \notin {"ACTIVE", "INACTIVE"}

\* _append_status_warnings: a hold that could not be read is no active hold.
StatusConflict ==
    \/ report.account = "ACTIVE" /\ report.hold = "ACTIVE"
    \/ report.account = "SUSPENDED" /\ report.hold # "ACTIVE"

ReportReady ==
    /\ report.pc = "end"
    /\ LET ready == [report EXCEPT !.pc = "done"]
       IN  report' = IF StatusConflict THEN Warn(ready, "CRM_BILLING_STATUS_CONFLICT")
                                       ELSE ready
    /\ UNCHANGED <<world, mcpVars>>

AssessmentStep ==
    \/ ReadCustomer \/ ReadAccount \/ ReadInvoice \/ InvoicesRead \/ ReadHold
    \/ ReportReady

\* Another case's executor has a tool called; the MCP server works on it.
OtherCase(s) ==
    \/ /\ ~InProgress(s)
       /\ \E c \in Cases, plan \in Plans : \E k \in 1..Len(plan) :
             call' = [call EXCEPT ![s] = [pc |-> "billing", case |-> c,
                                          action |-> plan[k]]]
       /\ UNCHANGED <<world, applied, faults, report>>
    \/ ToolStep(s) /\ UNCHANGED report

\* What was true of account and hold together while the report was made.
Moment == <<account[TheCustomer], hold[TheCustomer] = "ACTIVE">>

Observe ==
    moments' = IF report'.pc \in {"idle", "done"} THEN moments
               ELSE (IF report.pc \in {"idle", "done"} THEN {} ELSE moments)
                      \cup {Moment'}

Next ==
    /\ StartAssessment \/ AssessmentStep \/ \E s \in Requests : OtherCase(s)
    /\ Observe

Spec == Init /\ [][Next]_vars

\* A request is answered or times out (httpx, 10 s).
FairSpec == Spec /\ WF_vars(AssessmentStep /\ Observe)
=============================================================================
