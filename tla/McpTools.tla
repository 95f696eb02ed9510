------------------------------ MODULE McpTools ------------------------------
(***************************************************************************)
(* The MCP server (backend/app/mcp/server.py) as seen by the executor: the *)
(* three tools it calls.  A tool call is a task of the MCP server process; *)
(* it outlives the backend coroutine that started it.  Every request slot  *)
(* owns at most one task at a time.  The lookups a tool makes before it    *)
(* writes read only data that never changes (billing ids, invoice owners), *)
(* so each is folded into the step of the request that follows it.         *)
(***************************************************************************)
EXTENDS Enterprise

CONSTANTS
    Requests,       \* the slots for HTTP requests in flight at the backend
    MaxFaults       \* bound: failed network calls and backend crashes

ASSUME McpAssumption == MaxFaults \in Nat

Reads == [tool : {"get_invoice"}, payment : {NoPayment},
          invoice : Invoices, evidence : {"known"}]

GetInvoice(i) == [tool |-> "get_invoice", payment |-> NoPayment,
                  invoice |-> i, evidence |-> "known"]

NoAction == [tool |-> "none", payment |-> NoPayment, invoice |-> NoInvoice,
             evidence |-> "known"]

Replies == {"ok", "paid", "unpaid", "error"}

Calls == [pc : {"idle", "billing", "crm"} \cup Replies, case : Cases,
          action : PlannedActions \cup Reads \cup {NoAction}]

VARIABLES
    call,       \* the tool call of each request slot
    applied,    \* history: which case's action changed which system
    faults      \* failures so far

mcpVars == <<call, applied, faults>>

Effects == [case : Cases, action : PlannedActions,
            system : {"billing", "crm"}]

McpTypeOK ==
    /\ call \in [Requests -> Calls]
    /\ applied \subseteq Effects
    /\ faults \in 0..MaxFaults

McpInit ==
    /\ call = [s \in Requests |-> [pc |-> "idle", case |-> SomeCase,
                                   action |-> NoAction]]
    /\ applied = {}
    /\ faults = 0

InProgress(s) == call[s].pc \in {"billing", "crm"}

\* One network exchange: it works, or it fails and uses up a fault.  When it
\* fails, the request was lost or, the write already made, the answer was.
Exchange(works) ==
    \/ works /\ faults' = faults
    \/ ~works /\ faults < MaxFaults /\ faults' = faults + 1

Reply(s, r) == call' = [call EXCEPT ![s].pc = r]

Record(s, system) ==
    applied' = applied \cup {[case |-> call[s].case,
                              action |-> call[s].action,
                              system |-> system]}

Refused(s) == Reply(s, "error") /\ UNCHANGED <<world, applied>>

\* match_payment: billing id, preflight GetInvoice, MatchPayment.
MatchPayment(s) ==
    LET a == call[s].action
        accepted == /\ InvoiceFound(CustomerOf[call[s].case], a.invoice)
                    /\ Matchable(a.payment, a.invoice)
    IN  /\ call[s].pc = "billing" /\ a.tool = "match_payment"
        /\ \E works \in BOOLEAN :
              /\ Exchange(works)
              /\ \/ /\ accepted
                    /\ BillingMatchPayment(a.payment, a.invoice)
                    /\ Record(s, "billing")
                    /\ Reply(s, IF works THEN "ok" ELSE "error")
                 \/ ~(works /\ accepted) /\ Refused(s)

\* Mutant: a customer without an active hold is taken for success.
MissingHoldTolerated(s) ==
    LET cust == CustomerOf[call[s].case]
        accepted == cust \in Mapped /\ hold[cust] = "ACTIVE"
    IN  /\ call[s].pc = "billing"
        /\ call[s].action.tool = "remove_account_hold"
        /\ \E works \in BOOLEAN :
              /\ Exchange(works)
              /\ \/ /\ accepted
                    /\ BillingRemoveAccountHold(cust)
                    /\ Record(s, "billing")
                    /\ Reply(s, IF works THEN "crm" ELSE "error")
                 \/ works /\ ~accepted /\ Reply(s, "crm") /\ UNCHANGED <<world, applied>>
                 \/ ~works /\ Refused(s)

\* remove_account_hold, first half: the billing hold.
RemoveAccountHold(s) ==
    LET cust == CustomerOf[call[s].case]
        accepted == cust \in Mapped /\ hold[cust] = "ACTIVE"
    IN  /\ call[s].pc = "billing"
        /\ call[s].action.tool = "remove_account_hold"
        /\ \E works \in BOOLEAN :
              /\ Exchange(works)
              /\ \/ /\ accepted
                    /\ BillingRemoveAccountHold(cust)
                    /\ Record(s, "billing")
                    /\ Reply(s, IF works THEN "crm" ELSE "error")
                 \/ ~(works /\ accepted) /\ Refused(s)

\* remove_account_hold, second half: the CRM account.
RestoreAccount(s) ==
    /\ call[s].pc = "crm"
    /\ \E works \in BOOLEAN :
          /\ Exchange(works)
          /\ \/ /\ CrmRestoreAccount(CustomerOf[call[s].case])
                /\ Record(s, "crm")
                /\ Reply(s, IF works THEN "ok" ELSE "error")
             \/ ~works /\ Refused(s)

\* Mutant: an invoice that is found counts as paid.
FoundIsPaid(s) ==
    /\ call[s].pc = "billing" /\ call[s].action.tool = "get_invoice"
    /\ \E works \in BOOLEAN :
          /\ Exchange(works)
          /\ Reply(s, IF works THEN "paid" ELSE "error")
    /\ UNCHANGED <<world, applied>>

\* get_invoice: what the executor reads back is whether it is PAID.
LookupInvoice(s) ==
    LET i == call[s].action.invoice
    IN  /\ call[s].pc = "billing" /\ call[s].action.tool = "get_invoice"
        /\ \E works \in BOOLEAN :
              /\ Exchange(works)
              /\ Reply(s, IF ~works \/ ~InvoiceFound(CustomerOf[call[s].case], i)
                            THEN "error"
                          ELSE IF invoice[i] = "PAID" THEN "paid" ELSE "unpaid")
        /\ UNCHANGED <<world, applied>>

ToolStep(s) ==
    \/ MatchPayment(s)
    \/ RemoveAccountHold(s)
    \/ RestoreAccount(s)
    \/ LookupInvoice(s)
=============================================================================
