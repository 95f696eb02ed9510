-------------------------- MODULE MCCaseExecution ---------------------------
(* Small instances of CaseExecution: one customer with two invoices. *)
EXTENDS CaseExecutionProps, TLC

CONSTANTS acme, i1, i2, p1, p2, none, case1, r1, r2

MCCustomers == {acme}
MCInvoices  == {i1, i2}
MCPayments  == {p1, p2}
MCOwnerOfInvoice == [i \in MCInvoices |-> acme]
MCOwnerOfPayment == [p \in MCPayments |-> acme]
MCAmountOfInvoice == (i1 :> 1) @@ (i2 :> 2)
MCAmountOfPayment == (p1 :> 1) @@ (p2 :> 2)
MCCustomerOf == [c \in {case1} |-> acme]

World(statuses, theHold, theAccount) ==
    [invoice |-> statuses, settles |-> [p \in MCPayments |-> none],
     hold |-> [c \in MCCustomers |-> theHold],
     account |-> [c \in MCCustomers |-> theAccount]]

Overdue   == World([i \in MCInvoices |-> "OVERDUE"], "ACTIVE", "SUSPENDED")
StaleHold == World((i1 :> "PAID") @@ (i2 :> "OVERDUE"), "ACTIVE", "SUSPENDED")
NoHold    == World([i \in MCInvoices |-> "OVERDUE"], "NONE", "SUSPENDED")
MCSeeds == {Overdue, StaleHold, NoHold}
MCOverdue == {Overdue}

M(p, i) == [tool |-> "match_payment", payment |-> p, invoice |-> i,
            evidence |-> "known"]
H == [tool |-> "remove_account_hold", payment |-> none, invoice |-> none,
      evidence |-> "known"]
Unfounded(a) == [a EXCEPT !.evidence = "unknown"]

MCPlans == {<<M(p1, i1), H>>,               \* the usual remediation
            <<M(p1, i1), M(p2, i2), H>>,    \* two invoices
            <<M(p1, i1), M(p1, i1), H>>,    \* the same match twice
            <<M(p1, i2), H>>,               \* refused: the amounts differ
            <<M(p1, i1), Unfounded(H)>>,    \* unknown evidence
            <<M(p1, i1)>>, <<H>>}           \* partial, and hold only
MCUsualPlan == {<<M(p1, i1), H>>}
=============================================================================
