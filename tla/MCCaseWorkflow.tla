--------------------------- MODULE MCCaseWorkflow ---------------------------
(* Small instances of CaseWorkflow: one case, two plans to choose from. *)
EXTENDS CaseWorkflowProps, TLC

CONSTANTS acme, i1, i2, p1, p2, none, case1, r1, r2, s1, s2

MCCustomerOf == [c \in Cases |-> acme]
MCOwnerOfInvoice == [i \in Invoices |-> acme]
MCOwnerOfPayment == [p \in Payments |-> acme]
MCAmountOfInvoice == [i \in Invoices |-> 1]
MCAmountOfPayment == [p \in Payments |-> 1]

MCSeeds == {[invoice |-> [i \in Invoices |-> "OVERDUE"],
             settles |-> [p \in Payments |-> none],
             hold    |-> [c \in Customers |-> "ACTIVE"],
             account |-> [c \in Customers |-> "SUSPENDED"]]}

Match(p, i) == [tool |-> "match_payment", payment |-> p, invoice |-> i,
                evidence |-> "known"]
RemoveHold == [tool |-> "remove_account_hold", payment |-> none,
               invoice |-> none, evidence |-> "known"]

MCPlans == {<<Match(p1, i1), RemoveHold>>, <<Match(p2, i2), RemoveHold>>}

\* The runs are alike, so are the request slots, and so are the two plans once
\* their invoices and their payments are exchanged together.
MCExchange == (i1 :> i2) @@ (i2 :> i1) @@ (p1 :> p2) @@ (p2 :> p1)
MCSlots == {f @@ g : f \in Permutations({r1, r2}), g \in Permutations({s1, s2})}
MCSymmetry == MCSlots \cup {f @@ MCExchange : f \in MCSlots}
=============================================================================
