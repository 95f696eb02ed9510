-------------------------- MODULE MCDataReadiness ---------------------------
(* Small instances of DataReadiness: a customer with a billing id and one
   without, an invoice of each, and one that billing does not know. *)
EXTENDS DataReadinessProps, TLC

CONSTANTS acme, lone, stranger, i1, i2, i3, p1, none, case1, case2, r1, r2

MCCustomers == {acme, lone}
MCInvoices  == {i1, i2, i3}
MCOwnerOfInvoice == (i1 :> acme) @@ (i2 :> lone) @@ (i3 :> stranger)
MCOwnerOfPayment == p1 :> acme
MCAmountOfInvoice == [i \in MCInvoices |-> 1]
MCAmountOfPayment == p1 :> 1
MCCustomerOf == (case1 :> acme) @@ (case2 :> lone)
MCReferences == (case1 :> <<i1, i3, i1, i2>>) @@ (case2 :> << >>)

World(theHold, theAccount) ==
    [invoice |-> [i \in MCInvoices |-> "OVERDUE"], settles |-> p1 :> none,
     hold |-> (acme :> theHold) @@ (lone :> "NONE"),
     account |-> (acme :> theAccount) @@ (lone :> "ACTIVE")]

MCSeeds == {World("ACTIVE", "SUSPENDED"), World("NONE", "SUSPENDED"),
            World("NONE", "ACTIVE")}

MCPlans == {<<[tool |-> "match_payment", payment |-> p1, invoice |-> i1,
               evidence |-> "known"],
              [tool |-> "remove_account_hold", payment |-> none, invoice |-> none,
               evidence |-> "known"]>>}
=============================================================================
