------------------------------- MODULE Domain -------------------------------
(***************************************************************************)
(* The vocabulary of ResolveOps: customers and their cases, invoices and   *)
(* payments, and the actions a resolution plan is made of.                 *)
(***************************************************************************)
EXTENDS Naturals, Sequences

CONSTANTS
    Customers,      \* canonical CRM customer ids
    Cases,
    CustomerOf,     \* CaseState.customer_id
    Invoices,
    Payments,
    NoInvoice,      \* None: no invoice, no payment
    NoPayment,
    Plans           \* the resolution plans a planner may produce

\* A planned action.  Its customer is always the case's: to_resolution_plan
\* puts it in.  evidence says whether the references it cites are the case's,
\* which planning does not guarantee.
MatchActions == [tool : {"match_payment"}, payment : Payments,
                 invoice : Invoices, evidence : {"known", "unknown"}]
HoldActions  == [tool : {"remove_account_hold"}, payment : {NoPayment},
                 invoice : {NoInvoice}, evidence : {"known", "unknown"}]
PlannedActions == MatchActions \cup HoldActions

IsHoldRemoval(a) == a.tool = "remove_account_hold"

\* ToolDefinition.requires_approval of the two WRITE tools, and the plan's.
ToolRequiresApproval == [match_payment |-> TRUE, remove_account_hold |-> TRUE]

RequiresApproval(plan) ==
    \E k \in 1..Len(plan) : ToolRequiresApproval[plan[k].tool]

NoPlan == << >>     \* resolution_plan is None

ASSUME DomainAssumption ==
    /\ Cases # {}
    /\ CustomerOf \in [Cases -> Customers]
    /\ NoInvoice \notin Invoices
    /\ NoPayment \notin Payments
    /\ \A plan \in Plans : plan \in Seq(PlannedActions) /\ Len(plan) \in 1..4

SomeCase == CHOOSE c \in Cases : TRUE
=============================================================================
