----------------------------- MODULE Enterprise -----------------------------
(***************************************************************************)
(* The two enterprise systems that ResolveOps repairs: the legacy billing  *)
(* service (simulator/billing) and the CRM (simulator/crm).  Each HTTP     *)
(* handler is one atomic step of its service.  Identifiers are canonical;  *)
(* an identifier that billing does not know is an invoice or a payment     *)
(* whose owner is not a customer: INV_404, PAY_404 and CUST_MISMATCH all   *)
(* refuse and change nothing (only DataReadiness tells them apart).        *)
(***************************************************************************)
EXTENDS Domain

CONSTANTS
    Mapped,         \* the customers with a billing_customer_id
    InvoiceOwner,   \* CUST_NO of an invoice, as the customer it maps to
    PaymentOwner,
    InvoiceAmount,
    PaymentAmount,
    Seeds           \* the data sets the services may start from (data.py)

InvoiceStatuses == {"OPEN", "OVERDUE", "PAID", "CANCELLED"}
AccountStatuses == {"ACTIVE", "SUSPENDED", "CLOSED"}
HoldStates      == {"NONE", "ACTIVE", "INACTIVE"}

Worlds == [invoice : [Invoices -> InvoiceStatuses],
           settles : [Payments -> Invoices \cup {NoInvoice}],
           hold    : [Customers -> HoldStates],
           account : [Customers -> AccountStatuses]]

ASSUME EnterpriseAssumption ==
    /\ Mapped \subseteq Customers
    /\ Seeds \subseteq Worlds

VARIABLES
    invoice,    \* INVOICES[..].STAT_CD
    settles,    \* PAYMENTS[..].MATCHED_INV_NO
    hold,       \* ACCOUNT_HOLDS[..].ACTIVE_FLG, "NONE" when there is no row
    account     \* ACCOUNTS[..].status

world == <<invoice, settles, hold, account>>

EnterpriseTypeOK ==
    /\ invoice \in [Invoices -> InvoiceStatuses]
    /\ settles \in [Payments -> Invoices \cup {NoInvoice}]
    /\ hold \in [Customers -> HoldStates]
    /\ account \in [Customers -> AccountStatuses]

EnterpriseInit ==
    \E seed \in Seeds :
        /\ invoice = seed.invoice
        /\ settles = seed.settles
        /\ hold = seed.hold
        /\ account = seed.account

\* POST /GetInvoice answers with the invoice: it exists and is the customer's.
InvoiceFound(cust, i) == cust \in Mapped /\ InvoiceOwner[i] = cust

\* POST /MatchPayment accepts the pair.
Matchable(p, i) ==
    /\ PaymentOwner[p] = InvoiceOwner[i]
    /\ PaymentAmount[p] = InvoiceAmount[i]

BillingMatchPayment(p, i) ==
    /\ Matchable(p, i)
    /\ settles' = [settles EXCEPT ![p] = i]
    /\ invoice' = [invoice EXCEPT ![i] = "PAID"]
    /\ UNCHANGED <<hold, account>>

\* Mutant: the handler stores the flag of its wire format.
RawAccountHoldFlag(cust) ==
    /\ hold[cust] = "ACTIVE"
    /\ hold' = [hold EXCEPT ![cust] = "N"]
    /\ UNCHANGED <<invoice, settles, account>>

BillingRemoveAccountHold(cust) ==
    /\ hold[cust] = "ACTIVE"
    /\ hold' = [hold EXCEPT ![cust] = "INACTIVE"]
    /\ UNCHANGED <<invoice, settles, account>>

CrmRestoreAccount(cust) ==
    /\ account' = [account EXCEPT ![cust] = "ACTIVE"]
    /\ UNCHANGED <<invoice, settles, hold>>
=============================================================================
