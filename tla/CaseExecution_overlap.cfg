\* One case, two requests at once, up to two failures.
SPECIFICATION Spec
CONSTANTS
    acme = acme
    i1 = i1
    i2 = i2
    p1 = p1
    p2 = p2
    none = none
    case1 = case1
    r1 = r1
    r2 = r2
    Customers <- MCCustomers
    Mapped <- MCCustomers
    Invoices <- MCInvoices
    Payments <- MCPayments
    NoInvoice = none
    NoPayment = none
    InvoiceOwner <- MCOwnerOfInvoice
    PaymentOwner <- MCOwnerOfPayment
    InvoiceAmount <- MCAmountOfInvoice
    PaymentAmount <- MCAmountOfPayment
    Seeds <- MCSeeds
    Requests = {r1, r2}
    Cases = {case1}
    CustomerOf <- MCCustomerOf
    Plans <- MCPlans
    MaxFaults = 2
    MaxLive = 2
INVARIANTS
    TypeOK
    OnlyApprovedEffects
    HoldLiftedOnlyAfterPayment
    RestoredOnlyAfterHoldRemoval
    ResolvedMeansRestored
    SuccessWasApplied
    ExecutedFollowsPlan
CHECK_DEADLOCK FALSE
