\* Assessments while two executors repair the same customer, two failures.
SPECIFICATION FairSpec
CONSTANTS
    acme = acme
    lone = lone
    stranger = stranger
    i1 = i1
    i2 = i2
    i3 = i3
    p1 = p1
    none = none
    case1 = case1
    case2 = case2
    r1 = r1
    r2 = r2
    Customers <- MCCustomers
    Mapped = {acme}
    Invoices <- MCInvoices
    Payments = {p1}
    NoInvoice = none
    NoPayment = none
    InvoiceOwner <- MCOwnerOfInvoice
    PaymentOwner <- MCOwnerOfPayment
    InvoiceAmount <- MCAmountOfInvoice
    PaymentAmount <- MCAmountOfPayment
    Seeds <- MCSeeds
    Requests = {r1, r2}
    Cases = {case1, case2}
    CustomerOf <- MCCustomerOf
    References <- MCReferences
    Plans <- MCPlans
    MaxFaults = 2
INVARIANTS
    SnapshotWasReal
    ConflictsAreReported
PROPERTY
    AssessmentEnds
CHECK_DEADLOCK FALSE
