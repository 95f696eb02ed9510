\* Two planning runs and one request at a time on one case, one failure.
SPECIFICATION Spec
CONSTANTS
    acme = acme
    i1 = i1
    i2 = i2
    p1 = p1
    p2 = p2
    none = none
    case1 = case1
    r1 = r1
    r2 = r2
    s1 = s1
    s2 = s2
    Customers = {acme}
    Mapped = {acme}
    Invoices = {i1, i2}
    Payments = {p1, p2}
    NoInvoice = none
    NoPayment = none
    InvoiceOwner <- MCOwnerOfInvoice
    PaymentOwner <- MCOwnerOfPayment
    InvoiceAmount <- MCAmountOfInvoice
    PaymentAmount <- MCAmountOfPayment
    Seeds <- MCSeeds
    Cases = {case1}
    CustomerOf <- MCCustomerOf
    Plans <- MCPlans
    Runs = {r1, r2}
    MaxRevisions = 0
    Requests = {s1}
    MaxFaults = 1
    MaxLive = 1
    MaxStarts = 3
SYMMETRY MCSymmetry
INVARIANTS
    TypeOK
    OnlyApprovedEffects
    ResolvedMeansRestored
    NoDecisionBeforeItsTime
    DecidableWhenReviewed
CHECK_DEADLOCK FALSE
