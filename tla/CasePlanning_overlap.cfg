\* Two runs at once on one case, one revision: do they end?
SPECIFICATION FairSpec
CONSTANTS
    acme = acme
    i1 = i1
    p1 = p1
    none = none
    case1 = case1
    r1 = r1
    r2 = r2
    Customers = {acme}
    Invoices = {i1}
    Payments = {p1}
    NoInvoice = none
    NoPayment = none
    CustomerOf <- MCCustomerOf
    Plans <- MCPlans
    Cases = {case1}
    Runs = {r1, r2}
    MaxRevisions = 1
INVARIANTS
    TypeOK
    WaitingPlanWasJudged
PROPERTIES
    RunsFinish
CHECK_DEADLOCK FALSE
