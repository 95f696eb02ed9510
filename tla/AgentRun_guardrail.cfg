\* Seven model calls, up to two tool calls in a response, a budget of five.
SPECIFICATION FairSpec
CONSTANTS
    getInvoice = getInvoice
    getHold = getHold
    matchPayment = matchPayment
    none = none
    ReadCalls = {getInvoice, getHold}
    OtherCalls = {matchPayment}
    NoCall = none
    MaxToolCalls = 5
    MaxLlmCalls = 7
    MaxBatch = 2
INVARIANTS
    TypeOK
    BudgetKept
    LoopsAreBroken
PROPERTIES
    RunEnds
CHECK_DEADLOCK FALSE
