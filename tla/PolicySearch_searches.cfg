\* One retriever, its searches, two indexing commands, three embeddings, one fault.
SPECIFICATION Spec
CONSTANTS
    policy = policy
    contractA = contractA
    contractB = contractB
    acme = acme
    globex = globex
    everyone = everyone
    x1 = x1
    x2 = x2
    r1 = r1
    r2 = r2
    s1 = s1
    s2 = s2
    Documents = {policy, contractA, contractB}
    CustomerOfDocument <- MCCustomerOfDocument
    Everyone = everyone
    Customers = {acme, globex}
    Embeddings <- MCEmbeddings
    Commands = {x1, x2}
    Retrievers = {r1}
    Searches = {s1}
    TopK = 1
    MaxFaults = 1
INVARIANTS
    AnswersAreFull
    AnswersAgreeInDimensions
PROPERTIES
    ReadOnceIsEnough
CHECK_DEADLOCK FALSE
