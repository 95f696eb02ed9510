\* Two runs after each other, each with any variant, of all cases or of two.
SPECIFICATION FairSpec
CONSTANTS
    Dataset <- MCDataset
    Tools <- MCTools
    FinalStatesOf <- MCFinalStatesOf
    Selections = {0, 2, 3}
    Concurrency = 2
    MaxRuns = 2
INVARIANTS
    ResultsInOrder
    SameDenominators
    ComparisonAddsUp
PROPERTY
    RunsEnd
CHECK_DEADLOCK FALSE
