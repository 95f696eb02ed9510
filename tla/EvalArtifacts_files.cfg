\* Two runs, the comparison and one load of the dashboard; one edit or kill.
SPECIFICATION Spec
CONSTANTS
    v1 = v1
    v2 = v2
    e1 = e1
    e2 = e2
    x1 = x1
    x2 = x2
    Versions <- MCVersions
    CasesOf <- MCCasesOf
    Commands = {x1, x2}
    MaxEdits = 1
    MaxRuns = 2
    MaxLoads = 1
SYMMETRY MCSymmetry
INVARIANTS
    ReportsAreFull
    ComparisonIsPaired
    FallbackGivesWay
CHECK_DEADLOCK FALSE
