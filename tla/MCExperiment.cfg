CONSTANTS
    Loaders = 2
    Workloads = {"w", "a", "r"}
    Codes = {"orig", "rtop"}
    ClientCounts = {1, 2}
    MaxChecks = 2
    MaxRuns = 2
SPECIFICATION Spec
INVARIANTS
    MeasuredOnLoaded
    AcceptedComplete
    OwnLatencies
PROPERTIES
    RunsEnd
CHECK_DEADLOCK FALSE
