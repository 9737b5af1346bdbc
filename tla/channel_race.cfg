CONSTANTS
    LastID = 4
    Judgements <- MCPassable
    MaxJobs = 2
    Executors = {e1, e2}
    MaxFaults = 0
    Limit = 2
    BatchSize = 1
    Horizon = 3
    Bootstrap = 1
    Overlap = TRUE
    NoJob = NoJob
SPECIFICATION Spec
SYMMETRY Symmetry
INVARIANT NothingSkipped
