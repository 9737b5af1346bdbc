CONSTANTS
    LastID = 3
    Judgements <- MCJudgements
    MaxJobs = 2
    Executors = {e1}
    MaxFaults = 1
    Limit = 2
    BatchSize = 1
    Horizon = 3
    Bootstrap = 1
    Overlap = FALSE
    NoJob = NoJob
SPECIFICATION FairSpec
INVARIANT NothingSkipped
PROPERTIES ImplementsLog EveryTaskArrives
