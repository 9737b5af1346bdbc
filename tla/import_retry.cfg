CONSTANTS
    Count = 4
    BatchSize = 2
    MaxRetries = 2
    Invalid = {2}
    MaxRuns = 3
SPECIFICATION FairSpec
INVARIANTS TypeOK SuccessIsStored DoneIsDecided ImportedOnce
PROPERTY RunEnds
CHECK_DEADLOCK FALSE
