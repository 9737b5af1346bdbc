CONSTANTS
    w1 = w1
    w2 = w2
    chan = chan
    url = url
    host1 = host1
    host2 = host2
    NoOwner = NoOwner
    NoJob = NoJob
    NoTarget = NoTarget
    Workers = {w1, w2}
    Jobs = {1, 2}
    Targets = {chan}
    Owners = {host1, host2}
    OwnerOf <- MCOwnerOf
    TriggerOf <- MCTriggerOf
    FaultKinds = {"crash", "store", "lapse", "hang"}
    MaxFaults = 2
SPECIFICATION FairSpec
INVARIANTS LeasedIffRunning AckedIsTerminal
PROPERTY EveryJobEnds
CHECK_DEADLOCK FALSE
