CONSTANTS
    w1 = w1
    w2 = w2
    chan = chan
    host1 = host1
    host2 = host2
    NoOwner = NoOwner
    NoJob = NoJob
    NoTarget = NoTarget
    Workers = {w1, w2}
    Jobs = {1, 2}
    Targets = {chan}
    Owners = {host1, host2}
    OwnerOf <- MCOwnerOf
    TriggerOf <- MCTriggerOf
    FaultKinds = {"crash", "shutdown", "store", "hang"}
    MaxFaults = 1
    Second = 2
    Lease = 11
    Latency = 1
    MaxMissed = 1
SPECIFICATION TimedSpec
INVARIANT LeaseCoversMisses
PROPERTY ImplementsQueue
CHECK_DEADLOCK FALSE
